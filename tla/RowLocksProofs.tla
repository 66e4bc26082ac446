--------------------------- MODULE RowLocksProofs ---------------------------
(***************************************************************************)
(* For any requests of any number of sessions, over any orders and SKUs: a *)
(* deadlock needs two requests that cross on a catalog row.                *)
(***************************************************************************)
EXTENDS RowLocks, WellFoundedInduction, TLAPS

\* The place of lock l of job j follows from its row, but for SKU rows taken out of order.
PlaceFollowsRow(j, l) ==
  /\ l.at \in 0 .. AfterSkus + 5
  /\ l.row[1] = "submission" => l.at = 0
  /\ l.row[1] = "order" => l.at = 1
  /\ l.row[1] = "declaration" => l.at = 2
  /\ l.row[1] = "stock" => l.at = 3 * l.row[2]
  /\ l.row[1] = "sku" /\ ~OutOfOrder(j) => l.at = 3 * l.row[2] + 1
  /\ l.row[1] = "product" => \E s \in Skus : l.row[2] = ProductOf[s] /\ l.at = 3 * s + 2
  /\ l.row[1] = "reservations" => l.at = AfterSkus
  /\ l.row[1] = "hold" => l.at = AfterSkus + 1
  /\ l.row[1] = "receipts" => l.at = AfterSkus + 2
  /\ l.row[1] = "key" => l.at = AfterSkus + 3
  /\ l.row[1] = "reference" => l.at = AfterSkus + 4
  /\ l.row[1] = "binding" => l.at = AfterSkus + 5
  /\ l.row[1] \in {"submission", "order", "declaration", "stock", "sku", "product",
                   "reservations", "hold", "receipts", "key", "reference", "binding"}

\* Every statement takes its lock at the place of its row.
LEMMA PlaceOfLock ==
  ASSUME NEW j \in Jobs, NEW l \in Locks(j)
  PROVE  PlaceFollowsRow(j, l)
<1> USE JobAssumption DEF Skus, Lock, AfterSkus
<1>1. AfterSkus \in Nat /\ j.skus \subseteq 1 .. SkuCount
  OBVIOUS
<1>2. ASSUME NEW o, NEW m, l = OrderLock(o, m) PROVE PlaceFollowsRow(j, l)
  BY <1>1, <1>2 DEF PlaceFollowsRow, OrderLock
<1>3. ASSUME NEW d, l = DeclarationLock(d) PROVE PlaceFollowsRow(j, l)
  BY <1>1, <1>3 DEF PlaceFollowsRow, DeclarationLock
<1>4. ASSUME NEW s \in j.skus, l = StockLock(s) PROVE PlaceFollowsRow(j, l)
  BY <1>1, <1>4 DEF PlaceFollowsRow, StockLock
<1>5. ASSUME NEW s \in Skus, NEW p \in 1 .. 2 * SkuCount, NEW m, l = SkuLock(s, p, m),
             ~OutOfOrder(j) => p = s
      PROVE  PlaceFollowsRow(j, l)
  BY <1>1, <1>5 DEF PlaceFollowsRow, SkuLock
<1>6. ASSUME NEW s \in j.skus, NEW m, l = ProductLock(s, m) PROVE PlaceFollowsRow(j, l)
  BY <1>1, <1>6 DEF PlaceFollowsRow, ProductLock
<1>7. ASSUME NEW o, l = ReservationLock(o) \/ l = HoldLock(o) PROVE PlaceFollowsRow(j, l)
  BY <1>1, <1>7 DEF PlaceFollowsRow, ReservationLock, HoldLock
<1>8. ASSUME NEW k, l = KeyLock(k) \/ l = ReferenceLock(k) \/ l = BindingLock(k)
      PROVE PlaceFollowsRow(j, l)
  BY <1>1, <1>8 DEF PlaceFollowsRow, KeyLock, ReferenceLock, BindingLock
<1>9. ASSUME l = ReceiptLock \/ l = Lock(<<"submission", j.key>>, 0, "update")
      PROVE PlaceFollowsRow(j, l)
  BY <1>1, <1>9 DEF PlaceFollowsRow, ReceiptLock
<1>21. ASSUME NEW s \in j.skus
       PROVE  s \in Skus /\ s \in 1 .. 2 * SkuCount /\ j.cart[s] \in 1 .. 2 * SkuCount
  BY <1>1 DEF Positions
<1>22. ASSUME NEW r \in Skus PROVE SkuCount + r \in 1 .. 2 * SkuCount
  OBVIOUS
<1> HIDE JobAssumption DEF Skus, Lock, AfterSkus
<1>23. ASSUME NEW s \in j.skus, NEW m, l = SkuLock(s, s, m) PROVE PlaceFollowsRow(j, l)
  BY <1>5, <1>21, <1>23
<1>10. ASSUME l \in StockLocks(j) PROVE PlaceFollowsRow(j, l)
  BY <1>4, <1>23, <1>6, <1>10 DEF StockLocks
<1>11. ASSUME l \in PayLocks(j) PROVE PlaceFollowsRow(j, l)
  BY <1>2, <1>7, <1>8, <1>11 DEF PayLocks
<1>12. CASE j.kind = "create"
  <2>1. PICK s \in j.skus : l = SkuLock(s, j.cart[s], "share")
    BY <1>12 DEF Locks, CreateLocks
  <2>2. ~OutOfOrder(j) => j.cart[s] = s
    BY <1>12 DEF OutOfOrder
  <2> QED BY <2>1, <2>2, <1>5, <1>21
<1>13. CASE j.kind = "command"
  BY <1>2, <1>7, <1>8, <1>10, <1>13 DEF Locks, CommandLocks, CreditLocks
<1>14. CASE j.kind = "pay"
  BY <1>11, <1>14 DEF Locks
<1>15. CASE j.kind = "declare"
  BY <1>2, <1>9, <1>15 DEF Locks, DeclareLocks
<1>16. CASE j.kind = "confirmDeclaration"
  BY <1>3, <1>9, <1>11, <1>16 DEF Locks, ConfirmDeclarationLocks
<1>17. CASE j.kind = "reject"
  BY <1>3, <1>17 DEF Locks
<1>18. CASE j.kind = "adjust"
  BY <1>4, <1>23, <1>18 DEF Locks, AdjustLocks
<1>19. CASE j.kind = "updateSku"
  <2>1. PICK s \in j.skus :
          \/ l = SkuLock(s, s, "update") \/ l = ProductLock(s, "nokey")
          \/ \E r \in Siblings(s) : l = SkuLock(r, SkuCount + r, "nokey")
    BY <1>19 DEF Locks, UpdateSkuLocks
  <2>2. ASSUME NEW r \in Siblings(s), l = SkuLock(r, SkuCount + r, "nokey")
        PROVE  PlaceFollowsRow(j, l)
    <3>1. r \in Skus /\ OutOfOrder(j)
      BY <1>19 DEF Siblings, OutOfOrder
    <3> QED BY <2>2, <3>1, <1>5, <1>22
  <2> QED BY <2>1, <2>2, <1>6, <1>23
<1>20. CASE j.kind \notin {"create", "command", "pay", "declare", "confirmDeclaration",
                           "reject", "adjust", "updateSku"}
  BY <1>8, <1>20 DEF Locks
<1> QED BY <1>12, <1>13, <1>14, <1>15, <1>16, <1>17, <1>18, <1>19, <1>20

\* So two requests take the same row at the same place, unless it is a catalog row and
\* there is a reason why they do not.
LEMMA OnePlace ==
  ASSUME NEW i \in Jobs, NEW j \in Jobs, NEW l \in Locks(i), NEW m \in Locks(j),
         l.row = m.row
  PROVE  \/ l.at = m.at
         \/ l.row[1] = "product" /\ HasTwoUnits(l.row[2])
         \/ l.row[1] = "sku" /\ (OutOfOrder(i) \/ OutOfOrder(j))
<1>1. PlaceFollowsRow(i, l) /\ PlaceFollowsRow(j, m)
  BY PlaceOfLock
<1>2. CASE l.row[1] = "product"
  <2>1. PICK r \in Skus : l.row[2] = ProductOf[r] /\ l.at = 3 * r + 2
    BY <1>1, <1>2 DEF PlaceFollowsRow
  <2>2. PICK s \in Skus : l.row[2] = ProductOf[s] /\ m.at = 3 * s + 2
    BY <1>1, <1>2 DEF PlaceFollowsRow
  <2>3. r # s => HasTwoUnits(l.row[2])
    BY <2>1, <2>2 DEF HasTwoUnits
  <2> QED BY <1>2, <2>1, <2>2, <2>3
<1>3. CASE l.row[1] # "product"
  BY <1>1, <1>3 DEF PlaceFollowsRow
<1> QED BY <1>2, <1>3

-----------------------------------------------------------------------------

\* A running session runs a job, and at[t] is a place.
THEOREM LocksType == LocksSpec => []LocksTypeOK
<1>1. LocksInit => LocksTypeOK
  BY DEF LocksInit, LocksTypeOK
<1>2. LocksTypeOK /\ [LocksNext]_lockVars => LocksTypeOK'
  <2> SUFFICES ASSUME LocksTypeOK, [LocksNext]_lockVars
               PROVE  LocksTypeOK'
    OBVIOUS
  <2>1. CASE UNCHANGED lockVars
    BY <2>1 DEF LocksTypeOK, lockVars
  <2>2. ASSUME NEW t \in Sessions, NEW j \in Jobs, Begin(t, j) PROVE LocksTypeOK'
    BY <2>2 DEF LocksTypeOK, Begin
  <2>3. ASSUME NEW t \in Sessions, Acquire(t) PROVE LocksTypeOK'
    <3>1. PICK l \in Pending(t) : at' = [at EXCEPT ![t] = l.at + 1] /\ UNCHANGED job
      BY <2>3 DEF Acquire
    <3>2. l.at \in Nat
      <4>1. job[t] \in Jobs /\ l \in Locks(job[t])
        BY DEF LocksTypeOK, Pending, LocksOf, Running
      <4>2. PlaceFollowsRow(job[t], l)
        BY <4>1, PlaceOfLock
      <4> QED BY <4>2, JobAssumption DEF PlaceFollowsRow, AfterSkus
    <3> QED BY <3>1, <3>2 DEF LocksTypeOK
  <2>4. ASSUME NEW t \in Sessions, Release(t) PROVE LocksTypeOK'
    BY <2>4 DEF LocksTypeOK, Release
  <2> QED BY <2>1, <2>2, <2>3, <2>4 DEF LocksNext, Commit, Rollback
<1> QED BY <1>1, <1>2, PTL DEF LocksSpec

\* A bounded set of naturals has a greatest element.
LEMMA Greatest ==
  ASSUME NEW N \in Nat, NEW T, T \subseteq 0 .. N, T # {}
  PROVE  \E x \in T : \A y \in T : y <= x
<1> DEFINE R == OpToRel(<, Nat)
           Gaps == {N - x : x \in T}
<1>1. \A m, n \in Nat : m < n => <<m, n>> \in R
  BY DEF OpToRel
<1>2. Gaps \subseteq Nat /\ Gaps # {}
  OBVIOUS
<1>3. \E g \in Gaps : \A h \in Gaps : ~(<<h, g>> \in R)
  <2>1. IsWellFoundedOn(R, Nat)
    BY NatLessThanWellFounded
  <2> HIDE DEF R, Gaps
  <2> QED BY <2>1, <1>2, WFMin
<1>4. PICK x \in T : \A y \in T : ~(<<N - y, N - x>> \in R)
  BY <1>3
<1>5. ASSUME NEW y \in T PROVE y <= x
  <2>1. N - y \in Nat /\ N - x \in Nat /\ x \in Nat /\ y \in Nat
    OBVIOUS
  <2>2. ~(N - y < N - x)
    <3> HIDE DEF R
    <3> QED BY <1>1, <1>4, <2>1
  <2> QED BY <2>1, <2>2
<1> QED BY <1>5

(***************************************************************************)
(* In a cycle, look at the session that waits at the latest place: whoever *)
(* holds its row waits at no later one and got the row before that, so it  *)
(* took the row at an earlier place.                                       *)
(***************************************************************************)
LEMMA TypeMakesCyclesCross == ASSUME LocksTypeOK PROVE CyclesCrossOnCatalogRows
<1> SUFFICES ASSUME NEW S \in SUBSET Sessions, S # {},
                    \A t \in S : \E u \in S : Awaits(t, u)
             PROVE  \E t, u \in S : t # u /\ CrossOnCatalogRow(t, u)
  BY DEF CyclesCrossOnCatalogRows
<1> DEFINE Waits(t, l) == l \in Pending(t) /\ IsNext(t, l) /\ \E u \in S : u # t /\ Blocks(u, l)
           Last == AfterSkus + 5
           Places == {n \in 0 .. Last : \E t \in S : \E l \in Pending(t) : Waits(t, l) /\ n = l.at}
<1>1. \A t \in S : \A l \in LocksOf(t) : job[t] \in Jobs /\ l \in Locks(job[t])
  BY DEF LocksTypeOK, LocksOf, Running
<1>2. \A t \in S : \A l \in LocksOf(t) : l.at \in 0 .. Last
  BY <1>1, PlaceOfLock DEF PlaceFollowsRow
<1>3. \A t \in S : \E l \in Pending(t) : Waits(t, l)
  BY DEF Awaits
<1>4. \A t \in S : Pending(t) \subseteq LocksOf(t) /\ Granted(t) \subseteq LocksOf(t)
  BY DEF Pending, Granted
<1>5. Places # {}
  <2>1. PICK t \in S : TRUE
    OBVIOUS
  <2>2. PICK l \in Pending(t) : Waits(t, l)
    BY <1>3
  <2>3. l.at \in Places
    BY <2>2, <1>2, <1>4
  <2> QED BY <2>3
<1>6. Last \in Nat
  BY JobAssumption DEF AfterSkus
<1>7. PICK n \in Places : \A m \in Places : m <= n
  <2> HIDE DEF Last
  <2> QED BY <1>5, <1>6, Greatest
<1>8. PICK t \in S : \E l \in Pending(t) : Waits(t, l) /\ n = l.at
  OBVIOUS
<1>9. PICK l \in Pending(t) : Waits(t, l) /\ n = l.at
  BY <1>8
<1>10. PICK u \in S : u # t /\ Blocks(u, l)
  BY <1>9
<1>11. PICK m \in Granted(u) : m.row = l.row /\ Conflict(m.mode, l.mode)
  BY <1>10 DEF Blocks
<1>12. PICK k \in Pending(u) : Waits(u, k)
  BY <1>3
<1>13. l.at \in Nat /\ m.at \in Nat /\ k.at \in Nat /\ at[u] \in Nat
  BY <1>2, <1>4 DEF LocksTypeOK
<1>14. m.at < k.at
  BY <1>13 DEF Granted, Pending
<1>15. k.at <= l.at
  BY <1>2, <1>4, <1>7, <1>9, <1>12
<1>16. m.at < l.at
  BY <1>13, <1>14, <1>15
<1>17. \/ l.row[1] = "product" /\ HasTwoUnits(l.row[2])
       \/ l.row[1] = "sku" /\ (OutOfOrder(job[t]) \/ OutOfOrder(job[u]))
  <2>1. l.at # m.at
    BY <1>13, <1>16
  <2>2. job[t] \in Jobs /\ job[u] \in Jobs /\ l \in Locks(job[t]) /\ m \in Locks(job[u])
    BY <1>1, <1>4
  <2> QED BY <1>11, <2>1, <2>2, OnePlace
<1>18. CrossOnCatalogRow(t, u)
  BY <1>9, <1>11, <1>16, <1>17 DEF CrossOnCatalogRow
<1> QED BY <1>10, <1>18

(***************************************************************************)
(* LOCK-ORDER.md argues informally that no hold-and-wait cycle can form.   *)
(* For every set of requests the only cycles are those that cross on the   *)
(* row of a product with two units or on a SKU row taken out of order.     *)
(***************************************************************************)
THEOREM DeadlocksCrossOnCatalogRows == LocksSpec => []CyclesCrossOnCatalogRows
<1>1. LocksTypeOK => CyclesCrossOnCatalogRows
  BY TypeMakesCyclesCross
<1> QED BY <1>1, LocksType, PTL
=============================================================================
