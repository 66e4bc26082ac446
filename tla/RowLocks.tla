------------------------------ MODULE RowLocks ------------------------------
(***************************************************************************)
(* The row locks of the commands while they run concurrently.  A request   *)
(* runs in one transaction of a database session: it takes its locks one   *)
(* at a time, keeps all of them until it commits or rolls back, and waits  *)
(* while another session holds a row in a conflicting mode.                *)
(*                                                                         *)
(* A lock request is [row, at, mode].  at is the place of the statement in *)
(* the one sequence all commands follow: order, declaration, stocks by     *)
(* sorted SKU id, hold, receipt, payment, binding; a session takes its     *)
(* locks by increasing at.  SKU ids are numbered in the sorted order of    *)
(* their UUIDs, the order in which _prelock_stocks visits them.            *)
(***************************************************************************)
EXTENDS Integers, FiniteSets

CONSTANTS
  Sessions,
  Jobs,       \* the requests a session may run
  NoJob,      \* an idle session
  SkuCount,   \* the SKU ids are 1 .. SkuCount
  ProductOf   \* catalog_product_id of each SKU

Skus == 1 .. SkuCount
Positions == 1 .. SkuCount

(***************************************************************************)
(* A job names what its request touches: an order, SKUs, the idempotency   *)
(* key or declaration, and, as sets with at most one element, the transfer *)
(* reference and the retailer whose binding is written.  cart is where a   *)
(* new order lists each SKU.                                               *)
(***************************************************************************)
ASSUME JobAssumption ==
  /\ SkuCount \in Nat
  /\ NoJob \notin Jobs
  /\ \A j \in Jobs :
       /\ j.skus \subseteq Skus
       /\ j.cart \in [Skus -> Positions]
       /\ \A r, s \in j.skus : j.cart[r] = j.cart[s] => r = s

VARIABLES
  job,    \* job[t]: the request session t runs, or NoJob
  at      \* at[t]: the locks of t placed before at[t] are granted

lockVars == <<job, at>>

LocksTypeOK ==
  /\ job \in [Sessions -> Jobs \cup {NoJob}]
  /\ at \in [Sessions -> Nat]

-----------------------------------------------------------------------------
\* The locks of each command

Lock(row, place, mode) == [row |-> row, at |-> place, mode |-> mode]

AfterSkus == 6 * SkuCount + 3

OrderLock(o, mode) == Lock(<<"order", o>>, 1, mode)
DeclarationLock(d) == Lock(<<"declaration", d>>, 2, "update")
StockLock(s) == Lock(<<"stock", s>>, 3 * s, "update")
SkuLock(s, p, mode) == Lock(<<"sku", s>>, 3 * p + 1, mode)
ProductLock(s, mode) == Lock(<<"product", ProductOf[s]>>, 3 * s + 2, mode)
ReservationLock(o) == Lock(<<"reservations", o>>, AfterSkus, "update")
HoldLock(o) == Lock(<<"hold", o>>, AfterSkus + 1, "update")
ReceiptLock == Lock(<<"receipts", "today">>, AfterSkus + 2, "update")
KeyLock(k) == Lock(<<"key", k>>, AfterSkus + 3, "update")
ReferenceLock(x) == Lock(<<"reference", x>>, AfterSkus + 4, "update")
BindingLock(r) == Lock(<<"binding", r>>, AfterSkus + 5, "nokey")

\* A mutant of StockLocks: the SKUs are visited in the order of the lines.
UnsortedStockLocks(j) ==
  UNION {{Lock(<<"stock", s>>, 3 * j.cart[s], "update"),
          SkuLock(s, j.cart[s], "update"),
          Lock(<<"product", ProductOf[s]>>, 3 * j.cart[s] + 2, "update")} : s \in j.skus}

(***************************************************************************)
(* _locked_stock_by_sku_id for each SKU: FOR UPDATE without OF locks a row *)
(* of every joined table, the stock, its SKU and the catalog product.      *)
(***************************************************************************)
StockLocks(j) ==
  UNION {{StockLock(s), SkuLock(s, s, "update"), ProductLock(s, "update")} : s \in j.skus}

\* The hold and the binding of the order, when the command touches them.
CreditLocks(j) ==
  {HoldLock(j.order) : r \in j.retailers} \cup {BindingLock(r) : r \in j.retailers}

\* confirm, cancel, fulfil and return
CommandLocks(j) ==
  {OrderLock(j.order, "update"), ReservationLock(j.order)} \cup StockLocks(j) \cup CreditLocks(j)

\* The foreign keys of the order items, checked in the order of the items.
CreateLocks(j) == {SkuLock(s, j.cart[s], "share") : s \in j.skus}

\* A mutant of PayLocks: the binding is updated before the order is locked.
PayLocksBindingFirst(j) ==
  {OrderLock(j.order, "update"), HoldLock(j.order), KeyLock(j.key)}
    \cup {ReferenceLock(x) : x \in j.references}
    \cup {Lock(<<"binding", r>>, 0, "nokey") : r \in j.retailers}

\* The payment's insert waits for an uncommitted row in a unique index.
PayLocks(j) ==
  {OrderLock(j.order, "update"), HoldLock(j.order), KeyLock(j.key)}
    \cup {ReferenceLock(x) : x \in j.references}
    \cup {BindingLock(r) : r \in j.retailers}

DeclareLocks(j) == {Lock(<<"submission", j.key>>, 0, "update"), OrderLock(j.order, "share")}

ConfirmDeclarationLocks(j) == PayLocks(j) \cup {DeclarationLock(j.key), ReceiptLock}

\* adjust_stock: the stock row, then the foreign key of the movement.
AdjustLocks(j) == UNION {{StockLock(s), SkuLock(s, s, "share")} : s \in j.skus}

\* The other sellable units of the product of s.
Siblings(s) == {r \in Skus \ {s} : ProductOf[r] = ProductOf[s]}

\* update_sku: lock_sku_row, then the flush writes the product and its units.
UpdateSkuLocks(j) ==
  UNION {{SkuLock(s, s, "update"), ProductLock(s, "nokey")}
           \cup {SkuLock(r, SkuCount + r, "nokey") : r \in Siblings(s)} : s \in j.skus}

Locks(j) ==
  IF j.kind = "create" THEN CreateLocks(j)
  ELSE IF j.kind = "command" THEN CommandLocks(j)
  ELSE IF j.kind = "pay" THEN PayLocks(j)
  ELSE IF j.kind = "declare" THEN DeclareLocks(j)
  ELSE IF j.kind = "confirmDeclaration" THEN ConfirmDeclarationLocks(j)
  ELSE IF j.kind = "reject" THEN {DeclarationLock(j.key)}
  ELSE IF j.kind = "adjust" THEN AdjustLocks(j)
  ELSE IF j.kind = "updateSku" THEN UpdateSkuLocks(j)
  ELSE {BindingLock(r) : r \in j.retailers}

-----------------------------------------------------------------------------
\* PostgreSQL's row locks

\* FOR UPDATE, UPDATE of no key column, and the FOR KEY SHARE of a foreign key.
Conflict(m, n) ==
  \/ m = "update" \/ n = "update"
  \/ m = "nokey" /\ n = "nokey"

Running(t) == job[t] # NoJob

LocksOf(t) == IF Running(t) THEN Locks(job[t]) ELSE {}

Granted(t) == {l \in LocksOf(t) : l.at < at[t]}
Pending(t) == {l \in LocksOf(t) : l.at >= at[t]}

\* The lock t asks for next.
IsNext(t, l) == l \in Pending(t) /\ \A m \in Pending(t) : l.at <= m.at

Blocks(u, l) == \E m \in Granted(u) : m.row = l.row /\ Conflict(m.mode, l.mode)

LocksInit ==
  /\ job = [t \in Sessions |-> NoJob]
  /\ at = [t \in Sessions |-> 0]

Begin(t, j) ==
  /\ ~Running(t)
  /\ job' = [job EXCEPT ![t] = j]
  /\ UNCHANGED at

Acquire(t) ==
  \E l \in Pending(t) :
    /\ IsNext(t, l)
    /\ \A u \in Sessions \ {t} : ~Blocks(u, l)
    /\ at' = [at EXCEPT ![t] = l.at + 1]
    /\ UNCHANGED job

Release(t) ==
  /\ job' = [job EXCEPT ![t] = NoJob]
  /\ at' = [at EXCEPT ![t] = 0]

\* The response is a success, after every lock was granted.
Commit(t) == Running(t) /\ Pending(t) = {} /\ Release(t)

\* A refusal after any of the locks.
Rollback(t) == Running(t) /\ Pending(t) # {} /\ Release(t)

LocksNext ==
  \E t \in Sessions :
    (\E j \in Jobs : Begin(t, j)) \/ Acquire(t) \/ Commit(t) \/ Rollback(t)

LocksSpec == LocksInit /\ [][LocksNext]_lockVars

(***************************************************************************)
(* The database wakes the waiters of a row in the order they came, and a   *)
(* request that has its locks runs on to its end.                          *)
(***************************************************************************)
FairLocksSpec ==
  LocksSpec /\ \A t \in Sessions : SF_lockVars(Acquire(t)) /\ WF_lockVars(Commit(t))

-----------------------------------------------------------------------------
\* Where two requests take the same row at different places

\* The request visits SKU rows in another order than that of their ids: the lines of
\* a new order come as the client sent them, units are written after the locked SKU.
OutOfOrder(j) ==
  \E s \in j.skus :
    \/ j.kind = "create" /\ j.cart[s] # s
    \/ j.kind = "updateSku" /\ Siblings(s) # {}

HasTwoUnits(p) == \E r, s \in Skus : r # s /\ ProductOf[r] = p /\ ProductOf[s] = p

(***************************************************************************)
(* t waits for a catalog row that u took at an earlier place: a product    *)
(* with two units, or a SKU that one of them visits out of order.          *)
(***************************************************************************)
CrossOnCatalogRow(t, u) ==
  \E l \in Pending(t), m \in Granted(u) :
    /\ IsNext(t, l) /\ m.row = l.row /\ Conflict(m.mode, l.mode)
    /\ m.at < l.at
    /\ \/ l.row[1] = "product" /\ HasTwoUnits(l.row[2])
       \/ l.row[1] = "sku" /\ (OutOfOrder(job[t]) \/ OutOfOrder(job[u]))

-----------------------------------------------------------------------------
\* Properties

Awaits(t, u) == \E l \in Pending(t) : IsNext(t, l) /\ u # t /\ Blocks(u, l)

(***************************************************************************)
(* LOCK-ORDER.md: "cross-order stock acquisition cannot form a             *)
(* hold-and-wait cycle": no set of sessions all wait for each other.       *)
(***************************************************************************)
NoWaitCycle ==
  \A S \in SUBSET Sessions :
    S # {} => \E t \in S : \A u \in S : ~Awaits(t, u)

(***************************************************************************)
(* What is left of that claim for all requests: sessions can wait for each *)
(* other in a cycle only if two of them cross on a catalog row.  Orders,   *)
(* stocks, holds, payments and bindings alone never close a cycle.         *)
(***************************************************************************)
CyclesCrossOnCatalogRows ==
  \A S \in SUBSET Sessions :
    S # {} /\ (\A t \in S : \E u \in S : Awaits(t, u)) =>
      \E t, u \in S : t # u /\ CrossOnCatalogRow(t, u)

(***************************************************************************)
(* Every request ends: waiting for a lock is always waiting for a session  *)
(* that can go on, so no request is blocked for ever.                      *)
(***************************************************************************)
EveryRequestEnds == \A t \in Sessions : Running(t) ~> ~Running(t)
=============================================================================
