---------------------------- MODULE OrderProofs ----------------------------
(***************************************************************************)
(* The order lifecycle for any number of orders, SKUs, retailers, keys and *)
(* declarations: type correctness, the inventory, and then holds, the      *)
(* binding cache, the ledger and the receivables summary.                  *)
(***************************************************************************)
EXTENDS Receivables, FiniteSetTheorems, TLAPS

-----------------------------------------------------------------------------
\* What SumOf computes, as the lemmas the conservation proofs cite

(***************************************************************************)
(* The slice of x is finite and has f[x] elements: a total is made of as   *)
(* many units as the row's amount.                                         *)
(***************************************************************************)
LEMMA SliceCardinality ==
  ASSUME NEW f, NEW x, f[x] \in Nat
  PROVE  /\ IsFiniteSet(Slice(f, x))
         /\ Cardinality(Slice(f, x)) = f[x]
<1>1. IsFiniteSet(1 .. f[x]) /\ Cardinality(1 .. f[x]) = f[x]
  BY FS_Interval
<1>2. IsFiniteSet({x}) /\ Cardinality({x}) = 1
  BY FS_Singleton
<1> DEFINE X == {x}
           I == 1 .. f[x]
<1>3. IsFiniteSet(X \X I) /\ Cardinality(X \X I) = Cardinality(X) * Cardinality(I)
  <2> HIDE DEF X, I
  <2>1. IsFiniteSet(X) /\ IsFiniteSet(I)
    BY <1>1, <1>2 DEF X, I
  <2>2. QED
    BY <2>1, FS_Product
<1>4. Cardinality(X) * Cardinality(I) = f[x]
  BY <1>1, <1>2
<1>5. QED
  BY <1>3, <1>4 DEF Slice

(***************************************************************************)
(* A finite sum of natural numbers is a natural number.                    *)
(***************************************************************************)
LEMMA UnitsFinite ==
  ASSUME NEW S, IsFiniteSet(S), NEW f \in [S -> Nat]
  PROVE  IsFiniteSet(Units(f)) /\ SumOf(f) \in Nat
<1> DEFINE slices == [x \in S |-> Slice(f, x)]
           T      == {Slice(f, x) : x \in S}
<1>1. slices \in Surjection(S, T)
  BY DEF Surjection
<1>2. IsFiniteSet(T)
  BY <1>1, FS_Surjection
<1>3. \A t \in T : IsFiniteSet(t)
  BY SliceCardinality
<1>4. IsFiniteSet(UNION T)
  BY <1>2, <1>3, FS_UNION
<1>5. Units(f) = UNION T
  BY DEF Units
<1>6. QED
  BY <1>4, <1>5, FS_CardinalityType DEF SumOf

(***************************************************************************)
(* Changing the amount of one row changes the sum by exactly the           *)
(* difference.                                                             *)
(***************************************************************************)
LEMMA SumChange ==
  ASSUME NEW S, IsFiniteSet(S), NEW f \in [S -> Nat], NEW g \in [S -> Nat],
         NEW a \in S, \A x \in S \ {a} : g[x] = f[x]
  PROVE  SumOf(g) = SumOf(f) - f[a] + g[a]
<1> DEFINE Rest(h) == Units(h) \ Slice(h, a)
<1>1. ASSUME NEW h \in [S -> Nat]
      PROVE  /\ IsFiniteSet(Rest(h))
             /\ Cardinality(Rest(h)) \in Nat
             /\ SumOf(h) = Cardinality(Rest(h)) + h[a]
  <2>1. IsFiniteSet(Units(h)) /\ SumOf(h) \in Nat
    BY UnitsFinite
  <2>2. Slice(h, a) \subseteq Units(h)
    BY DEF Units
  <2>3. Units(h) \cap Slice(h, a) = Slice(h, a)
    BY <2>2
  <2>4. Cardinality(Slice(h, a)) = h[a] /\ h[a] \in Nat
    BY SliceCardinality
  <2> DEFINE U == Units(h)
             A == Slice(h, a)
  <2>5. /\ IsFiniteSet(Rest(h))
        /\ Cardinality(Rest(h)) = Cardinality(Units(h)) - h[a]
    <3> HIDE DEF U, A
    <3>1. IsFiniteSet(U) /\ U \cap A = A /\ Cardinality(A) = h[a]
      BY <2>1, <2>3, <2>4 DEF U, A
    <3>2. IsFiniteSet(U \ A) /\ Cardinality(U \ A) = Cardinality(U) - Cardinality(U \cap A)
      BY <3>1, FS_Difference
    <3>3. QED
      BY <3>1, <3>2 DEF U, A
  <2>6. Cardinality(Rest(h)) \in Nat
    BY <2>5, FS_CardinalityType
  <2>7. QED
    BY <2>1, <2>4, <2>5, <2>6 DEF SumOf
<1>2. Rest(f) = Rest(g)
  <2>1. ASSUME NEW h \in [S -> Nat]
        PROVE  Rest(h) = UNION {Slice(h, x) : x \in S \ {a}}
    BY DEF Units, Slice
  <2>2. \A x \in S \ {a} : Slice(f, x) = Slice(g, x)
    BY DEF Slice
  <2>3. {Slice(f, x) : x \in S \ {a}} = {Slice(g, x) : x \in S \ {a}}
    BY <2>2
  <2>4. QED
    BY <2>1, <2>3
<1>3. f[a] \in Nat /\ g[a] \in Nat
  OBVIOUS
<1>4. SumOf(f) = Cardinality(Rest(f)) + f[a] /\ Cardinality(Rest(f)) \in Nat
  BY <1>1
<1>5. SumOf(g) = Cardinality(Rest(g)) + g[a]
  BY <1>1
<1>6. SumOf(g) = Cardinality(Rest(f)) + g[a]
  BY <1>2, <1>5
<1> HIDE DEF Rest
<1>7. QED
  BY <1>3, <1>4, <1>6

(***************************************************************************)
(* One row is never larger than the sum it belongs to.                     *)
(***************************************************************************)
LEMMA SumAtLeast ==
  ASSUME NEW S, IsFiniteSet(S), NEW f \in [S -> Nat], NEW a \in S
  PROVE  f[a] <= SumOf(f)
<1>1. IsFiniteSet(Units(f))
  BY UnitsFinite
<1>2. Slice(f, a) \in SUBSET Units(f)
  BY DEF Units
<1>3. f[a] \in Nat /\ Cardinality(Slice(f, a)) = f[a]
  BY SliceCardinality
<1>4. QED
  BY <1>1, <1>2, <1>3, FS_Subset DEF SumOf

(***************************************************************************)
(* The sum of no amounts is zero, and only then.                           *)
(***************************************************************************)
LEMMA SumZero ==
  ASSUME NEW S, IsFiniteSet(S), NEW f \in [S -> Nat]
  PROVE  SumOf(f) = 0 <=> \A x \in S : f[x] = 0
<1>1. ASSUME \A x \in S : f[x] = 0
      PROVE  SumOf(f) = 0
  <2>1. \A x \in S : Slice(f, x) = {}
    BY <1>1 DEF Slice
  <2>2. Units(f) = {}
    BY <2>1 DEF Units
  <2>3. QED
    BY <2>2, FS_EmptySet DEF SumOf
<1>2. ASSUME SumOf(f) = 0, NEW x \in S
      PROVE  f[x] = 0
  <2>1. f[x] <= 0 /\ f[x] \in Nat
    BY <1>2, SumAtLeast
  <2>2. QED
    BY <2>1
<1>3. QED
  BY <1>1, <1>2

(***************************************************************************)
(* Two rows together are never larger than the sum they belong to.         *)
(***************************************************************************)
LEMMA SumAtLeastTwo ==
  ASSUME NEW S, IsFiniteSet(S), NEW f \in [S -> Nat],
         NEW a \in S, NEW b \in S, a # b
  PROVE  f[a] + f[b] <= SumOf(f)
<1> DEFINE g == [f EXCEPT ![a] = 0]
<1>1. g \in [S -> Nat] /\ g[a] = 0 /\ g[b] = f[b]
  OBVIOUS
<1>2. \A x \in S \ {a} : g[x] = f[x]
  OBVIOUS
<1> HIDE DEF g
<1>3. SumOf(g) = SumOf(f) - f[a] + g[a]
  BY <1>1, <1>2, SumChange
<1>4. g[b] <= SumOf(g)
  BY <1>1, SumAtLeast
<1>5. f[a] \in Nat /\ f[b] \in Nat /\ SumOf(f) \in Nat
  BY UnitsFinite
<1>6. QED
  BY <1>1, <1>3, <1>4, <1>5

-----------------------------------------------------------------------------
\* The totals of the payment columns

LEMMA KeysFinite == IsFiniteSet(Keys)
  BY PaymentAssumption, FS_Union DEF Keys

\* The payment columns a total counts form a finite function into Nat.
LEMMA CountedType ==
  ASSUME PaymentTypeOK, NEW o, NEW methods
  PROVE  /\ Counted(o, methods) \in [Keys -> Nat]
         /\ SumOf(Counted(o, methods)) \in Nat
<1>1. \A k \in Keys : payments[k].amount \in Nat
  BY DEF PaymentTypeOK, PaymentRow, NoPayment
<1>2. Counted(o, methods) \in [Keys -> Nat]
  BY <1>1 DEF Counted
<1> QED
  <2> HIDE DEF Counted
  <2> QED BY <1>2, KeysFinite, UnitsFinite

LEMMA TotalsAreNaturals ==
  ASSUME PaymentTypeOK, NEW o
  PROVE  PaidTotal(o) \in Nat /\ CreditTotal(o) \in Nat
  BY CountedType DEF PaidTotal, CreditTotal

-----------------------------------------------------------------------------
\* Types of the parts of a command

LEMMA MarkType ==
  ASSUME InventoryTypeOK, NEW o \in Orders, NEW S, NEW st \in ReservationStatus,
         MarkReservations(o, S, st)
  PROVE  rsv' \in [Orders -> [Skus -> ReservationStatus]]
  BY DEF InventoryTypeOK, MarkReservations

LEMMA UnreserveType ==
  ASSUME InventoryTypeOK, NEW o \in Orders, NEW S \in SUBSET Skus, Unreserve(o, S),
         \A s \in S : reserved[s] >= Qty[o][s]
  PROVE  reserved' \in [Skus -> Nat]
<1>1. \A s \in Skus : Qty[o][s] \in Nat /\ reserved[s] \in Nat
  BY TenantAssumption DEF InventoryTypeOK
<1>2. \A s \in S : reserved[s] - Qty[o][s] \in Nat
  BY <1>1
<1> QED BY <1>1, <1>2 DEF Unreserve

LEMMA InventoryType ==
  ASSUME InventoryTypeOK, NEW o \in Orders,
         Reserve(o) \/ Release(o) \/ Consume(o) \/ Restock(o) \/ UNCHANGED invVars
  PROVE  InventoryTypeOK'
<1>1. /\ \A s \in Skus : Qty[o][s] \in Nat /\ reserved[s] \in Nat /\ onHand[s] \in Nat
      /\ Items(o) \in SUBSET Skus /\ Owned(o) \in SUBSET Skus
  BY TenantAssumption DEF InventoryTypeOK, Items, Owned
<1>2. {"reserved", "released", "consumed"} \subseteq ReservationStatus
  BY DEF ReservationStatus
<1>3. CASE Reserve(o)
  <2>1. rsv' \in [Orders -> [Skus -> ReservationStatus]]
    BY <1>2, <1>3, MarkType DEF Reserve
  <2> QED BY <1>1, <1>3, <2>1 DEF Reserve, InventoryTypeOK
<1>4. CASE Release(o)
  <2>1. rsv' \in [Orders -> [Skus -> ReservationStatus]]
    BY <1>2, <1>4, MarkType DEF Release
  <2>2. reserved' \in [Skus -> Nat]
    BY <1>1, <1>4, UnreserveType DEF Release
  <2> QED BY <1>4, <2>1, <2>2 DEF Release, InventoryTypeOK
<1>5. CASE Consume(o)
  <2>1. rsv' \in [Orders -> [Skus -> ReservationStatus]]
    BY <1>2, <1>5, MarkType DEF Consume
  <2>2. reserved' \in [Skus -> Nat]
    BY <1>1, <1>5, UnreserveType DEF Consume
  <2>3. \A s \in Skus : onHand[s] - Qty[o][s] \in Nat
    BY <1>1, <1>5 DEF Consume, Items
  <2>4. onHand' \in [Skus -> Nat]
    BY <1>5, <2>3 DEF Consume
  <2> QED BY <1>5, <2>1, <2>2, <2>4 DEF Consume, InventoryTypeOK
<1>6. CASE Restock(o)
  BY <1>1, <1>6 DEF Restock, InventoryTypeOK
<1>7. CASE UNCHANGED invVars
  BY <1>7 DEF invVars, InventoryTypeOK
<1> QED BY <1>3, <1>4, <1>5, <1>6, <1>7

\* A row under a fresh key, and perhaps a batch that completes other rows.
LEMMA RecordType ==
  ASSUME PaymentTypeOK, NEW k \in Keys, NEW o \in Orders, NEW a \in Nat \ {0},
         NEW m \in Methods, NEW x \in References \cup {NoReference},
         NEW st \in {"pending", "completed"}, NEW withReceipt, NEW settleOrder,
         Record(k, Row(o, a, m, x, st), withReceipt, settleOrder)
  PROVE  PaymentTypeOK'
<1> DEFINE receipt == IF withReceipt /\ st = "completed" THEN NextReceipt ELSE 0
           row == [order |-> o, amount |-> a, method |-> m, reference |-> x,
                   status |-> st, receipt |-> receipt]
           inserted == [payments EXCEPT ![k] = row]
<1>1. receipt \in Nat /\ receiptSeq \in Nat
  BY DEF PaymentTypeOK, NextReceipt
<1>2. row \in PaymentRow
  BY <1>1 DEF PaymentRow
<1>3. inserted \in [Keys -> PaymentRow \cup {NoPayment}]
  BY <1>2 DEF PaymentTypeOK
<1>4. \A j \in Keys : payments'[j] \in {inserted[j], [inserted[j] EXCEPT !.status = "completed"]}
                      /\ (payments'[j] # inserted[j] => inserted[j].status = "pending")
  BY DEF Record, Row
<1>5. \A j \in Keys : payments'[j] \in PaymentRow \cup {NoPayment}
  <2> SUFFICES ASSUME NEW j \in Keys, payments'[j] # inserted[j]
               PROVE  payments'[j] \in PaymentRow
    BY <1>3
  <2>1. inserted[j] \in PaymentRow
    BY <1>3, <1>4 DEF NoPayment
  <2> QED BY <1>4, <2>1 DEF PaymentRow
<1>6. DOMAIN payments' = Keys /\ payments' = [j \in Keys |-> payments'[j]]
  BY DEF Record
<1>7. receiptSeq' \in Nat
  BY <1>1 DEF Record, Row
<1> QED BY <1>5, <1>6, <1>7 DEF PaymentTypeOK

\* The hold and the binding, whichever operator the command applies.
LEMMA CreditType ==
  ASSUME CreditTypeOK, NEW o \in Orders, NEW a \in Nat \ {0},
         \/ OpenHold(o) \/ SettleCancelHold(o, status[o]) \/ ReduceHold(o, a)
         \/ ConvertHold(o) \/ CollectCredit(o, a) \/ UNCHANGED creditVars
  PROVE  CreditTypeOK'
<1>1. Total[o] \in Nat /\ RetailerOf[o] \in Retailers /\ hold[o] \in HoldRow
  BY TenantAssumption DEF CreditTypeOK
<1>2. \A st \in HoldStatus, n \in Nat : [status |-> st, remaining |-> n] \in HoldRow
  BY DEF HoldRow
<1>3. {"active", "settled", "released", "converted"} \subseteq HoldStatus
  BY DEF HoldStatus
<1>4. ASSUME NEW delta \in Int, AddToBinding(RetailerOf[o], delta)
      PROVE  outstanding' \in [Retailers -> Nat]
  <2>1. outstanding[RetailerOf[o]] + delta \in Nat
    BY <1>1, <1>4 DEF AddToBinding, CreditTypeOK
  <2> QED BY <1>4, <2>1 DEF AddToBinding, CreditTypeOK
<1>5. CASE OpenHold(o)
  <2>1. hold' \in [Orders -> HoldRow]
    BY <1>1, <1>2, <1>3, <1>5 DEF OpenHold, CreditTypeOK
  <2> QED BY <1>1, <1>4, <1>5, <2>1 DEF OpenHold, CreditTypeOK
<1>6. CASE SettleCancelHold(o, status[o])
  <2>1. CASE UNCHANGED creditVars
    BY <2>1 DEF CreditTypeOK, creditVars
  <2>2. CASE status[o] = "confirmed"
    <3>1. hold' \in [Orders -> HoldRow]
      BY <1>2, <1>3, <1>6, <2>2 DEF SettleCancelHold, CreditTypeOK
    <3>2. AddToBinding(RetailerOf[o], -Total[o]) /\ UNCHANGED activeBindings
      BY <1>6, <2>2 DEF SettleCancelHold
    <3> QED BY <1>1, <1>4, <3>1, <3>2 DEF CreditTypeOK
  <2> QED BY <1>6, <2>1, <2>2 DEF SettleCancelHold
<1>7. CASE ReduceHold(o, a)
  <2>1. hold[o].remaining - a \in Nat /\ hold[o].status \in HoldStatus
    BY <1>1, <1>7 DEF ReduceHold, HoldRow
  <2>2. hold' \in [Orders -> HoldRow]
    BY <1>2, <1>3, <1>7, <2>1 DEF ReduceHold, CreditTypeOK
  <2> QED BY <1>4, <1>7, <2>2 DEF ReduceHold, CreditTypeOK
<1>8. CASE ConvertHold(o)
  BY <1>2, <1>3, <1>8 DEF ConvertHold, CreditTypeOK
<1>9. CASE CollectCredit(o, a)
  BY <1>4, <1>9 DEF CollectCredit, CreditTypeOK
<1>10. CASE UNCHANGED creditVars
  BY <1>10 DEF creditVars, CreditTypeOK
<1> QED BY <1>5, <1>6, <1>7, <1>8, <1>9, <1>10

LEMMA PostType ==
  ASSUME LedgerTypeOK, NEW o \in Orders, NEW d \in Accounts, NEW c \in Accounts,
         NEW a \in Int, d # c, Post(o, d, c, a)
  PROVE  LedgerTypeOK'
<1>1. ledger[o] \in [Accounts -> Int]
  BY DEF LedgerTypeOK
<1>2. ledger' = [ledger EXCEPT ![o] = [ledger[o] EXCEPT ![d] = @ + a, ![c] = @ - a]]
  BY <1>1 DEF Post, LedgerTypeOK
<1>3. [ledger[o] EXCEPT ![d] = @ + a, ![c] = @ - a] \in [Accounts -> Int]
  BY <1>1
<1> QED BY <1>2, <1>3 DEF LedgerTypeOK

LEMMA StatusType ==
  ASSUME TypeOK, NEW o \in Orders, NEW target \in OrderStates, AssignStatus(o, target)
  PROVE  status' \in [Orders -> OrderStates \cup {"absent"}]
  BY DEF TypeOK, AssignStatus

-----------------------------------------------------------------------------
\* Type correctness

LEMMA ChangeState ==
  {"draft", "confirmed", "partially_paid", "paid", "fulfilled", "cancelled", "returned"}
    \subseteq OrderStates
  BY DEF OrderStates

LEMMA AccountNames == {"cash", "receivable", "revenue"} = Accounts
  BY DEF Accounts

\* A payment of any kind, under any key.
LEMMA PaymentType ==
  ASSUME TypeOK, NEW k \in Keys, NEW o \in Orders, NEW a \in Nat \ {0},
         NEW m \in Settling, NEW x \in References \cup {NoReference}, NEW force,
         Settle(k, o, a, m, x, force) \/ SellOnCredit(k, o, x) \/ Collect(k, o, a, m, x, force)
  PROVE  /\ status' \in [Orders -> OrderStates \cup {"absent"}]
         /\ CreditTypeOK' /\ PaymentTypeOK' /\ LedgerTypeOK'
<1>1. /\ CreditTypeOK /\ PaymentTypeOK /\ LedgerTypeOK
      /\ m \in Methods /\ "credit" \in Methods /\ Total[o] \in Nat \ {0}
  BY TenantAssumption DEF TypeOK, Methods
<1>2. UNCHANGED ledger => LedgerTypeOK'
  BY <1>1 DEF LedgerTypeOK
<1>3. ASSUME NEW n \in Nat, PostPaymentReceived(o, n) PROVE LedgerTypeOK'
  BY <1>1, <1>3, AccountNames, PostType DEF PostPaymentReceived
<1>4. CASE Settle(k, o, a, m, x, force)
  <2>1. PICK target \in {"paid", "partially_paid"}, st \in {"pending", "completed"} :
          /\ Record(k, Row(o, a, m, x, st), force, CompletesPending(force, target))
          /\ AssignStatus(o, target)
    BY <1>4 DEF Settle
  <2>2. PaymentTypeOK'
    BY <1>1, <2>1, RecordType
  <2>3. ReduceHold(o, a) /\ (PostPaymentReceived(o, Total[o]) \/ UNCHANGED ledger)
    BY <1>4 DEF Settle
  <2>4. status' \in [Orders -> OrderStates \cup {"absent"}]
    BY <2>1, ChangeState, StatusType
  <2> QED BY <1>1, <1>2, <1>3, <2>2, <2>3, <2>4, CreditType
<1>5. CASE SellOnCredit(k, o, x)
  <2>1. /\ Record(k, Row(o, Total[o], "credit", x, "pending"), FALSE, TRUE)
        /\ ConvertHold(o) /\ AssignStatus(o, "paid") /\ UNCHANGED ledger
    BY <1>5 DEF SellOnCredit
  <2>2. PaymentTypeOK'
    BY <1>1, <2>1, RecordType
  <2>3. status' \in [Orders -> OrderStates \cup {"absent"}]
    BY <2>1, ChangeState, StatusType
  <2> QED BY <1>1, <1>2, <2>1, <2>2, <2>3, CreditType
<1>6. CASE Collect(k, o, a, m, x, force)
  <2>1. /\ Record(k, Row(o, a, m, x, "completed"), force, FALSE)
        /\ PostPaymentReceived(o, a) /\ CollectCredit(o, a) /\ UNCHANGED status
    BY <1>6 DEF Collect
  <2>2. PaymentTypeOK'
    BY <1>1, <2>1, RecordType
  <2> QED BY <1>1, <1>3, <2>1, <2>2, CreditType DEF TypeOK
<1> QED BY <1>4, <1>5, <1>6

LEMMA DecideType ==
  ASSUME DeclarationTypeOK, NEW d \in Decls, NEW verdict \in {"confirmed", "rejected"},
         Decide(d, verdict)
  PROVE  decl[d] \in DeclRow /\ DeclarationTypeOK'
<1>1. decl[d] \in DeclRow
  BY DEF DeclarationTypeOK, Decide, NoDecl
<1>2. [decl[d] EXCEPT !.status = verdict] \in DeclRow
  BY <1>1 DEF DeclRow
<1>3. decl' = [decl EXCEPT ![d] = [decl[d] EXCEPT !.status = verdict]]
  BY DEF Decide
<1> QED BY <1>1, <1>2, <1>3 DEF DeclarationTypeOK

LEMMA TypeInit == Init => TypeOK
<1> SUFFICES ASSUME Init PROVE TypeOK
  OBVIOUS
<1>1. InventoryTypeOK
  BY InventoryAssumption
  DEF Init, InventoryInit, InventoryTypeOK, ReservationStatus
<1>2. CreditTypeOK
  BY DEF Init, CreditInit, CreditTypeOK, HoldRow, HoldStatus, NoHold
<1>3. PaymentTypeOK /\ LedgerTypeOK /\ DeclarationTypeOK
  BY DEF Init, PaymentInit, PaymentTypeOK, LedgerInit, LedgerTypeOK,
         DeclarationInit, DeclarationTypeOK
<1> QED BY <1>1, <1>2, <1>3 DEF Init, TypeOK

\* What a step does, with its parameters in their sets: the case split of
\* every proof about a step.
LEMMA StepCases ==
  ASSUME TypeOK, Next
  PROVE  \/ \E o \in Orders : OrderCommand(o)
         \/ \E k \in Keys, o \in Orders, a \in Nat \ {0}, m \in Settling,
               x \in References \cup {NoReference}, force \in BOOLEAN :
              /\ \/ Settle(k, o, a, m, x, force)
                 \/ SellOnCredit(k, o, x)
                 \/ Collect(k, o, a, m, x, force)
              /\ \/ UNCHANGED <<invVars, decl>>
                 \/ k \in Decls /\ Decide(k, "confirmed") /\ UNCHANGED invVars
         \/ \E d \in Decls : Declaration(d) /\ ~ConfirmDeclaration(d)
         \/ Upkeep
<1>1. ASSUME NEW o \in Orders, Payment(o)
      PROVE  \E k \in Keys, a \in Nat \ {0}, m \in Settling,
                x \in References \cup {NoReference}, force \in BOOLEAN :
               /\ \/ Settle(k, o, a, m, x, force)
                  \/ SellOnCredit(k, o, x)
                  \/ Collect(k, o, a, m, x, force)
               /\ UNCHANGED <<invVars, decl>>
  <2>1. PICK k \in PayKeys, x \in References \cup {NoReference} :
          \/ PayCredit(k, o, x)
          \/ \E a \in 1 .. Total[o], m \in Settling :
               PaySettle(k, o, a, m, x) \/ PayCollect(k, o, a, m, x)
    BY <1>1 DEF Payment
  <2>2. k \in Keys /\ Total[o] \in Nat \ {0} /\ "cash" \in Settling
    BY TenantAssumption DEF Keys, Settling
  <2>3. CASE PayCredit(k, o, x)
    BY <2>2, <2>3 DEF PayCredit
  <2>4. ASSUME NEW a \in 1 .. Total[o], NEW m \in Settling,
               PaySettle(k, o, a, m, x) \/ PayCollect(k, o, a, m, x)
        PROVE  /\ Settle(k, o, a, m, x, FALSE) \/ Collect(k, o, a, m, x, FALSE)
               /\ UNCHANGED <<invVars, decl>>
    BY <2>4 DEF PaySettle, PayCollect
  <2>5. 1 .. Total[o] \subseteq Nat \ {0}
    BY <2>2
  <2> QED BY <2>1, <2>2, <2>3, <2>4, <2>5
<1>2. ASSUME NEW d \in Decls, ConfirmDeclaration(d)
      PROVE  \E o \in Orders, a \in Nat \ {0}, m \in Settling,
                x \in References \cup {NoReference} :
               /\ Settle(d, o, a, m, x, TRUE) \/ Collect(d, o, a, m, x, TRUE)
               /\ Decide(d, "confirmed") /\ UNCHANGED invVars
  <2>1. decl[d] \in DeclRow
    BY <1>2, DecideType DEF ConfirmDeclaration, TypeOK
  <2>2. /\ decl[d].order \in Orders /\ decl[d].amount \in Nat \ {0}
        /\ decl[d].method \in Settling
        /\ decl[d].reference \in References \cup {NoReference}
    BY <2>1 DEF DeclRow, Settling
  <2> QED BY <1>2, <2>2 DEF ConfirmDeclaration
<1>3. Decls \subseteq Keys
  BY DEF Keys
<1>4. CASE \E o \in Orders : OrderCommand(o) \/ Payment(o)
  BY <1>1, <1>4
<1>5. CASE \E d \in Decls : Declaration(d)
  BY <1>2, <1>3, <1>5
<1> QED BY <1>4, <1>5 DEF Next

LEMMA CommandType ==
  ASSUME TypeOK, NEW o \in Orders, OrderCommand(o) PROVE TypeOK'
<1>1. /\ InventoryTypeOK /\ CreditTypeOK /\ LedgerTypeOK
      /\ Total[o] \in Nat \ {0}
  BY TenantAssumption DEF TypeOK
<1>2. UNCHANGED creditVars => CreditTypeOK'
  BY <1>1, CreditType
<1>3. UNCHANGED invVars => InventoryTypeOK'
  BY <1>1, InventoryType
<1>4. UNCHANGED ledger => LedgerTypeOK'
  BY <1>1 DEF LedgerTypeOK
<1>5. UNCHANGED paymentVars => PaymentTypeOK'
  BY DEF TypeOK, PaymentTypeOK, paymentVars
<1>6. UNCHANGED decl => DeclarationTypeOK'
  BY DEF TypeOK, DeclarationTypeOK
<1>7. CASE CreateOrder(o)
  BY <1>2, <1>3, <1>4, <1>5, <1>6, <1>7, ChangeState, StatusType DEF CreateOrder, TypeOK
<1>8. CASE ConfirmOrder(o)
  <2>1. InventoryTypeOK' /\ CreditTypeOK'
    BY <1>1, <1>8, InventoryType, CreditType DEF ConfirmOrder
  <2> QED BY <1>4, <1>5, <1>6, <1>8, <2>1, ChangeState, StatusType DEF ConfirmOrder, TypeOK
<1>9. CASE CancelOrder(o)
  <2>1. InventoryTypeOK' /\ CreditTypeOK'
    BY <1>1, <1>9, InventoryType, CreditType DEF CancelOrder
  <2> QED BY <1>4, <1>5, <1>6, <1>9, <2>1, ChangeState, StatusType DEF CancelOrder, TypeOK
<1>10. CASE FulfillOrder(o)
  <2>1. InventoryTypeOK'
    BY <1>1, <1>10, InventoryType DEF FulfillOrder
  <2> QED BY <1>2, <1>4, <1>5, <1>6, <1>10, <2>1, ChangeState, StatusType
          DEF FulfillOrder, TypeOK
<1>11. CASE ReturnOrder(o)
  <2>1. InventoryTypeOK'
    BY <1>1, <1>11, InventoryType DEF ReturnOrder
  <2>2. LedgerTypeOK'
    BY <1>1, <1>11, AccountNames, PostType DEF ReturnOrder, PostOrderReturn
  <2> QED BY <1>2, <1>5, <1>6, <1>11, <2>1, <2>2, ChangeState, StatusType
          DEF ReturnOrder, TypeOK
<1> QED BY <1>7, <1>8, <1>9, <1>10, <1>11 DEF OrderCommand

LEMMA DeclarationType ==
  ASSUME TypeOK, NEW d \in Decls, Declaration(d), ~ConfirmDeclaration(d) PROVE TypeOK'
<1>1. /\ UNCHANGED <<status, invVars, creditVars, paymentVars, ledger>>
      /\ DeclarationTypeOK'
  <2>1. CASE RejectDeclaration(d)
    BY <2>1, DecideType DEF RejectDeclaration, TypeOK
  <2>2. ASSUME NEW o \in Orders, NEW a \in DeclarableAmounts, NEW m \in Settling,
               NEW x \in References \cup {NoReference}, SubmitDeclaration(d, o, a, m, x)
        PROVE  /\ UNCHANGED <<status, invVars, creditVars, paymentVars, ledger>>
               /\ DeclarationTypeOK'
    <3>1. [status |-> "pending", order |-> o, amount |-> a, method |-> m, reference |-> x]
            \in DeclRow
      BY DeclarationAssumption DEF DeclRow, Settling
    <3> QED BY <2>2, <3>1 DEF SubmitDeclaration, Submit, TypeOK, DeclarationTypeOK
  <2> QED BY <2>1, <2>2 DEF Declaration
<1> QED
  BY <1>1 DEF TypeOK, invVars, creditVars, paymentVars, InventoryTypeOK, CreditTypeOK,
              PaymentTypeOK, LedgerTypeOK

LEMMA UpkeepType ==
  ASSUME TypeOK, Upkeep PROVE TypeOK'
<1>1. CASE \E s \in Skus : \E q \in (-MaxStock) .. MaxStock : AdjustStock(s, q)
  <2>1. PICK s \in Skus : \E q \in (-MaxStock) .. MaxStock : AdjustStock(s, q)
    BY <1>1
  <2>2. PICK q \in (-MaxStock) .. MaxStock : AdjustStock(s, q)
    BY <2>1
  <2>3. q \in Int /\ onHand[s] + q \in Nat /\ adjusted[s] + q \in Int
    BY <2>2, InventoryAssumption DEF AdjustStock, Adjust, TypeOK, InventoryTypeOK
  <2>4. InventoryTypeOK'
    BY <2>2, <2>3 DEF AdjustStock, Adjust, TypeOK, InventoryTypeOK
  <2> QED BY <2>2, <2>4 DEF AdjustStock, TypeOK, creditVars, paymentVars, CreditTypeOK,
                            PaymentTypeOK, LedgerTypeOK, DeclarationTypeOK
<1>2. CASE \E s \in Skus, flag \in BOOLEAN : UpdateSku(s, flag)
  <2>1. PICK s \in Skus, flag \in BOOLEAN : UpdateSku(s, flag)
    BY <1>2
  <2>2. InventoryTypeOK'
    BY <2>1 DEF UpdateSku, SetSkuActive, TypeOK, InventoryTypeOK
  <2> QED BY <2>1, <2>2 DEF UpdateSku, TypeOK, creditVars, paymentVars, CreditTypeOK,
                            PaymentTypeOK, LedgerTypeOK, DeclarationTypeOK
<1>3. CASE \E r \in Retailers : Deactivate(r)
  <2>1. PICK r \in Retailers : Deactivate(r)
    BY <1>3
  <2>2. CreditTypeOK'
    BY <2>1 DEF Deactivate, DeactivateBinding, TypeOK, CreditTypeOK
  <2> QED BY <2>1, <2>2 DEF Deactivate, TypeOK, invVars, paymentVars, InventoryTypeOK,
                            PaymentTypeOK, LedgerTypeOK, DeclarationTypeOK
<1> QED BY <1>1, <1>2, <1>3 DEF Upkeep

LEMMA TypeStep == TypeOK /\ [Next]_vars => TypeOK'
<1> SUFFICES ASSUME TypeOK, [Next]_vars PROVE TypeOK'
  OBVIOUS
<1>1. CASE UNCHANGED vars
  BY <1>1 DEF vars, invVars, creditVars, paymentVars, TypeOK, InventoryTypeOK,
              CreditTypeOK, PaymentTypeOK, LedgerTypeOK, DeclarationTypeOK
<1>2. ASSUME NEW k \in Keys, NEW o \in Orders, NEW a \in Nat \ {0}, NEW m \in Settling,
             NEW x \in References \cup {NoReference}, NEW force \in BOOLEAN,
             Settle(k, o, a, m, x, force) \/ SellOnCredit(k, o, x) \/ Collect(k, o, a, m, x, force),
             \/ UNCHANGED <<invVars, decl>>
             \/ k \in Decls /\ Decide(k, "confirmed") /\ UNCHANGED invVars
      PROVE  TypeOK'
  <2>1. InventoryTypeOK'
    BY <1>2 DEF TypeOK, InventoryTypeOK, invVars
  <2>2. DeclarationTypeOK'
    BY <1>2, DecideType DEF TypeOK, DeclarationTypeOK
  <2> QED BY <1>2, <2>1, <2>2, PaymentType DEF TypeOK
<1>3. CASE Next
  BY <1>2, <1>3, StepCases, CommandType, DeclarationType, UpkeepType
<1> QED BY <1>1, <1>3

\* Every state of the order lifecycle is well typed: no stock, reservation,
\* hold or balance is ever negative, for all values of the constants.
THEOREM TypeCorrect == Spec => []TypeOK
  BY TypeInit, TypeStep, PTL DEF Spec

-----------------------------------------------------------------------------
(***************************************************************************)
(* The inventory, for any number of orders and SKUs.  Alone,               *)
(* ReservedIsOwned is not inductive: that confirm does not reserve twice   *)
(* and that a fulfilment consumes every reservation follows only from the  *)
(* order's state, so the three invariants are proved together.             *)
(***************************************************************************)

StockInvariant ==
  /\ TypeOK
  /\ ReservationsFollowOrder
  /\ ReservedIsOwned
  /\ StockConserved

\* The states the matrix lets each command start from.
LEMMA Edges ==
  ASSUME NEW st
  PROVE  /\ CanTransition(st, "confirmed") => st = "draft"
         /\ CanTransition(st, "cancelled") => st \in {"draft", "confirmed", "partially_paid", "paid"}
         /\ CanTransition(st, "fulfilled") => st = "paid"
         /\ CanTransition(st, "returned") => st = "fulfilled"
  BY DEF CanTransition, OrderStates, Matrix

\* The sums, and how one order's entry moves them.
LEMMA OwnedSum ==
  ASSUME TypeOK, TypeOK', NEW o \in Orders, NEW s \in Skus,
         \A p \in Orders \ {o} : rsv'[p][s] = rsv[p][s]
  PROVE  /\ SumOf(OwnedQty(s)) \in Nat
         /\ OwnedQty(s)[o] \in Nat
         /\ OwnedQty(s)[o] <= SumOf(OwnedQty(s))
         /\ SumOf(OwnedQty(s))' = SumOf(OwnedQty(s)) - OwnedQty(s)[o] + OwnedQty(s)'[o]
<1> DEFINE f == OwnedQty(s)
           g == OwnedQty(s)'
<1>1. f \in [Orders -> Nat] /\ g \in [Orders -> Nat]
  BY TenantAssumption DEF OwnedQty
<1>2. \A p \in Orders \ {o} : g[p] = f[p]
  BY DEF OwnedQty, Owned
<1>3. IsFiniteSet(Orders)
  BY TenantAssumption
<1>4. SumOf(g) = SumOf(OwnedQty(s))'
  BY DEF SumOf, Units, Slice
<1> HIDE DEF f, g
<1>5. SumOf(f) \in Nat /\ f[o] \in Nat /\ f[o] <= SumOf(f) /\ SumOf(g) = SumOf(f) - f[o] + g[o]
  BY <1>1, <1>2, <1>3, UnitsFinite, SumAtLeast, SumChange
<1> QED BY <1>4, <1>5 DEF f, g

LEMMA DeliveredSum ==
  ASSUME TypeOK, TypeOK', NEW o \in Orders, NEW s \in Skus,
         \A p \in Orders \ {o} : status'[p] = status[p]
  PROVE  /\ SumOf(DeliveredQty(s)) \in Nat
         /\ DeliveredQty(s)[o] \in Nat
         /\ SumOf(DeliveredQty(s))' =
              SumOf(DeliveredQty(s)) - DeliveredQty(s)[o] + DeliveredQty(s)'[o]
<1> DEFINE f == DeliveredQty(s)
           g == DeliveredQty(s)'
<1>1. f \in [Orders -> Nat] /\ g \in [Orders -> Nat]
  BY TenantAssumption DEF DeliveredQty
<1>2. \A p \in Orders \ {o} : g[p] = f[p]
  BY DEF DeliveredQty
<1>3. IsFiniteSet(Orders)
  BY TenantAssumption
<1>4. SumOf(g) = SumOf(DeliveredQty(s))'
  BY DEF SumOf, Units, Slice
<1> HIDE DEF f, g
<1>5. SumOf(f) \in Nat /\ f[o] \in Nat /\ SumOf(g) = SumOf(f) - f[o] + g[o]
  BY <1>1, <1>2, <1>3, UnitsFinite, SumChange
<1> QED BY <1>4, <1>5 DEF f, g

-----------------------------------------------------------------------------

\* A step that moves one order o, what it owns and what was delivered for it.
LEMMA MoveOrder ==
  ASSUME StockInvariant, TypeOK', NEW o \in Orders,
         \A p \in Orders \ {o} : status'[p] = status[p] /\ rsv'[p] = rsv[p],
         Owned(o)' = IF status'[o] \in Reserving THEN Items(o) ELSE {},
         \A s \in Skus :
           /\ reserved'[s] = reserved[s] - OwnedQty(s)[o] + OwnedQty(s)'[o]
           /\ onHand'[s] = onHand[s] + DeliveredQty(s)[o] - DeliveredQty(s)'[o]
           /\ adjusted'[s] = adjusted[s]
  PROVE  StockInvariant'
<1>1. ReservationsFollowOrder'
  BY DEF StockInvariant, ReservationsFollowOrder, Owned, Items
<1>2. ReservedIsOwned'
  <2> SUFFICES ASSUME NEW s \in Skus PROVE reserved'[s] = SumOf(OwnedQty(s))'
    BY DEF ReservedIsOwned
  <2>1. reserved[s] = SumOf(OwnedQty(s))
    BY DEF StockInvariant, ReservedIsOwned
  <2>2. SumOf(OwnedQty(s))' = SumOf(OwnedQty(s)) - OwnedQty(s)[o] + OwnedQty(s)'[o]
    BY OwnedSum DEF StockInvariant
  <2> QED BY <2>1, <2>2
<1>3. StockConserved'
  <2> SUFFICES ASSUME NEW s \in Skus
               PROVE  onHand'[s] = InitialStock[s] + adjusted'[s] - SumOf(DeliveredQty(s))'
    BY DEF StockConserved
  <2>1. onHand[s] = InitialStock[s] + adjusted[s] - SumOf(DeliveredQty(s))
    BY DEF StockInvariant, StockConserved
  <2>2. /\ SumOf(DeliveredQty(s)) \in Nat /\ DeliveredQty(s)[o] \in Nat
        /\ SumOf(DeliveredQty(s))' =
             SumOf(DeliveredQty(s)) - DeliveredQty(s)[o] + DeliveredQty(s)'[o]
    BY DeliveredSum DEF StockInvariant
  <2>3. adjusted[s] \in Int /\ InitialStock[s] \in Int /\ DeliveredQty(s)'[o] \in Nat
    BY InventoryAssumption, TenantAssumption
    DEF StockInvariant, TypeOK, InventoryTypeOK, DeliveredQty
  <2> QED BY <2>1, <2>2, <2>3
<1> QED BY <1>1, <1>2, <1>3 DEF StockInvariant

\* A step in which every order keeps its reservations and stays reserving,
\* or not, delivered, or not.
LEMMA KeepStock ==
  ASSUME StockInvariant, TypeOK', UNCHANGED <<reserved, rsv>>,
         \A o \in Orders : status'[o] \in Reserving <=> status[o] \in Reserving,
         \A o \in Orders : status'[o] = "fulfilled" <=> status[o] = "fulfilled",
         \A s \in Skus : onHand'[s] - adjusted'[s] = onHand[s] - adjusted[s]
  PROVE  StockInvariant'
<1>1. ReservationsFollowOrder'
  BY DEF StockInvariant, ReservationsFollowOrder, Owned, Items
<1>2. ReservedIsOwned'
  <2>1. \A s \in Skus : OwnedQty(s)' = OwnedQty(s)
    BY DEF OwnedQty, Owned
  <2> QED BY <2>1 DEF StockInvariant, ReservedIsOwned, SumOf, Units, Slice
<1>3. StockConserved'
  <2> SUFFICES ASSUME NEW s \in Skus
               PROVE  onHand'[s] = InitialStock[s] + adjusted'[s] - SumOf(DeliveredQty(s))'
    BY DEF StockConserved
  <2>1. DeliveredQty(s)' = DeliveredQty(s)
    BY DEF DeliveredQty
  <2>2. SumOf(DeliveredQty(s))' = SumOf(DeliveredQty(s))
    BY <2>1 DEF SumOf, Units, Slice
  <2>3. onHand[s] = InitialStock[s] + adjusted[s] - SumOf(DeliveredQty(s))
    BY DEF StockInvariant, StockConserved
  <2>4. SumOf(DeliveredQty(s)) \in Nat
    <3>1. DeliveredQty(s) \in [Orders -> Nat] /\ IsFiniteSet(Orders)
      BY TenantAssumption DEF DeliveredQty
    <3> HIDE DEF DeliveredQty
    <3> QED BY <3>1, UnitsFinite
  <2>5. /\ adjusted[s] \in Int /\ InitialStock[s] \in Int /\ adjusted'[s] \in Int
        /\ onHand[s] \in Int /\ onHand'[s] \in Int
    BY InventoryAssumption DEF StockInvariant, TypeOK, InventoryTypeOK
  <2> QED BY <2>2, <2>3, <2>4, <2>5
<1> QED BY <1>1, <1>2, <1>3 DEF StockInvariant

\* One order command preserves the three invariants.
LEMMA CommandStock ==
  ASSUME StockInvariant, TypeOK', NEW o \in Orders, OrderCommand(o)
  PROVE  StockInvariant'
<1>1. /\ TypeOK
      /\ \A s \in Skus : /\ Qty[o][s] \in Nat /\ reserved[s] \in Nat /\ onHand[s] \in Nat
                         /\ adjusted[s] \in Int
      /\ status \in [Orders -> OrderStates \cup {"absent"}]
      /\ rsv \in [Orders -> [Skus -> ReservationStatus]]
      /\ Owned(o) = IF status[o] \in Reserving THEN Items(o) ELSE {}
  BY TenantAssumption
  DEF StockInvariant, ReservationsFollowOrder, TypeOK, InventoryTypeOK
<1>2. \A s \in Skus : s \notin Items(o) => Qty[o][s] = 0
  BY <1>1 DEF Items
<1>3. Items(o) \subseteq Skus
  BY DEF Items
<1>4. CASE CreateOrder(o)
  BY <1>1, <1>4, KeepStock DEF CreateOrder, AssignStatus, Reserving, invVars
<1>5. CASE ConfirmOrder(o)
  <2>1. status[o] = "draft" /\ status'[o] = "confirmed" /\ Owned(o) = {}
    BY <1>1, <1>5, Edges DEF ConfirmOrder, AssignStatus, Reserving
  <2>2. \A p \in Orders \ {o} : status'[p] = status[p] /\ rsv'[p] = rsv[p]
    BY <1>1, <1>5 DEF ConfirmOrder, Reserve, MarkReservations, AssignStatus
  <2>3. Owned(o)' = Items(o)
    BY <1>1, <1>3, <1>5, <2>1 DEF ConfirmOrder, Reserve, MarkReservations, Owned
  <2>4. \A s \in Skus : OwnedQty(s)[o] = 0 /\ OwnedQty(s)'[o] = Qty[o][s]
    BY <1>2, <2>1, <2>3 DEF OwnedQty
  <2>5. \A s \in Skus : DeliveredQty(s)[o] = 0 /\ DeliveredQty(s)'[o] = 0
    BY <2>1 DEF DeliveredQty
  <2> QED BY <1>1, <1>5, <2>1, <2>2, <2>3, <2>4, <2>5, MoveOrder
          DEF ConfirmOrder, Reserve, Reserving
<1>6. CASE CancelOrder(o)
  <2>1. status'[o] = "cancelled" /\ status[o] # "fulfilled"
    BY <1>1, <1>6, Edges DEF CancelOrder, AssignStatus
  <2>2. \A p \in Orders \ {o} : status'[p] = status[p] /\ rsv'[p] = rsv[p]
    BY <1>1, <1>6 DEF CancelOrder, Release, MarkReservations, AssignStatus
  <2>3. Owned(o)' = {}
    BY <1>1, <1>6 DEF CancelOrder, Release, MarkReservations, Owned
  <2>4. \A s \in Skus : /\ OwnedQty(s)[o] = IF s \in Owned(o) THEN Qty[o][s] ELSE 0
                        /\ OwnedQty(s)'[o] = 0
    BY <2>3 DEF OwnedQty
  <2>5. \A s \in Skus : DeliveredQty(s)[o] = 0 /\ DeliveredQty(s)'[o] = 0
    BY <2>1 DEF DeliveredQty
  <2>6. Owned(o)' = IF status'[o] \in Reserving THEN Items(o) ELSE {}
    BY <2>1, <2>3 DEF Reserving
  <2>7. \A s \in Skus : reserved'[s] = reserved[s] - OwnedQty(s)[o] + OwnedQty(s)'[o]
    BY <1>1, <1>6, <2>4 DEF CancelOrder, Release, Unreserve
  <2> QED BY <1>1, <1>6, <2>2, <2>5, <2>6, <2>7, MoveOrder DEF CancelOrder, Release
<1>7. CASE FulfillOrder(o)
  <2>1. status[o] = "paid" /\ status'[o] = "fulfilled" /\ Owned(o) = Items(o)
    BY <1>1, <1>7, Edges DEF FulfillOrder, AssignStatus, Reserving
  <2>2. \A p \in Orders \ {o} : status'[p] = status[p] /\ rsv'[p] = rsv[p]
    BY <1>1, <1>7 DEF FulfillOrder, Consume, MarkReservations, AssignStatus
  <2>3. Owned(o)' = {}
    BY <1>1, <1>7, <2>1 DEF FulfillOrder, Consume, MarkReservations, Owned
  <2>4. \A s \in Skus : OwnedQty(s)[o] = Qty[o][s] /\ OwnedQty(s)'[o] = 0
    BY <1>2, <2>1, <2>3 DEF OwnedQty
  <2>5. \A s \in Skus : DeliveredQty(s)[o] = 0 /\ DeliveredQty(s)'[o] = Qty[o][s]
    BY <2>1 DEF DeliveredQty
  <2>6. Owned(o)' = IF status'[o] \in Reserving THEN Items(o) ELSE {}
    BY <2>1, <2>3 DEF Reserving
  <2>7. \A s \in Skus : reserved'[s] = reserved[s] - OwnedQty(s)[o] + OwnedQty(s)'[o]
    BY <1>1, <1>2, <1>7, <2>1, <2>4 DEF FulfillOrder, Consume, Unreserve
  <2> QED BY <1>1, <1>7, <2>2, <2>5, <2>6, <2>7, MoveOrder DEF FulfillOrder, Consume
<1>8. CASE ReturnOrder(o)
  <2>1. status[o] = "fulfilled" /\ status'[o] = "returned" /\ Owned(o) = {}
    BY <1>1, <1>8, Edges DEF ReturnOrder, AssignStatus, Reserving
  <2>2. \A p \in Orders \ {o} : status'[p] = status[p] /\ rsv'[p] = rsv[p]
    BY <1>1, <1>8 DEF ReturnOrder, Restock, AssignStatus
  <2>3. Owned(o)' = {}
    BY <1>8, <2>1 DEF ReturnOrder, Restock, Owned
  <2>4. \A s \in Skus : OwnedQty(s)[o] = 0 /\ OwnedQty(s)'[o] = 0
    BY <2>1, <2>3 DEF OwnedQty
  <2>5. \A s \in Skus : DeliveredQty(s)[o] = Qty[o][s] /\ DeliveredQty(s)'[o] = 0
    BY <2>1 DEF DeliveredQty
  <2>6. Owned(o)' = IF status'[o] \in Reserving THEN Items(o) ELSE {}
    BY <2>1, <2>3 DEF Reserving
  <2> QED BY <1>1, <1>8, <2>2, <2>4, <2>5, <2>6, MoveOrder DEF ReturnOrder, Restock
<1> QED BY <1>4, <1>5, <1>6, <1>7, <1>8 DEF OrderCommand

-----------------------------------------------------------------------------

LEMMA StockInit == Init => StockInvariant
<1> SUFFICES ASSUME Init PROVE StockInvariant
  OBVIOUS
<1>1. ReservationsFollowOrder
  BY DEF Init, InventoryInit, ReservationsFollowOrder, Owned, Reserving
<1>2. ASSUME NEW f \in [Orders -> Nat], \A o \in Orders : f[o] = 0 PROVE SumOf(f) = 0
  BY <1>2, TenantAssumption, SumZero
<1>3. ASSUME NEW s \in Skus PROVE SumOf(OwnedQty(s)) = 0 /\ SumOf(DeliveredQty(s)) = 0
  <2>1. \A o \in Orders : OwnedQty(s)[o] = 0 /\ DeliveredQty(s)[o] = 0
    BY DEF Init, InventoryInit, OwnedQty, DeliveredQty, Owned
  <2>2. OwnedQty(s) \in [Orders -> Nat] /\ DeliveredQty(s) \in [Orders -> Nat]
    BY TenantAssumption DEF OwnedQty, DeliveredQty
  <2> QED BY <1>2, <2>1, <2>2
<1>4. ReservedIsOwned
  BY <1>3 DEF Init, InventoryInit, ReservedIsOwned
<1>5. StockConserved
  <2> SUFFICES ASSUME NEW s \in Skus
               PROVE  onHand[s] = InitialStock[s] + adjusted[s] - SumOf(DeliveredQty(s))
    BY DEF StockConserved
  <2>1. onHand[s] = InitialStock[s] /\ adjusted[s] = 0 /\ InitialStock[s] \in Int
    BY InventoryAssumption DEF Init, InventoryInit
  <2> QED BY <1>3, <2>1
<1> QED BY <1>1, <1>4, <1>5, TypeInit DEF StockInvariant

LEMMA StockStep == StockInvariant /\ [Next]_vars => StockInvariant'
<1> SUFFICES ASSUME StockInvariant, [Next]_vars PROVE StockInvariant'
  OBVIOUS
<1>1. /\ TypeOK /\ TypeOK'
      /\ status \in [Orders -> OrderStates \cup {"absent"}]
      /\ \A s \in Skus : onHand[s] \in Int /\ adjusted[s] \in Int
  BY TypeStep DEF StockInvariant, TypeOK, InventoryTypeOK
<1>2. CASE UNCHANGED vars
  BY <1>1, <1>2, KeepStock DEF vars, invVars
<1>3. ASSUME NEW o \in Orders, UNCHANGED invVars,
             \/ UNCHANGED status
             \/ /\ status[o] \in {"confirmed", "partially_paid"}
                /\ \E target \in {"partially_paid", "paid"} : AssignStatus(o, target)
      PROVE  StockInvariant'
  BY <1>1, <1>3, KeepStock DEF invVars, AssignStatus, Reserving
<1>4. ASSUME NEW k \in Keys, NEW o \in Orders, NEW a \in Nat \ {0}, NEW m \in Settling,
             NEW x \in References \cup {NoReference}, NEW force \in BOOLEAN,
             Settle(k, o, a, m, x, force) \/ SellOnCredit(k, o, x) \/ Collect(k, o, a, m, x, force),
             UNCHANGED invVars
      PROVE  StockInvariant'
  <2>1. CASE Settle(k, o, a, m, x, force)
    BY <1>3, <1>4, <2>1 DEF Settle
  <2>2. CASE SellOnCredit(k, o, x)
    BY <1>3, <1>4, <2>2 DEF SellOnCredit
  <2>3. CASE Collect(k, o, a, m, x, force)
    BY <1>3, <1>4, <2>3 DEF Collect
  <2> QED BY <1>4, <2>1, <2>2, <2>3
<1>5. ASSUME NEW d \in Decls, Declaration(d), ~ConfirmDeclaration(d) PROVE StockInvariant'
  <2>1. UNCHANGED <<status, invVars>>
    BY <1>5 DEF Declaration, SubmitDeclaration, RejectDeclaration
  <2> QED BY <1>1, <2>1, KeepStock DEF invVars
<1>6. ASSUME Upkeep PROVE StockInvariant'
  <2>1. UNCHANGED <<status, reserved, rsv>>
    BY <1>6 DEF Upkeep, AdjustStock, Adjust, UpdateSku, SetSkuActive, Deactivate, invVars
  <2>2. \A s \in Skus : onHand'[s] - adjusted'[s] = onHand[s] - adjusted[s]
    <3>1. CASE \E s \in Skus : \E q \in (-MaxStock) .. MaxStock : AdjustStock(s, q)
      <4>1. PICK s \in Skus : \E q \in (-MaxStock) .. MaxStock : AdjustStock(s, q)
        BY <3>1
      <4>2. PICK q \in (-MaxStock) .. MaxStock : AdjustStock(s, q)
        BY <4>1
      <4>3. q \in Int
        OBVIOUS
      <4>4. /\ onHand' = [onHand EXCEPT ![s] = @ + q]
            /\ adjusted' = [adjusted EXCEPT ![s] = @ + q]
        BY <4>2 DEF AdjustStock, Adjust
      <4> QED BY <1>1, <4>3, <4>4 DEF TypeOK, InventoryTypeOK
    <3>2. CASE \/ \E s \in Skus, flag \in BOOLEAN : UpdateSku(s, flag)
               \/ \E r \in Retailers : Deactivate(r)
      BY <3>2 DEF UpdateSku, SetSkuActive, Deactivate, invVars
    <3> QED BY <1>6, <3>1, <3>2 DEF Upkeep
  <2> QED BY <1>1, <2>1, <2>2, KeepStock
<1>7. CASE Next
  BY <1>1, <1>4, <1>5, <1>6, <1>7, StepCases, CommandStock
<1> QED BY <1>2, <1>7

\* The aggregate reserved quantity always equals the active reservation rows.
THEOREM ReservationsAreExact == Spec => [](ReservedIsOwned /\ ReservationsFollowOrder)
<1>1. StockInvariant => ReservedIsOwned /\ ReservationsFollowOrder
  BY DEF StockInvariant
<1> QED BY <1>1, StockInit, StockStep, PTL DEF Spec

\* No command creates or loses goods.
THEOREM GoodsAreConserved == Spec => []StockConserved
<1>1. StockInvariant => StockConserved
  BY DEF StockInvariant
<1> QED BY <1>1, StockInit, StockStep, PTL DEF Spec

-----------------------------------------------------------------------------
(***************************************************************************)
(* Credit.  A command moves one order, and a total or a cache by that      *)
(* order's entry; that the guards of the code find what they expect        *)
(* follows only from the contract between the order's state, its hold and  *)
(* its payments (HoldOK), so the contract, the cache and the ledger are    *)
(* proved together.                                                        *)
(***************************************************************************)

\* HoldFollowsOrder and LedgerMatchesPayments for one order.
HoldOK(o) ==
  /\ status[o] \in {"absent", "draft"} => hold[o] = NoHold /\ Unpaid(o)
  /\ status[o] \in {"confirmed", "partially_paid"} =>
       /\ ActiveHoldMatches(o)
       /\ CreditRows(o) = {}
       /\ PaidTotal(o) < Total[o]
       /\ status[o] = "confirmed" <=> PaidTotal(o) = 0
  /\ status[o] \in Closed => SettledInFull(o) \/ SoldOnCredit(o)
  /\ status[o] = "cancelled" =>
       hold[o] \in {NoHold, [status |-> "released", remaining |-> 0]} /\ Unpaid(o)
  /\ status[o] # "voided"

LedgerOK(o) ==
  /\ ledger[o]["cash"] = Received(o) - Refunded(o)
  /\ ledger[o]["receivable"] = -Received(o)
  /\ ledger[o]["revenue"] = Refunded(o)

CreditInvariant ==
  /\ TypeOK
  /\ \A o \in Orders : HoldOK(o) /\ LedgerOK(o)
  /\ BindingIsExposure

-----------------------------------------------------------------------------
\* What a payment does to the totals

\* The payment row that Record inserts, and the other rows keep what is summed.
LEMMA RecordRows ==
  ASSUME PaymentTypeOK, NEW k \in Keys, NEW o \in Orders, NEW a \in Nat \ {0},
         NEW m \in Methods, NEW x \in References \cup {NoReference},
         NEW st \in {"pending", "completed"}, NEW withReceipt, NEW settleOrder,
         Record(k, Row(o, a, m, x, st), withReceipt, settleOrder)
  PROVE  /\ payments[k].order = NoOrder /\ payments[k].amount = 0
         /\ payments'[k].order = o /\ payments'[k].amount = a /\ payments'[k].method = m
         /\ \A j \in Keys \ {k} : /\ payments'[j].order = payments[j].order
                                  /\ payments'[j].amount = payments[j].amount
                                  /\ payments'[j].method = payments[j].method
<1> DEFINE receipt == IF withReceipt /\ st = "completed" THEN NextReceipt ELSE 0
           row == [order |-> o, amount |-> a, method |-> m, reference |-> x,
                   status |-> st, receipt |-> receipt]
           inserted == [payments EXCEPT ![k] = row]
           Settles(j) == /\ settleOrder
                         /\ inserted[j].order = o
                         /\ inserted[j].method \in Settling
                         /\ inserted[j].status = "pending"
<1>1. [Row(o, a, m, x, st) EXCEPT !.receipt = receipt] = row
  BY DEF Row
<1>2. payments' = [j \in Keys |-> IF Settles(j) THEN [inserted[j] EXCEPT !.status = "completed"]
                                  ELSE inserted[j]]
  BY <1>1 DEF Record, Row
<1>3. /\ payments[k] = NoPayment
      /\ payments \in [Keys -> PaymentRow \cup {NoPayment}]
  BY DEF Record, FreshKey, PaymentTypeOK
<1>4. inserted[k] = row /\ \A j \in Keys \ {k} : inserted[j] = payments[j]
  BY <1>3
<1>5. /\ row.order = o /\ row.amount = a /\ row.method = m
      /\ \A j \in Keys : /\ inserted[j].order = [inserted[j] EXCEPT !.status = "completed"].order
                         /\ inserted[j].amount = [inserted[j] EXCEPT !.status = "completed"].amount
                         /\ inserted[j].method = [inserted[j] EXCEPT !.status = "completed"].method
  <2>1. ASSUME NEW j \in Keys
        PROVE inserted[j] \in [order : Orders \cup {NoOrder}, amount : Nat,
                               method : Methods \cup {"none"},
                               reference : References \cup {NoReference},
                               status : {"pending", "completed", "none"}, receipt : {receipt} \cup Nat]
    <3>1. CASE j = k
      BY <3>1, <1>4
    <3>2. CASE j # k
      BY <3>2, <1>3, <1>4 DEF PaymentRow, NoPayment
    <3> QED
      BY <3>1, <3>2
  <2> HIDE DEF inserted
  <2> QED
    BY <2>1
<1> HIDE DEF inserted, row, Settles, receipt
<1>6. \A j \in Keys : /\ payments'[j].order = inserted[j].order
                      /\ payments'[j].amount = inserted[j].amount
                      /\ payments'[j].method = inserted[j].method
  BY <1>2, <1>5
<1> QED
  BY <1>3, <1>4, <1>5, <1>6 DEF NoPayment

\* The totals of another order stay, and those of o grow by the amount.
LEMMA CountedMoves ==
  ASSUME PaymentTypeOK, PaymentTypeOK', NEW k \in Keys, NEW o \in Orders, NEW a \in Nat \ {0},
         NEW m \in Methods, NEW x \in References \cup {NoReference},
         NEW st \in {"pending", "completed"}, NEW withReceipt, NEW settleOrder,
         Record(k, Row(o, a, m, x, st), withReceipt, settleOrder),
         NEW p \in Orders, NEW methods
  PROVE  SumOf(Counted(p, methods))' =
           SumOf(Counted(p, methods)) + (IF p = o /\ m \in methods THEN a ELSE 0)
<1> DEFINE f == Counted(p, methods)
           g == Counted(p, methods)'
<1>1. f \in [Keys -> Nat] /\ g \in [Keys -> Nat] /\ SumOf(f) \in Nat
  <2>1. \A j \in Keys : payments[j].amount \in Nat /\ payments'[j].amount \in Nat
    BY DEF PaymentTypeOK, PaymentRow, NoPayment
  <2>2. f \in [Keys -> Nat] /\ g \in [Keys -> Nat]
    BY <2>1 DEF Counted
  <2>3. SumOf(f) \in Nat
    BY CountedType
  <2> QED
    BY <2>2, <2>3
<1>2. /\ \A j \in Keys \ {k} : g[j] = f[j]
      /\ f[k] = 0
      /\ g[k] = IF p = o /\ m \in methods THEN a ELSE 0
  <2>1. /\ payments[k].order = NoOrder /\ payments[k].amount = 0
        /\ payments'[k].order = o /\ payments'[k].amount = a /\ payments'[k].method = m
        /\ \A j \in Keys \ {k} : /\ payments'[j].order = payments[j].order
                                 /\ payments'[j].amount = payments[j].amount
                                 /\ payments'[j].method = payments[j].method
    BY RecordRows
  <2>2. NoOrder # p
    BY TenantAssumption
  <2> QED
    BY <2>1, <2>2 DEF Counted
<1>3. SumOf(Counted(p, methods))' = SumOf(g)
  BY DEF SumOf, Units, Slice
<1> HIDE DEF f, g
<1>4. SumOf(g) = SumOf(f) - f[k] + g[k]
  BY <1>1, <1>2, KeysFinite, SumChange
<1> QED
  BY <1>1, <1>2, <1>3, <1>4 DEF f

LEMMA TotalsMove ==
  ASSUME PaymentTypeOK, PaymentTypeOK', NEW k \in Keys, NEW o \in Orders, NEW a \in Nat \ {0},
         NEW m \in Methods, NEW x \in References \cup {NoReference},
         NEW st \in {"pending", "completed"}, NEW withReceipt, NEW settleOrder,
         Record(k, Row(o, a, m, x, st), withReceipt, settleOrder)
  PROVE  /\ \A p \in Orders \ {o} : /\ PaidTotal(p)' = PaidTotal(p)
                                    /\ CreditTotal(p)' = CreditTotal(p)
                                    /\ CreditRows(p)' = CreditRows(p)
         /\ m \in Settling => /\ PaidTotal(o)' = PaidTotal(o) + a
                              /\ CreditTotal(o)' = CreditTotal(o)
                              /\ CreditRows(o)' = CreditRows(o)
         /\ m = "credit" => /\ PaidTotal(o)' = PaidTotal(o)
                            /\ CreditTotal(o)' = CreditTotal(o) + a
                            /\ CreditRows(o)' = CreditRows(o) \cup {k}
<1>1. \A p \in Orders : PaidTotal(p) \in Nat /\ CreditTotal(p) \in Nat
  BY TotalsAreNaturals
<1>2. \A p \in Orders :
        /\ PaidTotal(p)' = PaidTotal(p) + (IF p = o /\ m \in Settling THEN a ELSE 0)
        /\ CreditTotal(p)' = CreditTotal(p) + (IF p = o /\ m \in {"credit"} THEN a ELSE 0)
  BY CountedMoves DEF PaidTotal, CreditTotal
<1>3. \A p \in Orders : CreditRows(p)' = IF p = o /\ m = "credit" THEN CreditRows(p) \cup {k}
                                         ELSE CreditRows(p)
  BY RecordRows, TenantAssumption DEF CreditRows
<1>4. "credit" \notin Settling
  BY DEF Settling
<1> QED
  BY <1>1, <1>2, <1>3, <1>4

\* An order without a credit row has no credit total.
LEMMA NoCreditRows ==
  ASSUME PaymentTypeOK, NEW o \in Orders, CreditRows(o) = {}
  PROVE  CreditTotal(o) = 0
<1> DEFINE f == Counted(o, {"credit"})
<1>1. f \in [Keys -> Nat]
  BY CountedType
<1>2. \A k \in Keys : f[k] = 0
  BY DEF CreditRows, Counted
<1> HIDE DEF f
<1>3. SumOf(f) = 0
  BY <1>1, <1>2, KeysFinite, SumZero
<1> QED
  BY <1>3 DEF f, CreditTotal

-----------------------------------------------------------------------------
\* What an order owes

LEMMA ExposureType ==
  ASSUME TypeOK, NEW o \in Orders, HoldOK(o)
  PROVE  Exposure(o) \in Nat
<1>1. /\ PaidTotal(o) \in Nat /\ CreditTotal(o) \in Nat
      /\ hold[o] \in HoldRow /\ status[o] \in OrderStates \cup {"absent"}
      /\ Total[o] \in Nat
  BY TotalsAreNaturals, TenantAssumption DEF TypeOK, CreditTypeOK
<1>2. hold[o].remaining \in Nat
  BY <1>1 DEF HoldRow
<1>3. ASSUME hold[o].status = "converted" PROVE SoldOnCredit(o)
  <2>1. status[o] \in Closed
    BY <1>1, <1>3 DEF HoldOK, ActiveHoldMatches, NoHold, OrderStates, Closed
  <2> QED
    BY <1>3, <2>1 DEF HoldOK, SettledInFull
<1> QED
  BY <1>1, <1>2, <1>3 DEF Exposure, CreditExposure, SoldOnCredit

LEMMA ExposureTypes ==
  TypeOK /\ (\A p \in Orders : HoldOK(p)) => \A p \in Orders : Exposure(p) \in Nat
  BY ExposureType

LEMMA ExposureTypesNext ==
  TypeOK' /\ (\A p \in Orders : HoldOK(p)') => \A p \in Orders : Exposure(p)' \in Nat
<1>1. (TypeOK /\ (\A p \in Orders : HoldOK(p)) => \A p \in Orders : Exposure(p) \in Nat)'
  BY ExposureTypes, PTL
<1> QED
  BY <1>1

\* The entry of one order moves the sum of its retailer, and of nobody else.
LEMMA ExposureSum ==
  ASSUME TypeOK, TypeOK', \A p \in Orders : HoldOK(p), \A p \in Orders : HoldOK(p)',
         NEW o \in Orders, NEW r \in Retailers,
         \A p \in Orders \ {o} : Exposure(p)' = Exposure(p)
  PROVE  /\ SumOf(ExposureOf(r)) \in Nat
         /\ RetailerOf[o] = r =>
              /\ SumOf(ExposureOf(r))' = SumOf(ExposureOf(r)) - Exposure(o) + Exposure(o)'
              /\ Exposure(o) <= SumOf(ExposureOf(r))
         /\ RetailerOf[o] # r => SumOf(ExposureOf(r))' = SumOf(ExposureOf(r))
<1> DEFINE f == ExposureOf(r)
           g == ExposureOf(r)'
<1>1. /\ \A p \in Orders : Exposure(p) \in Nat /\ Exposure(p)' \in Nat
      /\ IsFiniteSet(Orders)
  BY ExposureTypes, ExposureTypesNext, TenantAssumption
<1>2. /\ f \in [Orders -> Nat] /\ g \in [Orders -> Nat]
      /\ \A p \in Orders \ {o} : g[p] = f[p]
      /\ RetailerOf[o] = r => f[o] = Exposure(o) /\ g[o] = Exposure(o)'
      /\ RetailerOf[o] # r => f[o] = 0 /\ g[o] = 0
  BY <1>1 DEF ExposureOf
<1>3. SumOf(g) = SumOf(ExposureOf(r))'
  BY DEF SumOf, Units, Slice
<1> HIDE DEF f, g
<1>4. /\ SumOf(f) \in Nat /\ f[o] \in Nat /\ g[o] \in Nat /\ f[o] <= SumOf(f)
      /\ SumOf(g) = SumOf(f) - f[o] + g[o]
  BY <1>1, <1>2, UnitsFinite, SumAtLeast, SumChange
<1> QED
  BY <1>2, <1>3, <1>4 DEF f

-----------------------------------------------------------------------------
\* Steps

\* A step that moves one order, and its retailer's binding by what it owes.
OthersStay(o) ==
  \A p \in Orders \ {o} :
    /\ status'[p] = status[p] /\ hold'[p] = hold[p] /\ ledger'[p] = ledger[p]
    /\ PaidTotal(p)' = PaidTotal(p) /\ CreditTotal(p)' = CreditTotal(p)
    /\ CreditRows(p)' = CreditRows(p)

Moves(o, delta) ==
  /\ Exposure(o)' = Exposure(o) + delta
  /\ outstanding' = [outstanding EXCEPT ![RetailerOf[o]] = outstanding[RetailerOf[o]] + delta]

LEMMA MoveExposure ==
  ASSUME CreditInvariant, TypeOK', NEW o \in Orders, HoldOK(o)', LedgerOK(o)',
         OthersStay(o), NEW delta \in Int, Moves(o, delta)
  PROVE  CreditInvariant'
<1>1. ASSUME NEW p \in Orders \ {o}
      PROVE  HoldOK(p)' /\ LedgerOK(p)' /\ Exposure(p)' = Exposure(p)
  <2>1. HoldOK(p) /\ LedgerOK(p)
    BY DEF CreditInvariant
  <2>2. HoldOK(p)'
    BY <2>1 DEF OthersStay, HoldOK, Unpaid, ActiveHoldMatches, Unsettled, SettledInFull, SoldOnCredit
  <2>3. LedgerOK(p)'
    BY <2>1 DEF OthersStay, LedgerOK, Received, Refunded
  <2>4. Exposure(p)' = Exposure(p)
    BY DEF OthersStay, Exposure, CreditExposure
  <2> QED
    BY <2>2, <2>3, <2>4
<1>2. BindingIsExposure'
  <2> SUFFICES ASSUME NEW r \in Retailers PROVE outstanding'[r] = SumOf(ExposureOf(r))'
    BY DEF BindingIsExposure
  <2>1. outstanding[r] = SumOf(ExposureOf(r))
    BY DEF CreditInvariant, BindingIsExposure
  <2>2. Exposure(o) \in Nat /\ outstanding \in [Retailers -> Nat]
    BY ExposureType DEF CreditInvariant, TypeOK, CreditTypeOK
  <2>3. /\ SumOf(ExposureOf(r)) \in Nat
        /\ RetailerOf[o] = r =>
             SumOf(ExposureOf(r))' = SumOf(ExposureOf(r)) - Exposure(o) + Exposure(o)'
        /\ RetailerOf[o] # r => SumOf(ExposureOf(r))' = SumOf(ExposureOf(r))
    BY <1>1, ExposureSum DEF CreditInvariant
  <2>4. RetailerOf[o] \in Retailers
    BY TenantAssumption
  <2>5. /\ RetailerOf[o] = r => outstanding'[r] = outstanding[r] + delta
        /\ RetailerOf[o] # r => outstanding'[r] = outstanding[r]
    BY <2>2, <2>4 DEF Moves
  <2>6. CASE RetailerOf[o] = r
    BY <2>1, <2>2, <2>3, <2>5, <2>6 DEF Moves
  <2>7. CASE RetailerOf[o] # r
    BY <2>1, <2>3, <2>5, <2>7
  <2> QED
    BY <2>6, <2>7
<1> QED
  BY <1>1, <1>2 DEF CreditInvariant

\* A step that changes nothing the invariant reads.
LEMMA KeepCredit ==
  ASSUME CreditInvariant, TypeOK', UNCHANGED <<status, hold, outstanding, payments, ledger>>
  PROVE  CreditInvariant'
<1>1. \A p \in Orders : /\ PaidTotal(p)' = PaidTotal(p) /\ CreditTotal(p)' = CreditTotal(p)
                        /\ CreditRows(p)' = CreditRows(p)
  BY DEF PaidTotal, CreditTotal, CreditRows, Counted, SumOf, Units, Slice
<1>2. \A p \in Orders : HoldOK(p)' /\ LedgerOK(p)'
  BY <1>1 DEF CreditInvariant, HoldOK, LedgerOK, Unpaid, ActiveHoldMatches, Unsettled,
     SettledInFull, SoldOnCredit, Received, Refunded
<1>3. \A p \in Orders : Exposure(p)' = Exposure(p)
  BY <1>1 DEF Exposure, CreditExposure
<1>4. \A r \in Retailers : ExposureOf(r)' = ExposureOf(r)
  BY <1>3 DEF ExposureOf
<1>5. BindingIsExposure'
  BY <1>4 DEF CreditInvariant, BindingIsExposure, SumOf, Units, Slice
<1> QED
  BY <1>2, <1>5 DEF CreditInvariant

\* What holds of one order before a step.
LEMMA OrderFacts ==
  ASSUME CreditInvariant, NEW o \in Orders
  PROVE  /\ TypeOK
         /\ HoldOK(o) /\ LedgerOK(o)
         /\ status \in [Orders -> OrderStates \cup {"absent"}]
         /\ hold \in [Orders -> HoldRow]
         /\ outstanding \in [Retailers -> Nat]
         /\ ledger \in [Orders -> [Accounts -> Int]]
         /\ RetailerOf[o] \in Retailers
         /\ Total[o] \in Nat \ {0}
         /\ PaidTotal(o) \in Nat /\ CreditTotal(o) \in Nat
         /\ Exposure(o) \in Nat
  BY ExposureType, TotalsAreNaturals, TenantAssumption
  DEF CreditInvariant, TypeOK, CreditTypeOK, LedgerTypeOK

\* A command that records no payment leaves all totals alone.
LEMMA SameTotals ==
  ASSUME UNCHANGED payments
  PROVE  \A p \in Orders : /\ PaidTotal(p)' = PaidTotal(p) /\ CreditTotal(p)' = CreditTotal(p)
                           /\ CreditRows(p)' = CreditRows(p)
  BY DEF PaidTotal, CreditTotal, CreditRows, Counted, SumOf, Units, Slice

LEMMA ConfirmCredit ==
  ASSUME CreditInvariant, TypeOK', NEW o \in Orders, ConfirmOrder(o)
  PROVE  /\ CreditInvariant'
         /\ hold[o] = NoHold /\ hold'[o] # NoHold
         /\ OthersStay(o) /\ Moves(o, Total[o])
<1> USE OrderFacts
<1> DEFINE new == [status |-> "active", remaining |-> Total[o]]
<1>1. /\ status[o] = "draft" /\ status' = [status EXCEPT ![o] = "confirmed"]
      /\ hold[o] = NoHold /\ hold' = [hold EXCEPT ![o] = new]
      /\ outstanding' = [outstanding EXCEPT ![RetailerOf[o]] = @ + Total[o]]
      /\ ledger' = ledger /\ payments' = payments
  BY Edges DEF ConfirmOrder, AssignStatus, OpenHold, AddToBinding, paymentVars
<1>2. /\ status'[o] = "confirmed" /\ hold'[o] = new /\ ledger'[o] = ledger[o]
      /\ \A p \in Orders \ {o} : status'[p] = status[p] /\ hold'[p] = hold[p]
  BY <1>1
<1>3. /\ PaidTotal(o) = 0 /\ CreditRows(o) = {}
      /\ PaidTotal(o)' = 0 /\ CreditRows(o)' = {}
  BY <1>1, SameTotals DEF HoldOK, Unpaid
<1>4. HoldOK(o)' /\ LedgerOK(o)'
  BY <1>1, <1>2, <1>3 DEF HoldOK, LedgerOK, ActiveHoldMatches, Unsettled, Received, Refunded, Closed
<1>5. Exposure(o) = 0 /\ Exposure(o)' = Total[o]
  BY <1>1, <1>2 DEF Exposure, NoHold
<1>6. OthersStay(o)
  BY <1>1, <1>2, SameTotals DEF OthersStay
<1>7. Moves(o, Total[o]) /\ Total[o] \in Int
  BY <1>1, <1>5 DEF Moves
<1>8. hold'[o] # NoHold
  BY <1>2 DEF NoHold
<1> QED
  BY <1>1, <1>4, <1>6, <1>7, <1>8, MoveExposure

LEMMA CancelCredit ==
  ASSUME CreditInvariant, TypeOK', NEW o \in Orders, CancelOrder(o)
  PROVE  /\ CreditInvariant'
         /\ \/ UNCHANGED <<creditVars, payments>>
            \/ /\ hold[o] # NoHold /\ hold'[o] # NoHold
               /\ Exposure(o) = Total[o] /\ OthersStay(o) /\ Moves(o, -Total[o])
<1> USE OrderFacts
<1> DEFINE new == [status |-> "released", remaining |-> 0]
<1>1. /\ status[o] \in {"draft", "confirmed"} /\ status' = [status EXCEPT ![o] = "cancelled"]
      /\ ledger' = ledger /\ payments' = payments
      /\ SettleCancelHold(o, status[o])
  BY Edges DEF CancelOrder, AssignStatus, paymentVars
<1>2. /\ status'[o] = "cancelled" /\ ledger'[o] = ledger[o]
      /\ \A p \in Orders \ {o} : status'[p] = status[p]
  BY <1>1
<1>3. LedgerOK(o)'
  BY <1>1, <1>2 DEF LedgerOK, Received, Refunded, Closed
<1>4. CASE status[o] = "draft"
  <2>1. hold[o] = NoHold /\ UNCHANGED creditVars
    BY <1>1, <1>4 DEF SettleCancelHold
  <2>2. HoldOK(o)'
    BY <1>2, <1>4, <1>1, <2>1, SameTotals DEF HoldOK, Unpaid, Closed, creditVars
  <2>3. Moves(o, 0)
    BY <2>1 DEF Moves, Exposure, NoHold, creditVars
  <2>4. OthersStay(o)
    BY <1>1, <1>2, <2>1, SameTotals DEF OthersStay, creditVars
  <2> QED
    BY <1>1, <1>3, <2>1, <2>2, <2>3, <2>4, MoveExposure
<1>5. CASE status[o] = "confirmed"
  <2>1. /\ hold[o] = [status |-> "active", remaining |-> Total[o]]
        /\ hold' = [hold EXCEPT ![o] = new]
        /\ outstanding' = [outstanding EXCEPT ![RetailerOf[o]] = @ + (-Total[o])]
    BY <1>1, <1>5 DEF SettleCancelHold, AddToBinding
  <2>2. hold'[o] = new /\ \A p \in Orders \ {o} : hold'[p] = hold[p]
    BY <2>1
  <2>3. HoldOK(o)'
    BY <1>1, <1>2, <1>5, <2>2, SameTotals DEF HoldOK, Unpaid, Closed
  <2>4. Exposure(o) = Total[o] /\ Exposure(o)' = 0
    BY <2>1, <2>2 DEF Exposure
  <2>5. Moves(o, -Total[o]) /\ -Total[o] \in Int
    BY <2>1, <2>4 DEF Moves
  <2>6. OthersStay(o)
    BY <1>1, <1>2, <2>2, SameTotals DEF OthersStay
  <2>7. CreditInvariant'
    BY <1>3, <2>3, <2>5, <2>6, MoveExposure
  <2>8. hold[o] # NoHold /\ hold'[o] # NoHold
    BY <2>1, <2>2 DEF NoHold
  <2> QED
    BY <2>4, <2>5, <2>6, <2>7, <2>8
<1> QED
  BY <1>1, <1>4, <1>5

\* Creation, fulfilment and return: the hold and the payments stay.
LEMMA GoodsCredit ==
  ASSUME CreditInvariant, TypeOK', NEW o \in Orders,
         CreateOrder(o) \/ FulfillOrder(o) \/ ReturnOrder(o)
  PROVE  CreditInvariant' /\ UNCHANGED <<creditVars, payments>>
<1> USE OrderFacts
<1>1. /\ \/ status[o] = "absent" /\ AssignStatus(o, "draft") /\ ledger' = ledger
         \/ status[o] = "paid" /\ AssignStatus(o, "fulfilled") /\ ledger' = ledger
         \/ status[o] = "fulfilled" /\ AssignStatus(o, "returned") /\ PostOrderReturn(o, Total[o])
      /\ payments' = payments /\ UNCHANGED creditVars
  BY Edges DEF CreateOrder, FulfillOrder, ReturnOrder, paymentVars
<1>2. /\ hold' = hold /\ outstanding' = outstanding
      /\ \A p \in Orders \ {o} : status'[p] = status[p]
      /\ \/ status[o] = "absent" /\ status'[o] = "draft"
         \/ status[o] = "paid" /\ status'[o] = "fulfilled"
         \/ status[o] = "fulfilled" /\ status'[o] = "returned"
  BY <1>1 DEF creditVars, AssignStatus
<1>3. HoldOK(o)'
  BY <1>1, <1>2, SameTotals DEF HoldOK, Unpaid, SettledInFull, SoldOnCredit, Closed
<1>4. /\ \A p \in Orders \ {o} : ledger'[p] = ledger[p]
      /\ LedgerOK(o)'
  <2>1. CASE status[o] # "fulfilled"
    <3>1. ledger' = ledger
      BY <1>1, <2>1
    <3> QED
      BY <1>1, <1>2, <2>1, <3>1, SameTotals DEF LedgerOK, Received, Refunded, Closed
  <2>2. CASE status[o] = "fulfilled"
    <3>1. /\ \A p \in Orders \ {o} : ledger'[p] = ledger[p]
          /\ ledger'[o]["cash"] = ledger[o]["cash"] - Total[o]
          /\ ledger'[o]["revenue"] = ledger[o]["revenue"] + Total[o]
          /\ ledger'[o]["receivable"] = ledger[o]["receivable"]
      BY <1>1, <2>2, AccountNames DEF PostOrderReturn, Post
    <3>2. /\ Received(o) = PaidTotal(o) /\ Received(o)' = PaidTotal(o)
          /\ Refunded(o) = 0 /\ Refunded(o)' = Total[o]
      BY <1>1, <1>2, <2>2, SameTotals DEF Received, Refunded, Closed
    <3> QED
      BY <3>1, <3>2 DEF LedgerOK
  <2> QED
    BY <1>1, <2>1, <2>2
<1>5. Exposure(o)' = Exposure(o)
  BY <1>1, <1>2, SameTotals DEF Exposure, CreditExposure
<1>6. Moves(o, 0)
  BY <1>2, <1>5 DEF Moves
<1>7. OthersStay(o)
  BY <1>1, <1>2, <1>4, SameTotals DEF OthersStay
<1> QED
  BY <1>1, <1>3, <1>4, <1>6, <1>7, MoveExposure

\* A payment within what is left either reaches the total or stays below it.
LEMMA Reaching ==
  ASSUME NEW paid \in Nat, NEW total \in Nat, NEW a \in Nat \ {0}, paid + a <= total
  PROVE  /\ paid + a >= total <=> paid + a = total
         /\ paid + a # total => paid + a < total
         /\ paid + a # 0
  OBVIOUS

\* A settlement: the hold falls by the amount, and so does the binding.
LEMMA SettleCredit ==
  ASSUME CreditInvariant, TypeOK', NEW k \in Keys, NEW o \in Orders, NEW a \in Nat \ {0},
         NEW m \in Settling, NEW x \in References \cup {NoReference}, NEW force,
         Settle(k, o, a, m, x, force)
  PROVE  /\ CreditInvariant'
         /\ hold[o] # NoHold /\ hold'[o] # NoHold
         /\ a <= Exposure(o) /\ Exposure(o) <= Total[o]
         /\ OthersStay(o) /\ Moves(o, -a)
<1> DEFINE target == IF PaidTotal(o) + a >= Total[o] THEN "paid" ELSE "partially_paid"
           completed == force \/ (m = "transfer" /\ target = "paid")
           st == IF completed THEN "completed" ELSE "pending"
           new == [status |-> IF hold[o].remaining = a THEN "settled" ELSE hold[o].status,
                   remaining |-> hold[o].remaining - a]
<1>1. /\ status[o] \in {"confirmed", "partially_paid"}
      /\ a <= Unsettled(o)
      /\ hold[o] = [status |-> "active", remaining |-> Unsettled(o)]
      /\ Record(k, Row(o, a, m, x, st), force, CompletesPending(force, target))
      /\ hold' = [hold EXCEPT ![o] = new]
      /\ outstanding' = [outstanding EXCEPT ![RetailerOf[o]] = outstanding[RetailerOf[o]] + (-a)]
      /\ IF target = "paid" THEN PostPaymentReceived(o, Total[o]) ELSE ledger' = ledger
      /\ status' = [status EXCEPT ![o] = target]
  BY DEF Settle, ActiveHoldMatches, ReduceHold, AddToBinding, AssignStatus
<1>2. /\ TypeOK /\ HoldOK(o) /\ LedgerOK(o)
      /\ status \in [Orders -> OrderStates \cup {"absent"}] /\ hold \in [Orders -> HoldRow]
      /\ ledger \in [Orders -> [Accounts -> Int]]
      /\ Total[o] \in Nat \ {0} /\ PaidTotal(o) \in Nat
  BY OrderFacts
<1>3. /\ PaidTotal(o)' = PaidTotal(o) + a
      /\ CreditRows(o)' = CreditRows(o) /\ CreditRows(o) = {}
      /\ \A p \in Orders \ {o} : /\ PaidTotal(p)' = PaidTotal(p)
                                 /\ CreditTotal(p)' = CreditTotal(p)
                                 /\ CreditRows(p)' = CreditRows(p)
  <2>1. PaymentTypeOK /\ PaymentTypeOK' /\ m \in Methods /\ st \in {"pending", "completed"}
    BY <1>2 DEF TypeOK, Methods
  <2>2. CreditRows(o) = {}
    BY <1>1, <1>2 DEF HoldOK
  <2> HIDE DEF st
  <2> QED
    BY <1>1, <2>1, <2>2, TotalsMove
<1>4. /\ hold'[o] = new /\ status'[o] = target
      /\ \A p \in Orders \ {o} : hold'[p] = hold[p] /\ status'[p] = status[p]
  BY <1>1, <1>2
<1> DEFINE paid == PaidTotal(o) + a
           complete == paid = Total[o]
<1>5. /\ target = IF complete THEN "paid" ELSE "partially_paid"
      /\ ~complete => paid < Total[o]
      /\ paid # 0
      /\ PaidTotal(o)' = paid
  <2>1. paid <= Total[o]
    BY <1>1, <1>2 DEF Unsettled
  <2>2. /\ paid >= Total[o] <=> complete
        /\ ~complete => paid < Total[o]
        /\ paid # 0
    BY <1>2, <2>1, Reaching
  <2> QED
    BY <1>3, <2>2
<1>6. new = IF complete THEN [status |-> "settled", remaining |-> 0]
            ELSE [status |-> "active", remaining |-> Total[o] - paid]
  <2>1. hold[o].status = "active" /\ hold[o].remaining = Total[o] - PaidTotal(o)
    BY <1>1 DEF Unsettled
  <2>2. /\ hold[o].remaining = a <=> complete
        /\ hold[o].remaining - a = Total[o] - paid
        /\ complete => Total[o] - paid = 0
    BY <1>2, <2>1
  <2> HIDE DEF complete, paid
  <2> QED
    BY <2>1, <2>2
<1>9. /\ Exposure(o) = Unsettled(o) /\ Exposure(o)' = Exposure(o) + (-a)
      /\ Unsettled(o) <= Total[o]
  <2>1. hold'[o].remaining = Unsettled(o) - a /\ hold'[o].status # "converted"
    BY <1>1, <1>4
  <2>2. hold[o].remaining = Unsettled(o) /\ hold[o].status # "converted"
    BY <1>1
  <2>3. Unsettled(o) \in Int /\ Unsettled(o) <= Total[o]
    BY <1>2 DEF Unsettled
  <2> HIDE DEF target, new, complete, paid
  <2> QED
    BY <2>1, <2>2, <2>3 DEF Exposure
<1> HIDE DEF target, new, complete, paid
<1>7. HoldOK(o)'
  <2>1. CASE complete
    <3>1. status'[o] = "paid" /\ hold'[o] = [status |-> "settled", remaining |-> 0]
      BY <1>4, <1>5, <1>6, <2>1
    <3>2. SettledInFull(o)'
      BY <1>3, <1>5, <2>1, <3>1 DEF SettledInFull, complete
    <3> QED
      BY <3>1, <3>2 DEF HoldOK, Closed
  <2>2. CASE ~complete
    <3>1. /\ status'[o] = "partially_paid"
          /\ hold'[o] = [status |-> "active", remaining |-> Total[o] - paid]
      BY <1>4, <1>5, <1>6, <2>2
    <3>2. ActiveHoldMatches(o)'
      BY <1>5, <3>1 DEF ActiveHoldMatches, Unsettled
    <3> QED
      BY <1>3, <1>5, <2>2, <3>1, <3>2 DEF HoldOK, Closed
  <2> QED
    BY <2>1, <2>2
<1>8. /\ \A p \in Orders \ {o} : ledger'[p] = ledger[p]
      /\ LedgerOK(o)'
  <2>1. /\ Received(o) = 0 /\ Refunded(o) = 0 /\ Refunded(o)' = 0
        /\ Received(o)' = IF complete THEN Total[o] ELSE 0
    BY <1>1, <1>4, <1>5 DEF Received, Refunded, Closed, complete
  <2>2. CASE complete
    <3>1. PostPaymentReceived(o, Total[o])
      BY <1>1, <1>5, <2>2
    <3>2. /\ \A p \in Orders \ {o} : ledger'[p] = ledger[p]
          /\ ledger'[o]["cash"] = ledger[o]["cash"] + Total[o]
          /\ ledger'[o]["receivable"] = ledger[o]["receivable"] - Total[o]
          /\ ledger'[o]["revenue"] = ledger[o]["revenue"]
      BY <1>2, <3>1, AccountNames DEF PostPaymentReceived, Post
    <3> QED
      BY <1>2, <2>1, <2>2, <3>2 DEF LedgerOK
  <2>3. CASE ~complete
    <3>1. ledger' = ledger
      BY <1>1, <1>5, <2>3
    <3> QED
      BY <1>2, <2>1, <2>3, <3>1 DEF LedgerOK
  <2> QED
    BY <2>2, <2>3
<1>10. Moves(o, -a) /\ -a \in Int
  BY <1>1, <1>9 DEF Moves
<1>11. OthersStay(o)
  BY <1>3, <1>4, <1>8 DEF OthersStay
<1>12. hold[o] # NoHold /\ hold'[o] # NoHold
  BY <1>1, <1>4, <1>6 DEF NoHold
<1>13. CreditInvariant'
  BY <1>7, <1>8, <1>10, <1>11, MoveExposure
<1> QED
  BY <1>1, <1>9, <1>10, <1>11, <1>12, <1>13

\* A credit sale: what the order owes stays, from the hold to the credit row.
LEMMA SellCredit ==
  ASSUME CreditInvariant, TypeOK', NEW k \in Keys, NEW o \in Orders,
         NEW x \in References \cup {NoReference}, SellOnCredit(k, o, x)
  PROVE  /\ CreditInvariant'
         /\ hold[o] # NoHold /\ hold'[o] # NoHold
         /\ OthersStay(o) /\ Moves(o, 0)
<1> DEFINE new == [status |-> "converted", remaining |-> 0]
<1>1. /\ status[o] \in {"confirmed", "partially_paid"}
      /\ CreditRows(o) = {} /\ PaidTotal(o) = 0
      /\ hold[o] = [status |-> "active", remaining |-> Unsettled(o)]
      /\ Record(k, Row(o, Total[o], "credit", x, "pending"), FALSE, TRUE)
      /\ hold' = [hold EXCEPT ![o] = new] /\ outstanding' = outstanding
      /\ status' = [status EXCEPT ![o] = "paid"] /\ ledger' = ledger
  BY DEF SellOnCredit, ConvertHold, AssignStatus, ActiveHoldMatches
<1>2. /\ TypeOK /\ LedgerOK(o)
      /\ status \in [Orders -> OrderStates \cup {"absent"}] /\ hold \in [Orders -> HoldRow]
      /\ outstanding \in [Retailers -> Nat] /\ RetailerOf[o] \in Retailers
      /\ Total[o] \in Nat \ {0}
  BY OrderFacts
<1>3. PaymentTypeOK /\ PaymentTypeOK' /\ "credit" \in Methods
  BY <1>2 DEF TypeOK, Methods
<1>4. /\ PaidTotal(o)' = 0
      /\ CreditTotal(o)' = CreditTotal(o) + Total[o]
      /\ CreditRows(o)' = {k}
      /\ \A p \in Orders \ {o} : /\ PaidTotal(p)' = PaidTotal(p)
                                 /\ CreditTotal(p)' = CreditTotal(p)
                                 /\ CreditRows(p)' = CreditRows(p)
  <2>1. /\ PaidTotal(o)' = PaidTotal(o)
        /\ CreditTotal(o)' = CreditTotal(o) + Total[o]
        /\ CreditRows(o)' = CreditRows(o) \cup {k}
        /\ \A p \in Orders \ {o} : /\ PaidTotal(p)' = PaidTotal(p)
                                   /\ CreditTotal(p)' = CreditTotal(p)
                                   /\ CreditRows(p)' = CreditRows(p)
    <3>1. Record(k, Row(o, Total[o], "credit", x, "pending"), FALSE, TRUE)
      BY <1>1
    <3>2. "pending" \in {"pending", "completed"} /\ Total[o] \in Nat \ {0}
      BY <1>2
    <3> HIDE DEF new
    <3> QED
      BY <3>1, <3>2, <1>3, TotalsMove
  <2> QED
    BY <1>1, <2>1
<1>5. CreditTotal(o)' = Total[o]
  BY <1>1, <1>2, <1>3, <1>4, NoCreditRows
<1>6. /\ hold'[o] = new /\ status'[o] = "paid"
      /\ \A p \in Orders \ {o} : hold'[p] = hold[p] /\ status'[p] = status[p]
  BY <1>1, <1>2
<1>7. HoldOK(o)'
  <2>1. Cardinality(CreditRows(o)') = 1
    BY <1>4, FS_Singleton
  <2>2. SoldOnCredit(o)'
    BY <1>2, <1>4, <1>5, <1>6, <2>1 DEF SoldOnCredit
  <2> QED
    BY <1>6, <2>2 DEF HoldOK, Closed
<1>8. LedgerOK(o)'
  BY <1>1, <1>2, <1>4, <1>6 DEF LedgerOK, Received, Refunded, Closed
<1>9. Exposure(o) = Total[o] /\ Exposure(o)' = Total[o]
  BY <1>1, <1>2, <1>4, <1>5, <1>6 DEF Exposure, CreditExposure, Unsettled
<1>10. Moves(o, 0)
  BY <1>1, <1>2, <1>9 DEF Moves
<1>11. OthersStay(o)
  BY <1>1, <1>4, <1>6 DEF OthersStay
<1>12. hold[o] # NoHold /\ hold'[o] # NoHold
  BY <1>1, <1>6 DEF NoHold
<1> QED
  BY <1>7, <1>8, <1>10, <1>11, <1>12, MoveExposure

\* A collection: the credit exposure falls, and so does the binding.
LEMMA CollectOnCredit ==
  ASSUME CreditInvariant, TypeOK', NEW k \in Keys, NEW o \in Orders, NEW a \in Nat \ {0},
         NEW m \in Settling, NEW x \in References \cup {NoReference}, NEW force,
         Collect(k, o, a, m, x, force)
  PROVE  /\ CreditInvariant'
         /\ hold[o] # NoHold /\ hold'[o] # NoHold
         /\ a <= Exposure(o) /\ Exposure(o) <= Total[o]
         /\ OthersStay(o) /\ Moves(o, -a)
<1>1. /\ status[o] = "paid" /\ status' = status
      /\ a <= CreditExposure(o)
      /\ hold[o] = [status |-> "converted", remaining |-> 0] /\ hold' = hold
      /\ CreditTotal(o) = Total[o] /\ Cardinality(CreditRows(o)) = 1
      /\ Record(k, Row(o, a, m, x, "completed"), force, FALSE)
      /\ outstanding' = [outstanding EXCEPT ![RetailerOf[o]] = outstanding[RetailerOf[o]] + (-a)]
      /\ PostPaymentReceived(o, a)
  BY DEF Collect, CollectCredit, AddToBinding
<1>2. /\ TypeOK /\ LedgerOK(o)
      /\ ledger \in [Orders -> [Accounts -> Int]]
      /\ Total[o] \in Nat \ {0} /\ PaidTotal(o) \in Nat
  BY OrderFacts
<1>3. PaymentTypeOK /\ PaymentTypeOK' /\ m \in Methods
  BY <1>2 DEF TypeOK, Methods
<1>4. /\ PaidTotal(o)' = PaidTotal(o) + a
      /\ CreditTotal(o)' = CreditTotal(o)
      /\ CreditRows(o)' = CreditRows(o)
      /\ \A p \in Orders \ {o} : /\ PaidTotal(p)' = PaidTotal(p)
                                 /\ CreditTotal(p)' = CreditTotal(p)
                                 /\ CreditRows(p)' = CreditRows(p)
  BY <1>1, <1>2, <1>3, TotalsMove
<1>5. PaidTotal(o)' <= Total[o]
  BY <1>1, <1>2, <1>4 DEF CreditExposure
<1>6. HoldOK(o)'
  <2>1. SoldOnCredit(o)'
    BY <1>1, <1>4, <1>5 DEF SoldOnCredit
  <2> QED
    BY <1>1, <2>1 DEF HoldOK, Closed
<1>7. /\ \A p \in Orders \ {o} : ledger'[p] = ledger[p]
      /\ LedgerOK(o)'
  <2>1. /\ \A p \in Orders \ {o} : ledger'[p] = ledger[p]
        /\ ledger'[o]["cash"] = ledger[o]["cash"] + a
        /\ ledger'[o]["receivable"] = ledger[o]["receivable"] - a
        /\ ledger'[o]["revenue"] = ledger[o]["revenue"]
    BY <1>1, <1>2, AccountNames DEF PostPaymentReceived, Post
  <2>2. /\ Received(o) = PaidTotal(o) /\ Received(o)' = PaidTotal(o) + a
        /\ Refunded(o) = 0 /\ Refunded(o)' = 0
    BY <1>1, <1>4 DEF Received, Refunded, Closed
  <2> QED
    BY <1>2, <2>1, <2>2 DEF LedgerOK
<1>8. /\ Exposure(o) = CreditExposure(o) /\ Exposure(o)' = Exposure(o) + (-a)
      /\ Exposure(o) <= Total[o]
  BY <1>1, <1>2, <1>4 DEF Exposure, CreditExposure
<1>9. Moves(o, -a) /\ -a \in Int
  BY <1>1, <1>8 DEF Moves
<1>10. OthersStay(o)
  BY <1>1, <1>4, <1>7 DEF OthersStay
<1>11. hold[o] # NoHold /\ hold'[o] # NoHold
  BY <1>1 DEF NoHold
<1>12. CreditInvariant'
  BY <1>6, <1>7, <1>9, <1>10, MoveExposure
<1> QED
  BY <1>1, <1>8, <1>9, <1>10, <1>11, <1>12

LEMMA CreditInitially == Init => CreditInvariant
<1> SUFFICES ASSUME Init PROVE CreditInvariant
  OBVIOUS
<1>1. /\ TypeOK /\ PaymentTypeOK
      /\ \A k \in Keys : payments[k].order = NoOrder
      /\ \A o \in Orders : /\ hold[o] = NoHold /\ status[o] = "absent"
                           /\ \A a \in Accounts : ledger[o][a] = 0
      /\ \A r \in Retailers : outstanding[r] = 0
  BY TypeInit DEF TypeOK, Init, PaymentInit, CreditInit, LedgerInit, NoPayment
<1>2. ASSUME NEW o \in Orders PROVE PaidTotal(o) = 0 /\ CreditRows(o) = {}
  <2> DEFINE f == Counted(o, Settling)
  <2>1. f \in [Keys -> Nat] /\ \A k \in Keys : f[k] = 0
    BY <1>1, CountedType, TenantAssumption DEF Counted
  <2> HIDE DEF f
  <2>2. SumOf(f) = 0
    BY <2>1, KeysFinite, SumZero
  <2>3. CreditRows(o) = {}
    BY <1>1, TenantAssumption DEF CreditRows
  <2> QED
    BY <2>2, <2>3 DEF f, PaidTotal
<1>3. \A o \in Orders : HoldOK(o) /\ LedgerOK(o)
  BY <1>1, <1>2, AccountNames DEF HoldOK, Unpaid, Closed, LedgerOK, Received, Refunded
<1>4. ASSUME NEW r \in Retailers PROVE outstanding[r] = SumOf(ExposureOf(r))
  <2> DEFINE f == ExposureOf(r)
  <2>1. f \in [Orders -> Nat] /\ \A o \in Orders : f[o] = 0
    BY <1>1 DEF ExposureOf, Exposure, NoHold
  <2> HIDE DEF f
  <2>2. SumOf(f) = 0
    BY <2>1, TenantAssumption, SumZero
  <2> QED
    BY <1>1, <2>2 DEF f
<1> QED
  BY <1>1, <1>3, <1>4 DEF CreditInvariant, BindingIsExposure

-----------------------------------------------------------------------------
\* The account behind the steps

AccountStep == [Account!AccountNext]_(Account!accountVars)

LEMMA AccountStutters ==
  ASSUME UNCHANGED <<hold, outstanding, payments>>
  PROVE  AccountStep
<1>1. \A p \in Orders : Exposure(p)' = Exposure(p)
  BY SameTotals DEF Exposure, CreditExposure
<1>2. /\ {p \in Orders : hold[p] # NoHold}' = {p \in Orders : hold[p] # NoHold}
      /\ [p \in Orders |-> Exposure(p)]' = [p \in Orders |-> Exposure(p)]
      /\ outstanding' = outstanding
  BY <1>1
<1> QED
  BY <1>2 DEF AccountStep, Account!accountVars

\* What one order's move does to the three variables of the account.
LEMMA AccountMoves ==
  ASSUME CreditInvariant, NEW o \in Orders, NEW delta \in Int, OthersStay(o), Moves(o, delta)
  PROVE  /\ [p \in Orders |-> Exposure(p)]' =
              [[p \in Orders |-> Exposure(p)] EXCEPT ![o] = Exposure(o) + delta]
         /\ outstanding' = [outstanding EXCEPT ![RetailerOf[o]] = outstanding[RetailerOf[o]] + delta]
         /\ hold'[o] # NoHold =>
              {p \in Orders : hold[p] # NoHold}' = {p \in Orders : hold[p] # NoHold} \cup {o}
<1>1. \A p \in Orders \ {o} : Exposure(p)' = Exposure(p) /\ hold'[p] = hold[p]
  BY DEF OthersStay, Exposure, CreditExposure
<1>2. Exposure(o)' = Exposure(o) + delta
  BY DEF Moves
<1>3. [p \in Orders |-> Exposure(p)]' =
        [[p \in Orders |-> Exposure(p)] EXCEPT ![o] = Exposure(o) + delta]
  <2>1. [p \in Orders |-> Exposure(p)]' = [p \in Orders |-> Exposure(p)']
    OBVIOUS
  <2>2. ASSUME NEW p \in Orders
        PROVE  Exposure(p)' = [[q \in Orders |-> Exposure(q)] EXCEPT ![o] = Exposure(o) + delta][p]
    BY <1>1, <1>2
  <2> QED
    BY <2>1, <2>2
<1>4. hold'[o] # NoHold =>
        {p \in Orders : hold[p] # NoHold}' = {p \in Orders : hold[p] # NoHold} \cup {o}
  BY <1>1
<1> QED
  BY <1>3, <1>4 DEF Moves

\* Clearing a charged order, by nothing in a credit sale.
LEMMA AccountClears ==
  ASSUME CreditInvariant, NEW o \in Orders, NEW a \in Nat, NEW delta \in Int, a + delta = 0,
         OthersStay(o), Moves(o, delta),
         hold[o] # NoHold, hold'[o] # NoHold, a <= Exposure(o), a <= Total[o]
  PROVE  AccountStep
<1> DEFINE owed == [p \in Orders |-> Exposure(p)]
           charged == {p \in Orders : hold[p] # NoHold}
<1>1. /\ Exposure(o) \in Nat /\ Total[o] \in Nat /\ RetailerOf[o] \in Retailers
      /\ outstanding \in [Retailers -> Nat]
  BY OrderFacts
<1>2. /\ owed' = [owed EXCEPT ![o] = Exposure(o) + delta]
      /\ outstanding' = [outstanding EXCEPT ![RetailerOf[o]] = outstanding[RetailerOf[o]] + delta]
      /\ charged' = charged
  <2>1. charged' = charged \cup {o} /\ o \in charged
    BY <1>1, AccountMoves
  <2> QED
    BY <1>1, <2>1, AccountMoves
<1>3. owed[o] = Exposure(o)
  OBVIOUS
<1>4. CASE a = 0
  <2>1. Exposure(o) + delta = owed[o] /\ outstanding[RetailerOf[o]] + delta = outstanding[RetailerOf[o]]
    BY <1>1, <1>4
  <2>2. owed' = [owed EXCEPT ![o] = owed[o]]
    BY <1>2, <2>1
  <2>3. [owed EXCEPT ![o] = owed[o]] = owed
    <3>1. owed = [p \in Orders |-> owed[p]]
      OBVIOUS
    <3> HIDE DEF owed
    <3> QED
      BY <3>1
  <2>4. owed' = owed /\ outstanding' = outstanding
    BY <1>1, <1>2, <2>1, <2>2, <2>3
  <2> QED
    BY <1>2, <2>4 DEF AccountStep, Account!accountVars
<1>5. CASE a # 0
  <2>1. a \in 1 .. Total[o]
    BY <1>1, <1>5
  <2>2. /\ Exposure(o) + delta = Exposure(o) - a
        /\ outstanding[RetailerOf[o]] + delta = outstanding[RetailerOf[o]] - a
    BY <1>1
  <2>3. Account!Clear(o, a)
    BY <1>2, <1>3, <2>2 DEF Account!Clear
  <2> QED
    BY <2>1, <2>3 DEF AccountStep, Account!AccountNext
<1> QED
  BY <1>4, <1>5

LEMMA AccountCharges ==
  ASSUME CreditInvariant, NEW o \in Orders, OthersStay(o), Moves(o, Total[o]),
         hold[o] = NoHold, hold'[o] # NoHold
  PROVE  AccountStep
<1> DEFINE owed == [p \in Orders |-> Exposure(p)]
           charged == {p \in Orders : hold[p] # NoHold}
<1>1. Total[o] \in Nat /\ Exposure(o) = 0
  BY OrderFacts DEF Exposure, NoHold
<1>2. /\ owed' = [owed EXCEPT ![o] = Exposure(o) + Total[o]]
      /\ outstanding' = [outstanding EXCEPT ![RetailerOf[o]] = outstanding[RetailerOf[o]] + Total[o]]
      /\ charged' = charged \cup {o}
      /\ o \notin charged
  BY <1>1, AccountMoves
<1>3. Exposure(o) + Total[o] = Total[o]
  BY <1>1
<1>4. Account!Charge(o)
  BY <1>2, <1>3 DEF Account!Charge
<1> QED
  BY <1>4 DEF AccountStep, Account!AccountNext

-----------------------------------------------------------------------------
LEMMA CreditStep ==
  CreditInvariant /\ [Next]_vars => CreditInvariant' /\ AccountStep
<1> SUFFICES ASSUME CreditInvariant, [Next]_vars PROVE CreditInvariant' /\ AccountStep
  OBVIOUS
<1>1. TypeOK /\ TypeOK'
  BY TypeStep DEF CreditInvariant
<1>2. ASSUME UNCHANGED <<status, hold, outstanding, payments, ledger>>
      PROVE  CreditInvariant' /\ AccountStep
  BY <1>1, <1>2, KeepCredit, AccountStutters
<1>3. CASE UNCHANGED vars
  BY <1>2, <1>3 DEF vars, creditVars, paymentVars
<1>4. ASSUME NEW o \in Orders, OrderCommand(o)
      PROVE  CreditInvariant' /\ AccountStep
  <2>1. Total[o] \in Nat
    BY TenantAssumption
  <2>2. CASE ConfirmOrder(o)
    BY <1>1, <2>2, ConfirmCredit, AccountCharges
  <2>3. CASE CancelOrder(o)
    <3>1. CASE UNCHANGED <<creditVars, payments>>
      BY <1>1, <2>3, <3>1, CancelCredit, AccountStutters DEF creditVars
    <3>2. CASE ~UNCHANGED <<creditVars, payments>>
      <4>1. -Total[o] \in Int /\ Total[o] + (-Total[o]) = 0 /\ Total[o] <= Total[o]
        BY <2>1
      <4> QED
        BY <1>1, <2>1, <2>3, <3>2, <4>1, CancelCredit, AccountClears
    <3> QED
      BY <3>1, <3>2
  <2>4. CASE CreateOrder(o) \/ FulfillOrder(o) \/ ReturnOrder(o)
    BY <1>1, <2>4, GoodsCredit, AccountStutters DEF creditVars
  <2> QED
    BY <1>4, <2>2, <2>3, <2>4 DEF OrderCommand
<1>5. ASSUME NEW k \in Keys, NEW o \in Orders, NEW a \in Nat \ {0}, NEW m \in Settling,
             NEW x \in References \cup {NoReference}, NEW force \in BOOLEAN,
             Settle(k, o, a, m, x, force) \/ SellOnCredit(k, o, x) \/ Collect(k, o, a, m, x, force)
      PROVE  CreditInvariant' /\ AccountStep
  <2>1. Exposure(o) \in Nat /\ Total[o] \in Nat
    BY OrderFacts
  <2>2. CASE Settle(k, o, a, m, x, force) \/ Collect(k, o, a, m, x, force)
    <3>1. /\ CreditInvariant'
          /\ hold[o] # NoHold /\ hold'[o] # NoHold
          /\ a <= Exposure(o) /\ Exposure(o) <= Total[o]
          /\ OthersStay(o) /\ Moves(o, -a)
      BY <1>1, <2>2, SettleCredit, CollectOnCredit
    <3>2. a \in Nat /\ a <= Total[o] /\ -a \in Int /\ a + (-a) = 0
      BY <2>1, <3>1
    <3> QED
      BY <3>1, <3>2, AccountClears
  <2>3. CASE SellOnCredit(k, o, x)
    <3>1. /\ CreditInvariant'
          /\ hold[o] # NoHold /\ hold'[o] # NoHold
          /\ OthersStay(o) /\ Moves(o, 0)
      BY <1>1, <2>3, SellCredit
    <3>2. 0 \in Nat /\ 0 \in Int /\ 0 + 0 = 0 /\ 0 <= Exposure(o) /\ 0 <= Total[o]
      BY <2>1
    <3> QED
      BY <3>1, <3>2, AccountClears
  <2> QED
    BY <1>5, <2>2, <2>3
<1>6. ASSUME NEW d \in Decls, Declaration(d), ~ConfirmDeclaration(d)
      PROVE  CreditInvariant' /\ AccountStep
  BY <1>2, <1>6 DEF Declaration, SubmitDeclaration, RejectDeclaration, creditVars, paymentVars
<1>7. CASE Upkeep
  BY <1>2, <1>7 DEF Upkeep, AdjustStock, UpdateSku, Deactivate, DeactivateBinding,
                    creditVars, paymentVars
<1>8. CASE Next
  BY <1>1, <1>4, <1>5, <1>6, <1>7, <1>8, StepCases
<1> QED
  BY <1>3, <1>8

LEMMA CreditAlways == Spec => []CreditInvariant
<1>1. CreditInvariant /\ [Next]_vars => CreditInvariant'
  BY CreditStep
<1> QED
  BY CreditInitially, <1>1, PTL DEF Spec

(***************************************************************************)
(* The contract that _verify_hold_contract and _settle_cancel_hold test    *)
(* before they write (order_commands.py) is never broken: for any number   *)
(* of orders and payments an order's hold and totals are those its state   *)
(* asks for.                                                               *)
(***************************************************************************)
THEOREM HoldFollowsOrderAlways == Spec => []HoldFollowsOrder
<1>1. CreditInvariant => HoldFollowsOrder
  BY DEF CreditInvariant, HoldFollowsOrder, HoldOK
<1> QED
  BY CreditAlways, <1>1, PTL

(***************************************************************************)
(* The outstanding_balance cache of a binding, which five commands move by *)
(* increments, is at every moment the sum over its orders of what is still *)
(* owed.                                                                   *)
(***************************************************************************)
THEOREM BindingIsExact == Spec => []BindingIsExposure
<1>1. CreditInvariant => BindingIsExposure
  BY DEF CreditInvariant
<1> QED
  BY CreditAlways, <1>1, PTL

(***************************************************************************)
(* ledger_service.py posts one entry group when a settlement completes an  *)
(* order, one per collection and one per return: cash, receivable and      *)
(* revenue of every order are what its payments and its return say.        *)
(***************************************************************************)
THEOREM LedgerIsExact == Spec => []LedgerMatchesPayments
<1>1. CreditInvariant => LedgerMatchesPayments
  BY DEF CreditInvariant, LedgerMatchesPayments, LedgerOK
<1> QED
  BY CreditAlways, <1>1, PTL

(***************************************************************************)
(* The 409s that stand for corrupted data never refuse a request: the      *)
(* binding covers what an order owes (_add_to_binding) and the aggregate   *)
(* covers what it reserved (inventory_service.py).                         *)
(***************************************************************************)
THEOREM NoIntegrityRefusals == Spec => []NoIntegrityRefusal
<1>1. CreditInvariant /\ StockInvariant => NoIntegrityRefusal
  <2> SUFFICES ASSUME CreditInvariant, StockInvariant, NEW o \in Orders
               PROVE  /\ outstanding[RetailerOf[o]] >= Exposure(o)
                      /\ \A s \in Owned(o) : reserved[s] >= Qty[o][s]
    BY DEF NoIntegrityRefusal
  <2>1. outstanding[RetailerOf[o]] >= Exposure(o)
    <3> DEFINE r == RetailerOf[o]
               f == ExposureOf(r)
    <3>1. r \in Retailers /\ outstanding[r] = SumOf(f)
      BY OrderFacts DEF CreditInvariant, BindingIsExposure
    <3>2. f \in [Orders -> Nat] /\ f[o] = Exposure(o) /\ Exposure(o) \in Nat
      BY ExposureTypes DEF CreditInvariant, ExposureOf
    <3> HIDE DEF f
    <3>3. f[o] <= SumOf(f) /\ SumOf(f) \in Nat
      BY <3>2, TenantAssumption, SumAtLeast, UnitsFinite
    <3> HIDE DEF r
    <3>4. outstanding[r] >= Exposure(o)
      BY <3>1, <3>2, <3>3
    <3> QED
      BY <3>4 DEF r
  <2>2. ASSUME NEW s \in Owned(o) PROVE reserved[s] >= Qty[o][s]
    <3> DEFINE f == OwnedQty(s)
    <3>1. s \in Skus /\ reserved[s] = SumOf(f)
      BY DEF Owned, StockInvariant, ReservedIsOwned
    <3>2. f \in [Orders -> Nat] /\ f[o] = Qty[o][s] /\ Qty[o][s] \in Nat
      BY <3>1, TenantAssumption DEF OwnedQty
    <3> HIDE DEF f
    <3>3. f[o] <= SumOf(f) /\ SumOf(f) \in Nat
      BY <3>2, TenantAssumption, SumAtLeast, UnitsFinite
    <3> QED
      BY <3>1, <3>2, <3>3
  <2> QED
    BY <2>1, <2>2
<1>2. Spec => []StockInvariant
  BY StockInit, StockStep, PTL DEF Spec
<1> QED
  BY CreditAlways, <1>1, <1>2, PTL

(***************************************************************************)
(* The order lifecycle implements the credit account for every value of    *)
(* the constants: order_commands.py and canonical_payment_service.py       *)
(* charge an order once, at its confirmation, and from then on only clear  *)
(* it, in its hold or its credit rows and in the binding alike.            *)
(***************************************************************************)
THEOREM CreditAccountImplemented == Spec => ImplementsCreditAccount
<1>1. Init => Account!AccountInit
  <2> SUFFICES ASSUME Init PROVE Account!AccountInit
    OBVIOUS
  <2>1. /\ \A o \in Orders : hold[o] = NoHold
        /\ outstanding = [r \in Retailers |-> 0]
    BY DEF Init, CreditInit
  <2>2. {o \in Orders : hold[o] # NoHold} = {}
    BY <2>1
  <2>3. [o \in Orders |-> Exposure(o)] = [o \in Orders |-> 0]
    BY <2>1 DEF Exposure, NoHold
  <2> QED
    BY <2>1, <2>2, <2>3 DEF Account!AccountInit
<1>2. CreditInvariant /\ [Next]_vars => [Account!AccountNext]_(Account!accountVars)
  BY CreditStep DEF AccountStep
<1> QED
  BY CreditAlways, <1>1, <1>2, PTL DEF Spec, ImplementsCreditAccount, Account!AccountSpec

-----------------------------------------------------------------------------
\* The receivables summary

\* A sum whose rows are shared out between two functions.
LEMMA SumSplit ==
  ASSUME NEW S, IsFiniteSet(S), NEW f \in [S -> Nat], NEW g \in [S -> Nat], NEW h \in [S -> Nat],
         \A x \in S : \/ f[x] = g[x] /\ h[x] = 0
                      \/ f[x] = h[x] /\ g[x] = 0
  PROVE  SumOf(f) = SumOf(g) + SumOf(h)
<1>1. \A x \in S : \/ Slice(f, x) = Slice(g, x) /\ Slice(h, x) = {}
                   \/ Slice(f, x) = Slice(h, x) /\ Slice(g, x) = {}
  BY DEF Slice
<1>2. Units(f) = Units(g) \cup Units(h)
  BY <1>1 DEF Units
<1>3. Units(g) \cap Units(h) = {}
  <2> SUFFICES ASSUME NEW u \in Units(g), u \in Units(h) PROVE FALSE
    OBVIOUS
  <2>1. PICK x \in S : u \in Slice(g, x)
    BY DEF Units
  <2>2. PICK y \in S : u \in Slice(h, y)
    BY DEF Units
  <2>3. u[1] = x /\ u[1] = y
    BY <2>1, <2>2 DEF Slice
  <2> QED
    BY <1>1, <2>1, <2>2, <2>3
<1>4. /\ IsFiniteSet(Units(g)) /\ IsFiniteSet(Units(h))
      /\ SumOf(g) \in Nat /\ SumOf(h) \in Nat
  BY UnitsFinite
<1> DEFINE G == Units(g)
           H == Units(h)
<1>5. Cardinality(G \cup H) = Cardinality(G) + Cardinality(H)
  <2>1. IsFiniteSet(G) /\ IsFiniteSet(H) /\ G \cap H = {}
    BY <1>3, <1>4
  <2>2. Cardinality(G) \in Nat /\ Cardinality(H) \in Nat
    BY <1>4 DEF SumOf
  <2> HIDE DEF G, H
  <2>3. Cardinality(G \cup H) = Cardinality(G) + Cardinality(H) - Cardinality(G \cap H)
    BY <2>1, FS_Union
  <2>4. Cardinality(G \cap H) = 0
    BY <2>1, FS_EmptySet
  <2> QED
    BY <2>2, <2>3, <2>4
<1> QED
  BY <1>2, <1>5 DEF SumOf

(***************************************************************************)
(* get_receivables_summary never refuses an order as over-collected, and   *)
(* the drift it shows between a binding and its two tracks is exactly the  *)
(* uncollected credit of delivered orders, which it does not load.         *)
(***************************************************************************)
THEOREM DriftIsExplained == Spec => []DriftIsDeliveredCredit
<1>1. CreditInvariant => DriftIsDeliveredCredit
  <2> SUFFICES ASSUME CreditInvariant PROVE DriftIsDeliveredCredit
    OBVIOUS
  <2>1. ASSUME NEW o \in Orders
        PROVE  /\ o \in Summarised => ~OverCollected(o)
               /\ Exposure(o) \in Nat
               /\ hold[o].status = "active" =>
                    /\ Exposure(o) = hold[o].remaining
                    /\ status[o] \notin {"fulfilled", "returned"}
                    /\ ~(o \in Summarised /\ CreditExposure(o) > 0)
               /\ hold[o].status # "active" =>
                    /\ (o \in Summarised /\ CreditExposure(o) > 0) => Exposure(o) = CreditExposure(o)
                    /\ ~(o \in Summarised /\ CreditExposure(o) > 0)
                       /\ status[o] \notin {"fulfilled", "returned"} => Exposure(o) = 0
    <3>1. /\ HoldOK(o) /\ PaidTotal(o) \in Nat /\ CreditTotal(o) \in Nat /\ Exposure(o) \in Nat
          /\ status[o] \in OrderStates \cup {"absent"}
          /\ CreditRows(o) = {} => CreditTotal(o) = 0
          /\ Total[o] \in Nat \ {0}
      BY OrderFacts, NoCreditRows DEF TypeOK
    <3>2. CASE status[o] \in {"absent", "draft"}
      BY <3>1, <3>2 DEF HoldOK, NoHold, Summarised, Exposure
    <3>3. CASE status[o] \in {"confirmed", "partially_paid"}
      BY <3>1, <3>3 DEF HoldOK, ActiveHoldMatches, Summarised, OverCollected, Exposure, CreditExposure
    <3>4. CASE status[o] \in Closed
      <4>1. CASE SettledInFull(o)
        BY <3>1, <3>4, <4>1 DEF SettledInFull, Closed, OverCollected, Exposure, CreditExposure
      <4>2. CASE SoldOnCredit(o)
        BY <3>1, <3>4, <4>2 DEF SoldOnCredit, Closed, Summarised, OverCollected, Exposure,
           CreditExposure
      <4> QED
        BY <3>1, <3>4, <4>1, <4>2 DEF HoldOK
    <3>5. CASE status[o] = "cancelled"
      BY <3>1, <3>5 DEF HoldOK, NoHold, Summarised, Exposure
    <3> QED
      BY <3>1, <3>2, <3>3, <3>4, <3>5 DEF HoldOK, OrderStates, Closed
  <2>2. ASSUME NEW r \in Retailers
        PROVE  outstanding[r] = UnpaidTrack(r) + CreditTrack(r) + Delivered(r)
    <3> DEFINE f == ExposureOf(r)
               unpaid == [o \in Orders |-> IF RetailerOf[o] = r /\ hold[o].status = "active"
                                           THEN hold[o].remaining ELSE 0]
               credit == [o \in Orders |-> IF /\ RetailerOf[o] = r
                                              /\ o \in Summarised /\ CreditExposure(o) > 0
                                           THEN CreditExposure(o) ELSE 0]
               delivered == [o \in Orders |-> IF /\ RetailerOf[o] = r
                                                 /\ status[o] \in {"fulfilled", "returned"}
                                              THEN Exposure(o) ELSE 0]
               rest == [o \in Orders |-> IF RetailerOf[o] = r /\ hold[o].status # "active"
                                         THEN Exposure(o) ELSE 0]
    <3>1. ASSUME NEW o \in Orders
          PROVE  /\ f[o] \in Nat /\ unpaid[o] \in Nat /\ credit[o] \in Nat
                 /\ delivered[o] \in Nat /\ rest[o] \in Nat
                 /\ \/ f[o] = unpaid[o] /\ rest[o] = 0
                    \/ f[o] = rest[o] /\ unpaid[o] = 0
                 /\ \/ rest[o] = credit[o] /\ delivered[o] = 0
                    \/ rest[o] = delivered[o] /\ credit[o] = 0
      BY <2>1 DEF ExposureOf, Summarised
    <3>2. /\ f \in [Orders -> Nat] /\ unpaid \in [Orders -> Nat] /\ credit \in [Orders -> Nat]
          /\ delivered \in [Orders -> Nat] /\ rest \in [Orders -> Nat]
      BY <3>1 DEF ExposureOf
    <3>3. /\ outstanding[r] = SumOf(f) /\ UnpaidTrack(r) = SumOf(unpaid)
          /\ CreditTrack(r) = SumOf(credit) /\ Delivered(r) = SumOf(delivered)
      BY DEF CreditInvariant, BindingIsExposure, UnpaidTrack, CreditTrack, Delivered
    <3> HIDE DEF f, unpaid, credit, delivered, rest
    <3>4. SumOf(f) = SumOf(unpaid) + SumOf(rest)
      <4>1. \A o \in Orders : \/ f[o] = unpaid[o] /\ rest[o] = 0
                              \/ f[o] = rest[o] /\ unpaid[o] = 0
        BY <3>1
      <4>2. IsFiniteSet(Orders)
        BY TenantAssumption
      <4> QED
        BY <3>2, <4>1, <4>2, SumSplit
    <3>5. SumOf(rest) = SumOf(credit) + SumOf(delivered)
      <4>1. \A o \in Orders : \/ rest[o] = credit[o] /\ delivered[o] = 0
                              \/ rest[o] = delivered[o] /\ credit[o] = 0
        BY <3>1
      <4>2. IsFiniteSet(Orders)
        BY TenantAssumption
      <4> QED
        BY <3>2, <4>1, <4>2, SumSplit
    <3>6. SumOf(unpaid) \in Nat /\ SumOf(credit) \in Nat /\ SumOf(delivered) \in Nat
      BY <3>2, TenantAssumption, UnitsFinite
    <3> QED
      BY <3>3, <3>4, <3>5, <3>6
  <2> QED
    BY <2>1, <2>2 DEF DriftIsDeliveredCredit, Summarised
<1> QED
  BY CreditAlways, <1>1, PTL
=============================================================================
