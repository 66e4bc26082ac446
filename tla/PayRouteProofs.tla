--------------------------- MODULE PayRouteProofs ---------------------------
(***************************************************************************)
(* The pay route for any number of requests, keys, orders, declarations    *)
(* and sessions: first the middleware by itself, then the transactions     *)
(* behind it, then the two together.                                       *)
(*                                                                         *)
(* AtMostOnce is not inductive: an execution that still has its session    *)
(* open must be the only one of its key, and no other may have committed.  *)
(* Nor is HoldIsUnpaid: what a session has read of an order must still     *)
(* hold when it commits, which is what its row locks are for.              *)
(***************************************************************************)
EXTENDS PayRoute, OrderProofs

Working == {"running", "answered", "stored"}

\* Between the look-up of a key and its marking the store does not change.
MarkingIsAlone ==
  /\ \A s, t \in Slots : Is(s, "marking") /\ Is(t, "marking") => s = t
  /\ \A s \in Slots : Is(s, "marking") => entry[slot[s].key] = "none"

\* A key has one execution, which has its session until it answers.
OneExecution ==
  /\ \A s, t \in Slots :
       slot[s].at \in Working /\ slot[t].at \in Working /\ slot[s].key = slot[t].key => s = t
  /\ \A s \in Slots : Is(s, "running") => slot[s].open
  /\ \A s \in Slots : slot[s].open => slot[s].at \in Working

\* What is committed is remembered, and nothing is left to commit.
CommittedIsClosed ==
  /\ \A k \in CacheKeys : entry[k] = "none" => executed[k] = 0
  /\ \A s \in Slots : slot[s].open => executed[slot[s].key] = 0

IdempotencyInv ==
  /\ IdempotencyTypeOK
  /\ MarkingIsAlone
  /\ WorkIsRemembered
  /\ OneExecution
  /\ CommittedIsClosed
  /\ AtMostOnce

LEMMA InitInv == IdempotencyInit => IdempotencyInv
BY IdempotencyAssumption
   DEF IdempotencyInit, IdempotencyInv, IdempotencyTypeOK, MarkingIsAlone, WorkIsRemembered,
       OneExecution, CommittedIsClosed, AtMostOnce, Entries, Stages, Free, Is, Working

LEMMA AdmitInv ==
  ASSUME IdempotencyInv, NobodyMarks, NEW s \in Slots, NEW k \in CacheKeys, Admit(s, k)
  PROVE  IdempotencyInv'
<1>1. /\ slot' = [slot EXCEPT ![s] = [at |-> "marking", key |-> k, open |-> FALSE]]
      /\ UNCHANGED <<entry, executed>>
      /\ entry[k] = "none"
  BY DEF Admit, Admits
<1>2. IdempotencyTypeOK'
  BY <1>1 DEF IdempotencyInv, IdempotencyTypeOK, Stages
<1>3. \A t \in Slots \ {s} : slot'[t] = slot[t]
  BY <1>1 DEF IdempotencyInv, IdempotencyTypeOK
<1>4. slot'[s] = [at |-> "marking", key |-> k, open |-> FALSE]
  BY <1>1 DEF IdempotencyInv, IdempotencyTypeOK
<1> QED
  BY <1>1, <1>2, <1>3, <1>4
     DEF IdempotencyInv, NobodyMarks, MarkingIsAlone, WorkIsRemembered, OneExecution,
         CommittedIsClosed, AtMostOnce, Is, Working

LEMMA MarkInv ==
  ASSUME IdempotencyInv, NEW s \in Slots, Mark(s)
  PROVE  IdempotencyInv'
<1> DEFINE k == slot[s].key
<1>1. /\ slot[s].at = "marking"
      /\ entry' = [entry EXCEPT ![k] = "marked"]
      /\ slot' = [slot EXCEPT ![s].at = "running", ![s].open = TRUE]
      /\ UNCHANGED executed
  BY DEF Mark, Is
<1>2. k \in CacheKeys /\ entry[k] = "none" /\ executed[k] = 0
  BY <1>1 DEF IdempotencyInv, IdempotencyTypeOK, MarkingIsAlone, CommittedIsClosed, Is
<1>3. IdempotencyTypeOK'
  BY <1>1, <1>2 DEF IdempotencyInv, IdempotencyTypeOK, Stages, Entries
<1>4. \A t \in Slots \ {s} : slot'[t] = slot[t]
  BY <1>1 DEF IdempotencyInv, IdempotencyTypeOK
<1>5. slot'[s].at = "running" /\ slot'[s].key = k /\ slot'[s].open
  BY <1>1 DEF IdempotencyInv, IdempotencyTypeOK
<1>6. entry'[k] = "marked" /\ \A j \in CacheKeys \ {k} : entry'[j] = entry[j]
  BY <1>1, <1>2 DEF IdempotencyInv, IdempotencyTypeOK
<1>7. \A t \in Slots \ {s} : slot[t].at \in Working => slot[t].key # k
  BY <1>2 DEF IdempotencyInv, WorkIsRemembered, Working
<1>8. \A t \in Slots \ {s} : slot[t].at # "marking"
  BY <1>1 DEF IdempotencyInv, MarkingIsAlone, Is
<1>9. \A t \in Slots : slot[t].at \in Working => slot[t].key \in CacheKeys
  BY DEF IdempotencyInv, IdempotencyTypeOK, Working
<1>10. MarkingIsAlone' /\ OneExecution'
  BY <1>4, <1>5, <1>7, <1>8 DEF IdempotencyInv, MarkingIsAlone, OneExecution, Is, Working
<1>11. WorkIsRemembered'
  BY <1>4, <1>5, <1>6, <1>7, <1>9 DEF IdempotencyInv, WorkIsRemembered, Working
<1>12. CommittedIsClosed' /\ AtMostOnce'
  <2>1. \A j \in CacheKeys : entry'[j] = "none" => executed[j] = 0
    BY <1>6 DEF IdempotencyInv, CommittedIsClosed
  <2>2. \A t \in Slots : slot'[t].open => executed[slot'[t].key] = 0
    BY <1>2, <1>4, <1>5 DEF IdempotencyInv, CommittedIsClosed
  <2> QED
    BY <1>1, <2>1, <2>2 DEF IdempotencyInv, CommittedIsClosed, AtMostOnce
<1> QED
  BY <1>3, <1>10, <1>11, <1>12 DEF IdempotencyInv

\* Steps of one request that keep the store's memory of its key: Answer, Store,
\* the lost commit and the end of a request.
LEMMA KeepInv ==
  ASSUME IdempotencyInv, NEW s \in Slots,
         slot[s].at \in Working,
         slot' \in [Slots -> [at : Stages, key : CacheKeys \cup {NoKey}, open : BOOLEAN]],
         \A t \in Slots \ {s} : slot'[t] = slot[t],
         \/ /\ slot'[s].at \in {"answered", "stored"}
            /\ slot'[s].key = slot[s].key
            /\ slot'[s].open => slot[s].open
         \/ slot'[s] = Free,
         entry' \in [CacheKeys -> Entries],
         \A k \in CacheKeys : entry'[k] = "none" <=> entry[k] = "none",
         executed' = executed
  PROVE  IdempotencyInv'
<1>1. slot[s].key \in CacheKeys
  BY DEF IdempotencyInv, IdempotencyTypeOK, Working
<1>2. \A t \in Slots : slot[t].at \in {"marking", "running", "answered", "stored"}
                         => slot[t].key \in CacheKeys
  BY DEF IdempotencyInv, IdempotencyTypeOK
<1>3. IdempotencyTypeOK'
  BY <1>1 DEF IdempotencyInv, IdempotencyTypeOK, Free
<1>4. MarkingIsAlone' /\ WorkIsRemembered'
  BY <1>1, <1>2 DEF IdempotencyInv, MarkingIsAlone, WorkIsRemembered, Is, Working, Free
<1>5. OneExecution'
  BY DEF IdempotencyInv, OneExecution, Is, Working, Free
<1>6. CommittedIsClosed' /\ AtMostOnce'
  BY DEF IdempotencyInv, CommittedIsClosed, AtMostOnce, Free
<1> QED
  BY <1>3, <1>4, <1>5, <1>6 DEF IdempotencyInv

LEMMA CommitInv ==
  ASSUME IdempotencyInv, NEW s \in Slots, CommitAnswered(s)
  PROVE  IdempotencyInv'
<1> DEFINE k == slot[s].key
<1>1. /\ slot[s].at \in {"answered", "stored"}
      /\ slot[s].open
      /\ executed' = [executed EXCEPT ![k] = @ + 1]
      /\ slot' = [slot EXCEPT ![s].open = FALSE]
      /\ entry' = entry
  BY DEF CommitAnswered
<1>2. k \in CacheKeys /\ executed[k] = 0 /\ entry[k] # "none"
  BY <1>1 DEF IdempotencyInv, IdempotencyTypeOK, CommittedIsClosed, WorkIsRemembered
<1>3. IdempotencyTypeOK'
  <2>1. executed' \in [CacheKeys -> Nat] /\ entry' \in [CacheKeys -> Entries]
    BY <1>1, <1>2 DEF IdempotencyInv, IdempotencyTypeOK
  <2>2. slot[s] \in [at : Stages, key : CacheKeys \cup {NoKey}, open : BOOLEAN]
    BY DEF IdempotencyInv, IdempotencyTypeOK
  <2>3. [slot[s] EXCEPT !.open = FALSE]
          \in [at : Stages, key : CacheKeys \cup {NoKey}, open : BOOLEAN]
    BY <2>2
  <2>4. slot' \in [Slots -> [at : Stages, key : CacheKeys \cup {NoKey}, open : BOOLEAN]]
    BY <1>1, <2>3 DEF IdempotencyInv, IdempotencyTypeOK
  <2>5. \A t \in Slots : slot'[t].at = slot[t].at /\ slot'[t].key = slot[t].key
    BY <1>1, <2>2 DEF IdempotencyInv, IdempotencyTypeOK
  <2> QED
    BY <2>1, <2>4, <2>5 DEF IdempotencyInv, IdempotencyTypeOK
<1>4. \A t \in Slots \ {s} : slot'[t] = slot[t]
  BY <1>1 DEF IdempotencyInv, IdempotencyTypeOK
<1>5. slot'[s].at = slot[s].at /\ slot'[s].key = k /\ ~slot'[s].open
  BY <1>1 DEF IdempotencyInv, IdempotencyTypeOK
<1>6. executed'[k] = 1 /\ \A j \in CacheKeys \ {k} : executed'[j] = executed[j]
  BY <1>1, <1>2 DEF IdempotencyInv, IdempotencyTypeOK
<1>7. \A t \in Slots \ {s} : slot[t].open => slot[t].key \in CacheKeys \ {k}
  BY <1>1 DEF IdempotencyInv, IdempotencyTypeOK, OneExecution, Working
<1>8. MarkingIsAlone' /\ WorkIsRemembered' /\ OneExecution'
  BY <1>1, <1>4, <1>5
     DEF IdempotencyInv, MarkingIsAlone, WorkIsRemembered, OneExecution, Is, Working
<1>9. CommittedIsClosed' /\ AtMostOnce'
  BY <1>1, <1>2, <1>4, <1>5, <1>6, <1>7 DEF IdempotencyInv, CommittedIsClosed, AtMostOnce
<1> QED
  BY <1>3, <1>8, <1>9 DEF IdempotencyInv

LEMMA RaiseInv ==
  ASSUME IdempotencyInv, NEW s \in Slots, Raise(s)
  PROVE  IdempotencyInv'
<1> DEFINE k == slot[s].key
<1>1. /\ slot[s].at = "running"
      /\ entry' = [entry EXCEPT ![k] = "none"]
      /\ slot' = [slot EXCEPT ![s] = Free]
      /\ executed' = executed
  BY DEF Raise, Is
<1>2. k \in CacheKeys /\ executed[k] = 0
  BY <1>1 DEF IdempotencyInv, IdempotencyTypeOK, OneExecution, CommittedIsClosed, Is
<1>3. IdempotencyTypeOK'
  BY <1>1 DEF IdempotencyInv, IdempotencyTypeOK, Free, Stages, Entries
<1>4. slot'[s] = Free /\ \A t \in Slots \ {s} : slot'[t] = slot[t]
  BY <1>1 DEF IdempotencyInv, IdempotencyTypeOK
<1>5. entry'[k] = "none" /\ \A j \in CacheKeys \ {k} : entry'[j] = entry[j]
  BY <1>1, <1>2 DEF IdempotencyInv, IdempotencyTypeOK
<1>6. \A t \in Slots \ {s} : slot[t].at \in Working => slot[t].key \in CacheKeys \ {k}
  BY <1>1 DEF IdempotencyInv, IdempotencyTypeOK, OneExecution, Working
<1>7. \A t \in Slots : slot[t].at = "marking" => slot[t].key \in CacheKeys
  BY DEF IdempotencyInv, IdempotencyTypeOK
<1>8. MarkingIsAlone' /\ WorkIsRemembered'
  BY <1>4, <1>5, <1>6, <1>7
     DEF IdempotencyInv, MarkingIsAlone, WorkIsRemembered, Is, Working, Free
<1>9. OneExecution' /\ CommittedIsClosed' /\ AtMostOnce'
  BY <1>1, <1>2, <1>4, <1>5
     DEF IdempotencyInv, OneExecution, CommittedIsClosed, AtMostOnce, Is, Working, Free
<1> QED
  BY <1>3, <1>8, <1>9 DEF IdempotencyInv

LEMMA ExpireInv ==
  ASSUME IdempotencyInv, NEW k \in CacheKeys, Expire(k)
  PROVE  IdempotencyInv'
<1>1. /\ \A s \in Slots : slot[s].key # k
      /\ entry' = [entry EXCEPT ![k] = "none"]
      /\ executed' = [executed EXCEPT ![k] = 0]
      /\ slot' = slot
  BY DEF Expire
<1>2. IdempotencyTypeOK'
  BY <1>1 DEF IdempotencyInv, IdempotencyTypeOK, Entries
<1>3. /\ entry'[k] = "none" /\ executed'[k] = 0
      /\ \A j \in CacheKeys \ {k} : entry'[j] = entry[j] /\ executed'[j] = executed[j]
  BY <1>1 DEF IdempotencyInv, IdempotencyTypeOK
<1>4. \A s \in Slots : slot[s].at # "idle" => slot[s].key \in CacheKeys \ {k}
  BY <1>1 DEF IdempotencyInv, IdempotencyTypeOK
<1>5. MarkingIsAlone' /\ WorkIsRemembered' /\ OneExecution'
  BY <1>1, <1>3, <1>4
     DEF IdempotencyInv, MarkingIsAlone, WorkIsRemembered, OneExecution, Is, Working
<1>6. CommittedIsClosed' /\ AtMostOnce'
  BY <1>1, <1>3, <1>4
     DEF IdempotencyInv, OneExecution, CommittedIsClosed, AtMostOnce, Working
<1> QED
  BY <1>2, <1>5, <1>6 DEF IdempotencyInv

LEMMA RestartInv ==
  ASSUME IdempotencyInv, Restart
  PROVE  IdempotencyInv'
BY IdempotencyAssumption
   DEF Restart, IdempotencyInv, IdempotencyTypeOK, MarkingIsAlone, WorkIsRemembered,
       OneExecution, CommittedIsClosed, AtMostOnce, Entries, Stages, Free, Is, Working

LEMMA StepInv ==
  ASSUME IdempotencyInv, [IdempotencyNext]_idempotencyVars
  PROVE  IdempotencyInv'
<1>1. CASE \E s \in Slots : Mark(s)
  BY <1>1, MarkInv
<1>2. ASSUME NobodyMarks, NEW s \in Slots, NEW k \in CacheKeys, Admit(s, k)
      PROVE  IdempotencyInv'
  BY <1>2, AdmitInv
<1>3. ASSUME NEW s \in Slots, Answer(s) \/ Store(s) \/ CommitLost(s) \/ Finish(s) \/ Refuse(s)
      PROVE  IdempotencyInv'
  <2>1. slot[s].at \in Working
    BY <1>3 DEF Answer, Store, CommitLost, Finish, Refuse, Is, Working
  <2>2. slot[s].key \in CacheKeys
    BY <2>1 DEF IdempotencyInv, IdempotencyTypeOK, Working
  <2>3. slot' \in [Slots -> [at : Stages, key : CacheKeys \cup {NoKey}, open : BOOLEAN]]
    <3> DEFINE Slot == [at : Stages, key : CacheKeys \cup {NoKey}, open : BOOLEAN]
    <3>1. slot \in [Slots -> Slot] /\ slot[s] \in Slot
      BY DEF IdempotencyInv, IdempotencyTypeOK
    <3>2. /\ [slot[s] EXCEPT !.at = "answered"] \in Slot
          /\ [slot[s] EXCEPT !.at = "stored"] \in Slot
          /\ [slot[s] EXCEPT !.open = FALSE] \in Slot
          /\ Free \in Slot
      BY <3>1 DEF Stages, Free
    <3>3. CASE Answer(s) \/ Store(s)
      BY <3>1, <3>2, <3>3 DEF Answer, Store, Move
    <3>4. CASE CommitLost(s) \/ Finish(s) \/ Refuse(s)
      BY <3>1, <3>2, <3>4 DEF CommitLost, Finish, Refuse
    <3> QED
      BY <1>3, <3>3, <3>4
  <2>4. \A t \in Slots \ {s} : slot'[t] = slot[t]
    BY <1>3 DEF IdempotencyInv, IdempotencyTypeOK, Answer, Store, CommitLost, Finish, Refuse,
                Move
  <2>5. \/ /\ slot'[s].at \in {"answered", "stored"}
           /\ slot'[s].key = slot[s].key
           /\ slot'[s].open => slot[s].open
        \/ slot'[s] = Free
    BY <1>3 DEF IdempotencyInv, IdempotencyTypeOK, Answer, Store, CommitLost, Finish, Refuse,
                Move, Is
  <2>6. entry[slot[s].key] # "none"
    BY <2>1 DEF IdempotencyInv, WorkIsRemembered, Working
  <2>7. /\ entry' \in [CacheKeys -> Entries]
        /\ \A k \in CacheKeys : entry'[k] = "none" <=> entry[k] = "none"
        /\ executed' = executed
    BY <1>3, <2>2, <2>6
       DEF IdempotencyInv, IdempotencyTypeOK, Answer, Store, CommitLost, Finish, Refuse, Entries
  <2> QED
    BY <2>1, <2>3, <2>4, <2>5, <2>7, KeepInv
<1>4. ASSUME NEW s \in Slots, CommitAnswered(s) \/ Raise(s)
      PROVE  IdempotencyInv'
  BY <1>4, CommitInv, RaiseInv
<1>5. ASSUME NEW k \in CacheKeys, Expire(k)
      PROVE  IdempotencyInv'
  BY <1>5, ExpireInv
<1>6. CASE Restart
  BY <1>6, RestartInv
<1>7. CASE UNCHANGED idempotencyVars
  BY <1>7 DEF idempotencyVars, IdempotencyInv, IdempotencyTypeOK, MarkingIsAlone,
              WorkIsRemembered, OneExecution, CommittedIsClosed, AtMostOnce, Is
<1> QED
  BY <1>1, <1>2, <1>3, <1>4, <1>5, <1>6, <1>7 DEF IdempotencyNext, StoreSuspends

(***************************************************************************)
(* While the store remembers a key its request takes effect at most once,  *)
(* for any number of keys, of requests in the server and of retries        *)
(* (api/middleware/idempotency.py).                                        *)
(***************************************************************************)
THEOREM RemembersOnce == IdempotencySpec => []AtMostOnce
<1>1. IdempotencyInv => AtMostOnce
  BY DEF IdempotencyInv
<1> QED
  BY <1>1, InitInv, StepInv, PTL DEF IdempotencySpec

\* A retry of a request that is carried out finds its marker or its response.
THEOREM RemembersWork == IdempotencySpec => []WorkIsRemembered
<1>1. IdempotencyInv => WorkIsRemembered
  BY DEF IdempotencyInv
<1> QED
  BY <1>1, InitInv, StepInv, PTL DEF IdempotencySpec

-----------------------------------------------------------------------------
(* The transactions behind the route.                                      *)

SessionRecord ==
  [at : Phases, req : Requests \cup {NoRequest}, row : PaymentRow \cup {NoPayment},
   settles : BOOLEAN, hold : Nat]

\* The row a session has prepared is its request's, and the balance it has
\* read is still the balance.
Prepared(s) ==
  LET r == Req(s)  row == session[s].row IN
  /\ row \in PaymentRow
  /\ row.order = r.order /\ row.amount = r.amount
  /\ row.method = r.method /\ row.reference = r.reference
  /\ r.kind = "confirm" => row.status = "completed"
  /\ session[s].hold = remaining[r.order]
  /\ r.amount <= Total[r.order] - PaidTotal(r.order)

SessionOK(s) ==
  LET r == Req(s)  row == session[s].row IN
  /\ ~At(s, {"idle"}) => r \in Requests
  /\ At(s, {"begun"}) => r.kind = "pay"
  /\ At(s, {"locked", "checked"}) => r.kind = "confirm"
  /\ At(s, {"checked", "inserting", "raced", "written"}) => Prepared(s)
  /\ At(s, {"ready", "checked", "inserting", "raced", "written"}) /\ r.kind = "confirm" =>
       decision[r.key] = "pending"
  /\ row.receipt = IF At(s, {"inserting", "written"}) /\ r.kind = "confirm"
                   THEN NextReceipt ELSE 0
  /\ At(s, {"written"}) => FreshKey(r.key) /\ FreshReference(r.reference)

\* The row locks: one session per order, per declaration and for the sequence.
LocksAreExclusive ==
  \A s, t \in Sessions :
    /\ \A o \in Orders : HoldsOrder(s, o) /\ HoldsOrder(t, o) => s = t
    /\ \A d \in Decls : HoldsDeclaration(s, d) /\ HoldsDeclaration(t, d) => s = t
    /\ HoldsSequence(s) /\ HoldsSequence(t) => s = t

\* The key and the reference of a session that has inserted its row are its
\* own until it ends.
WritingAlone ==
  \A s, t \in Sessions :
    At(s, {"written"}) /\ At(t, {"written"}) /\ s # t =>
      /\ Req(s).key # Req(t).key
      /\ Req(s).reference # NoReference => Req(t).reference # Req(s).reference

\* A declaration is confirmed exactly when its payment exists.
DecisionOK(d) == decision[d] = "confirmed" <=> payments[d] # NoPayment

TransactionInv ==
  /\ TransactionTypeOK
  /\ \A s \in Sessions : SessionOK(s)
  /\ LocksAreExclusive
  /\ WritingAlone
  /\ \A d \in Decls : DecisionOK(d)
  /\ HoldIsUnpaid
  /\ ReceiptsHaveNoGap

\* A request, whatever it asks for.
LEMMA RequestFacts ==
  ASSUME NEW r \in Requests
  PROVE  /\ r.kind \in {"pay", "confirm"} /\ r.key \in Keys
         /\ r.kind = "confirm" <=> r.key \in Decls
         /\ r.order \in Orders /\ r.amount \in Nat \ {0} /\ r.method \in Settling
         /\ r.reference \in References \cup {NoReference}
BY RequestAssumption, PaymentAssumption DEF RequestAssumption, PaymentAssumption, Keys

LEMMA SessionTyped ==
  ASSUME TransactionInv, NEW s \in Sessions
  PROVE  session \in [Sessions -> SessionRecord] /\ session[s] \in SessionRecord /\ SessionOK(s)
BY DEF TransactionInv, TransactionTypeOK, SessionRecord

LEMMA UnusedTyped == Unused \in SessionRecord
BY DEF Unused, SessionRecord, Phases

LEMMA TransactionStart == TransactionInit => TransactionInv
<1> SUFFICES ASSUME TransactionInit PROVE TransactionInv
  OBVIOUS
<1>1. /\ payments = [k \in Keys |-> NoPayment] /\ receiptSeq = 0 /\ remaining = Total
      /\ decision = [d \in Decls |-> "pending"] /\ session = [s \in Sessions |-> Unused]
  BY DEF TransactionInit, PaymentInit
<1>2. TransactionTypeOK
  BY <1>1, UnusedTyped, TenantAssumption
  DEF TransactionTypeOK, PaymentTypeOK, SessionRecord, TenantAssumption
<1>3. \A s \in Sessions : SessionOK(s)
  BY <1>1 DEF SessionOK, At, Req, Unused, NoPayment
<1>4. LocksAreExclusive /\ WritingAlone
  BY <1>1 DEF LocksAreExclusive, WritingAlone, HoldsOrder, HoldsDeclaration, HoldsSequence,
     At, Unused, NoPayment
<1>5. \A d \in Decls : DecisionOK(d)
  BY <1>1 DEF DecisionOK, Keys
<1>6. HoldIsUnpaid
  <2> SUFFICES ASSUME NEW o \in Orders PROVE remaining[o] \in Nat /\ remaining[o] + PaidTotal(o) = Total[o]
    BY DEF HoldIsUnpaid
  <2> DEFINE f == Counted(o, Settling)
  <2>1. f \in [Keys -> Nat] /\ \A k \in Keys : f[k] = 0
    BY <1>1 DEF Counted, NoPayment
  <2> HIDE DEF f
  <2>2. SumOf(f) = 0
    BY <2>1, KeysFinite, SumZero
  <2>3. PaidTotal(o) = 0
    BY <2>2 DEF PaidTotal, f
  <2> QED
    BY <1>1, <2>3, TenantAssumption DEF TenantAssumption
<1>7. ReceiptsHaveNoGap
  <2>1. {k \in Keys : payments[k].receipt # 0} = {}
    BY <1>1 DEF NoPayment
  <2> QED
    BY <1>1, <2>1 DEF ReceiptsHaveNoGap
<1> QED
  BY <1>2, <1>3, <1>4, <1>5, <1>6, <1>7 DEF TransactionInv

\* What the tables say does not change while they stay.
LEMMA TablesStay ==
  ASSUME TransactionInv, UNCHANGED <<paymentVars, remaining>>
  PROVE  /\ UNCHANGED <<payments, receiptSeq, remaining>>
         /\ \A o \in Orders : PaidTotal(o)' = PaidTotal(o)
         /\ NextReceipt' = NextReceipt
         /\ \A k : FreshKey(k)' <=> FreshKey(k)
         /\ \A x : FreshReference(x)' <=> FreshReference(x)
         /\ HoldIsUnpaid' /\ ReceiptsHaveNoGap'
<1>1. UNCHANGED <<payments, receiptSeq, remaining>>
  BY DEF paymentVars
<1>2. \A o \in Orders : PaidTotal(o)' = PaidTotal(o)
  BY <1>1, SameTotals
<1>3. HoldIsUnpaid' /\ ReceiptsHaveNoGap'
  BY <1>1, <1>2 DEF TransactionInv, HoldIsUnpaid, ReceiptsHaveNoGap
<1> QED
  BY <1>1, <1>2, <1>3 DEF NextReceipt, FreshKey, FreshReference

\* A session that stays where it is stays right, when the declarations it
\* holds are left alone.
LEMMA SessionStays ==
  ASSUME TransactionInv, UNCHANGED <<paymentVars, remaining>>, NEW s \in Sessions,
         session'[s] = session[s],
         \A d \in Decls : HoldsDeclaration(s, d) => decision'[d] = decision[d]
  PROVE  SessionOK(s)'
<1>1. /\ SessionOK(s)
      /\ Req(s)' = Req(s) /\ \A phases : At(s, phases)' <=> At(s, phases)
  BY DEF TransactionInv, Req, At
<1>2. ~At(s, {"idle"}) => Req(s) \in Requests
  BY <1>1 DEF SessionOK
<1>3. At(s, {"checked", "inserting", "raced", "written"}) => Prepared(s)'
  <2> SUFFICES ASSUME At(s, {"checked", "inserting", "raced", "written"}) PROVE Prepared(s)'
    OBVIOUS
  <2>1. Prepared(s) /\ Req(s).order \in Orders
    BY <1>1, <1>2, RequestFacts DEF SessionOK, At
  <2> QED
    BY <1>1, <2>1, TablesStay DEF Prepared
<1>4. At(s, {"ready", "checked", "inserting", "raced", "written"}) /\ Req(s).kind = "confirm" =>
        decision'[Req(s).key] = "pending"
  <2> SUFFICES ASSUME At(s, {"ready", "checked", "inserting", "raced", "written"}),
                      Req(s).kind = "confirm"
               PROVE  decision'[Req(s).key] = "pending"
    OBVIOUS
  <2>1. decision[Req(s).key] = "pending" /\ Req(s).key \in Decls
    BY <1>1, <1>2, RequestFacts DEF SessionOK, At
  <2> QED
    BY <2>1 DEF HoldsDeclaration
<1> QED
  BY <1>1, <1>3, <1>4, TablesStay DEF SessionOK

\* A step that moves one session and reads the tables keeps the invariant,
\* when the session is right where it goes and takes only locks that are free.
LEMMA MoveKeeps ==
  ASSUME TransactionInv, ReadOnly, NEW s \in Sessions, NEW x \in SessionRecord,
         session' = [session EXCEPT ![s] = x],
         SessionOK(s)',
         \A o \in Orders : HoldsOrder(s, o)' =>
           HoldsOrder(s, o) \/ \A t \in Sessions : ~HoldsOrder(t, o),
         \A d \in Decls : HoldsDeclaration(s, d)' =>
           HoldsDeclaration(s, d) \/ \A t \in Sessions : ~HoldsDeclaration(t, d),
         HoldsSequence(s)' => HoldsSequence(s) \/ \A t \in Sessions : ~HoldsSequence(t),
         x.at = "written" => x.req = Req(s) /\ ~IndexIsBusy(s)
  PROVE  TransactionInv'
<1>1. /\ UNCHANGED <<paymentVars, remaining>> /\ decision' = decision
      /\ UNCHANGED <<payments, receiptSeq>>
      /\ session \in [Sessions -> SessionRecord]
  BY SessionTyped DEF ReadOnly, paymentVars
<1>2. session'[s] = x /\ \A t \in Sessions \ {s} : session'[t] = session[t]
  BY <1>1
<1>3. TransactionTypeOK'
  BY <1>1 DEF TransactionInv, TransactionTypeOK, PaymentTypeOK, SessionRecord
<1>4. \A t \in Sessions : SessionOK(t)'
  BY <1>1, <1>2, SessionStays
<1>5. \A t \in Sessions \ {s} :
        /\ \A o : HoldsOrder(t, o)' <=> HoldsOrder(t, o)
        /\ \A d : HoldsDeclaration(t, d)' <=> HoldsDeclaration(t, d)
        /\ HoldsSequence(t)' <=> HoldsSequence(t)
        /\ Req(t)' = Req(t) /\ (At(t, {"written"})' <=> At(t, {"written"}))
  BY <1>2 DEF HoldsOrder, HoldsDeclaration, HoldsSequence, Req, At
<1>6. LocksAreExclusive'
  BY <1>5 DEF TransactionInv, LocksAreExclusive
<1>7. WritingAlone'
  <2>1. At(s, {"written"})' =>
          /\ Req(s)' = Req(s)
          /\ \A t \in Sessions \ {s} : At(t, {"written"}) =>
               /\ Req(t).key # Req(s).key
               /\ Req(s).reference # NoReference => Req(t).reference # Req(s).reference
    BY <1>2 DEF At, Req, IndexIsBusy
  <2> QED
    BY <1>5, <2>1 DEF TransactionInv, WritingAlone
<1>8. \A d \in Decls : DecisionOK(d)'
  BY <1>1 DEF TransactionInv, DecisionOK
<1> QED
  BY <1>1, <1>3, <1>4, <1>6, <1>7, <1>8, TablesStay DEF TransactionInv

\* A transaction that stops short of the insert, with a replay or a refusal.
LEMMA StopKeeps ==
  ASSUME TransactionInv, ReadOnly, NEW s \in Sessions, NEW phase \in {"replaying", "refused"},
         At(s, {"begun", "locked", "ready", "raced"}), Go(s, phase)
  PROVE  TransactionInv'
<1> DEFINE x == [session[s] EXCEPT !.at = phase]
<1>1. session \in [Sessions -> SessionRecord] /\ session[s] \in SessionRecord /\ SessionOK(s)
  BY SessionTyped
<1>2. x \in SessionRecord /\ session' = [session EXCEPT ![s] = x] /\ session'[s] = x
  BY <1>1 DEF Go, SessionRecord, Phases
<1>3. session[s].row.receipt = 0 /\ Req(s) \in Requests
  BY <1>1 DEF SessionOK, At
<1>4. x.at = phase /\ x.req = Req(s) /\ x.row = session[s].row
  BY <1>1 DEF Req, SessionRecord
<1> HIDE DEF x
<1>5. SessionOK(s)'
  BY <1>2, <1>3, <1>4 DEF SessionOK, At, Req
<1>6. ~HoldsSequence(s)' /\ (\A o : ~HoldsOrder(s, o)') /\ \A d : ~HoldsDeclaration(s, d)'
  BY <1>2, <1>3, <1>4 DEF HoldsSequence, HoldsOrder, HoldsDeclaration, At
<1> QED
  BY <1>2, <1>4, <1>5, <1>6, MoveKeeps

LEMMA ClassifiedKeeps ==
  ASSUME TransactionInv, ReadOnly, NEW s \in Sessions,
         At(s, {"begun", "ready", "raced"}), Classified(s)
  PROVE  TransactionInv'
BY StopKeeps DEF Classified, At

LEMMA CloseKeeps ==
  ASSUME TransactionInv, ReadOnly, NEW s \in Sessions,
         session' = [session EXCEPT ![s] = Unused]
  PROVE  TransactionInv'
<1>1. session'[s] = Unused
  BY SessionTyped
<1>2. SessionOK(s)'
  BY <1>1 DEF SessionOK, At, Req, Unused, NoPayment
<1>3. ~HoldsSequence(s)' /\ (\A o : ~HoldsOrder(s, o)') /\ \A d : ~HoldsDeclaration(s, d)'
  BY <1>1 DEF HoldsSequence, HoldsOrder, HoldsDeclaration, At, Unused, NoPayment
<1>4. Unused.at # "written"
  BY DEF Unused
<1> QED
  BY <1>2, <1>3, <1>4, UnusedTyped, MoveKeeps

LEMMA BeginKeeps ==
  ASSUME TransactionInv, NEW s \in Sessions, NEW r \in Requests, Begin(s, r)
  PROVE  TransactionInv'
<1> DEFINE x == [Unused EXCEPT !.at = IF r.kind = "pay" THEN "begun" ELSE "locking", !.req = r]
<1>1. /\ x \in SessionRecord /\ x.at \in {"begun", "locking"} /\ x.req = r
      /\ x.row = NoPayment /\ (x.at = "begun" => r.kind = "pay")
  BY UnusedTyped DEF Unused, SessionRecord, Phases
<1>2. session' = [session EXCEPT ![s] = x] /\ ReadOnly
  BY DEF Begin
<1> HIDE DEF x
<1>3. session'[s] = x
  BY <1>2, SessionTyped
<1>4. SessionOK(s)'
  BY <1>1, <1>3 DEF SessionOK, At, Req, NoPayment
<1>5. ~HoldsSequence(s)' /\ (\A o : ~HoldsOrder(s, o)') /\ \A d : ~HoldsDeclaration(s, d)'
  BY <1>1, <1>3 DEF HoldsSequence, HoldsOrder, HoldsDeclaration, At, NoPayment
<1> QED
  BY <1>1, <1>2, <1>4, <1>5, MoveKeeps

LEMMA LookUpKeeps ==
  ASSUME TransactionInv, NEW s \in Sessions, LookUp(s)
  PROVE  TransactionInv'
<1>1. CASE Classified(s)
  BY <1>1, ClassifiedKeeps DEF LookUp, At
<1>2. CASE Go(s, "locking")
  <2> DEFINE x == [session[s] EXCEPT !.at = "locking"]
  <2>1. session[s] \in SessionRecord /\ SessionOK(s) /\ At(s, {"begun"}) /\ ReadOnly
    BY SessionTyped DEF LookUp
  <2>2. /\ x \in SessionRecord /\ session' = [session EXCEPT ![s] = x] /\ session'[s] = x
        /\ x.at = "locking" /\ x.req = Req(s) /\ x.row = session[s].row
    BY <1>2, <2>1, SessionTyped DEF Go, SessionRecord, Phases, Req
  <2>3. session[s].row.receipt = 0 /\ Req(s) \in Requests
    BY <2>1 DEF SessionOK, At
  <2> HIDE DEF x
  <2>4. SessionOK(s)'
    BY <2>2, <2>3 DEF SessionOK, At, Req
  <2>5. ~HoldsSequence(s)' /\ (\A o : ~HoldsOrder(s, o)') /\ \A d : ~HoldsDeclaration(s, d)'
    BY <2>2, <2>3 DEF HoldsSequence, HoldsOrder, HoldsDeclaration, At
  <2> QED
    BY <2>1, <2>2, <2>4, <2>5, MoveKeeps
<1> QED
  BY <1>1, <1>2 DEF LookUp

LEMMA LockOrderKeeps ==
  ASSUME TransactionInv, NEW s \in Sessions, LockOrder(s)
  PROVE  TransactionInv'
<1> DEFINE phase == IF Req(s).kind = "pay" THEN "ready" ELSE "locked"
           x == [session[s] EXCEPT !.at = phase]
<1>1. /\ session[s] \in SessionRecord /\ SessionOK(s) /\ At(s, {"locking"}) /\ ReadOnly
      /\ \A t \in Sessions : ~HoldsOrder(t, Req(s).order)
  BY SessionTyped DEF LockOrder
<1>2. /\ x \in SessionRecord /\ session' = [session EXCEPT ![s] = x] /\ session'[s] = x
      /\ x.at = phase /\ x.req = Req(s) /\ x.row = session[s].row
  BY <1>1, SessionTyped DEF LockOrder, Go, SessionRecord, Phases, Req
<1>3. session[s].row.receipt = 0 /\ Req(s) \in Requests
  BY <1>1 DEF SessionOK, At
<1>4. /\ phase \in {"ready", "locked"}
      /\ phase = "ready" => Req(s).kind # "confirm" /\ Req(s).key \notin Decls
      /\ phase = "locked" => Req(s).kind = "confirm"
  BY <1>3, RequestFacts
<1> HIDE DEF phase, x
<1>5. SessionOK(s)'
  BY <1>2, <1>3, <1>4 DEF SessionOK, At, Req
<1>6. /\ ~HoldsSequence(s)' /\ \A d \in Decls : ~HoldsDeclaration(s, d)'
      /\ \A o : HoldsOrder(s, o)' => o = Req(s).order
  BY <1>2, <1>3, <1>4 DEF HoldsSequence, HoldsOrder, HoldsDeclaration, At, Req
<1> QED
  BY <1>1, <1>2, <1>4, <1>5, <1>6, MoveKeeps

LEMMA LockDeclarationKeeps ==
  ASSUME TransactionInv, NEW s \in Sessions, LockDeclaration(s)
  PROVE  TransactionInv'
<1>1. /\ session[s] \in SessionRecord /\ SessionOK(s) /\ At(s, {"locked"}) /\ ReadOnly
      /\ \A t \in Sessions : ~HoldsDeclaration(t, Req(s).key)
  BY SessionTyped DEF LockDeclaration
<1>2. /\ session[s].row.receipt = 0 /\ Req(s) \in Requests /\ Req(s).kind = "confirm"
      /\ Req(s).key \in Decls
  BY <1>1, RequestFacts DEF SessionOK, At
<1>3. decision[Req(s).key] \in {"pending", "confirmed", "rejected"}
  BY <1>2 DEF TransactionInv, TransactionTypeOK
<1>4. CASE decision[Req(s).key] # "pending"
  <2>1. \E phase \in {"replaying", "refused"} : Go(s, phase)
    BY <1>3, <1>4 DEF LockDeclaration
  <2> QED
    BY <1>1, <2>1, StopKeeps DEF At
<1>5. CASE decision[Req(s).key] = "pending"
  <2> DEFINE x == [session[s] EXCEPT !.at = "ready"]
  <2>1. Go(s, "ready")
    BY <1>5 DEF LockDeclaration
  <2>2. /\ x \in SessionRecord /\ session' = [session EXCEPT ![s] = x] /\ session'[s] = x
        /\ x.at = "ready" /\ x.req = Req(s) /\ x.row = session[s].row
    BY <1>1, <2>1, SessionTyped DEF Go, SessionRecord, Phases, Req
  <2>3. decision' = decision
    BY <1>1 DEF ReadOnly
  <2> HIDE DEF x
  <2>4. SessionOK(s)'
    BY <1>2, <1>5, <2>2, <2>3 DEF SessionOK, At, Req
  <2>5. /\ ~HoldsSequence(s)' /\ \A d : HoldsDeclaration(s, d)' => d = Req(s).key
        /\ \A o : HoldsOrder(s, o)' => HoldsOrder(s, o)
    BY <1>1, <1>2, <2>2 DEF HoldsSequence, HoldsOrder, HoldsDeclaration, At, Req
  <2> QED
    BY <1>1, <2>2, <2>4, <2>5, MoveKeeps
<1> QED
  BY <1>4, <1>5

\* The row that is prepared rests on a balance the order's lock keeps.
LEMMA RecheckKeeps ==
  ASSUME TransactionInv, NEW s \in Sessions, Recheck(s)
  PROVE  TransactionInv'
<1> DEFINE r == Req(s)
           paid == PaidTotal(r.order)
           full == paid + r.amount >= Total[r.order]
           st == IF r.kind = "confirm" \/ (r.method = "transfer" /\ full)
                 THEN "completed" ELSE "pending"
           row == [order |-> r.order, amount |-> r.amount, method |-> r.method,
                   reference |-> r.reference, status |-> st, receipt |-> 0]
           x == [at |-> IF r.kind = "pay" THEN "inserting" ELSE "checked", req |-> r,
                 row |-> row, settles |-> r.kind = "pay" /\ full, hold |-> remaining[r.order]]
<1>1. /\ session[s] \in SessionRecord /\ SessionOK(s) /\ At(s, {"ready"}) /\ ReadOnly
      /\ r \in Requests
  BY SessionTyped DEF Recheck, SessionOK, At
<1>2. CASE Classified(s) \/ Go(s, "refused")
  BY <1>1, <1>2, ClassifiedKeeps, StopKeeps DEF At
<1>3. CASE Admissible(r) /\ session' = [session EXCEPT ![s] = x]
  <2>1. /\ r.kind \in {"pay", "confirm"} /\ r.order \in Orders /\ r.amount \in Nat \ {0}
        /\ r.method \in Settling /\ r.reference \in References \cup {NoReference}
    BY <1>1, RequestFacts
  <2>2. row \in PaymentRow
    BY <2>1 DEF PaymentRow, Methods
  <2>3. remaining[r.order] \in Nat
    BY <2>1 DEF TransactionInv, HoldIsUnpaid
  <2>4. x \in SessionRecord
    BY <1>1, <2>2, <2>3 DEF SessionRecord, Phases
  <2>5. /\ x.at \in {"inserting", "checked"} /\ (x.at = "checked" <=> r.kind = "confirm")
        /\ x.req = r /\ x.row = row /\ x.hold = remaining[r.order]
    BY <2>1
  <2>6. /\ row.order = r.order /\ row.amount = r.amount /\ row.method = r.method
        /\ row.reference = r.reference /\ row.receipt = 0
        /\ r.kind = "confirm" => row.status = "completed"
    OBVIOUS
  <2>7. r.amount <= Total[r.order] - PaidTotal(r.order)
    BY <1>3 DEF Admissible
  <2> HIDE DEF x, row
  <2>8. session'[s] = x
    BY <1>3, SessionTyped
  <2>9. /\ PaidTotal(r.order)' = PaidTotal(r.order) /\ UNCHANGED <<remaining, decision>>
        /\ Req(s)' = r
    BY <1>1, <2>1, <2>5, <2>8, TablesStay DEF ReadOnly, Req
  <2>10. Prepared(s)'
    BY <2>2, <2>5, <2>6, <2>7, <2>8, <2>9 DEF Prepared
  <2>11. r.kind = "confirm" => decision[r.key] = "pending"
    BY <1>1 DEF SessionOK, At
  <2>12. SessionOK(s)'
    BY <1>1, <2>5, <2>6, <2>8, <2>9, <2>10, <2>11 DEF SessionOK, At
  <2>13. /\ ~HoldsSequence(s)'
         /\ \A o : HoldsOrder(s, o)' => HoldsOrder(s, o)
         /\ \A d : HoldsDeclaration(s, d)' => HoldsDeclaration(s, d)
    BY <1>1, <2>5, <2>6, <2>8, <2>9 DEF HoldsSequence, HoldsOrder, HoldsDeclaration, At
  <2>14. x.at # "written"
    BY <2>5
  <2> QED
    BY <1>1, <1>3, <2>4, <2>12, <2>13, <2>14, MoveKeeps
<1> QED
  BY <1>2, <1>3 DEF Recheck

\* Facts about a session that moves on with what it has prepared, but for the
\* receipt number.
LEMMA PreparedMoves ==
  ASSUME TransactionInv, ReadOnly, NEW s \in Sessions, NEW x \in SessionRecord,
         session' = [session EXCEPT ![s] = x],
         At(s, {"checked", "inserting", "raced"}),
         x.at \in {"inserting", "raced", "written"},
         x.req = Req(s), x.settles = session[s].settles, x.hold = session[s].hold,
         x.row \in PaymentRow,
         x.row = [session[s].row EXCEPT !.receipt = x.row.receipt],
         x.row.receipt = IF x.at \in {"inserting", "written"} /\ x.req.kind = "confirm"
                         THEN NextReceipt ELSE 0,
         x.row.receipt = 0 \/ HoldsSequence(s) \/ \A t \in Sessions : ~HoldsSequence(t),
         x.at = "written" => /\ FreshKey(x.req.key) /\ FreshReference(x.req.reference)
                             /\ ~IndexIsBusy(s)
  PROVE  TransactionInv'
<1> DEFINE r == Req(s)
<1>1. session[s] \in SessionRecord /\ SessionOK(s) /\ session'[s] = x
  BY SessionTyped
<1>2. Prepared(s) /\ r \in Requests /\ (r.kind = "confirm" => decision[r.key] = "pending")
  BY <1>1 DEF SessionOK, At
<1>3. r.order \in Orders
  BY <1>2, RequestFacts
<1>4. /\ PaidTotal(r.order)' = PaidTotal(r.order) /\ UNCHANGED <<remaining, decision>>
      /\ Req(s)' = r
  BY <1>1, <1>3, TablesStay DEF ReadOnly, Req
<1>5. session[s].row \in PaymentRow
  BY <1>2 DEF Prepared
<1>6. /\ x.row.order = session[s].row.order /\ x.row.amount = session[s].row.amount
      /\ x.row.method = session[s].row.method /\ x.row.reference = session[s].row.reference
      /\ x.row.status = session[s].row.status
  BY <1>5 DEF PaymentRow
<1>7. Prepared(s)'
  BY <1>1, <1>2, <1>4, <1>6 DEF Prepared
<1>8. /\ NextReceipt' = NextReceipt /\ (FreshKey(r.key)' <=> FreshKey(r.key))
      /\ FreshReference(r.reference)' <=> FreshReference(r.reference)
  BY <1>4, TablesStay DEF ReadOnly, FreshKey, FreshReference
<1>9. SessionOK(s)'
  BY <1>1, <1>2, <1>4, <1>7, <1>8 DEF SessionOK, At
<1>10. /\ HoldsSequence(s)' => HoldsSequence(s) \/ \A t \in Sessions : ~HoldsSequence(t)
       /\ \A o : HoldsOrder(s, o)' => HoldsOrder(s, o)
       /\ \A d : HoldsDeclaration(s, d)' => HoldsDeclaration(s, d)
  BY <1>1, <1>4 DEF HoldsSequence, HoldsOrder, HoldsDeclaration, At
<1> QED
  BY <1>9, <1>10, MoveKeeps

LEMMA AllocateKeeps ==
  ASSUME TransactionInv, NEW s \in Sessions, Allocate(s)
  PROVE  TransactionInv'
<1> DEFINE row == [session[s].row EXCEPT !.receipt = NextReceipt]
           x == [session[s] EXCEPT !.at = "inserting", !.row = row]
<1>1. /\ session[s] \in SessionRecord /\ SessionOK(s) /\ At(s, {"checked"}) /\ ReadOnly
      /\ \A t \in Sessions : ~HoldsSequence(t)
      /\ session' = [session EXCEPT ![s].at = "inserting", ![s].row.receipt = NextReceipt]
  BY SessionTyped DEF Allocate
<1>2. session[s].row \in PaymentRow /\ Req(s).kind = "confirm"
  BY <1>1 DEF SessionOK, Prepared, At
<1>3. NextReceipt \in Nat
  BY DEF NextReceipt, TransactionInv, TransactionTypeOK, PaymentTypeOK
<1>4. row \in PaymentRow /\ row.receipt = NextReceipt
  BY <1>2, <1>3 DEF PaymentRow
<1>5. /\ x \in SessionRecord /\ session' = [session EXCEPT ![s] = x]
      /\ x.at = "inserting" /\ x.req = Req(s) /\ x.row = row
      /\ x.settles = session[s].settles /\ x.hold = session[s].hold
  BY <1>1, <1>4, SessionTyped DEF SessionRecord, Phases, Req
<1>6. x.row = [session[s].row EXCEPT !.receipt = x.row.receipt]
  BY <1>4, <1>5
<1> HIDE DEF x, row
<1> QED
  BY <1>1, <1>2, <1>4, <1>5, <1>6, PreparedMoves DEF At

LEMMA InsertKeeps ==
  ASSUME TransactionInv, NEW s \in Sessions, Insert(s)
  PROVE  TransactionInv'
<1>1. /\ session[s] \in SessionRecord /\ SessionOK(s) /\ At(s, {"inserting"}) /\ ReadOnly
      /\ ~IndexIsBusy(s)
  BY SessionTyped DEF Insert
<1>2. /\ session[s].row \in PaymentRow
      /\ session[s].row.receipt = IF Req(s).kind = "confirm" THEN NextReceipt ELSE 0
  BY <1>1 DEF SessionOK, Prepared, At
<1>3. CASE session' = [session EXCEPT ![s].at = "raced", ![s].row.receipt = 0]
  <2> DEFINE row == [session[s].row EXCEPT !.receipt = 0]
             x == [session[s] EXCEPT !.at = "raced", !.row = row]
  <2>1. row \in PaymentRow /\ row.receipt = 0
    BY <1>2 DEF PaymentRow
  <2>2. /\ x \in SessionRecord /\ session' = [session EXCEPT ![s] = x]
        /\ x.at = "raced" /\ x.req = Req(s) /\ x.row = row
        /\ x.settles = session[s].settles /\ x.hold = session[s].hold
    BY <1>1, <1>3, <2>1, SessionTyped DEF SessionRecord, Phases, Req
  <2>3. x.row = [session[s].row EXCEPT !.receipt = x.row.receipt]
    BY <2>1, <2>2
  <2> HIDE DEF x, row
  <2> QED
    BY <1>1, <2>1, <2>2, <2>3, PreparedMoves DEF At
<1>4. CASE FreshKey(Req(s).key) /\ FreshReference(Req(s).reference) /\ Go(s, "written")
  <2> DEFINE x == [session[s] EXCEPT !.at = "written"]
  <2>1. /\ x \in SessionRecord /\ session' = [session EXCEPT ![s] = x]
        /\ x.at = "written" /\ x.req = Req(s) /\ x.row = session[s].row
        /\ x.settles = session[s].settles /\ x.hold = session[s].hold
    BY <1>1, <1>4, SessionTyped DEF Go, SessionRecord, Phases, Req
  <2>2. x.row = [session[s].row EXCEPT !.receipt = x.row.receipt]
    BY <1>2, <2>1 DEF PaymentRow
  <2>3. x.row.receipt = 0 \/ HoldsSequence(s)
    BY <2>1 DEF HoldsSequence
  <2> HIDE DEF x
  <2> QED
    BY <1>1, <1>2, <1>4, <2>1, <2>2, <2>3, PreparedMoves DEF At
<1> QED
  BY <1>3, <1>4 DEF Insert, TakenKey, TakenReference

LEMMA WorkKeeps ==
  ASSUME TransactionInv, NEW s \in Sessions, Work(s)
  PROVE  TransactionInv'
<1>1. CASE Classify(s)
  BY <1>1, ClassifiedKeeps, StopKeeps DEF Classify, At
<1> QED
  BY <1>1, LookUpKeeps, LockOrderKeeps, LockDeclarationKeeps, RecheckKeeps, AllocateKeeps,
     InsertKeeps DEF Work

\* A rejection finds the declaration pending, so without a payment, and no
\* session that holds it.
LEMMA RejectKeeps ==
  ASSUME TransactionInv, NEW d \in Decls, Reject(d)
  PROVE  TransactionInv'
<1>1. /\ decision[d] = "pending" /\ decision' = [decision EXCEPT ![d] = "rejected"]
      /\ UNCHANGED <<paymentVars, remaining>> /\ session' = session
      /\ \A s \in Sessions : ~HoldsDeclaration(s, d)
  BY DEF Reject
<1>2. /\ decision' \in [Decls -> {"pending", "confirmed", "rejected"}]
      /\ decision'[d] = "rejected" /\ \A e \in Decls \ {d} : decision'[e] = decision[e]
  BY <1>1 DEF TransactionInv, TransactionTypeOK
<1>3. TransactionTypeOK'
  BY <1>1, <1>2 DEF TransactionInv, TransactionTypeOK, PaymentTypeOK, paymentVars
<1>4. \A s \in Sessions : SessionOK(s)'
  BY <1>1, <1>2, SessionStays
<1>5. LocksAreExclusive' /\ WritingAlone'
  BY <1>1 DEF TransactionInv, LocksAreExclusive, WritingAlone, HoldsOrder, HoldsDeclaration,
     HoldsSequence, At, Req
<1>6. \A e \in Decls : DecisionOK(e)'
  BY <1>1, <1>2 DEF TransactionInv, DecisionOK, paymentVars
<1> QED
  BY <1>1, <1>3, <1>4, <1>5, <1>6, TablesStay DEF TransactionInv

\* The process is replaced: every open transaction is rolled back.
LEMMA RollbackKeeps ==
  ASSUME TransactionInv, ReadOnly, session' = [s \in Sessions |-> Unused]
  PROVE  TransactionInv'
<1>1. UNCHANGED <<paymentVars, remaining>> /\ decision' = decision
  BY DEF ReadOnly
<1>2. TransactionTypeOK'
  BY <1>1, UnusedTyped
  DEF TransactionInv, TransactionTypeOK, PaymentTypeOK, paymentVars, SessionRecord
<1>3. \A s \in Sessions : SessionOK(s)'
  BY DEF SessionOK, At, Req, Unused, NoPayment
<1>4. LocksAreExclusive' /\ WritingAlone'
  BY DEF LocksAreExclusive, WritingAlone, HoldsOrder, HoldsDeclaration, HoldsSequence,
     At, Unused, NoPayment
<1>5. \A d \in Decls : DecisionOK(d)'
  BY <1>1 DEF TransactionInv, DecisionOK, paymentVars
<1> QED
  BY <1>1, <1>2, <1>3, <1>4, <1>5, TablesStay DEF TransactionInv

-----------------------------------------------------------------------------
(* The commit.                                                             *)

\* What the session that commits has, and still has.
LEMMA AboutToCommit ==
  ASSUME TransactionInv, NEW s \in Sessions, At(s, {"written"})
  PROVE  LET r == Req(s)  row == session[s].row IN
         /\ r \in Requests /\ row \in PaymentRow /\ Prepared(s)
         /\ row.receipt = IF r.kind = "confirm" THEN NextReceipt ELSE 0
         /\ FreshKey(r.key) /\ FreshReference(r.reference)
         /\ HoldsOrder(s, r.order)
         /\ r.kind = "confirm" => HoldsDeclaration(s, r.key) /\ decision[r.key] = "pending"
         /\ receiptSeq \in Nat /\ NextReceipt = receiptSeq + 1
<1>1. SessionOK(s) /\ receiptSeq \in Nat
  BY SessionTyped DEF TransactionInv, TransactionTypeOK, PaymentTypeOK
<1> QED
  BY <1>1 DEF SessionOK, Prepared, At, HoldsOrder, HoldsDeclaration, NextReceipt

Inserted(s) == [payments EXCEPT ![Req(s).key] = session[s].row]

\* The rows after the insert, and after the batch.
LEMMA CommitRows ==
  ASSUME TransactionInv, NEW s \in Sessions, CommitPayment(s)
  PROVE  \A j \in Keys :
           /\ Inserted(s)[j] \in PaymentRow \cup {NoPayment}
           /\ Inserted(s)[j] = IF j = Req(s).key THEN session[s].row ELSE payments[j]
           /\ payments'[j] = IF SettledBy(s, Inserted(s)[j])
                             THEN [Inserted(s)[j] EXCEPT !.status = "completed"]
                             ELSE Inserted(s)[j]
           /\ payments'[j].receipt = Inserted(s)[j].receipt
           /\ payments'[j].reference = Inserted(s)[j].reference
           /\ payments'[j] = NoPayment <=> Inserted(s)[j] = NoPayment
<1> DEFINE r == Req(s)
           row == session[s].row
           inserted == Inserted(s)
<1>1. r \in Requests /\ row \in PaymentRow /\ r.key \in Keys
  BY AboutToCommit, RequestFacts DEF CommitPayment
<1>2. payments \in [Keys -> PaymentRow \cup {NoPayment}]
  BY DEF TransactionInv, TransactionTypeOK, PaymentTypeOK
<1>3. \A j \in Keys : /\ inserted[j] \in PaymentRow \cup {NoPayment}
                      /\ inserted[j] = IF j = r.key THEN row ELSE payments[j]
                      /\ payments'[j] = IF SettledBy(s, inserted[j])
                                        THEN [inserted[j] EXCEPT !.status = "completed"]
                                        ELSE inserted[j]
  BY <1>1, <1>2 DEF CommitPayment, Inserted
<1>4. ASSUME NEW p \in PaymentRow \cup {NoPayment}
      PROVE  LET q == [p EXCEPT !.status = "completed"] IN
             /\ q.receipt = p.receipt /\ q.reference = p.reference
             /\ SettledBy(s, p) => q # NoPayment /\ p # NoPayment
  BY DEF PaymentRow, NoPayment, SettledBy, Settling
<1> HIDE DEF inserted, row, r
<1>5. \A j \in Keys : /\ payments'[j].receipt = inserted[j].receipt
                      /\ payments'[j].reference = inserted[j].reference
                      /\ payments'[j] = NoPayment <=> inserted[j] = NoPayment
  <2> SUFFICES ASSUME NEW j \in Keys
               PROVE  /\ payments'[j].receipt = inserted[j].receipt
                      /\ payments'[j].reference = inserted[j].reference
                      /\ payments'[j] = NoPayment <=> inserted[j] = NoPayment
    OBVIOUS
  <2>1. inserted[j] \in PaymentRow \cup {NoPayment}
    BY <1>3
  <2> PICK p \in PaymentRow \cup {NoPayment} : p = inserted[j]
    BY <2>1
  <2>2. CASE SettledBy(s, inserted[j])
    <3>1. payments'[j] = [p EXCEPT !.status = "completed"] /\ SettledBy(s, p)
      BY <1>3, <2>2
    <3> QED
      BY <1>4, <3>1
  <2>3. CASE ~SettledBy(s, inserted[j])
    BY <1>3, <2>3
  <2> QED
    BY <2>2, <2>3
<1> QED
  BY <1>3, <1>5 DEF inserted, row, r

\* CommitPayment is the Record of Payments: the batch touches no row that is
\* not pending, and the receipt is the next one.
LEMMA CommitIsRecord ==
  ASSUME TransactionInv, NEW s \in Sessions, CommitPayment(s)
  PROVE  LET r == Req(s) IN
         Record(r.key, Row(r.order, r.amount, r.method, r.reference, session[s].row.status),
                r.kind = "confirm", session[s].settles)
<1> DEFINE r == Req(s)
           row == session[s].row
           base == Row(r.order, r.amount, r.method, r.reference, row.status)
           inserted == Inserted(s)
           allocates == r.kind = "confirm" /\ base.status = "completed"
           receipt == IF allocates THEN NextReceipt ELSE 0
           Settles(j) == /\ session[s].settles
                         /\ inserted[j].order = base.order
                         /\ inserted[j].method \in Settling
                         /\ inserted[j].status = "pending"
<1>1. /\ r \in Requests /\ row \in PaymentRow /\ Prepared(s)
      /\ row.receipt = IF r.kind = "confirm" THEN NextReceipt ELSE 0
      /\ FreshKey(r.key) /\ FreshReference(r.reference)
      /\ receiptSeq \in Nat /\ NextReceipt = receiptSeq + 1
  BY AboutToCommit DEF CommitPayment
<1>2. /\ base.status = row.status /\ base.order = r.order /\ base.reference = r.reference
      /\ allocates <=> r.kind = "confirm"
  BY <1>1 DEF Row, Prepared
<1>3. row = [base EXCEPT !.receipt = receipt]
  <2>1. row.receipt = receipt
    BY <1>1, <1>2
  <2>2. /\ row.order = r.order /\ row.amount = r.amount /\ row.method = r.method
        /\ row.reference = r.reference
    BY <1>1 DEF Prepared
  <2> HIDE DEF receipt, allocates
  <2> QED
    BY <1>1, <2>1, <2>2 DEF Row, PaymentRow
<1>4. \A j \in Keys : /\ inserted[j] \in PaymentRow \cup {NoPayment}
                      /\ payments'[j] = IF SettledBy(s, inserted[j])
                                        THEN [inserted[j] EXCEPT !.status = "completed"]
                                        ELSE inserted[j]
  BY CommitRows
<1>5. ASSUME NEW p \in PaymentRow \cup {NoPayment}, SettledBy(s, p), p.status # "pending"
      PROVE  [p EXCEPT !.status = "completed"] = p
  BY <1>5 DEF PaymentRow, NoPayment, SettledBy, Settling
<1> HIDE DEF inserted
<1>6. \A j \in Keys : payments'[j] = IF Settles(j) THEN [inserted[j] EXCEPT !.status = "completed"]
                                     ELSE inserted[j]
  BY <1>2, <1>4, <1>5 DEF SettledBy
<1>7. payments' = [j \in Keys |-> IF Settles(j) THEN [inserted[j] EXCEPT !.status = "completed"]
                                  ELSE inserted[j]]
  <2>1. payments' = [j \in Keys |-> payments'[j]]
    BY DEF CommitPayment
  <2> QED
    BY <1>6, <2>1
<1>8. receiptSeq' = IF allocates THEN receiptSeq + 1 ELSE receiptSeq
  BY <1>1, <1>2 DEF CommitPayment
<1>9. inserted = [payments EXCEPT ![r.key] = [base EXCEPT !.receipt = receipt]]
  BY <1>3 DEF inserted, Inserted
<1> QED
  BY <1>1, <1>2, <1>7, <1>8, <1>9 DEF Record

\* What the commit does to the totals, the sequence, the hold and the decisions.
LEMMA CommitTotals ==
  ASSUME TransactionInv, NEW s \in Sessions, CommitPayment(s), NEW r \in Requests, r = Req(s)
  PROVE  /\ TransactionTypeOK'
         /\ \A o \in Orders \ {r.order} : /\ PaidTotal(o)' = PaidTotal(o)
                                          /\ remaining'[o] = remaining[o]
         /\ PaidTotal(r.order)' = PaidTotal(r.order) + r.amount
         /\ remaining'[r.order] = remaining[r.order] - r.amount
         /\ r.amount <= remaining[r.order]
         /\ receiptSeq' = IF r.kind = "confirm" THEN receiptSeq + 1 ELSE receiptSeq
         /\ \A d \in Decls : decision'[d] = IF r.kind = "confirm" /\ d = r.key THEN "confirmed"
                                            ELSE decision[d]
         /\ session' = [session EXCEPT ![s] = Unused]
<1> PICK st \in {"pending", "completed"} : st = session[s].row.status
  BY AboutToCommit DEF CommitPayment, PaymentRow
<1> PICK settles \in BOOLEAN : settles = session[s].settles
  BY SessionTyped DEF SessionRecord
<1> PICK confirms \in BOOLEAN : confirms = (r.kind = "confirm")
  OBVIOUS
<1>1. /\ r.kind \in {"pay", "confirm"} /\ r.key \in Keys /\ (r.kind = "confirm" => r.key \in Decls)
      /\ r.order \in Orders /\ r.amount \in Nat \ {0} /\ r.method \in Settling
      /\ r.reference \in References \cup {NoReference} /\ r.method \in Methods
  BY RequestFacts DEF Methods
<1>2. Record(r.key, Row(r.order, r.amount, r.method, r.reference, st), confirms, settles)
  BY CommitIsRecord
<1>3. PaymentTypeOK
  BY DEF TransactionInv, TransactionTypeOK
<1>4. PaymentTypeOK'
  BY <1>1, <1>2, <1>3, RecordType
<1>5. /\ \A o \in Orders \ {r.order} : PaidTotal(o)' = PaidTotal(o)
      /\ PaidTotal(r.order)' = PaidTotal(r.order) + r.amount
  <2> PICK k \in Keys : k = r.key
    BY <1>1
  <2> PICK o \in Orders : o = r.order
    BY <1>1
  <2> PICK a \in Nat \ {0} : a = r.amount
    BY <1>1
  <2> PICK m \in Methods : m = r.method
    BY <1>1
  <2> PICK x \in References \cup {NoReference} : x = r.reference
    BY <1>1
  <2>1. Record(k, Row(o, a, m, x, st), confirms, settles) /\ m \in Settling
    BY <1>1, <1>2
  <2>2. /\ \A p \in Orders \ {o} : PaidTotal(p)' = PaidTotal(p)
        /\ PaidTotal(o)' = PaidTotal(o) + a
    BY <1>3, <1>4, <2>1, TotalsMove
  <2> QED
    BY <2>2
<1>6. /\ Prepared(s) /\ receiptSeq \in Nat /\ NextReceipt = receiptSeq + 1
      /\ session[s].row.receipt = IF r.kind = "confirm" THEN NextReceipt ELSE 0
  BY AboutToCommit DEF CommitPayment
<1>7. /\ session[s].hold = remaining[r.order]
      /\ r.amount <= Total[r.order] - PaidTotal(r.order)
  BY <1>6 DEF Prepared
<1>8. /\ remaining[r.order] \in Nat /\ remaining[r.order] + PaidTotal(r.order) = Total[r.order]
      /\ remaining \in [Orders -> Nat] /\ PaidTotal(r.order) \in Nat
  BY <1>1, <1>3, TotalsAreNaturals DEF TransactionInv, HoldIsUnpaid, TransactionTypeOK
<1>9. r.amount <= remaining[r.order]
  BY <1>1, <1>7, <1>8
<1>10. /\ remaining' = [remaining EXCEPT ![r.order] = remaining[r.order] - r.amount]
       /\ remaining' \in [Orders -> Nat]
  BY <1>1, <1>7, <1>8, <1>9 DEF CommitPayment
<1>11. receiptSeq' = IF r.kind = "confirm" THEN receiptSeq + 1 ELSE receiptSeq
  BY <1>6 DEF CommitPayment
<1>12. /\ decision \in [Decls -> {"pending", "confirmed", "rejected"}]
       /\ decision' = IF r.kind = "pay" THEN decision
                      ELSE [decision EXCEPT ![r.key] = "confirmed"]
  BY DEF CommitPayment, TransactionInv, TransactionTypeOK
<1>13. /\ decision' \in [Decls -> {"pending", "confirmed", "rejected"}]
       /\ \A d \in Decls : decision'[d] = IF r.kind = "confirm" /\ d = r.key THEN "confirmed"
                                          ELSE decision[d]
  BY <1>1, <1>12
<1>14. session' = [session EXCEPT ![s] = Unused] /\ session' \in [Sessions -> SessionRecord]
  BY SessionTyped, UnusedTyped DEF CommitPayment
<1>15. TransactionTypeOK'
  BY <1>4, <1>10, <1>13, <1>14 DEF TransactionTypeOK, SessionRecord
<1> QED
  BY <1>5, <1>8, <1>9, <1>10, <1>11, <1>13, <1>14, <1>15

\* Another session keeps what it relies on: it works on another order, another
\* declaration, another key and another reference.
LEMMA CommitOthers ==
  ASSUME TransactionInv, NEW s \in Sessions, CommitPayment(s), NEW t \in Sessions \ {s}
  PROVE  SessionOK(t)'
<1> PICK r \in Requests : r = Req(s)
  BY AboutToCommit DEF CommitPayment
<1> DEFINE q == Req(t)
<1>1. /\ SessionOK(t) /\ session'[t] = session[t] /\ Req(t)' = q
      /\ \A phases : At(t, phases)' <=> At(t, phases)
  BY CommitTotals, SessionTyped DEF Req, At
<1>2. /\ At(s, {"written"}) /\ HoldsOrder(s, r.order)
      /\ r.kind = "confirm" => HoldsDeclaration(s, r.key) /\ r.key \in Decls
      /\ r.kind = "confirm" => HoldsSequence(s)
      /\ r.order \in Orders /\ r.key \in Keys /\ receiptSeq \in Nat
  BY AboutToCommit, RequestFacts DEF CommitPayment, HoldsSequence
<1>3. LocksAreExclusive /\ WritingAlone /\ s # t
  BY DEF TransactionInv
<1>4. ~At(t, {"idle"}) => q \in Requests
  BY <1>1 DEF SessionOK
<1>5. At(t, {"checked", "inserting", "raced", "written"}) => Prepared(t)'
  <2> SUFFICES ASSUME At(t, {"checked", "inserting", "raced", "written"}) PROVE Prepared(t)'
    OBVIOUS
  <2>1. Prepared(t) /\ q.order \in Orders /\ HoldsOrder(t, q.order)
    BY <1>1, <1>4, RequestFacts DEF SessionOK, At, HoldsOrder
  <2>2. q.order # r.order
    BY <1>2, <1>3, <2>1 DEF LocksAreExclusive
  <2> PICK o \in Orders \ {r.order} : o = q.order
    BY <2>1, <2>2
  <2>3. PaidTotal(o)' = PaidTotal(o) /\ remaining'[o] = remaining[o]
    BY CommitTotals
  <2>4. PaidTotal(q.order) = PaidTotal(o) /\ PaidTotal(q.order)' = PaidTotal(o)'
    BY <1>1
  <2> QED
    BY <1>1, <2>1, <2>3, <2>4 DEF Prepared
<1>6. At(t, {"ready", "checked", "inserting", "raced", "written"}) /\ q.kind = "confirm" =>
        decision'[q.key] = "pending"
  <2> SUFFICES ASSUME At(t, {"ready", "checked", "inserting", "raced", "written"}),
                      q.kind = "confirm"
               PROVE  decision'[q.key] = "pending"
    OBVIOUS
  <2>1. /\ decision[q.key] = "pending" /\ q.key \in Decls /\ HoldsDeclaration(t, q.key)
    BY <1>1, <1>4, RequestFacts DEF SessionOK, At, HoldsDeclaration
  <2>2. r.kind = "confirm" => q.key # r.key
    BY <1>2, <1>3, <2>1 DEF LocksAreExclusive
  <2> QED
    BY <2>1, <2>2, CommitTotals
<1>7. session[t].row.receipt = IF At(t, {"inserting", "written"}) /\ q.kind = "confirm"
                               THEN NextReceipt' ELSE 0
  <2>1. session[t].row.receipt = IF At(t, {"inserting", "written"}) /\ q.kind = "confirm"
                                 THEN NextReceipt ELSE 0
    BY <1>1 DEF SessionOK
  <2>2. CASE r.kind = "confirm"
    <3>1. ~HoldsSequence(t)
      BY <1>2, <1>3, <2>2 DEF LocksAreExclusive
    <3>2. NextReceipt # 0
      BY <1>2 DEF NextReceipt
    <3> QED
      BY <2>1, <3>1, <3>2 DEF HoldsSequence
  <2>3. CASE r.kind # "confirm"
    <3>1. receiptSeq' = receiptSeq
      BY <2>3, CommitTotals
    <3> QED
      BY <2>1, <3>1 DEF NextReceipt
  <2> QED
    BY <2>2, <2>3
<1>8. At(t, {"written"}) => FreshKey(q.key)' /\ FreshReference(q.reference)'
  <2> SUFFICES ASSUME At(t, {"written"})
               PROVE  FreshKey(q.key)' /\ FreshReference(q.reference)'
    OBVIOUS
  <2>1. /\ FreshKey(q.key) /\ FreshReference(q.reference) /\ q.key \in Keys
    BY <1>1, <1>4, RequestFacts DEF SessionOK, At
  <2>2. /\ q.key # r.key
        /\ q.reference # NoReference => r.reference # q.reference
    BY <1>2, <1>3 DEF WritingAlone
  <2>3. \A j \in Keys : /\ Inserted(s)[j] = IF j = r.key THEN session[s].row ELSE payments[j]
                        /\ payments'[j].reference = Inserted(s)[j].reference
                        /\ payments'[j] = NoPayment <=> Inserted(s)[j] = NoPayment
    BY CommitRows
  <2>4. session[s].row.reference = r.reference
    BY AboutToCommit DEF CommitPayment, Prepared
  <2>5. payments'[q.key] = NoPayment
    BY <2>1, <2>2, <2>3 DEF FreshKey
  <2>6. q.reference # NoReference => \A j \in Keys : payments'[j].reference # q.reference
    BY <2>1, <2>2, <2>3, <2>4 DEF FreshReference
  <2> QED
    BY <1>1, <2>5, <2>6 DEF FreshKey, FreshReference
<1> QED
  BY <1>1, <1>4, <1>5, <1>6, <1>7, <1>8 DEF SessionOK

\* The number of the row is the next one, and only its own.
LEMMA CommitReceipts ==
  ASSUME TransactionInv, NEW s \in Sessions, CommitPayment(s)
  PROVE  ReceiptsHaveNoGap'
<1> PICK r \in Requests : r = Req(s)
  BY AboutToCommit DEF CommitPayment
<1> DEFINE numbered == {k \in Keys : payments[k].receipt # 0}
<1>1. /\ session[s].row.receipt = IF r.kind = "confirm" THEN receiptSeq + 1 ELSE 0
      /\ payments[r.key] = NoPayment /\ receiptSeq \in Nat /\ r.key \in Keys
  BY AboutToCommit, RequestFacts DEF CommitPayment, FreshKey
<1>2. \A j \in Keys : payments'[j].receipt = IF j = r.key THEN session[s].row.receipt
                                             ELSE payments[j].receipt
  <2>1. \A j \in Keys : /\ Inserted(s)[j] = IF j = r.key THEN session[s].row ELSE payments[j]
                        /\ payments'[j].receipt = Inserted(s)[j].receipt
    BY CommitRows
  <2> QED
    BY <2>1
<1>3. r.key \notin numbered
  BY <1>1 DEF NoPayment
<1>4. /\ {payments[k].receipt : k \in numbered} = 1 .. receiptSeq
      /\ \A j, k \in numbered : payments[j].receipt = payments[k].receipt => j = k
  BY DEF TransactionInv, ReceiptsHaveNoGap
<1>5. receiptSeq' = IF r.kind = "confirm" THEN receiptSeq + 1 ELSE receiptSeq
  BY CommitTotals
<1>6. numbered' = {k \in Keys : payments'[k].receipt # 0}
  OBVIOUS
<1>7. CASE r.kind # "confirm"
  <2>1. numbered' = numbered /\ \A k \in numbered : payments'[k].receipt = payments[k].receipt
    BY <1>1, <1>2, <1>3, <1>7
  <2> QED
    BY <1>4, <1>5, <1>7, <2>1 DEF ReceiptsHaveNoGap
<1>8. CASE r.kind = "confirm"
  <2>1. /\ numbered' = numbered \cup {r.key}
        /\ \A k \in numbered : payments'[k].receipt = payments[k].receipt
        /\ payments'[r.key].receipt = receiptSeq + 1
    BY <1>1, <1>2, <1>3, <1>8
  <2>2. \A k \in numbered : payments[k].receipt \in 1 .. receiptSeq
    BY <1>4
  <2> HIDE DEF numbered
  <2>3. {payments'[k].receipt : k \in numbered \cup {r.key}}
          = {payments[k].receipt : k \in numbered} \cup {receiptSeq + 1}
    BY <2>1
  <2>4. (1 .. receiptSeq) \cup {receiptSeq + 1} = 1 .. (receiptSeq + 1)
    BY <1>1
  <2>5. {payments'[k].receipt : k \in numbered'} = 1 .. receiptSeq'
    BY <1>4, <1>5, <1>8, <2>1, <2>3, <2>4
  <2>6. \A j, k \in numbered' : payments'[j].receipt = payments'[k].receipt => j = k
    BY <1>1, <1>4, <2>1, <2>2
  <2> QED
    BY <2>5, <2>6 DEF ReceiptsHaveNoGap, numbered
<1> QED
  BY <1>7, <1>8

LEMMA CommitKeeps ==
  ASSUME TransactionInv, NEW s \in Sessions, CommitPayment(s)
  PROVE  TransactionInv'
<1> PICK r \in Requests : r = Req(s)
  BY AboutToCommit DEF CommitPayment
<1>1. session'[s] = Unused /\ \A t \in Sessions \ {s} : session'[t] = session[t]
  BY SessionTyped, CommitTotals
<1>2. SessionOK(s)'
  BY <1>1 DEF SessionOK, At, Req, Unused, NoPayment
<1>3. \A t \in Sessions : SessionOK(t)'
  BY <1>2, CommitOthers
<1>4. LocksAreExclusive' /\ WritingAlone'
  <2>1. /\ ~HoldsSequence(s)' /\ (\A o : ~HoldsOrder(s, o)') /\ (\A d : ~HoldsDeclaration(s, d)')
        /\ ~At(s, {"written"})'
    BY <1>1 DEF HoldsSequence, HoldsOrder, HoldsDeclaration, At, Unused, NoPayment
  <2>2. \A t \in Sessions \ {s} :
          /\ \A o : HoldsOrder(t, o)' <=> HoldsOrder(t, o)
          /\ \A d : HoldsDeclaration(t, d)' <=> HoldsDeclaration(t, d)
          /\ HoldsSequence(t)' <=> HoldsSequence(t)
          /\ Req(t)' = Req(t) /\ (At(t, {"written"})' <=> At(t, {"written"}))
    BY <1>1 DEF HoldsOrder, HoldsDeclaration, HoldsSequence, Req, At
  <2> QED
    BY <2>1, <2>2 DEF TransactionInv, LocksAreExclusive, WritingAlone
<1>5. \A d \in Decls : DecisionOK(d)'
  <2> SUFFICES ASSUME NEW d \in Decls
               PROVE  decision'[d] = "confirmed" <=> payments'[d] # NoPayment
    BY DEF DecisionOK
  <2>1. /\ Inserted(s)[d] = IF d = r.key THEN session[s].row ELSE payments[d]
        /\ payments'[d] = NoPayment <=> Inserted(s)[d] = NoPayment
    <3>1. d \in Keys
      BY DEF Keys
    <3> QED
      BY <3>1, CommitRows
  <2>2. session[s].row # NoPayment /\ (d = r.key => r.kind = "confirm")
    BY AboutToCommit, RequestFacts, TenantAssumption
    DEF CommitPayment, PaymentRow, NoPayment, TenantAssumption
  <2>3. DecisionOK(d) /\ decision'[d] = IF r.kind = "confirm" /\ d = r.key THEN "confirmed"
                                        ELSE decision[d]
    BY CommitTotals DEF TransactionInv
  <2> QED
    BY <2>1, <2>2, <2>3 DEF DecisionOK
<1>6. HoldIsUnpaid'
  <2> SUFFICES ASSUME NEW o \in Orders
               PROVE  remaining'[o] \in Nat /\ remaining'[o] + PaidTotal(o)' = Total[o]
    BY DEF HoldIsUnpaid
  <2>1. /\ remaining[o] \in Nat /\ remaining[o] + PaidTotal(o) = Total[o] /\ PaidTotal(o) \in Nat
    BY TotalsAreNaturals DEF TransactionInv, HoldIsUnpaid, TransactionTypeOK
  <2>2. CASE o # r.order
    BY <2>1, <2>2, CommitTotals
  <2>3. CASE o = r.order
    <3>1. /\ PaidTotal(r.order)' = PaidTotal(r.order) + r.amount
          /\ remaining'[r.order] = remaining[r.order] - r.amount
          /\ r.amount <= remaining[r.order] /\ r.amount \in Nat
      BY CommitTotals, RequestFacts
    <3> QED
      BY <2>1, <2>3, <3>1
  <2> QED
    BY <2>2, <2>3
<1>7. TransactionTypeOK'
  BY CommitTotals
<1> QED
  BY <1>3, <1>4, <1>5, <1>6, <1>7, CommitReceipts DEF TransactionInv

-----------------------------------------------------------------------------
(* The route: the middleware and the transactions together.                *)

\* What a step of the route does to the tables and the sessions.
TransactionStep ==
  \/ \E s \in Sessions, r \in Requests : Begin(s, r)
  \/ \E s \in Sessions : Work(s) \/ CommitPayment(s) \/ Close(s)
  \/ \E d \in Decls : Reject(d)
  \/ ReadOnly /\ session' = [s \in Sessions |-> Unused]

LEMMA TransactionKeeps ==
  ASSUME TransactionInv, [TransactionStep]_transactionVars
  PROVE  TransactionInv'
<1>1. CASE UNCHANGED transactionVars
  <2>1. UNCHANGED <<paymentVars, remaining>> /\ UNCHANGED <<decision, session>>
    BY <1>1 DEF transactionVars
  <2>2. TransactionTypeOK'
    BY <2>1 DEF TransactionInv, TransactionTypeOK, PaymentTypeOK, paymentVars
  <2>3. \A s \in Sessions : SessionOK(s)'
    BY <2>1, SessionStays
  <2>4. LocksAreExclusive' /\ WritingAlone'
    BY <2>1 DEF TransactionInv, LocksAreExclusive, WritingAlone, HoldsOrder, HoldsDeclaration,
       HoldsSequence, At, Req
  <2>5. \A d \in Decls : DecisionOK(d)'
    BY <2>1 DEF TransactionInv, DecisionOK, paymentVars
  <2> QED
    BY <2>1, <2>2, <2>3, <2>4, <2>5, TablesStay DEF TransactionInv
<1>2. ASSUME NEW s \in Sessions, Close(s) PROVE TransactionInv'
  BY <1>2, CloseKeeps DEF Close
<1> QED
  BY <1>1, <1>2, BeginKeeps, WorkKeeps, CommitKeeps, RejectKeeps, RollbackKeeps
  DEF TransactionStep

\* What it does to the store and the requests of the middleware.
LEMMA RouteStepsMiddleware ==
  ASSUME [RouteNext]_routeVars
  PROVE  [IdempotencyNext]_idempotencyVars
<1>1. Slots = Sessions
  BY PayRouteAssumption DEF PayRouteAssumption
<1>2. CASE \E s \in Sessions : Pass(s)
  BY <1>1, <1>2 DEF Pass, IdempotencyNext
<1>3. CASE UNCHANGED routeVars
  BY <1>3 DEF routeVars
<1>4. ASSUME StoreSuspends \/ NobodyMarks, NEW s \in Sessions,
             \/ \E r \in CacheKeys : Arrive(s, r)
             \/ \E r \in Requests : Bypass(s, r)
             \/ Transact(s) \/ Respond(s) \/ RespondConflict(s) \/ Remember(s)
             \/ CommitRoute(s) \/ CommitConfirmation(s) \/ Fail(s) \/ Leave(s)
      PROVE  [IdempotencyNext]_idempotencyVars
  <2>1. CASE \/ \E r \in CacheKeys : Admit(s, r)
             \/ Answer(s) \/ Store(s) \/ CommitAnswered(s) \/ CommitLost(s)
             \/ Finish(s) \/ Refuse(s) \/ Raise(s)
    BY <1>1, <1>4, <2>1 DEF IdempotencyNext
  <2> QED
    BY <1>4, <2>1 DEF Arrive, Bypass, Transact, Respond, RespondConflict, Remember,
       CommitRoute, CommitConfirmation, Fail, Leave
<1>5. ASSUME StoreSuspends \/ NobodyMarks,
             (\E k \in CacheKeys : Forget(k)) \/ (\E d \in Decls : Decline(d)) \/ Replace
      PROVE  [IdempotencyNext]_idempotencyVars
  BY <1>5 DEF Forget, Decline, Replace, IdempotencyNext
<1> QED
  BY <1>2, <1>3, <1>4, <1>5 DEF RouteNext

LEMMA RouteStepsTransactions ==
  ASSUME IdempotencyInv, [RouteNext]_routeVars
  PROVE  [TransactionStep]_transactionVars
<1>1. Slots = Sessions /\ CacheKeys \subseteq Requests
  BY PayRouteAssumption DEF PayRouteAssumption
<1>2. ASSUME NEW s \in Sessions, Pass(s) PROVE TransactionStep
  <2>1. slot[s].key \in Requests
    BY <1>1, <1>2 DEF Pass, Mark, Is, IdempotencyInv, IdempotencyTypeOK
  <2> QED
    BY <1>2, <2>1 DEF Pass, TransactionStep
<1>3. ASSUME NEW s \in Sessions, NEW r \in Requests, Bypass(s, r) PROVE TransactionStep
  BY <1>3 DEF Bypass, TransactionStep
<1>4. ASSUME NEW s \in Sessions,
             Transact(s) \/ RespondConflict(s) \/ CommitRoute(s) \/ CommitConfirmation(s) \/ Fail(s)
      PROVE  TransactionStep
  BY <1>4 DEF Transact, RespondConflict, CommitRoute, CommitConfirmation, Fail, TransactionStep
<1>5. CASE (\E d \in Decls : Decline(d)) \/ Replace
  BY <1>5 DEF Decline, Replace, TransactionStep
<1>6. CASE UNCHANGED transactionVars
  BY <1>6
<1> QED
  BY <1>2, <1>3, <1>4, <1>5, <1>6
  DEF RouteNext, Arrive, Respond, Remember, Leave, Forget, routeVars

\* The pay route uses the middleware as it is meant to be used, so AtMostOnce
\* and WorkIsRemembered hold of it as well.
THEOREM RouteImplementsMiddleware == RouteSpec => IdempotencySpec
<1>1. RouteInit => IdempotencyInit
  BY DEF RouteInit
<1> QED
  BY <1>1, RouteStepsMiddleware, PTL DEF RouteSpec, IdempotencySpec

RouteInv == IdempotencyInv /\ TransactionInv

LEMMA RouteAlways == RouteSpec => []RouteInv
<1>1. RouteInit => RouteInv
  BY InitInv, TransactionStart DEF RouteInit, RouteInv
<1>2. RouteInv /\ [RouteNext]_routeVars => RouteInv'
  BY RouteStepsMiddleware, RouteStepsTransactions, StepInv, TransactionKeeps DEF RouteInv
<1> QED
  BY <1>1, <1>2, PTL DEF RouteSpec

\* Every variable of the route keeps its type.
THEOREM RouteIsTyped == RouteSpec => []RouteTypeOK
<1>1. RouteInv => RouteTypeOK
  BY DEF RouteInv, IdempotencyInv, TransactionInv, RouteTypeOK
<1> QED
  BY <1>1, RouteAlways, PTL

(***************************************************************************)
(* _confirm_payment_for_locked_order: payments of one order that run at    *)
(* the same time both count, whatever they read before the order's lock.   *)
(***************************************************************************)
THEOREM HoldIsAlwaysUnpaid == RouteSpec => []HoldIsUnpaid
<1>1. RouteInv => HoldIsUnpaid
  BY DEF RouteInv, TransactionInv
<1> QED
  BY <1>1, RouteAlways, PTL

(***************************************************************************)
(* allocate_receipt_number in the savepoint of the insert: an insert that  *)
(* loses its race, or a transaction that fails, leaves no gap.             *)
(***************************************************************************)
THEOREM ReceiptsAreGapless == RouteSpec => []ReceiptsHaveNoGap
<1>1. RouteInv => ReceiptsHaveNoGap
  BY DEF RouteInv, TransactionInv
<1> QED
  BY <1>1, RouteAlways, PTL

\* What a step may change, and who changes it.
LEMMA OnlyCommitsPay ==
  ASSUME RouteInv, [RouteNext]_routeVars
  PROVE  \/ \E s \in Sessions : CommitPayment(s)
         \/ \E d \in Decls : Reject(d)
         \/ ReadOnly
<1>1. [TransactionStep]_transactionVars
  BY RouteStepsTransactions DEF RouteInv
<1>2. CASE UNCHANGED transactionVars
  BY <1>2 DEF transactionVars, ReadOnly
<1>3. ASSUME NEW s \in Sessions, Work(s) \/ Close(s) PROVE ReadOnly
  BY <1>3 DEF Work, LookUp, LockOrder, LockDeclaration, Recheck, Allocate, Insert, Classify, Close
<1> QED
  BY <1>1, <1>2, <1>3 DEF TransactionStep, Begin

(***************************************************************************)
(* confirm_declaration against reject_declaration: whichever comes second  *)
(* meets the lock of the first, then its decision.                         *)
(***************************************************************************)
THEOREM DecisionsAreFinal == RouteSpec => DecidedOnce
<1> DEFINE Once == \A d \in Decls : decision'[d] # decision[d] =>
                     /\ decision[d] = "pending"
                     /\ decision'[d] = "confirmed" <=> payments'[d] # NoPayment
<1>1. ASSUME RouteInv, [RouteNext]_routeVars PROVE Once
  <2>1. TransactionInv /\ TransactionInv'
    BY <1>1, RouteStepsTransactions, TransactionKeeps DEF RouteInv
  <2>2. \A d \in Decls : decision'[d] = "confirmed" <=> payments'[d] # NoPayment
    BY <2>1 DEF TransactionInv, DecisionOK
  <2>3. ASSUME NEW s \in Sessions, CommitPayment(s), NEW d \in Decls, decision'[d] # decision[d]
        PROVE  decision[d] = "pending"
    <3> PICK r \in Requests : r = Req(s)
      BY <2>1, <2>3, AboutToCommit DEF CommitPayment
    <3>1. r.kind = "confirm" /\ d = r.key
      BY <2>1, <2>3, CommitTotals
    <3> QED
      BY <2>1, <2>3, <3>1, AboutToCommit DEF CommitPayment
  <2>4. ASSUME NEW e \in Decls, Reject(e), NEW d \in Decls, decision'[d] # decision[d]
        PROVE  decision[d] = "pending"
    BY <2>1, <2>4 DEF Reject, TransactionInv, TransactionTypeOK
  <2>5. CASE ReadOnly
    BY <2>5 DEF ReadOnly
  <2> QED
    BY <1>1, <2>2, <2>3, <2>4, <2>5, OnlyCommitsPay
<1> HIDE DEF Once
<1>2. RouteSpec => [][Once]_<<payments, decision>>
  BY <1>1, RouteAlways, PTL DEF RouteSpec
<1> QED
  BY <1>2 DEF Once, DecidedOnce

(***************************************************************************)
(* confirm_payment and confirm_declaration, interleaved in any way, change *)
(* the payments table only by the one-step Record that OrderCommands       *)
(* composes with the hold, the ledger and the status of the order.         *)
(***************************************************************************)
THEOREM TransactionsAreRecords == RouteSpec => CommitsAreRecords
<1> DEFINE Recorded == payments' # payments => RecordsARequest
<1>1. ASSUME RouteInv, [RouteNext]_routeVars PROVE Recorded
  <2>1. ASSUME NEW s \in Sessions, CommitPayment(s) PROVE Recorded
    <3> DEFINE r == Req(s)
    <3>1. r \in Requests /\ session[s].row.status \in {"pending", "completed"}
      BY <1>1, <2>1, AboutToCommit DEF RouteInv, CommitPayment, PaymentRow
    <3>2. session[s].settles \in BOOLEAN
      BY <1>1, SessionTyped DEF RouteInv, SessionRecord
    <3>3. r.amount <= Total[r.order] - PaidTotal(r.order)
      BY <1>1, <2>1, AboutToCommit DEF RouteInv, CommitPayment, Prepared
    <3>4. Record(r.key, Row(r.order, r.amount, r.method, r.reference, session[s].row.status),
                 r.kind = "confirm", session[s].settles)
      BY <1>1, <2>1, CommitIsRecord DEF RouteInv
    <3> QED
      BY <3>1, <3>2, <3>3, <3>4 DEF Row, RecordsARequest
  <2>2. ASSUME payments' = payments PROVE Recorded
    BY <2>2
  <2> QED
    BY <1>1, <2>1, <2>2, OnlyCommitsPay DEF Reject, ReadOnly, paymentVars
<1> HIDE DEF Recorded
<1>2. RouteSpec => [][Recorded]_<<payments, receiptSeq>>
  BY <1>1, RouteAlways, PTL DEF RouteSpec
<1> QED
  BY <1>2 DEF Recorded, CommitsAreRecords
=============================================================================
