-------------------------- MODULE PaymentRequests ---------------------------
(***************************************************************************)
(* Payments as the transactions that make them, step by step               *)
(* (services/canonical_payment_service.py): a direct payment and the       *)
(* confirmation of a declaration read, lock, read again, insert under a    *)
(* savepoint and commit, while others do the same.  Payments says what a   *)
(* payment is in one step; CommitsAreRecords shows that these transactions *)
(* do nothing else.  Only settlements of a confirmed order are modelled    *)
(* here, cash and transfer; credit takes the same steps.                   *)
(*                                                                         *)
(* A session shows nothing of its writes before it commits.  Others meet   *)
(* them as locks: the order and the declaration FOR UPDATE, the receipt    *)
(* sequence, and the entries of the two unique indexes.                    *)
(***************************************************************************)
EXTENDS Payments

CONSTANTS
  Requests,     \* what clients may send
  NoRequest,
  Sessions      \* transactions that run at the same time

ASSUME RequestAssumption ==
  /\ NoRequest \notin Requests
  /\ \A r \in Requests :
       /\ \/ r.kind = "pay" /\ r.key \in PayKeys
          \/ r.kind = "confirm" /\ r.key \in Decls
       /\ r.order \in Orders /\ r.amount \in Nat \ {0} /\ r.method \in Settling
       /\ r.reference \in References \cup {NoReference}

VARIABLES
  remaining,   \* remaining[o]: remaining_amount of the hold of o
  decision,    \* decision[d]: status of the declaration
  session      \* session[s]: its request and what it has read and prepared

transactionVars == <<paymentVars, remaining, decision, session>>

Phases == {"idle", "begun", "locking", "locked", "ready", "checked", "inserting",
           "raced", "written", "replaying", "refused"}

Unused == [at |-> "idle", req |-> NoRequest, row |-> NoPayment, settles |-> FALSE,
           hold |-> 0]

TransactionTypeOK ==
  /\ PaymentTypeOK
  /\ remaining \in [Orders -> Nat]
  /\ decision \in [Decls -> {"pending", "confirmed", "rejected"}]
  /\ session \in [Sessions -> [at : Phases, req : Requests \cup {NoRequest},
                               row : PaymentRow \cup {NoPayment}, settles : BOOLEAN, hold : Nat]]

TransactionInit ==
  /\ PaymentInit
  /\ remaining = Total
  /\ decision = [d \in Decls |-> "pending"]
  /\ session = [s \in Sessions |-> Unused]

-----------------------------------------------------------------------------
\* Locks and helpers

At(s, phases) == session[s].at \in phases
Req(s) == session[s].req
Go(s, phase) == session' = [session EXCEPT ![s].at = phase]

HoldsOrder(s, o) ==
  /\ At(s, {"locked", "ready", "checked", "inserting", "raced", "written"})
  /\ Req(s).order = o

HoldsDeclaration(s, d) ==
  /\ At(s, {"ready", "checked", "inserting", "raced", "written"})
  /\ Req(s).key = d

\* receipt_sequences; the rollback of the savepoint gives the row back.
HoldsSequence(s) == session[s].row.receipt # 0

\* Another session has an uncommitted row with the key or the reference of s.
IndexIsBusy(s) ==
  \E t \in Sessions \ {s} :
    /\ At(t, {"written"})
    /\ \/ Req(t).key = Req(s).key
       \/ Req(s).reference # NoReference /\ Req(t).reference = Req(s).reference

\* _same_payment_request
SameRequest(r) ==
  LET p == payments[r.key]
  IN <<p.order, p.amount, p.method, p.reference>> = <<r.order, r.amount, r.method, r.reference>>

\* Replay or conflict, for a request whose key has a row.
Classified(s) == Go(s, IF SameRequest(Req(s)) THEN "replaying" ELSE "refused")

TakenKey(r) == ~FreshKey(r.key)
TakenReference(r) == ~FreshReference(r.reference)

ReadOnly == UNCHANGED <<paymentVars, remaining, decision>>

-----------------------------------------------------------------------------
\* The steps of a transaction

\* confirm_payment, or confirm_declaration with the declaration located.
Begin(s, r) ==
  /\ At(s, {"idle"})
  /\ session' = [session EXCEPT ![s] =
       [Unused EXCEPT !.at = IF r.kind = "pay" THEN "begun" ELSE "locking", !.req = r]]
  /\ ReadOnly

\* The fast replay path of confirm_payment, before any lock.
LookUp(s) ==
  /\ At(s, {"begun"})
  /\ IF TakenKey(Req(s)) THEN Classified(s) ELSE Go(s, "locking")
  /\ ReadOnly

\* A mutant of LockOrder: the order is read without FOR UPDATE.
ReadOrder(s) ==
  /\ At(s, {"locking"})
  /\ Go(s, IF Req(s).kind = "pay" THEN "ready" ELSE "locked")
  /\ ReadOnly

\* _get_order_by_id_for_update
LockOrder(s) ==
  /\ At(s, {"locking"})
  /\ \A t \in Sessions : ~HoldsOrder(t, Req(s).order)
  /\ Go(s, IF Req(s).kind = "pay" THEN "ready" ELSE "locked")
  /\ ReadOnly

\* get_for_update_by_wholesaler; a confirmed declaration replays its payment.
LockDeclaration(s) ==
  /\ At(s, {"locked"})
  /\ \A t \in Sessions : ~HoldsDeclaration(t, Req(s).key)
  /\ Go(s, CASE decision[Req(s).key] = "pending" -> "ready"
             [] decision[Req(s).key] = "confirmed" -> "replaying"
             [] decision[Req(s).key] = "rejected" -> "refused")
  /\ ReadOnly

\* A mutant of Admissible: only the hold is looked at, and it is no bound.
AdmissibleAnyAmount(r) == remaining[r.order] = Total[r.order] - PaidTotal(r.order)

\* The remaining balance, the reference of a transfer, and the hold.
Admissible(r) ==
  LET unpaid == Total[r.order] - PaidTotal(r.order)
  IN /\ r.amount <= unpaid
     /\ r.method = "transfer" => ~TakenReference(r)
     /\ remaining[r.order] = unpaid

(***************************************************************************)
(* _confirm_payment_for_locked_order up to the savepoint: the key is read   *)
(* again, the request is checked, the status of its row is decided.        *)
(***************************************************************************)
Recheck(s) ==
  LET r == Req(s)
      paid == PaidTotal(r.order)
      full == paid + r.amount >= Total[r.order]
      status == IF r.kind = "confirm" \/ (r.method = "transfer" /\ full)
                THEN "completed" ELSE "pending"
      row == [order |-> r.order, amount |-> r.amount, method |-> r.method,
              reference |-> r.reference, status |-> status, receipt |-> 0]
  IN /\ At(s, {"ready"})
     /\ IF TakenKey(r) THEN Classified(s)
        ELSE IF ~Admissible(r) THEN Go(s, "refused")
        ELSE session' = [session EXCEPT ![s] =
               [at |-> IF r.kind = "pay" THEN "inserting" ELSE "checked", req |-> r, row |-> row,
                settles |-> r.kind = "pay" /\ full, hold |-> remaining[r.order]]]
     /\ ReadOnly

\* A mutant of Allocate: the counter is read and written by two statements.
AllocateUnlocked(s) ==
  /\ At(s, {"checked"})
  /\ session' = [session EXCEPT ![s].at = "inserting", ![s].row.receipt = NextReceipt]
  /\ ReadOnly

\* allocate_receipt_number, in the savepoint of the insert.
Allocate(s) ==
  /\ At(s, {"checked"})
  /\ \A t \in Sessions : ~HoldsSequence(t)
  /\ session' = [session EXCEPT ![s].at = "inserting", ![s].row.receipt = NextReceipt]
  /\ ReadOnly

\* The insert waits for an uncommitted entry of either unique index.
Insert(s) ==
  /\ At(s, {"inserting"}) /\ ~IndexIsBusy(s)
  /\ IF TakenKey(Req(s)) \/ TakenReference(Req(s))
     THEN session' = [session EXCEPT ![s].at = "raced", ![s].row.receipt = 0]
     ELSE Go(s, "written")
  /\ ReadOnly

\* _classify_payment_insert_race, for the constraint that was reported.
Classify(s) ==
  /\ At(s, {"raced"})
  /\ \/ TakenKey(Req(s)) /\ Classified(s)
     \/ TakenReference(Req(s)) /\ Go(s, "refused")
  /\ ReadOnly

Work(s) ==
  \/ LookUp(s) \/ LockOrder(s) \/ LockDeclaration(s) \/ Recheck(s)
  \/ Allocate(s) \/ Insert(s) \/ Classify(s)

-----------------------------------------------------------------------------
\* The end of a transaction

\* A mutant of SettledBy: the batch forgets the order.
SettledAnywhere(s, p) == session[s].settles /\ p.method \in Settling

\* update_cash_transfer_to_completed, by the payment that pays the order.
SettledBy(s, p) ==
  session[s].settles /\ p.order = Req(s).order /\ p.method \in Settling

(***************************************************************************)
(* The row, the batch update_cash_transfer_to_completed, the hold and the  *)
(* declaration become visible together.                                    *)
(***************************************************************************)
CommitPayment(s) ==
  LET r == Req(s)
      row == session[s].row
      inserted == [payments EXCEPT ![r.key] = row]
  IN /\ At(s, {"written"})
     /\ payments' = [k \in Keys |->
          IF SettledBy(s, inserted[k]) THEN [inserted[k] EXCEPT !.status = "completed"]
          ELSE inserted[k]]
     /\ receiptSeq' = IF row.receipt = 0 THEN receiptSeq ELSE row.receipt
     /\ remaining' = [remaining EXCEPT ![r.order] = session[s].hold - r.amount]
     /\ decision' = IF r.kind = "pay" THEN decision
                    ELSE [decision EXCEPT ![r.key] = "confirmed"]
     /\ session' = [session EXCEPT ![s] = Unused]

\* The end of a replay, a refusal, or a failure at any step.
Close(s) ==
  /\ ~At(s, {"idle"})
  /\ session' = [session EXCEPT ![s] = Unused]
  /\ ReadOnly

\* A mutant of Reject: the declaration is read without its lock.
RejectUnlocked(d) ==
  /\ decision[d] = "pending"
  /\ decision' = [decision EXCEPT ![d] = "rejected"]
  /\ UNCHANGED <<paymentVars, remaining, session>>

\* reject_declaration, which takes no other lock.
Reject(d) ==
  /\ decision[d] = "pending"
  /\ \A s \in Sessions : ~HoldsDeclaration(s, d)
  /\ decision' = [decision EXCEPT ![d] = "rejected"]
  /\ UNCHANGED <<paymentVars, remaining, session>>

-----------------------------------------------------------------------------
(***************************************************************************)
(* The hold is what the payments leave of the total, never below zero: two *)
(* payments of one order that run at the same time both count.             *)
(***************************************************************************)
HoldIsUnpaid ==
  \A o \in Orders : /\ remaining[o] \in Nat
                    /\ remaining[o] + PaidTotal(o) = Total[o]

\* The receipts of the committed rows are 1, 2, ... without a gap or a duplicate,
\* whichever insert loses its race after a number was allocated for it.
ReceiptsHaveNoGap ==
  LET numbered == {k \in Keys : payments[k].receipt # 0}
  IN /\ {payments[k].receipt : k \in numbered} = 1 .. receiptSeq
     /\ \A j, k \in numbered : payments[j].receipt = payments[k].receipt => j = k

(***************************************************************************)
(* A declaration is decided once, confirmed together with its payment: a   *)
(* rejection that meets a confirmation in progress waits for it and is     *)
(* refused, and the other way round.                                       *)
(***************************************************************************)
DecidedOnce ==
  [][\A d \in Decls : decision'[d] # decision[d] =>
       /\ decision[d] = "pending"
       /\ decision'[d] = "confirmed" <=> payments'[d] # NoPayment]_<<payments, decision>>

\* The step is a Record of a request that was sent.
RecordsARequest ==
  \E r \in Requests, status \in {"pending", "completed"}, settleOrder \in BOOLEAN :
    /\ r.amount <= Total[r.order] - PaidTotal(r.order)
    /\ Record(r.key,
              [order |-> r.order, amount |-> r.amount, method |-> r.method,
               reference |-> r.reference, status |-> status, receipt |-> 0],
              r.kind = "confirm", settleOrder)

(***************************************************************************)
(* Every change of the payments table is one atomic Record of Payments, of *)
(* a request that was sent: the step in which OrderCommands makes it.      *)
(***************************************************************************)
CommitsAreRecords == [][payments' # payments => RecordsARequest]_<<payments, receiptSeq>>
=============================================================================
