---------------------------- MODULE Declarations ----------------------------
(***************************************************************************)
(* payment_declarations: what retailers say they paid.  A declaration has  *)
(* no financial effect until a cashier confirms it; rejected and confirmed *)
(* are final.  Its id is chosen by the submission's idempotency key, so a  *)
(* repeated submission is a replay and changes nothing.                    *)
(***************************************************************************)
EXTENDS Tenant

CONSTANT
  DeclarableAmounts     \* bound of the model: the amounts declared

ASSUME DeclarationAssumption == DeclarableAmounts \subseteq Nat \ {0}

VARIABLE decl

DeclRow == [status : {"pending", "confirmed", "rejected"},
            order : Orders,
            amount : Nat \ {0},
            method : {"cash", "transfer"},
            reference : References \cup {NoReference}]

NoDecl == [status |-> "none", order |-> NoOrder, amount |-> 0,
           method |-> "none", reference |-> NoReference]

DeclarationTypeOK == decl \in [Decls -> DeclRow \cup {NoDecl}]

DeclarationInit == decl = [d \in Decls |-> NoDecl]

\* submit_declaration: a transfer needs a reference, cash drops it.
Submit(d, o, a, m, x) ==
  /\ decl[d] = NoDecl
  /\ m = "transfer" <=> x # NoReference
  /\ decl' = [decl EXCEPT ![d] = [status |-> "pending", order |-> o,
                                  amount |-> a, method |-> m, reference |-> x]]

\* mark_confirmed and mark_rejected: both leave only the pending state.
Decide(d, verdict) ==
  /\ decl[d].status = "pending"
  /\ decl' = [decl EXCEPT ![d].status = verdict]
=============================================================================
