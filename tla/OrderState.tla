----------------------------- MODULE OrderState -----------------------------
(***************************************************************************)
(* The order state graph of core/domain/order_state.py.  "absent" is an    *)
(* order id no row carries yet.                                            *)
(***************************************************************************)

OrderStates == {"draft", "confirmed", "partially_paid", "paid", "fulfilled",
                "cancelled", "voided", "returned"}

\* STATE_TRANSITION_MATRIX: every edge that is not listed is forbidden.
Matrix == [draft          |-> {"confirmed", "cancelled", "voided"},
           confirmed      |-> {"paid", "partially_paid", "cancelled"},
           partially_paid |-> {"paid", "cancelled"},
           paid           |-> {"fulfilled", "cancelled"},
           fulfilled      |-> {"returned"},
           returned       |-> {},
           cancelled      |-> {},
           voided         |-> {}]

\* is_valid_transition; a terminal state (is_terminal_state) is one with no successor.
CanTransition(from, to) == from \in OrderStates /\ to \in Matrix[from]
=============================================================================
