------------------------------- MODULE Ledger -------------------------------
(***************************************************************************)
(* ledger_entries, kept as the balance (debits minus credits) each order   *)
(* has in each account.  An entry group of the code debits one account and *)
(* credits another with the same amount.                                   *)
(***************************************************************************)
EXTENDS Tenant

VARIABLE ledger   \* ledger[o][a]: balance of account a in the entries of o

Accounts == {"cash", "receivable", "revenue"}

LedgerTypeOK == ledger \in [Orders -> [Accounts -> Int]]

LedgerInit == ledger = [o \in Orders |-> [a \in Accounts |-> 0]]

\* One entry group: debit account d, credit account c.
Post(o, d, c, amount) ==
  ledger' = [ledger EXCEPT ![o][d] = @ + amount, ![o][c] = @ - amount]

\* post_payment_received
PostPaymentReceived(o, amount) == Post(o, "cash", "receivable", amount)

\* A mutant of PostOrderReturn: debit and credit are swapped.
PostReturnSwapped(o, amount) == Post(o, "cash", "revenue", amount)

\* post_order_return
PostOrderReturn(o, amount) == Post(o, "revenue", "cash", amount)
=============================================================================
