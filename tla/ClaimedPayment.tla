--------------------------- MODULE ClaimedPayment ---------------------------
(***************************************************************************)
(* What signed receipts promise, without clients, configurations, accounts *)
(* or signatures: an invoice keeps the terms it was issued with, a payment *)
(* stays what it was, and an invoice is claimed once and for good, by a    *)
(* payment of its terms that claims no other invoice.                      *)
(***************************************************************************)
CONSTANTS Invoice, Tx, Terms, Payments, NoTerms, NoTransfer, NoTx

VARIABLES invoices,   \* the terms of the issued invoices
          transfers,  \* the payments that were made
          claims      \* the payment claimed for each invoice

vars == <<invoices, transfers, claims>>

Init ==
  /\ invoices = [i \in Invoice |-> NoTerms]
  /\ transfers = [t \in Tx |-> NoTransfer]
  /\ claims = [i \in Invoice |-> NoTx]

Issue(i) ==
  /\ invoices[i] = NoTerms
  /\ invoices'[i] \in Terms
  /\ invoices' = [invoices EXCEPT ![i] = invoices'[i]]
  /\ UNCHANGED <<transfers, claims>>

Pay(t) ==
  /\ transfers[t] = NoTransfer
  /\ transfers'[t] \in Payments
  /\ transfers' = [transfers EXCEPT ![t] = transfers'[t]]
  /\ UNCHANGED <<invoices, claims>>

\* The payment is of what the invoice asks for, where it asks for it.
Meets(payment, terms) ==
  /\ payment.network = terms.network
  /\ payment.recipient = terms.recipient
  /\ payment.amount = terms.amount

Claim(i, t) ==
  /\ invoices[i] # NoTerms /\ transfers[t] # NoTransfer
  /\ Meets(transfers[t], invoices[i])
  /\ claims[i] = NoTx
  /\ \A j \in Invoice : claims[j] # t
  /\ claims' = [claims EXCEPT ![i] = t]
  /\ UNCHANGED <<invoices, transfers>>

Next ==
  \/ \E i \in Invoice : Issue(i)
  \/ \E t \in Tx : Pay(t)
  \/ \E i \in Invoice, t \in Tx : Claim(i, t)

Spec == Init /\ [][Next]_vars
=============================================================================
