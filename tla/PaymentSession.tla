--------------------------- MODULE PaymentSession ---------------------------
(***************************************************************************)
(* What the Agent Payer promises for a resource, without processes, tables,*)
(* clocks, crashes or retries: one invoice is open at a time; it is paid   *)
(* once, within what the day leaves; it is answered with the result of its *)
(* own payment; and it is closed by whoever has seen that answer, or as    *)
(* one that took no money.  A closed invoice is never opened or paid again.*)
(***************************************************************************)
EXTENDS Naturals

CONSTANTS Invoice, NoInvoice, Days, Costs, Limit

VARIABLES open,      \* the invoice the next payment of the resource is for
          answered,  \* whether its result is there
          closed,    \* invoices that were open and are not any more
          paid,      \* invoices whose payment left the wallet
          outcome,   \* what became of the payments
          spent      \* what left the wallet on each day

vars == <<open, answered, closed, paid, outcome, spent>>

Init ==
  /\ open = NoInvoice /\ answered = FALSE
  /\ closed = {} /\ paid = {}
  /\ outcome = [i \in Invoice |-> "none"]
  /\ spent = [d \in Days |-> 0]

Open(i) ==
  /\ open = NoInvoice
  /\ i \notin closed \cup paid
  /\ open' = i
  /\ UNCHANGED <<answered, closed, paid, outcome, spent>>

Pay(d, cost) ==
  /\ open \in Invoice \ paid
  /\ ~answered
  /\ spent[d] + cost <= Limit
  /\ paid' = paid \cup {open}
  /\ spent' = [spent EXCEPT ![d] = @ + cost]
  /\ UNCHANGED <<open, answered, closed, outcome>>

Settle(i, result) ==
  /\ i \in paid
  /\ outcome[i] = "none"
  /\ outcome' = [outcome EXCEPT ![i] = result]
  /\ UNCHANGED <<open, answered, closed, paid, spent>>

Answer ==
  /\ open \in paid
  /\ outcome[open] = "success"
  /\ ~answered
  /\ answered' = TRUE
  /\ UNCHANGED <<open, closed, paid, outcome, spent>>

Close ==
  /\ open' = NoInvoice
  /\ answered' = FALSE
  /\ closed' = closed \cup {open}
  /\ UNCHANGED <<paid, outcome, spent>>

\* The caller has read the result.
Acknowledge == answered /\ Close

\* There is no payment whose result could still come.
Abandon ==
  /\ open \in Invoice
  /\ ~answered
  /\ open \notin paid \/ outcome[open] = "reverted"
  /\ Close

Next ==
  \/ \E i \in Invoice : Open(i)
  \/ \E d \in Days, cost \in Costs : Pay(d, cost)
  \/ \E i \in Invoice, result \in {"success", "reverted"} : Settle(i, result)
  \/ Answer \/ Acknowledge \/ Abandon

Spec == Init /\ [][Next]_vars
=============================================================================
