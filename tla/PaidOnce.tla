------------------------------ MODULE PaidOnce ------------------------------
(***************************************************************************)
(* What the paid server promises, without tables, leases, expiry, retries  *)
(* or restarts: a payment that is final on chain is claimed for one        *)
(* invoice, once and for good, and the resource of an invoice is given for *)
(* its claim, as often as it is asked for.                                 *)
(***************************************************************************)
CONSTANTS Invoice, Tx, NoTx

VARIABLES final,   \* payments the chain has made final
          claim,   \* the payment claimed for each invoice
          served   \* <<invoice, payment>> pairs the resource was given for

vars == <<final, claim, served>>

Init == final = {} /\ claim = [i \in Invoice |-> NoTx] /\ served = {}

Finalize(t) ==
  /\ final' = final \cup {t}
  /\ UNCHANGED <<claim, served>>

Claim(i, t) ==
  /\ t \in final
  /\ claim[i] = NoTx
  /\ \A j \in Invoice : claim[j] # t
  /\ claim' = [claim EXCEPT ![i] = t]
  /\ UNCHANGED <<final, served>>

Give(i) ==
  /\ claim[i] \in Tx
  /\ served' = served \cup {<<i, claim[i]>>}
  /\ UNCHANGED <<final, claim>>

Next == \/ \E t \in Tx : Finalize(t)
        \/ \E i \in Invoice : Give(i) \/ \E t \in Tx : Claim(i, t)

Spec == Init /\ [][Next]_vars
=============================================================================
