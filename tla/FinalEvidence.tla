--------------------------- MODULE FinalEvidence ---------------------------
(***************************************************************************)
(* What the facilitator may believe of its evidence, without histories,    *)
(* pages, blocks or reorganisations: payments become final one by one and  *)
(* stay so, and only a final payment is ever called final.                 *)
(***************************************************************************)
CONSTANT Payment

VARIABLES final,   \* payments the chain has made final
          settled  \* payments that were answered as final

vars == <<final, settled>>

Init == final = {} /\ settled = {}

Finalize(t) ==
  /\ t \notin final
  /\ final' = final \cup {t}
  /\ UNCHANGED settled

Settle(t) ==
  /\ t \in final
  /\ settled' = settled \cup {t}
  /\ UNCHANGED final

Next == \E t \in Payment : Finalize(t) \/ Settle(t)

Spec == Init /\ [][Next]_vars
=============================================================================
