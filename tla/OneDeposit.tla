----------------------------- MODULE OneDeposit -----------------------------
(***************************************************************************)
(* What funding promises, without processes, journal, proofs or blocks: an *)
(* id is deposited once, with one amount; its deposit succeeds or is       *)
(* reverted, once and for good; and only a run of that amount is answered, *)
(* after the deposit succeeded.                                            *)
(***************************************************************************)
EXTENDS Sequences

CONSTANTS FundingId, Amount

VARIABLES deposits,  \* amounts that left for each id
          chain,     \* what became of an id's deposit
          answered   \* <<id, amount>> of runs that returned a hash

vars == <<deposits, chain, answered>>

Init ==
  /\ deposits = [f \in FundingId |-> <<>>]
  /\ chain = [f \in FundingId |-> "none"]
  /\ answered = {}

Deposit(f, a) ==
  /\ deposits[f] = <<>>
  /\ deposits' = [deposits EXCEPT ![f] = <<a>>]
  /\ UNCHANGED <<chain, answered>>

Settle(f, result) ==
  /\ deposits[f] # <<>>
  /\ chain[f] = "none"
  /\ chain' = [chain EXCEPT ![f] = result]
  /\ UNCHANGED <<deposits, answered>>

Answer(f, a) ==
  /\ deposits[f] = <<a>>
  /\ chain[f] = "success"
  /\ answered' = answered \cup {<<f, a>>}
  /\ UNCHANGED <<deposits, chain>>

Next == \E f \in FundingId :
          \/ \E a \in Amount : Deposit(f, a) \/ Answer(f, a)
          \/ \E result \in {"success", "reverted"} : Settle(f, result)

Spec == Init /\ [][Next]_vars
=============================================================================
