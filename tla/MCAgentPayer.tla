---------------------------- MODULE MCAgentPayer ----------------------------
(* Small instances of AgentPayer for TLC. *)
EXTENDS AgentPayer, TLC

MCSymmetry == Permutations(Invoice) \cup Permutations(Proc)
=============================================================================
