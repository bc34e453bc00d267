---------------------------- MODULE MCPaidServer ----------------------------
(* Small instances of PaidServer for TLC. *)
EXTENDS StoreAgreement, TLC

CONSTANTS h1, h1x, h2, t1, t2, i1, i2, w1, w2

\* Two spellings of one transaction, and another transaction.
MCFeltOf == [h \in Hash |-> IF h = h2 THEN t2 ELSE t1]

MCSymmetry == Permutations(Invoice) \cup Permutations(Worker)
=============================================================================
