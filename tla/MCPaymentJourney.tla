-------------------------- MODULE MCPaymentJourney --------------------------
(* Small instances of PaymentJourney for TLC. *)
EXTENDS PaymentJourney

CONSTANTS t1

\* Every spelling is one of the payment's transaction.
MCFeltOf == [h \in Hash |-> t1]

MCOffset == -1 .. 1
=============================================================================
