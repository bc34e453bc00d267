--------------------------- MODULE StoreAgreement ---------------------------
(***************************************************************************)
(* The server has its two stores twice: in SQLite for the deployed service *)
(* and in memory, the default of createPaidSha256Handler and what most of  *)
(* the tests run on.  A client must not be able to tell them apart.  The   *)
(* paid server (PaidServer) runs on the SQLite side; in every state it     *)
(* reaches, this module compares what each call of the interfaces would    *)
(* answer, and leave behind, on the other side.                            *)
(***************************************************************************)
EXTENDS PaidServer
-----------------------------------------------------------------------------
(* InMemoryInvoiceStore: Map.get, early returns, assignments. *)

MemPrune(r, now) ==
  IF r.state = "issued" /\ r.expires < now THEN DeletedRow ELSE r

MemCounts(r, now) ==
  /\ Exists(r) /\ r.state # "accepted"
  /\ (r.expires >= now \/ (r.state = "settling" /\ r.until >= now))

MemTake(r, h, lease, until) ==
  [answer |-> "started",
   row    |-> [r EXCEPT !.state = "settling", !.tx = h,
                        !.lease = lease, !.until = until]]

MemKeep(r, answer) == [answer |-> answer, row |-> r]

\* Mutation: the lease boundary is off by one tick.
MemBeginEarly(r, h, lease, now, term) ==
  IF r.state = "settling" /\ r.tx = h /\ r.until <= now
  THEN MemTake(r, h, lease, now + term)
  ELSE IF Starts(r, h, now) THEN MemTake(r, h, lease, now + term)
  ELSE MemKeep(r, BeginOutcome(r, h, now))

MemBegin(r, h, lease, now, term) ==
  IF r.state = "accepted" THEN MemKeep(r, "accepted")
  ELSE IF r.state = "settling"
  THEN IF r.tx # h
       THEN MemKeep(r, IF r.expires < now THEN "expired" ELSE "in_progress")
       ELSE IF r.until >= now THEN MemKeep(r, "in_progress")
       ELSE MemTake(r, h, lease, now + term)
  ELSE IF r.expires < now THEN MemKeep(r, "expired")
  ELSE MemTake(r, h, lease, now + term)

MemFail(r, lease, now) ==
  IF ~Exists(r) \/ r.state # "settling" \/ r.lease # lease THEN r
  ELSE IF r.expires < now THEN [r EXCEPT !.until = now - 1]
  ELSE [r EXCEPT !.state = "issued", !.tx = NoHash,
                 !.lease = NoLease, !.until = 0]

\* InMemoryClaimLedger: two maps, read in this order.
MemConsume(c, i, t) ==
  LET transactions == {c[j] : j \in Invoice} \ {NoTx} IN
  IF c[i] = t THEN "already_accepted"
  ELSE IF c[i] # NoTx THEN "invoice_used"
  ELSE IF t \in transactions THEN "transaction_used"
  ELSE "accepted"
-----------------------------------------------------------------------------
(* The SQLite side as pairs of an answer and a row. *)

SqlBegin(r, h, lease, now, term) ==
  [answer |-> BeginOutcome(r, h, now),
   row    |-> IF Starts(r, h, now) THEN Leased(r, h, lease, now + term) ELSE r]

\* The insert succeeds iff it breaks neither the key nor UNIQUE; otherwise the
\* table is asked what it broke, the invoice first.
Inserts(c, i, t) == c[i] = NoTx /\ \A j \in Invoice : c[j] # t

SqlConsume(c, i, t) ==
  CASE Inserts(c, i, t)                   -> "accepted"
    [] ~Inserts(c, i, t) /\ c[i] = t      -> "already_accepted"
    [] ~Inserts(c, i, t) /\ c[i] \in Tx \ {t} -> "invoice_used"
    [] ~Inserts(c, i, t) /\ c[i] = NoTx   -> "transaction_used"
-----------------------------------------------------------------------------
\* The invoice stores on one row: pruning, counting, beginning and failing a
\* settlement answer the same and leave the same row behind.
RowAgrees(r) ==
  /\ MemPrune(r, clock) = Pruned(r, clock)
  /\ MemCounts(r, clock) <=> Outstanding(r, clock)
  /\ \A lease \in Worker : MemFail(r, lease, clock) = Failed(r, lease, clock)
  /\ Exists(r) =>
       \A h \in Hash, lease \in Worker :
         MemBegin(r, h, lease, clock, LeaseTerm) = SqlBegin(r, h, lease, clock, LeaseTerm)

\* The in-memory stores the tests run on are the SQLite stores of the service: at
\* every lease and expiry boundary the server reaches, each call answers the same
\* and leaves the same row, and a refused claim names the same conflict.
StoresAgree ==
  \A i \in Invoice :
    /\ RowAgrees(rows[i])
    /\ \A t \in Tx : MemConsume(ledger, i, t) = SqlConsume(ledger, i, t)
=============================================================================
