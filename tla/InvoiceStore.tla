---------------------------- MODULE InvoiceStore ----------------------------
(***************************************************************************)
(* The rows of the server's invoice table and what one statement of        *)
(* SqliteInvoiceStore does to a row (src/private402/invoice-store.ts).     *)
(*                                                                         *)
(* A row is "unused" until its invoice id is issued and "deleted" once     *)
(* pruneExpired removed it; ids are 31 random bytes, so a deleted id is    *)
(* never issued again.  `tx' is the settlement transaction exactly as the  *)
(* client spelled it: the table compares spellings, not numbers.           *)
(***************************************************************************)
EXTENDS Integers

CONSTANTS Hash,     \* spellings of transaction hashes that clients send
          NoHash,   \* the SQL NULL of settlement_transaction
          Worker,   \* handler runs; a run names the random lease id it draws
          NoLease   \* the SQL NULL of settlement_lease_id

Row == [state   : {"unused", "issued", "settling", "accepted", "deleted"},
        expires : Nat,
        tx      : Hash \cup {NoHash},
        lease   : Worker \cup {NoLease},
        until   : Nat]

UnusedRow == [state |-> "unused", expires |-> 0,
              tx |-> NoHash, lease |-> NoLease, until |-> 0]

DeletedRow == [UnusedRow EXCEPT !.state = "deleted"]

IssuedRow(expires) == [UnusedRow EXCEPT !.state = "issued", !.expires = expires]

\* get: the SELECT by primary key finds a row.
Exists(r) == r.state \in {"issued", "settling", "accepted"}

\* pruneExpired: only unpaid invoices past their expiry are deleted.
PruneGuard(r, now) == r.state = "issued" /\ r.expires < now

\* Mutation: the state test is dropped, so a settlement in flight is pruned.
PruneAnyState(r, now) == Exists(r) /\ r.state # "accepted" /\ r.expires < now

Prunable(r, now) == PruneGuard(r, now)

Pruned(r, now) == IF Prunable(r, now) THEN DeletedRow ELSE r

\* Mutation: settling rows are not counted.
OutstandingIssuedOnly(r, now) == r.state = "issued" /\ r.expires >= now

\* countOutstanding: the rows it counts.
Outstanding(r, now) ==
  /\ r.state \in {"issued", "settling"}
  /\ \/ r.expires >= now
     \/ r.state = "settling" /\ r.until >= now

\* Mutation: the lease of a settlement in progress is not tested.
StartsIgnoringLease(r, h, now) ==
  \/ r.state = "issued" /\ r.expires >= now
  \/ r.state = "settling" /\ r.tx = h

\* Mutation: a settlement is taken over before the expiry only.
StartsUnexpired(r, h, now) ==
  /\ r.expires >= now
  /\ r.state = "issued" \/ (r.state = "settling" /\ r.tx = h /\ r.until < now)

\* The WHERE clause of beginSettlement's UPDATE.
Starts(r, h, now) ==
  \/ r.state = "issued" /\ r.expires >= now
  \/ r.state = "settling" /\ r.tx = h /\ r.until < now

\* The row that UPDATE writes.
Leased(r, h, lease, until) ==
  [r EXCEPT !.state = "settling", !.tx = h, !.lease = lease, !.until = until]

\* What beginSettlement answers about the row it was given.
BeginOutcome(r, h, now) ==
  CASE Starts(r, h, now)                  -> "started"
    [] ~Starts(r, h, now) /\ r.state = "accepted" -> "accepted"
    [] ~Starts(r, h, now) /\ r.state = "issued"   -> "expired"
    [] ~Starts(r, h, now) /\ r.state = "settling" ->
         IF r.tx # h /\ r.expires < now THEN "expired" ELSE "in_progress"

\* acceptSettlement: no test of state or lease; the caller throws if no row
\* was updated.
Accepted(r) == [r EXCEPT !.state = "accepted"]

\* Mutation: the expiry test is dropped, a late failure reopens the invoice.
FailReopens(r, lease, now) ==
  IF r.state = "settling" /\ r.lease = lease THEN IssuedRow(r.expires) ELSE r

\* Mutation: the state test is dropped, a late failure reopens an accepted row.
FailAnyState(r, lease, now) ==
  IF Exists(r) /\ r.lease = lease THEN IssuedRow(r.expires) ELSE r

\* Mutation: the expiry test is dropped the other way, the lease is always
\* moved before now.
FailLapses(r, lease, now) ==
  IF r.state # "settling" \/ r.lease # lease THEN r
  ELSE [r EXCEPT !.until = now - 1]

\* failSettlement: gives the lease up; before the expiry the invoice is open
\* to any transaction again, after it the row stays bound to its transaction.
Failed(r, lease, now) ==
  IF r.state # "settling" \/ r.lease # lease THEN r
  ELSE IF r.expires < now THEN [r EXCEPT !.until = now - 1]
                          ELSE IssuedRow(r.expires)
=============================================================================
