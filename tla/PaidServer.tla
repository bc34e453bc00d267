----------------------------- MODULE PaidServer -----------------------------
(***************************************************************************)
(* The paid HTTP server: createPaidSha256Handler (paid-sha256.ts) over the *)
(* SQLite invoice table (InvoiceStore) and claim ledger (claim-ledger.ts), *)
(* with the facilitator's settle (signed-receipt.ts) run between them.     *)
(*                                                                         *)
(* A handler run is synchronous up to its first await, so all it does to   *)
(* the two tables before `facilitator.settle' is one step.  Settling       *)
(* awaits the chain and the indexer: other runs, the clock and a crash of  *)
(* the process come in between.  A worker is one handler run at a time.    *)
(* Replies that read nothing but the request (a bad method, a header that  *)
(* does not decode, terms that differ from the invoice's) change no state  *)
(* and are left out.                                                       *)
(***************************************************************************)
EXTENDS InvoiceStore, FiniteSets

CONSTANTS Invoice,         \* invoice ids the server can draw
          NoInvoice,       \* an idle worker's invoice
          Tx,              \* Starknet transactions, as field elements
          NoTx,            \* transactionForInvoice found no claim
          FeltOf,          \* the transaction a spelling denotes
          GoodTx,          \* transactions that pay the server its price
          Ttl,             \* invoiceTimeoutSeconds
          LeaseTerm,       \* settlementLeaseMs
          MaxOutstanding,  \* maxOutstandingInvoices
          MaxClock,        \* bound: the clock stops here
          Prompt           \* TRUE: every settlement ends within its lease

ASSUME FeltAssumption == FeltOf \in [Hash -> Tx] /\ GoodTx \subseteq Tx
ASSUME NullAssumption ==
  NoTx \notin Tx /\ NoHash \notin Hash /\ NoLease \notin Worker /\ NoInvoice \notin Invoice
ASSUME TermAssumption == Ttl \in Nat /\ LeaseTerm \in Nat /\ MaxClock \in Nat
ASSUME CapAssumption == IsFiniteSet(Invoice) /\ MaxOutstanding \in Nat /\ Prompt \in BOOLEAN

VARIABLES clock,    \* Date.now
          rows,     \* the table issued_invoices
          ledger,   \* the table payment_claims
          workers,  \* handler runs and what they hold across an await
          final,    \* transactions final on chain and shown by the indexer
          served    \* history: <<invoice, transaction>> answered with 200

vars == <<clock, rows, ledger, workers, final, served>>

Idle == [pc |-> "idle", inv |-> NoInvoice, hash |-> NoHash,
         started |-> FALSE, until |-> 0]

Settling(i, h, started, until) ==
  [pc |-> "verifying", inv |-> i, hash |-> h,
   started |-> started, until |-> until]

\* `until' is not a variable of the code: it is the end of the lease the run
\* drew, kept to say which runs are still within their term.
WorkerState == [pc      : {"idle", "verifying", "verified", "consumed", "failed"},
                inv     : Invoice \cup {NoInvoice},
                hash    : Hash \cup {NoHash},
                started : BOOLEAN,
                until   : Nat]

TypeOK ==
  /\ clock \in Nat
  /\ rows \in [Invoice -> Row]
  /\ ledger \in [Invoice -> Tx \cup {NoTx}]
  /\ workers \in [Worker -> WorkerState]
  /\ \A w \in Worker : workers[w].pc # "idle" =>
       workers[w].inv \in Invoice /\ workers[w].hash \in Hash
  /\ final \subseteq GoodTx
  /\ served \subseteq Invoice \X Tx

Init ==
  /\ clock = 0
  /\ rows = [i \in Invoice |-> UnusedRow]
  /\ ledger = [i \in Invoice |-> NoTx]
  /\ workers = [w \in Worker |-> Idle]
  /\ final = {}
  /\ served = {}
-----------------------------------------------------------------------------
(* A request without a payment header. *)

PrunedRows == [i \in Invoice |-> Pruned(rows[i], clock)]

OutstandingIn(table) == {i \in Invoice : Outstanding(table[i], clock)}

\* 402: prune, count, issue.
Challenge(i) ==
  /\ rows[i].state = "unused"
  /\ Cardinality(OutstandingIn(PrunedRows)) < MaxOutstanding
  /\ rows' = [PrunedRows EXCEPT ![i] = IssuedRow(clock + Ttl)]
  /\ UNCHANGED <<clock, ledger, workers, final, served>>

\* 503 at capacity, 400 or 403 for the client's encryption key: the prune has
\* been done.
RefuseChallenge ==
  /\ rows' = PrunedRows
  /\ UNCHANGED <<clock, ledger, workers, final, served>>
-----------------------------------------------------------------------------
(* A request with a payment header, up to the await of settle. *)

\* The run may look at the paid path of invoice i.
Known(w, i) == workers[w].pc = "idle" /\ Exists(rows[i])

\* Mutation: the invoice row is asked for the transaction, not the ledger.
ExactRetryByRow(i, h) == rows[i].state = "settling" /\ rows[i].tx = h

\* Mutation: retries are honoured until the expiry only.
ExactRetryUnexpired(i, h) == ledger[i] = FeltOf[h] /\ clock <= rows[i].expires

\* exactSettledRetry: the ledger already holds this payment.
ExactRetry(i, h) == ledger[i] = FeltOf[h]

\* 400 invoice_expired before the store is asked.
PaidByAnother(i, h) ==
  clock > rows[i].expires /\ ledger[i] # NoTx /\ ~ExactRetry(i, h)

\* A receipt for a payment the ledger holds: the row is accepted first, then
\* the receipt is settled again.
PresentExactRetry(w, i, h) ==
  /\ Known(w, i)
  /\ ExactRetry(i, h)
  /\ rows' = [rows EXCEPT ![i] = Accepted(rows[i])]
  /\ workers' = [workers EXCEPT ![w] = Settling(i, h, FALSE, 0)]
  /\ UNCHANGED <<clock, ledger, final, served>>

\* beginSettlement answered "started".
PresentStarted(w, i, h) ==
  /\ Known(w, i)
  /\ ~ExactRetry(i, h) /\ ~PaidByAnother(i, h)
  /\ BeginOutcome(rows[i], h, clock) = "started"
  /\ rows' = [rows EXCEPT ![i] = Leased(rows[i], h, w, clock + LeaseTerm)]
  /\ workers' = [workers EXCEPT ![w] =
                   Settling(i, h, TRUE, clock + LeaseTerm)]
  /\ UNCHANGED <<clock, ledger, final, served>>

\* beginSettlement answered "expired": prune, 400.
PresentExpired(w, i, h) ==
  /\ Known(w, i)
  /\ ~ExactRetry(i, h) /\ ~PaidByAnother(i, h)
  /\ BeginOutcome(rows[i], h, clock) = "expired"
  /\ rows' = PrunedRows
  /\ UNCHANGED <<clock, ledger, workers, final, served>>

\* 400 unknown_invoice, 400 invoice_expired, 409 in progress or accepted.
PresentRefused(w, i, h) ==
  /\ workers[w].pc = "idle"
  /\ \/ ~Exists(rows[i])
     \/ Exists(rows[i]) /\ PaidByAnother(i, h)
     \/ /\ Exists(rows[i]) /\ ~ExactRetry(i, h)
        /\ BeginOutcome(rows[i], h, clock) \in {"in_progress", "accepted"}
  /\ UNCHANGED vars
-----------------------------------------------------------------------------
(* facilitator.settle: verify awaits the signature and the evidence, then  *)
(* the ledger consumes the claim.                                          *)

Goto(w, pc) == workers' = [workers EXCEPT ![w].pc = pc]

\* Mutation: evidence that is not final is taken.
VerifiedNotFinal(w) ==
  /\ workers[w].pc = "verifying"
  /\ FeltOf[workers[w].hash] \in GoodTx
  /\ Goto(w, "verified")
  /\ UNCHANGED <<clock, rows, ledger, final, served>>

\* isValid: a final payment of the invoice's terms.  The receipt's signature
\* is among the data left out: one that does not bind this invoice and
\* transaction is one more way into NotVerified.
Verified(w) ==
  /\ workers[w].pc = "verifying"
  /\ FeltOf[workers[w].hash] \in final
  /\ Goto(w, "verified")
  /\ UNCHANGED <<clock, rows, ledger, final, served>>

\* Not valid, or a provider threw: both end in failSettlement.
NotVerified(w) ==
  /\ workers[w].pc = "verifying"
  /\ Goto(w, "failed")
  /\ UNCHANGED <<clock, rows, ledger, final, served>>

\* Mutation: a transaction may pay two invoices.
ConsumableTwice(i, t) == ledger[i] \in {NoTx, t}

\* consume answers "accepted" or "already_accepted".
Consumable(i, t) ==
  \/ ledger[i] = t
  \/ ledger[i] = NoTx /\ \A j \in Invoice : ledger[j] # t

Consume(w) ==
  LET i == workers[w].inv
      t == FeltOf[workers[w].hash]
  IN  /\ workers[w].pc = "verified"
      /\ Consumable(i, t)
      /\ ledger' = [ledger EXCEPT ![i] = t]
      /\ Goto(w, "consumed")
      /\ UNCHANGED <<clock, rows, final, served>>

\* invoice_used, transaction_used, or the insert failed and consume threw.
ConsumeFails(w) ==
  /\ workers[w].pc = "verified"
  /\ Goto(w, "failed")
  /\ UNCHANGED <<clock, rows, ledger, final, served>>
-----------------------------------------------------------------------------
(* The handler run after its await. *)

Finish(w) == workers' = [workers EXCEPT ![w] = Idle]

\* acceptSettlement, then 200 with the resource.
Serve(w) ==
  LET i == workers[w].inv
  IN  /\ workers[w].pc = "consumed"
      /\ Exists(rows[i])
      /\ rows' = [rows EXCEPT ![i] = Accepted(rows[i])]
      /\ served' = served \cup {<<i, FeltOf[workers[w].hash]>>}
      /\ Finish(w)
      /\ UNCHANGED <<clock, ledger, final>>

\* acceptSettlement updated no row and throws: 500.
ServeConflict(w) ==
  /\ workers[w].pc = "consumed"
  /\ ~Exists(rows[workers[w].inv])
  /\ Finish(w)
  /\ UNCHANGED <<clock, rows, ledger, final, served>>

\* failSettlement if this run had started one, then 402 or 500.
GiveUp(w) ==
  LET i == workers[w].inv
  IN  /\ workers[w].pc = "failed"
      /\ rows' = IF workers[w].started
                 THEN [rows EXCEPT ![i] = Failed(rows[i], w, clock)]
                 ELSE rows
      /\ Finish(w)
      /\ UNCHANGED <<clock, ledger, final, served>>
-----------------------------------------------------------------------------
\* The process dies, or closes its databases under running requests, and
\* starts again on the same files.
Crash ==
  /\ \E w \in Worker : workers[w].pc # "idle"
  /\ workers' = [w \in Worker |-> Idle]
  /\ UNCHANGED <<clock, rows, ledger, final, served>>

\* The chain accepts a payment and the indexer shows it.
Finalize(t) ==
  /\ t \in GoodTx \ final
  /\ final' = final \cup {t}
  /\ UNCHANGED <<clock, rows, ledger, workers, served>>

\* A run holds a settlement it started.
Running(w) == workers[w].pc # "idle" /\ workers[w].started

InTerm(w) == Running(w) /\ workers[w].until >= clock

Tick ==
  /\ clock < MaxClock
  /\ Prompt => \A w \in Worker : Running(w) => workers[w].until > clock
  /\ clock' = clock + 1
  /\ UNCHANGED <<rows, ledger, workers, final, served>>

WorkerStep(w) ==
  \/ Verified(w) \/ NotVerified(w)
  \/ Consume(w) \/ ConsumeFails(w)
  \/ Serve(w) \/ ServeConflict(w) \/ GiveUp(w)

Next ==
  \/ \E i \in Invoice : Challenge(i)
  \/ RefuseChallenge
  \/ \E w \in Worker, i \in Invoice, h \in Hash :
       \/ PresentExactRetry(w, i, h)
       \/ PresentStarted(w, i, h)
       \/ PresentExpired(w, i, h)
       \/ PresentRefused(w, i, h)
  \/ \E w \in Worker : WorkerStep(w)
  \/ Crash
  \/ \E t \in Tx : Finalize(t)
  \/ Tick

Spec == Init /\ [][Next]_vars
-----------------------------------------------------------------------------
(* Properties *)

\* The lease is a lock: two settlements of one invoice are never both within
\* their lease term, whichever transaction each of them carries.
OneSettlementAtATime ==
  \A v, w \in Worker :
    v # w /\ InTerm(v) /\ InTerm(w) => workers[v].inv # workers[w].inv

\* The resource of an invoice is handed out for one transaction only, and a
\* transaction buys one invoice only, whatever runs, retries and restarts.
ServedOncePerPayment ==
  \A p, q \in served : p[1] = q[1] <=> p[2] = q[2]

\* What was served is the claim on record, and its payment was final.
ServedIsClaimed ==
  \A p \in served : ledger[p[1]] = p[2] /\ p[2] \in final

\* The two tables agree: an accepted invoice has a claim.  The tables are
\* written on different sides of an await, so a crash or a late failure falls
\* between them.
AcceptedHasClaim ==
  \A i \in Invoice : rows[i].state = "accepted" => ledger[i] # NoTx

\* The capacity limit holds of what is still payable: failures that reopen
\* invoices do not push the number of unexpired unpaid invoices over it.
UnexpiredWithinCap ==
  Cardinality({i \in Invoice : /\ rows[i].state \in {"issued", "settling"}
                               /\ rows[i].expires >= clock}) <= MaxOutstanding

\* An invoice with a claim keeps its row, so the exact retry of the payment is
\* still answered with the resource after expiry and restart.
ClaimKeepsRow ==
  \A i \in Invoice : ledger[i] # NoTx => Exists(rows[i])

\* An accepted invoice stays accepted: no late failure, lapsed lease, other
\* transaction or prune undoes it.
AcceptedIsForever ==
  [][\A i \in Invoice : rows[i].state = "accepted" =>
                          rows'[i].state = "accepted"]_vars

\* A settlement in flight when its invoice expires is not lost: the row stays
\* bound to the transaction that the client presented in time.
LateSettlementKept ==
  [][\A i \in Invoice :
       rows[i].state = "settling" /\ rows[i].expires < clock =>
         /\ rows'[i].state \in {"settling", "accepted"}
         /\ rows'[i].tx = rows[i].tx]_vars

\* The server, with all its tables, retries and restarts, is the abstract
\* PaidOnce: claims are one to one, final, never revoked, and what is served
\* is what is claimed.
Promise == INSTANCE PaidOnce WITH claim <- ledger

PaidOncePromise == Promise!Spec
-----------------------------------------------------------------------------
(* Liveness *)

\* The client keeps presenting the receipt of a payment that was claimed (the
\* payer keeps its receipt until it has the resource), the chain and the
\* indexer answer again and again, and the process does not die in every
\* single attempt: strong fairness.  Every run ends, in an answer or in an
\* error of a provider: weak fairness.
Fairness ==
  /\ \A w \in Worker : WF_vars(WorkerStep(w))
  /\ \A i \in Invoice :
       /\ SF_vars(\E w \in Worker, h \in Hash : PresentExactRetry(w, i, h))
       /\ SF_vars(\E w \in Worker : workers[w].inv = i /\ Verified(w))
       /\ SF_vars(\E w \in Worker : workers[w].inv = i /\ Consume(w))
       /\ SF_vars(\E w \in Worker : workers[w].inv = i /\ Serve(w))

FairSpec == Spec /\ Fairness

\* A claimed payment is never stranded: whatever died between the claim and
\* the answer, retrying the receipt gets the resource in the end.
ClaimEventuallyServed ==
  \A i \in Invoice : ledger[i] # NoTx ~> \E t \in Tx : <<i, t>> \in served
=============================================================================
