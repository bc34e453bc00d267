-------------------------- MODULE PaidServerProofs --------------------------
(***************************************************************************)
(* Proofs about PaidServer, for every set of invoices, workers and         *)
(* transactions, every expiry, lease term and clock bound.                 *)
(***************************************************************************)
EXTENDS PaidServer, FiniteSetTheorems, TLAPS

USE FeltAssumption, NullAssumption, TermAssumption
-----------------------------------------------------------------------------
(* What the store's statements do to a row. *)

\* A freshly issued invoice is a well-formed row.
LEMMA IssuedIsRow == \A e \in Nat : IssuedRow(e) \in Row
BY DEF IssuedRow, UnusedRow, Row

\* Every statement of the invoice table yields a well-formed row again; in
\* particular the lease moved to `now - 1' never goes below zero.
LEMMA RowsStayRows ==
  ASSUME NEW r \in Row, NEW now \in Nat, NEW h \in Hash, NEW w \in Worker,
         NEW until \in Nat
  PROVE  /\ Pruned(r, now) \in Row
         /\ IssuedRow(until) \in Row
         /\ Leased(r, h, w, until) \in Row
         /\ Accepted(r) \in Row
         /\ Failed(r, w, now) \in Row
<1>1. UnusedRow \in Row /\ DeletedRow \in Row /\ IssuedRow(until) \in Row
  BY DEF UnusedRow, DeletedRow, IssuedRow, Row
<1>2. Pruned(r, now) \in Row
  BY <1>1 DEF Pruned
<1>3. Leased(r, h, w, until) \in Row /\ Accepted(r) \in Row
  BY DEF Leased, Accepted, Row
<1>4. Failed(r, w, now) \in Row
  <2>1. IssuedRow(r.expires) \in Row
    BY DEF IssuedRow, UnusedRow, Row
  <2>2. r.expires < now => now - 1 \in Nat
    BY DEF Row
  <2>3. r.expires < now => [r EXCEPT !.until = now - 1] \in Row
    BY <2>2 DEF Row
  <2> QED BY <2>1, <2>3 DEF Failed
<1> QED BY <1>1, <1>2, <1>3, <1>4

\* The facts of TypeOK about one invoice and one worker.
LEMMA RowTypes ==
  ASSUME TypeOK, NEW i \in Invoice
  PROVE  rows[i] \in Row /\ ledger[i] \in Tx \cup {NoTx} /\ clock \in Nat
BY DEF TypeOK

\* The facts of TypeOK about one worker.
LEMMA WorkerTypes ==
  ASSUME TypeOK, NEW w \in Worker
  PROVE  /\ workers[w] \in WorkerState
         /\ workers[w].pc # "idle" =>
              /\ workers[w].inv \in Invoice
              /\ workers[w].hash \in Hash
              /\ FeltOf[workers[w].hash] \in Tx
BY DEF TypeOK

WorkersOK ==
  /\ workers \in [Worker -> WorkerState]
  /\ \A w \in Worker : workers[w].pc # "idle" =>
       workers[w].inv \in Invoice /\ workers[w].hash \in Hash

\* Moving one running worker to another place keeps the workers well typed.
LEMMA GotoTypes ==
  ASSUME TypeOK, NEW w \in Worker, workers[w].pc # "idle",
         NEW pc \in {"verified", "consumed", "failed"}, Goto(w, pc)
  PROVE  WorkersOK'
<1>1. [workers[w] EXCEPT !.pc = pc] \in WorkerState
  BY WorkerTypes DEF WorkerState
<1>2. workers' = [workers EXCEPT ![w] = [workers[w] EXCEPT !.pc = pc]]
  BY DEF Goto
<1>3. workers \in [Worker -> WorkerState]
  BY DEF TypeOK
<1>4. /\ workers'[w] = [workers[w] EXCEPT !.pc = pc]
      /\ \A v \in Worker \ {w} : workers'[v] = workers[v]
  BY <1>2, <1>3
<1>5. /\ workers'[w].inv = workers[w].inv
      /\ workers'[w].hash = workers[w].hash
  BY <1>4, WorkerTypes DEF WorkerState
<1>6. workers' \in [Worker -> WorkerState]
  BY <1>1, <1>2, <1>3
<1> QED BY <1>4, <1>5, <1>6 DEF WorkersOK, TypeOK

\* The idle record is well typed.
LEMMA IdleTypes == Idle \in WorkerState /\ Idle.pc = "idle"
BY DEF Idle, WorkerState

\* Ending one run keeps the workers well typed.
LEMMA FinishTypes ==
  ASSUME TypeOK, NEW w \in Worker, Finish(w) PROVE WorkersOK'
BY IdleTypes DEF TypeOK, Finish, WorkersOK

\* A run that begins is well typed.
LEMMA SettlingTypes ==
  ASSUME TypeOK, NEW w \in Worker, NEW i \in Invoice, NEW h \in Hash,
         NEW started \in BOOLEAN, NEW until \in Nat,
         workers' = [workers EXCEPT ![w] = Settling(i, h, started, until)]
  PROVE  WorkersOK'
<1>1. /\ Settling(i, h, started, until) \in WorkerState
      /\ Settling(i, h, started, until).inv = i
      /\ Settling(i, h, started, until).hash = h
  BY DEF Settling, WorkerState
<1> QED BY <1>1 DEF TypeOK, WorkersOK

\* Writing one row keeps the table well typed, and so does pruning it.
LEMMA TableTypes ==
  ASSUME TypeOK
  PROVE  /\ PrunedRows \in [Invoice -> Row]
         /\ \A i \in Invoice, r \in Row : [rows EXCEPT ![i] = r] \in [Invoice -> Row]
         /\ \A i \in Invoice, r \in Row :
              [PrunedRows EXCEPT ![i] = r] \in [Invoice -> Row]
<1>1. DeletedRow \in Row
  BY DEF DeletedRow, UnusedRow, Row
<1>2. ASSUME NEW i \in Invoice PROVE Pruned(rows[i], clock) \in Row
  BY <1>1, RowTypes DEF Pruned
<1> QED BY <1>2 DEF PrunedRows, TypeOK
-----------------------------------------------------------------------------
(* Type correctness *)

\* Every reachable state is well typed: in particular every row is one the
\* table's CHECK admits and every running handler knows its invoice.
THEOREM TypeCorrect == Spec => []TypeOK
<1>1. Init => TypeOK
  BY DEF Init, TypeOK, UnusedRow, Row, Idle, WorkerState
<1>2. TypeOK /\ [Next]_vars => TypeOK'
  <2> SUFFICES ASSUME TypeOK, [Next]_vars PROVE TypeOK'
    OBVIOUS
  <2>1. ASSUME NEW i \in Invoice, Challenge(i) PROVE TypeOK'
    <3>1. IssuedRow(clock + Ttl) \in Row
      <4>1. clock + Ttl \in Nat
        BY DEF TypeOK
      <4> QED BY <4>1, IssuedIsRow
    <3>2. rows' \in [Invoice -> Row]
      BY <2>1, <3>1, TableTypes DEF Challenge
    <3> QED BY <2>1, <3>2 DEF Challenge, TypeOK
  <2>2. CASE RefuseChallenge
    BY <2>2, TableTypes DEF RefuseChallenge, TypeOK
  <2>3. ASSUME NEW w \in Worker, NEW i \in Invoice, NEW h \in Hash,
               PresentExactRetry(w, i, h)
        PROVE  TypeOK'
    <3>1. Accepted(rows[i]) \in Row
      BY RowTypes DEF Accepted, Row
    <3>2. rows' \in [Invoice -> Row]
      BY <2>3, <3>1, TableTypes DEF PresentExactRetry
    <3>3. WorkersOK'
      BY <2>3, SettlingTypes DEF PresentExactRetry
    <3> QED BY <2>3, <3>2, <3>3 DEF PresentExactRetry, TypeOK, WorkersOK
  <2>4. ASSUME NEW w \in Worker, NEW i \in Invoice, NEW h \in Hash,
               PresentStarted(w, i, h)
        PROVE  TypeOK'
    <3>0. clock + LeaseTerm \in Nat
      BY DEF TypeOK
    <3>1. Leased(rows[i], h, w, clock + LeaseTerm) \in Row
      BY <3>0, RowTypes DEF Leased, Row
    <3>2. rows' \in [Invoice -> Row]
      BY <2>4, <3>1, TableTypes DEF PresentStarted
    <3>3. WorkersOK'
      BY <2>4, <3>0, SettlingTypes DEF PresentStarted
    <3> QED BY <2>4, <3>2, <3>3 DEF PresentStarted, TypeOK, WorkersOK
  <2>5. ASSUME NEW w \in Worker, NEW i \in Invoice, NEW h \in Hash,
               PresentExpired(w, i, h)
        PROVE  TypeOK'
    BY <2>5, TableTypes DEF PresentExpired, TypeOK
  <2>6. ASSUME NEW w \in Worker, NEW i \in Invoice, NEW h \in Hash,
               PresentRefused(w, i, h)
        PROVE  TypeOK'
    BY <2>6 DEF PresentRefused, vars, TypeOK
  <2>7. ASSUME NEW w \in Worker, WorkerStep(w) PROVE TypeOK'
    <3>1. CASE Verified(w)
      <4>1. WorkersOK'
        BY <3>1, GotoTypes DEF Verified
      <4> QED BY <3>1, <4>1 DEF Verified, TypeOK, WorkersOK
    <3>2. CASE NotVerified(w)
      <4>1. WorkersOK'
        BY <3>2, GotoTypes DEF NotVerified
      <4> QED BY <3>2, <4>1 DEF NotVerified, TypeOK, WorkersOK
    <3>3. CASE Consume(w)
      <4>1. WorkersOK'
        BY <3>3, GotoTypes DEF Consume
      <4>2. ledger' \in [Invoice -> Tx \cup {NoTx}]
        BY <3>3, WorkerTypes DEF Consume, TypeOK
      <4> QED BY <3>3, <4>1, <4>2 DEF Consume, TypeOK, WorkersOK
    <3>4. CASE ConsumeFails(w)
      <4>1. WorkersOK'
        BY <3>4, GotoTypes DEF ConsumeFails
      <4> QED BY <3>4, <4>1 DEF ConsumeFails, TypeOK, WorkersOK
    <3>5. CASE Serve(w)
      <4>1. workers[w].inv \in Invoice /\ FeltOf[workers[w].hash] \in Tx
        BY <3>5, WorkerTypes DEF Serve
      <4>2. Accepted(rows[workers[w].inv]) \in Row
        BY <4>1, RowTypes DEF Accepted, Row
      <4>3. rows' \in [Invoice -> Row]
        BY <3>5, <4>1, <4>2, TableTypes DEF Serve
      <4>4. WorkersOK'
        BY <3>5, FinishTypes DEF Serve
      <4> QED BY <3>5, <4>1, <4>3, <4>4 DEF Serve, TypeOK, WorkersOK
    <3>6. CASE ServeConflict(w)
      <4>1. WorkersOK'
        BY <3>6, FinishTypes DEF ServeConflict
      <4> QED BY <3>6, <4>1 DEF ServeConflict, TypeOK, WorkersOK
    <3>7. CASE GiveUp(w)
      <4>1. workers[w].inv \in Invoice /\ workers[w].hash \in Hash
        BY <3>7, WorkerTypes DEF GiveUp
      <4>2. Failed(rows[workers[w].inv], w, clock) \in Row
        BY <4>1, RowsStayRows, RowTypes, 0 \in Nat
      <4>3. rows' \in [Invoice -> Row]
        <5>1. rows \in [Invoice -> Row]
          BY DEF TypeOK
        <5> QED BY <3>7, <4>1, <4>2, <5>1, TableTypes DEF GiveUp
      <4>4. WorkersOK'
        BY <3>7, FinishTypes DEF GiveUp
      <4> QED BY <3>7, <4>3, <4>4 DEF GiveUp, TypeOK, WorkersOK
    <3> QED BY <2>7, <3>1, <3>2, <3>3, <3>4, <3>5, <3>6, <3>7 DEF WorkerStep
  <2>8. CASE Crash
    BY <2>8, IdleTypes DEF Crash, TypeOK
  <2>9. ASSUME NEW t \in Tx, Finalize(t) PROVE TypeOK'
    BY <2>9 DEF Finalize, TypeOK
  <2>10. CASE Tick
    BY <2>10 DEF Tick, TypeOK
  <2>11. CASE UNCHANGED vars
    BY <2>11 DEF vars, TypeOK
  <2> QED BY <2>1, <2>2, <2>3, <2>4, <2>5, <2>6, <2>7, <2>8, <2>9, <2>10, <2>11
             DEF Next
<1> QED BY <1>1, <1>2, PTL DEF Spec
-----------------------------------------------------------------------------
(* Claims *)

\* A claim is final on chain, and no transaction has two claims.
ClaimsFinal == \A i \in Invoice : ledger[i] # NoTx => ledger[i] \in final

ClaimsOneToOne ==
  \A i, j \in Invoice : ledger[i] # NoTx /\ ledger[i] = ledger[j] => i = j

\* What a run has established is still so when it goes on: a verified payment
\* is final, a consumed claim is on record.
RunsKnow ==
  \A w \in Worker :
    /\ workers[w].pc = "verified" => FeltOf[workers[w].hash] \in final
    /\ workers[w].pc = "consumed" =>
         ledger[workers[w].inv] = FeltOf[workers[w].hash]

PayInv == /\ ClaimsFinal
          /\ ClaimsOneToOne
          /\ RunsKnow
          /\ ServedIsClaimed
          /\ AcceptedHasClaim

\* A step that touches neither ledger, chain nor answers keeps PayInv when it
\* puts no run past its checks and accepts no row without a claim.
LEMMA PayInvKept ==
  ASSUME PayInv,
         ledger' = ledger, final' = final, served' = served,
         \A w \in Worker : workers'[w].pc \in {"verified", "consumed"} =>
                             workers'[w] = workers[w],
         \A i \in Invoice : rows'[i].state = "accepted" =>
                              rows[i].state = "accepted" \/ ledger[i] # NoTx
  PROVE  PayInv'
BY DEF PayInv, ClaimsFinal, ClaimsOneToOne, RunsKnow, ServedIsClaimed,
       AcceptedHasClaim

\* The pruned table accepts nothing.
LEMMA PruneAcceptsNothing ==
  ASSUME TypeOK, NEW i \in Invoice, PrunedRows[i].state = "accepted"
  PROVE  rows[i].state = "accepted"
BY DEF PrunedRows, Pruned, DeletedRow, UnusedRow

\* Moving a run: what the other runs hold is unchanged.
LEMMA GotoOnly ==
  ASSUME TypeOK, NEW w \in Worker, NEW pc, Goto(w, pc)
  PROVE  /\ workers'[w].pc = pc
         /\ workers'[w].inv = workers[w].inv
         /\ workers'[w].hash = workers[w].hash
         /\ workers'[w].started = workers[w].started
         /\ workers'[w].until = workers[w].until
         /\ \A v \in Worker \ {w} : workers'[v] = workers[v]
BY DEF TypeOK, Goto, WorkerState

\* Ending a run makes it idle and leaves what the other runs hold unchanged.
LEMMA FinishOnly ==
  ASSUME TypeOK, NEW w \in Worker, Finish(w)
  PROVE  /\ workers'[w] = Idle
         /\ \A v \in Worker \ {w} : workers'[v] = workers[v]
BY DEF TypeOK, Finish

\* A run that begins holds what it was given; the other runs are unchanged.
LEMMA BeginsOnly ==
  ASSUME TypeOK, NEW w \in Worker, NEW s, workers' = [workers EXCEPT ![w] = s]
  PROVE  workers'[w] = s /\ \A v \in Worker \ {w} : workers'[v] = workers[v]
BY DEF TypeOK

\* Writing one row leaves the other rows unchanged.
LEMMA OneRowOnly ==
  ASSUME TypeOK, NEW i \in Invoice, NEW r, rows' = [rows EXCEPT ![i] = r]
  PROVE  rows'[i] = r /\ \A j \in Invoice \ {i} : rows'[j] = rows[j]
BY DEF TypeOK

\* Every step of the server preserves the inductive invariant of the claims.
LEMMA PayInvStep == TypeOK /\ PayInv /\ [Next]_vars => PayInv'
<1> SUFFICES ASSUME TypeOK, PayInv, [Next]_vars PROVE PayInv'
  OBVIOUS
<1>1. ASSUME NEW i \in Invoice, Challenge(i) PROVE PayInv'
  <2>1. rows'[i].state # "accepted"
    BY <1>1, TableTypes DEF Challenge, IssuedRow, UnusedRow
  <2>2. \A j \in Invoice \ {i} : rows'[j] = PrunedRows[j]
    BY <1>1, TableTypes DEF Challenge
  <2> QED BY <1>1, <2>1, <2>2, PruneAcceptsNothing, PayInvKept DEF Challenge
<1>2. CASE RefuseChallenge
  BY <1>2, PruneAcceptsNothing, PayInvKept DEF RefuseChallenge
<1>3. ASSUME NEW w \in Worker, NEW i \in Invoice, NEW h \in Hash,
             PresentExactRetry(w, i, h)
      PROVE  PayInv'
  <2>1. ledger[i] # NoTx
    BY <1>3 DEF PresentExactRetry, ExactRetry
  <2>2. workers'[w] = Settling(i, h, FALSE, 0)
    BY <1>3, BeginsOnly DEF PresentExactRetry
  <2>3. \A v \in Worker \ {w} : workers'[v] = workers[v]
    BY <1>3, BeginsOnly DEF PresentExactRetry
  <2>4. \A j \in Invoice \ {i} : rows'[j] = rows[j]
    BY <1>3, OneRowOnly DEF PresentExactRetry
  <2>5. workers'[w].pc = "verifying"
    BY <2>2 DEF Settling
  <2> QED BY <1>3, <2>1, <2>3, <2>4, <2>5, PayInvKept DEF PresentExactRetry
<1>4. ASSUME NEW w \in Worker, NEW i \in Invoice, NEW h \in Hash,
             PresentStarted(w, i, h)
      PROVE  PayInv'
  <2>1. rows'[i] = Leased(rows[i], h, w, clock + LeaseTerm)
    BY <1>4, OneRowOnly DEF PresentStarted
  <2>2. workers'[w] = Settling(i, h, TRUE, clock + LeaseTerm)
    BY <1>4, BeginsOnly DEF PresentStarted
  <2>3. \A v \in Worker \ {w} : workers'[v] = workers[v]
    BY <1>4, BeginsOnly DEF PresentStarted
  <2>4. \A j \in Invoice \ {i} : rows'[j] = rows[j]
    BY <1>4, OneRowOnly DEF PresentStarted
  <2>5. rows'[i].state = "settling"
    BY <2>1, RowTypes DEF Leased, Row
  <2>6. workers'[w].pc = "verifying"
    BY <2>2 DEF Settling
  <2> QED BY <1>4, <2>3, <2>4, <2>5, <2>6, PayInvKept DEF PresentStarted
<1>5. ASSUME NEW w \in Worker, NEW i \in Invoice, NEW h \in Hash,
             PresentExpired(w, i, h)
      PROVE  PayInv'
  BY <1>5, PruneAcceptsNothing, PayInvKept DEF PresentExpired
<1>6. ASSUME NEW w \in Worker, NEW i \in Invoice, NEW h \in Hash,
             PresentRefused(w, i, h)
      PROVE  PayInv'
  BY <1>6, PayInvKept DEF PresentRefused, vars
<1>7. ASSUME NEW w \in Worker, Verified(w) PROVE PayInv'
  BY <1>7, GotoOnly
     DEF Verified, PayInv, ClaimsFinal, ClaimsOneToOne, RunsKnow,
         ServedIsClaimed, AcceptedHasClaim
<1>8. ASSUME NEW w \in Worker, NotVerified(w) PROVE PayInv'
  BY <1>8, GotoOnly, PayInvKept DEF NotVerified
<1>9. ASSUME NEW w \in Worker, Consume(w) PROVE PayInv'
  <2> DEFINE i == workers[w].inv
             t == FeltOf[workers[w].hash]
  <2>1. i \in Invoice /\ t \in Tx /\ t \in final
    BY <1>9, WorkerTypes DEF Consume, PayInv, RunsKnow
  <2>2. ledger' = [ledger EXCEPT ![i] = t] /\ Consumable(i, t)
    BY <1>9 DEF Consume
  <2>3. ledger'[i] = t /\ \A j \in Invoice \ {i} : ledger'[j] = ledger[j]
    BY <2>1, <2>2 DEF TypeOK
  <2>4. \A j \in Invoice : ledger[j] # NoTx => ledger'[j] = ledger[j]
    BY <2>2, <2>3 DEF Consumable
  <2>5. rows' = rows /\ final' = final /\ served' = served
    BY <1>9 DEF Consume
  <2>6. ClaimsFinal'
    BY <2>1, <2>3, <2>5 DEF PayInv, ClaimsFinal
  <2>7. ClaimsOneToOne'
    BY <2>1, <2>2, <2>3 DEF PayInv, ClaimsOneToOne, Consumable
  <2>8. RunsKnow'
    <3>1. ASSUME NEW v \in Worker \ {w}, workers[v].pc = "consumed"
          PROVE  ledger'[workers[v].inv] = FeltOf[workers[v].hash]
      <4>1. /\ workers[v].inv \in Invoice
            /\ ledger[workers[v].inv] = FeltOf[workers[v].hash]
            /\ FeltOf[workers[v].hash] # NoTx
        BY <3>1, WorkerTypes DEF PayInv, RunsKnow
      <4> QED BY <2>4, <4>1
    <3> QED BY <1>9, <2>3, <2>5, <3>1, GotoOnly DEF Consume, PayInv, RunsKnow
  <2>9. ServedIsClaimed'
    <3>1. ASSUME NEW p \in served PROVE ledger'[p[1]] = p[2] /\ p[2] \in final
      <4>1. p[1] \in Invoice /\ p[2] \in Tx /\ ledger[p[1]] = p[2] /\ p[2] \in final
        BY DEF TypeOK, PayInv, ServedIsClaimed
      <4> QED BY <2>4, <4>1
    <3> QED BY <2>5, <3>1 DEF ServedIsClaimed
  <2>10. AcceptedHasClaim'
    BY <2>4, <2>5 DEF PayInv, AcceptedHasClaim
  <2> QED BY <2>6, <2>7, <2>8, <2>9, <2>10 DEF PayInv
<1>10. ASSUME NEW w \in Worker, ConsumeFails(w) PROVE PayInv'
  BY <1>10, GotoOnly, PayInvKept DEF ConsumeFails
<1>11. ASSUME NEW w \in Worker, Serve(w) PROVE PayInv'
  <2> DEFINE i == workers[w].inv
             t == FeltOf[workers[w].hash]
  <2>1. i \in Invoice /\ t \in Tx /\ ledger[i] = t /\ t # NoTx /\ t \in final
    BY <1>11, WorkerTypes DEF Serve, PayInv, RunsKnow, ClaimsFinal
  <2>2. \A j \in Invoice \ {i} : rows'[j] = rows[j]
    BY <1>11, <2>1, OneRowOnly DEF Serve
  <2>3. ledger' = ledger /\ final' = final /\ served' = served \cup {<<i, t>>}
    BY <1>11 DEF Serve
  <2>4. ServedIsClaimed'
    BY <2>1, <2>3 DEF PayInv, ServedIsClaimed
  <2>5. AcceptedHasClaim'
    BY <2>1, <2>2, <2>3 DEF PayInv, AcceptedHasClaim
  <2>6. RunsKnow'
    BY <1>11, <2>3, FinishOnly DEF Serve, PayInv, RunsKnow, Idle
  <2> QED BY <2>3, <2>4, <2>5, <2>6 DEF PayInv, ClaimsFinal, ClaimsOneToOne
<1>12. ASSUME NEW w \in Worker, ServeConflict(w) PROVE PayInv'
  BY <1>12, FinishOnly, PayInvKept DEF ServeConflict, Idle
<1>13. ASSUME NEW w \in Worker, GiveUp(w) PROVE PayInv'
  <2>1. workers[w].inv \in Invoice
    BY <1>13, WorkerTypes DEF GiveUp
  <2>2. \A i \in Invoice : rows'[i].state = "accepted" => rows[i].state = "accepted"
    <3> DEFINE r == rows[workers[w].inv]
    <3>1. r \in Row
      BY <2>1, RowTypes
    <3>2. Failed(r, w, clock).state = "accepted" => r.state = "accepted"
      BY <3>1 DEF Failed, IssuedRow, UnusedRow, Row
    <3>3. rows' = rows \/ rows' = [rows EXCEPT ![workers[w].inv] = Failed(r, w, clock)]
      BY <1>13 DEF GiveUp
    <3> HIDE DEF r
    <3> QED BY <2>1, <3>2, <3>3, OneRowOnly DEF r
  <2> QED BY <1>13, <2>2, FinishOnly, PayInvKept DEF GiveUp, Idle
<1>14. CASE Crash
  BY <1>14, PayInvKept DEF Crash, Idle
<1>15. ASSUME NEW t \in Tx, Finalize(t) PROVE PayInv'
  BY <1>15 DEF Finalize, PayInv, ClaimsFinal, ClaimsOneToOne, RunsKnow,
               ServedIsClaimed, AcceptedHasClaim
<1>16. CASE Tick
  BY <1>16, PayInvKept DEF Tick
<1>17. CASE UNCHANGED vars
  BY <1>17, PayInvKept DEF vars
<1> QED BY <1>1, <1>2, <1>3, <1>4, <1>5, <1>6, <1>7, <1>8, <1>9, <1>10, <1>11,
           <1>12, <1>13, <1>14, <1>15, <1>16, <1>17 DEF Next, WorkerStep

\* The inductive invariant of the claims holds in every reachable state.
LEMMA PaySafe == Spec => [](TypeOK /\ PayInv)
<1>1. Init => PayInv
  BY DEF Init, PayInv, ClaimsFinal, ClaimsOneToOne, RunsKnow, ServedIsClaimed,
         AcceptedHasClaim, UnusedRow, Idle
<1> QED BY <1>1, TypeCorrect, PayInvStep, PTL DEF Spec

\* Whatever was answered with the resource is the claim on record, and its
\* payment is final.
THEOREM ServedClaims == Spec => []ServedIsClaimed
<1>1. PayInv => ServedIsClaimed
  BY DEF PayInv
<1> QED BY <1>1, PaySafe, PTL

\* An invoice is never accepted without a claim, in whatever order crashes,
\* late failures and retries reach the two tables.
THEOREM AcceptedClaims == Spec => []AcceptedHasClaim
<1>1. PayInv => AcceptedHasClaim
  BY DEF PayInv
<1> QED BY <1>1, PaySafe, PTL

\* No invoice is served for two payments and no payment for two invoices.
THEOREM OncePerPayment == Spec => []ServedOncePerPayment
<1>1. TypeOK /\ PayInv => ServedOncePerPayment
  <2> SUFFICES ASSUME TypeOK, PayInv, NEW p \in served, NEW q \in served
               PROVE  p[1] = q[1] <=> p[2] = q[2]
    BY DEF ServedOncePerPayment
  <2>1. /\ p[1] \in Invoice /\ p[2] \in Tx /\ ledger[p[1]] = p[2]
        /\ q[1] \in Invoice /\ q[2] \in Tx /\ ledger[q[1]] = q[2]
    BY DEF TypeOK, PayInv, ServedIsClaimed
  <2> QED BY <2>1 DEF PayInv, ClaimsOneToOne
<1> QED BY <1>1, PaySafe, PTL
-----------------------------------------------------------------------------
(* Refinement *)

\* The server implements PaidOnce: each of its steps is a step of the abstract
\* specification or leaves its variables alone.
THEOREM ServerKeepsPromise == Spec => PaidOncePromise
<1>1. Init => Promise!Init
  BY DEF Init, Promise!Init
<1>2. TypeOK /\ PayInv /\ [Next]_vars => [Promise!Next]_(Promise!vars)
  <2> SUFFICES ASSUME TypeOK, PayInv, [Next]_vars
               PROVE  [Promise!Next]_(Promise!vars)
    OBVIOUS
  <2>1. CASE UNCHANGED <<final, ledger, served>>
    BY <2>1 DEF Promise!vars
  <2>2. ASSUME NEW t \in Tx, Finalize(t) PROVE Promise!Next
    BY <2>2 DEF Finalize, Promise!Next, Promise!Finalize
  <2>3. ASSUME NEW w \in Worker, Consume(w) PROVE [Promise!Next]_(Promise!vars)
    <3> DEFINE i == workers[w].inv
               t == FeltOf[workers[w].hash]
    <3>1. i \in Invoice /\ t \in Tx /\ t \in final
      BY <2>3, WorkerTypes DEF Consume, PayInv, RunsKnow
    <3>2. /\ ledger' = [ledger EXCEPT ![i] = t]
          /\ Consumable(i, t)
          /\ final' = final /\ served' = served
      BY <2>3 DEF Consume
    <3>3. CASE ledger[i] = t
      <4>1. ledger' = ledger
        BY <3>1, <3>2, <3>3 DEF TypeOK
      <4> QED BY <3>2, <4>1 DEF Promise!vars
    <3>4. CASE ledger[i] = NoTx /\ \A j \in Invoice : ledger[j] # t
      <4>1. Promise!Claim(i, t)
        BY <3>1, <3>2, <3>4 DEF Promise!Claim
      <4> QED BY <3>1, <4>1 DEF Promise!Next
    <3> QED BY <3>2, <3>3, <3>4 DEF Consumable
  <2>4. ASSUME NEW w \in Worker, Serve(w) PROVE Promise!Next
    <3> DEFINE i == workers[w].inv
               t == FeltOf[workers[w].hash]
    <3>1. i \in Invoice /\ t \in Tx /\ ledger[i] = t
      BY <2>4, WorkerTypes DEF Serve, PayInv, RunsKnow
    <3>2. /\ served' = served \cup {<<i, t>>}
          /\ ledger' = ledger /\ final' = final
      BY <2>4 DEF Serve
    <3>3. Promise!Give(i)
      BY <3>1, <3>2 DEF Promise!Give
    <3> QED BY <3>1, <3>3 DEF Promise!Next
  <2>5. ASSUME NEW w \in Worker, WorkerStep(w)
        PROVE  [Promise!Next]_(Promise!vars)
    <3>1. CASE Consume(w)
      BY <2>3, <3>1
    <3>2. CASE Serve(w)
      BY <2>4, <3>2
    <3>3. CASE Verified(w) \/ NotVerified(w) \/ ConsumeFails(w)
               \/ ServeConflict(w) \/ GiveUp(w)
      BY <2>1, <3>3 DEF Verified, NotVerified, ConsumeFails, ServeConflict, GiveUp
    <3> QED BY <2>5, <3>1, <3>2, <3>3 DEF WorkerStep
  <2>6. ASSUME NEW w \in Worker, NEW i \in Invoice, NEW h \in Hash,
               \/ PresentExactRetry(w, i, h) \/ PresentStarted(w, i, h)
               \/ PresentExpired(w, i, h) \/ PresentRefused(w, i, h)
        PROVE  UNCHANGED <<final, ledger, served>>
    BY <2>6 DEF PresentExactRetry, PresentStarted, PresentExpired,
                PresentRefused, vars
  <2>7. ASSUME (\E i \in Invoice : Challenge(i)) \/ RefuseChallenge \/ Crash \/ Tick
               \/ UNCHANGED vars
        PROVE  UNCHANGED <<final, ledger, served>>
    BY <2>7 DEF Challenge, RefuseChallenge, Crash, Tick, vars
  <2> QED BY <2>1, <2>2, <2>5, <2>6, <2>7 DEF Next
<1> QED BY <1>1, <1>2, PaySafe, PTL DEF Spec, PaidOncePromise, Promise!Spec
-----------------------------------------------------------------------------
(* Rows over one step *)

\* beginSettlement says "started" exactly when its UPDATE found the row.
LEMMA BeginStarted ==
  ASSUME NEW r \in Row, NEW h \in Hash, NEW now \in Nat, Exists(r),
         BeginOutcome(r, h, now) = "started"
  PROVE  Starts(r, h, now)
<1> SUFFICES ASSUME ~Starts(r, h, now) PROVE FALSE
  OBVIOUS
<1>1. CASE r.state = "accepted"
  BY <1>1 DEF BeginOutcome
<1>2. CASE r.state = "issued"
  BY <1>2 DEF BeginOutcome
<1>3. CASE r.state = "settling"
  BY <1>3 DEF BeginOutcome
<1> QED BY <1>1, <1>2, <1>3 DEF Exists

\* What can become of the row of an invoice in one step.
RowStep(i) ==
  \/ rows'[i] = rows[i]
  \/ rows'[i] = Pruned(rows[i], clock)
  \/ rows[i].state = "unused" /\ rows'[i] = IssuedRow(clock + Ttl)
  \/ Exists(rows[i]) /\ rows'[i] = Accepted(rows[i])
  \/ \E h \in Hash, w \in Worker :
       /\ Starts(rows[i], h, clock)
       /\ rows'[i] = Leased(rows[i], h, w, clock + LeaseTerm)
  \/ \E w \in Worker : rows'[i] = Failed(rows[i], w, clock)

\* Every step of the server does to a row one of the things RowStep lists.
LEMMA EveryRowStep ==
  ASSUME TypeOK, [Next]_vars, NEW i \in Invoice PROVE RowStep(i)
<1>0. PrunedRows[i] = Pruned(rows[i], clock)
  BY DEF PrunedRows
<1>1. ASSUME NEW j \in Invoice, Challenge(j) PROVE RowStep(i)
  <2>1. CASE j = i
    BY <1>1, <2>1, TableTypes DEF Challenge, RowStep
  <2>2. CASE j # i
    BY <1>0, <1>1, <2>2, TableTypes DEF Challenge, RowStep
  <2> QED BY <2>1, <2>2
<1>2. CASE RefuseChallenge
  BY <1>0, <1>2 DEF RefuseChallenge, RowStep
<1>3. ASSUME NEW w \in Worker, NEW j \in Invoice, NEW h \in Hash,
             PresentExactRetry(w, j, h)
      PROVE  RowStep(i)
  BY <1>3, OneRowOnly DEF PresentExactRetry, Known, RowStep
<1>4. ASSUME NEW w \in Worker, NEW j \in Invoice, NEW h \in Hash,
             PresentStarted(w, j, h)
      PROVE  RowStep(i)
  <2>1. Starts(rows[j], h, clock)
    BY <1>4, BeginStarted, RowTypes DEF PresentStarted, Known
  <2>2. /\ rows'[j] = Leased(rows[j], h, w, clock + LeaseTerm)
        /\ \A k \in Invoice \ {j} : rows'[k] = rows[k]
    BY <1>4, OneRowOnly DEF PresentStarted
  <2> QED BY <2>1, <2>2 DEF RowStep
<1>5. ASSUME NEW w \in Worker, NEW j \in Invoice, NEW h \in Hash,
             PresentExpired(w, j, h)
      PROVE  RowStep(i)
  BY <1>0, <1>5 DEF PresentExpired, RowStep
<1>6. ASSUME NEW w \in Worker, NEW j \in Invoice, NEW h \in Hash,
             PresentRefused(w, j, h)
      PROVE  RowStep(i)
  BY <1>6 DEF PresentRefused, vars, RowStep
<1>7. ASSUME NEW w \in Worker, Serve(w) PROVE RowStep(i)
  <2>1. workers[w].inv \in Invoice
    BY <1>7, WorkerTypes DEF Serve
  <2> QED BY <1>7, <2>1, OneRowOnly DEF Serve, RowStep
<1>8. ASSUME NEW w \in Worker, GiveUp(w) PROVE RowStep(i)
  <2>1. workers[w].inv \in Invoice
    BY <1>8, WorkerTypes DEF GiveUp
  <2> QED BY <1>8, <2>1, OneRowOnly DEF GiveUp, RowStep
<1>9. ASSUME NEW w \in Worker,
             Verified(w) \/ NotVerified(w) \/ Consume(w) \/ ConsumeFails(w)
               \/ ServeConflict(w)
      PROVE  RowStep(i)
  BY <1>9 DEF Verified, NotVerified, Consume, ConsumeFails, ServeConflict, RowStep
<1>10. ASSUME Crash \/ Tick \/ (\E t \in Tx : Finalize(t)) \/ UNCHANGED vars
       PROVE  RowStep(i)
  BY <1>10 DEF Crash, Tick, Finalize, vars, RowStep
<1> QED BY <1>1, <1>2, <1>3, <1>4, <1>5, <1>6, <1>7, <1>8, <1>9, <1>10
        DEF Next, WorkerStep

\* An accepted row stays accepted in a step.
LEMMA AcceptedKept ==
  ASSUME TypeOK, NEW i \in Invoice, RowStep(i), rows[i].state = "accepted"
  PROVE  rows'[i].state = "accepted"
BY RowTypes DEF RowStep, Pruned, Prunable, PruneGuard, Accepted, Starts, Failed, Row

\* Nothing takes an accepted invoice back.
THEOREM AcceptanceIsFinal == Spec => AcceptedIsForever
<1>1. TypeOK /\ [Next]_vars =>
        \A i \in Invoice : rows[i].state = "accepted" => rows'[i].state = "accepted"
  BY EveryRowStep, AcceptedKept
<1> QED BY <1>1, TypeCorrect, PTL DEF Spec, AcceptedIsForever

\* A settlement that outlives its invoice stays bound to its transaction until
\* it is accepted.
THEOREM LateSettlementSafe == Spec => LateSettlementKept
<1>1. ASSUME TypeOK, [Next]_vars, NEW i \in Invoice,
             rows[i].state = "settling", rows[i].expires < clock
      PROVE  rows'[i].state \in {"settling", "accepted"} /\ rows'[i].tx = rows[i].tx
  <2>1. rows[i] \in Row /\ RowStep(i)
    BY <1>1, RowTypes, EveryRowStep
  <2>2. Pruned(rows[i], clock) = rows[i]
    BY <1>1 DEF Pruned, Prunable, PruneGuard
  <2>3. CASE rows'[i] = Accepted(rows[i])
    BY <1>1, <2>1, <2>3 DEF Accepted, Row
  <2>4. ASSUME NEW h \in Hash, NEW w \in Worker, Starts(rows[i], h, clock),
               rows'[i] = Leased(rows[i], h, w, clock + LeaseTerm)
        PROVE  rows'[i].state = "settling" /\ rows'[i].tx = rows[i].tx
    BY <1>1, <2>1, <2>4 DEF Starts, Leased, Row
  <2>5. ASSUME NEW w \in Worker, rows'[i] = Failed(rows[i], w, clock)
        PROVE  rows'[i].state = "settling" /\ rows'[i].tx = rows[i].tx
    BY <1>1, <2>1, <2>5 DEF Failed, Row
  <2> QED BY <1>1, <2>1, <2>2, <2>3, <2>4, <2>5 DEF RowStep
<1>2. TypeOK /\ [Next]_vars =>
        \A i \in Invoice :
          rows[i].state = "settling" /\ rows[i].expires < clock =>
            /\ rows'[i].state \in {"settling", "accepted"}
            /\ rows'[i].tx = rows[i].tx
  BY <1>1
<1> QED BY <1>2, TypeCorrect, PTL DEF Spec, LateSettlementKept
-----------------------------------------------------------------------------
(* The lease *)

\* A run within its term still has the row as it left it, unless the invoice
\* was accepted meanwhile.
Held(w) ==
  LET r == rows[workers[w].inv]
  IN  \/ r.state = "accepted"
      \/ r.state = "settling" /\ r.lease = w /\ r.until = workers[w].until

LockInv == /\ OneSettlementAtATime
           /\ \A w \in Worker : InTerm(w) => Held(w)

\* A step keeps LockInv when it brings no run into its term and leaves the
\* rows of those within their term alone, or accepts them.
LEMMA LockInvKept ==
  ASSUME TypeOK, LockInv,
         \A w \in Worker : InTerm(w)' =>
           /\ InTerm(w)
           /\ workers'[w].inv = workers[w].inv
           /\ workers'[w].until = workers[w].until
           /\ \/ rows'[workers[w].inv] = rows[workers[w].inv]
              \/ rows'[workers[w].inv].state = "accepted"
  PROVE  LockInv'
<1>1. OneSettlementAtATime'
  BY DEF LockInv, OneSettlementAtATime
<1>2. \A w \in Worker : InTerm(w)' => Held(w)'
  BY DEF LockInv, Held
<1> QED BY <1>1, <1>2 DEF LockInv

\* The row of a run within its term survives pruning.
LEMMA HeldNotPruned ==
  ASSUME TypeOK, LockInv, NEW w \in Worker, InTerm(w)
  PROVE  /\ workers[w].inv \in Invoice
         /\ rows[workers[w].inv].state \in {"settling", "accepted"}
         /\ PrunedRows[workers[w].inv] = rows[workers[w].inv]
<1>1. workers[w].inv \in Invoice
  BY WorkerTypes DEF InTerm, Running
<1> QED BY <1>1 DEF LockInv, Held, PrunedRows, Pruned, Prunable, PruneGuard

\* Runs are only moved or ended, none begins: what LockInvKept asks of them.
LEMMA NoneEnters ==
  ASSUME TypeOK, NEW w \in Worker,
         clock' = clock,
         \/ \E pc \in {"verified", "consumed", "failed"} :
              workers[w].pc # "idle" /\ Goto(w, pc)
         \/ Finish(w)
  PROVE  \A v \in Worker : InTerm(v)' =>
           /\ InTerm(v)
           /\ workers'[v].inv = workers[v].inv
           /\ workers'[v].until = workers[v].until
           /\ Finish(w) => v # w
<1>1. CASE Finish(w)
  BY <1>1, FinishOnly DEF InTerm, Running, Idle
<1>2. ASSUME NEW pc \in {"verified", "consumed", "failed"},
             workers[w].pc # "idle", Goto(w, pc), ~Finish(w)
      PROVE  \A v \in Worker : InTerm(v)' =>
               /\ InTerm(v)
               /\ workers'[v].inv = workers[v].inv
               /\ workers'[v].until = workers[v].until
  BY <1>2, GotoOnly DEF InTerm, Running
<1> QED BY <1>1, <1>2

\* Every step of the server preserves the inductive invariant of the lease.
LEMMA LockInvStep == TypeOK /\ LockInv /\ [Next]_vars => LockInv'
<1> SUFFICES ASSUME TypeOK, LockInv, [Next]_vars PROVE LockInv'
  OBVIOUS
<1>1. ASSUME NEW i \in Invoice, Challenge(i) PROVE LockInv'
  <2>1. workers' = workers /\ clock' = clock
    BY <1>1 DEF Challenge
  <2>2. \A j \in Invoice \ {i} : rows'[j] = PrunedRows[j]
    BY <1>1, TableTypes DEF Challenge
  <2>3. rows[i].state = "unused"
    BY <1>1 DEF Challenge
  <2>4. \A w \in Worker : InTerm(w) => rows'[workers[w].inv] = rows[workers[w].inv]
    BY <2>2, <2>3, HeldNotPruned
  <2> QED BY <2>1, <2>4, LockInvKept DEF InTerm, Running
<1>2. ASSUME rows' = PrunedRows, workers' = workers, clock' = clock
      PROVE  LockInv'
  BY <1>2, HeldNotPruned, LockInvKept DEF InTerm, Running
<1>3. ASSUME NEW w \in Worker, NEW i \in Invoice, NEW h \in Hash,
             PresentExactRetry(w, i, h)
      PROVE  LockInv'
  <2>1. /\ workers'[w] = Settling(i, h, FALSE, 0)
        /\ \A v \in Worker \ {w} : workers'[v] = workers[v]
        /\ clock' = clock
    BY <1>3, BeginsOnly DEF PresentExactRetry
  <2>2. /\ rows'[i] = Accepted(rows[i])
        /\ \A j \in Invoice \ {i} : rows'[j] = rows[j]
    BY <1>3, OneRowOnly DEF PresentExactRetry
  <2>3. rows'[i].state = "accepted"
    BY <2>2, RowTypes DEF Accepted, Row
  <2>4. ~InTerm(w)'
    BY <2>1 DEF InTerm, Running, Settling
  <2>5. \A v \in Worker \ {w} : InTerm(v)' <=> InTerm(v)
    BY <2>1 DEF InTerm, Running
  <2>6. \A v \in Worker : InTerm(v) => workers[v].inv \in Invoice
    BY HeldNotPruned
  <2> QED BY <2>1, <2>2, <2>3, <2>4, <2>5, <2>6, LockInvKept
<1>4. ASSUME NEW w \in Worker, NEW i \in Invoice, NEW h \in Hash,
             PresentStarted(w, i, h)
      PROVE  LockInv'
  <2>1. /\ workers'[w] = Settling(i, h, TRUE, clock + LeaseTerm)
        /\ \A v \in Worker \ {w} : workers'[v] = workers[v]
        /\ clock' = clock
    BY <1>4, BeginsOnly DEF PresentStarted
  <2>2. /\ rows'[i] = Leased(rows[i], h, w, clock + LeaseTerm)
        /\ \A j \in Invoice \ {i} : rows'[j] = rows[j]
    BY <1>4, OneRowOnly DEF PresentStarted
  <2>3. Starts(rows[i], h, clock)
    BY <1>4, BeginStarted, RowTypes DEF PresentStarted, Known
  <2>4. \A v \in Worker \ {w} : InTerm(v)' <=> InTerm(v)
    BY <2>1 DEF InTerm, Running
  <2>5. ASSUME NEW v \in Worker \ {w}, InTerm(v) PROVE workers[v].inv # i
    <3>1. Held(v) /\ workers[v].until >= clock
      BY <2>5 DEF LockInv, InTerm
    <3>2. clock \in Nat /\ workers[v].until \in Nat
      BY WorkerTypes, RowTypes DEF WorkerState
    <3> QED BY <2>3, <3>1, <3>2 DEF Held, Starts
  <2>6. /\ workers'[w].inv = i
        /\ workers'[w].until = clock + LeaseTerm
    BY <2>1 DEF Settling
  <2>7. Held(w)'
    BY <2>2, <2>6, RowTypes DEF Held, Leased, Row
  <2>8. ASSUME NEW v \in Worker \ {w}, InTerm(v)' PROVE Held(v)'
    <3>1. InTerm(v) /\ workers[v].inv \in Invoice \ {i} /\ workers'[v] = workers[v]
      BY <2>1, <2>4, <2>5, <2>8, HeldNotPruned
    <3> QED BY <2>2, <3>1 DEF LockInv, Held
  <2>9. OneSettlementAtATime'
    <3> SUFFICES ASSUME NEW u \in Worker, NEW v \in Worker, u # v,
                        InTerm(u)', InTerm(v)'
                 PROVE  workers'[u].inv # workers'[v].inv
      BY DEF OneSettlementAtATime
    <3>1. CASE u # w /\ v # w
      BY <2>1, <2>4, <3>1 DEF LockInv, OneSettlementAtATime
    <3>2. CASE u = w
      BY <2>1, <2>4, <2>5, <2>6, <3>2
    <3>3. CASE v = w
      BY <2>1, <2>4, <2>5, <2>6, <3>3
    <3> QED BY <3>1, <3>2, <3>3
  <2> QED BY <2>7, <2>8, <2>9 DEF LockInv
<1>5. ASSUME NEW w \in Worker, WorkerStep(w) PROVE LockInv'
  <2>1. CASE Verified(w) \/ NotVerified(w) \/ Consume(w) \/ ConsumeFails(w)
    <3>1. rows' = rows /\ clock' = clock /\ workers[w].pc # "idle"
      BY <2>1 DEF Verified, NotVerified, Consume, ConsumeFails
    <3>2. \E pc \in {"verified", "consumed", "failed"} : Goto(w, pc)
      BY <2>1 DEF Verified, NotVerified, Consume, ConsumeFails
    <3> QED BY <3>1, <3>2, NoneEnters, LockInvKept
  <2>2. CASE Serve(w)
    <3>1. workers[w].inv \in Invoice /\ clock' = clock /\ Finish(w)
      BY <2>2, WorkerTypes DEF Serve
    <3>2. /\ rows'[workers[w].inv].state = "accepted"
          /\ \A j \in Invoice \ {workers[w].inv} : rows'[j] = rows[j]
      <4>0. rows' = [rows EXCEPT ![workers[w].inv] = Accepted(rows[workers[w].inv])]
        BY <2>2 DEF Serve
      <4>1. rows'[workers[w].inv] = Accepted(rows[workers[w].inv])
        BY <3>1, <4>0, OneRowOnly
      <4>2. \A j \in Invoice \ {workers[w].inv} : rows'[j] = rows[j]
        BY <3>1, <4>0, OneRowOnly
      <4> QED BY <3>1, <4>1, <4>2, RowTypes DEF Accepted, Row
    <3>3. \A v \in Worker : InTerm(v) => workers[v].inv \in Invoice
      BY HeldNotPruned
    <3> QED BY <3>1, <3>2, <3>3, NoneEnters, LockInvKept
  <2>3. CASE ServeConflict(w)
    <3>1. rows' = rows /\ clock' = clock /\ Finish(w)
      BY <2>3 DEF ServeConflict
    <3> QED BY <3>1, NoneEnters, LockInvKept
  <2>4. CASE GiveUp(w)
    <3> DEFINE i == workers[w].inv
    <3>1. i \in Invoice /\ clock' = clock /\ Finish(w)
      BY <2>4, WorkerTypes DEF GiveUp
    <3>2. \A j \in Invoice \ {i} : rows'[j] = rows[j]
      BY <2>4, <3>1, OneRowOnly DEF GiveUp
    <3>3. rows'[i] = rows[i] \/ rows'[i] = Failed(rows[i], w, clock)
      BY <2>4, <3>1, OneRowOnly DEF GiveUp
    <3>4. ASSUME NEW v \in Worker \ {w}, InTerm(v) PROVE
                 rows'[workers[v].inv] = rows[workers[v].inv]
      <4>1. Held(v) /\ workers[v].inv \in Invoice
        BY <3>4, HeldNotPruned DEF LockInv
      <4> QED BY <3>2, <3>3, <4>1 DEF Held, Failed
    <3> QED BY <3>1, <3>4, NoneEnters, LockInvKept
  <2> QED BY <1>5, <2>1, <2>2, <2>3, <2>4 DEF WorkerStep
<1>6. CASE Crash
  BY <1>6, LockInvKept DEF Crash, Idle, InTerm, Running
<1>7. CASE Tick
  <2>1. rows' = rows /\ workers' = workers /\ clock' = clock + 1
    BY <1>7 DEF Tick
  <2>2. \A w \in Worker : InTerm(w)' => InTerm(w)
    BY <2>1, WorkerTypes, RowTypes DEF InTerm, Running, WorkerState, TypeOK
  <2> QED BY <2>1, <2>2, LockInvKept
<1>8. ASSUME rows' = rows, workers' = workers, clock' = clock PROVE LockInv'
  BY <1>8, LockInvKept DEF InTerm, Running
<1> QED BY <1>1, <1>2, <1>3, <1>4, <1>5, <1>6, <1>7, <1>8
        DEF Next, RefuseChallenge, PresentExpired, PresentRefused, Finalize, vars

\* The inductive invariant of the lease holds in every reachable state.
LEMMA LockSafe == Spec => []LockInv
<1>1. Init => LockInv
  BY DEF Init, LockInv, OneSettlementAtATime, InTerm, Running, Idle
<1> QED BY <1>1, TypeCorrect, LockInvStep, PTL DEF Spec

\* Two settlements of one invoice are never both within their lease term.
THEOREM LeaseIsLock == Spec => []OneSettlementAtATime
<1>1. LockInv => OneSettlementAtATime
  BY DEF LockInv
<1> QED BY <1>1, LockSafe, PTL
-----------------------------------------------------------------------------
(* Claims keep their row when settlements end within their lease *)

\* Prompt runs are within their term; a retry's row is accepted; a run's row
\* holds its transaction.
PromptRuns ==
  \A w \in Worker :
    /\ Running(w) => InTerm(w)
    /\ workers[w].pc # "idle" /\ ~workers[w].started =>
         rows[workers[w].inv].state = "accepted"
    /\ Running(w) /\ rows[workers[w].inv].state = "settling" =>
         rows[workers[w].inv].tx = workers[w].hash

\* A claimed invoice is accepted, or settling with the claimed transaction and
\* with no run on it that could still fail.
ClaimBound ==
  \A i \in Invoice : ledger[i] # NoTx =>
    \/ rows[i].state = "accepted"
    \/ /\ rows[i].state = "settling"
       /\ FeltOf[rows[i].tx] = ledger[i]
       /\ \A w \in Worker : Running(w) /\ workers[w].inv = i =>
                              workers[w].pc = "consumed"

PromptInv == PromptRuns /\ ClaimBound

\* The rows that claims and runs depend on are never issued or gone.
LEMMA BusyRow ==
  ASSUME TypeOK, LockInv, PromptInv, NEW i \in Invoice,
         \/ ledger[i] # NoTx
         \/ \E w \in Worker : workers[w].pc # "idle" /\ workers[w].inv = i
  PROVE  rows[i].state \in {"settling", "accepted"} /\ PrunedRows[i] = rows[i]
<1>1. rows[i].state \in {"settling", "accepted"}
  <2>1. CASE ledger[i] # NoTx
    BY <2>1 DEF PromptInv, ClaimBound
  <2>2. ASSUME NEW w \in Worker, workers[w].pc # "idle", workers[w].inv = i
        PROVE  rows[i].state \in {"settling", "accepted"}
    BY <2>2, HeldNotPruned, WorkerTypes DEF PromptInv, PromptRuns, Running, WorkerState
  <2> QED BY <2>1, <2>2
<1> QED BY <1>1 DEF PrunedRows, Pruned, Prunable, PruneGuard

\* A step keeps PromptInv when it brings no run in, makes no claim, and leaves
\* alone or accepts the rows of claims and of the runs that go on.
LEMMA PromptInvKept ==
  ASSUME TypeOK, PromptInv, ledger' = ledger, clock' = clock,
         \A w \in Worker : workers'[w].pc # "idle" =>
           /\ workers[w].pc # "idle"
           /\ workers'[w].inv = workers[w].inv
           /\ workers'[w].hash = workers[w].hash
           /\ workers'[w].started = workers[w].started
           /\ workers'[w].until = workers[w].until
           /\ workers[w].pc = "consumed" => workers'[w].pc = "consumed",
         \A i \in Invoice :
           \/ rows'[i] = rows[i]
           \/ rows'[i].state = "accepted"
           \/ /\ ledger[i] = NoTx
              /\ \A w \in Worker : workers'[w].pc # "idle" => workers'[w].inv # i
  PROVE  PromptInv'
<1>1. PromptRuns'
  <2>1. \A w \in Worker : workers'[w].pc # "idle" => workers'[w].inv \in Invoice
    BY WorkerTypes
  <2> QED BY <2>1 DEF PromptInv, PromptRuns, InTerm, Running
<1>2. ClaimBound'
  BY DEF PromptInv, ClaimBound, Running
<1> QED BY <1>1, <1>2 DEF PromptInv

\* Every step within lease terms preserves the inductive invariant of the rows
\* that claims depend on.
LEMMA PromptInvStep ==
  Prompt /\ TypeOK /\ LockInv /\ PromptInv /\ [Next]_vars => PromptInv'
<1> SUFFICES ASSUME Prompt, TypeOK, LockInv, PromptInv, [Next]_vars
             PROVE  PromptInv'
  OBVIOUS
<1>1. ASSUME NEW i \in Invoice, Challenge(i) PROVE PromptInv'
  <2>1. workers' = workers /\ clock' = clock /\ ledger' = ledger
    BY <1>1 DEF Challenge
  <2>2. \A j \in Invoice \ {i} : rows'[j] = PrunedRows[j]
    BY <1>1, TableTypes DEF Challenge
  <2>3. rows[i].state = "unused"
    BY <1>1 DEF Challenge
  <2> QED BY <2>1, <2>2, <2>3, BusyRow, PromptInvKept
<1>2. ASSUME rows' = PrunedRows, workers' = workers, clock' = clock, ledger' = ledger
      PROVE  PromptInv'
  BY <1>2, BusyRow, PromptInvKept
<1>3. ASSUME NEW w \in Worker, NEW i \in Invoice, NEW h \in Hash,
             PresentExactRetry(w, i, h)
      PROVE  PromptInv'
  <2>1. /\ workers'[w] = Settling(i, h, FALSE, 0)
        /\ \A v \in Worker \ {w} : workers'[v] = workers[v]
        /\ clock' = clock /\ ledger' = ledger
    BY <1>3, BeginsOnly DEF PresentExactRetry
  <2>2. /\ rows'[i] = Accepted(rows[i])
        /\ \A j \in Invoice \ {i} : rows'[j] = rows[j]
    BY <1>3, OneRowOnly DEF PresentExactRetry
  <2>3. rows'[i].state = "accepted"
    BY <2>2, RowTypes DEF Accepted, Row
  <2>4. ~workers'[w].started /\ workers'[w].inv = i
    BY <2>1 DEF Settling
  <2>5. PromptRuns'
    <3> SUFFICES ASSUME NEW v \in Worker
                 PROVE  /\ Running(v)' => InTerm(v)'
                        /\ workers'[v].pc # "idle" /\ ~workers'[v].started =>
                             rows'[workers'[v].inv].state = "accepted"
                        /\ Running(v)' /\ rows'[workers'[v].inv].state = "settling" =>
                             rows'[workers'[v].inv].tx = workers'[v].hash
      BY DEF PromptRuns
    <3>1. CASE v = w
      BY <2>3, <2>4, <3>1 DEF InTerm, Running
    <3>2. CASE v # w
      <4>1. workers'[v] = workers[v]
        BY <2>1, <3>2
      <4>2. workers[v].pc # "idle" =>
              \/ workers[v].inv = i
              \/ rows'[workers[v].inv] = rows[workers[v].inv]
        BY <2>2, WorkerTypes
      <4> QED BY <2>1, <2>3, <4>1, <4>2 DEF PromptInv, PromptRuns, InTerm, Running
    <3> QED BY <3>1, <3>2
  <2>6. ClaimBound'
    <3>1. ASSUME NEW j \in Invoice, NEW v \in Worker, j # i,
                 Running(v)', workers'[v].inv = j
          PROVE  Running(v) /\ workers'[v] = workers[v]
      BY <2>1, <2>4, <3>1 DEF Running
    <3> QED BY <2>1, <2>2, <2>3, <3>1 DEF PromptInv, ClaimBound
  <2> QED BY <2>5, <2>6 DEF PromptInv
<1>4. ASSUME NEW w \in Worker, NEW i \in Invoice, NEW h \in Hash,
             PresentStarted(w, i, h)
      PROVE  PromptInv'
  <2>1. /\ workers'[w] = Settling(i, h, TRUE, clock + LeaseTerm)
        /\ \A v \in Worker \ {w} : workers'[v] = workers[v]
        /\ clock' = clock /\ ledger' = ledger
    BY <1>4, BeginsOnly DEF PresentStarted
  <2>2. /\ rows'[i] = Leased(rows[i], h, w, clock + LeaseTerm)
        /\ \A j \in Invoice \ {i} : rows'[j] = rows[j]
    BY <1>4, OneRowOnly DEF PresentStarted
  <2>3. Starts(rows[i], h, clock) /\ ~ExactRetry(i, h)
    BY <1>4, BeginStarted, RowTypes DEF PresentStarted, Known
  <2>4. \* no claim: its transaction would make this an exact retry
        ledger[i] = NoTx
    BY <2>3 DEF PromptInv, ClaimBound, Starts, ExactRetry
  <2>5. ASSUME NEW v \in Worker \ {w}, workers[v].pc # "idle"
        PROVE  workers[v].inv \in Invoice \ {i}
    <3>1. workers[v].inv \in Invoice
      BY <2>5, WorkerTypes
    <3>2. CASE workers[v].started
      <4>1. InTerm(v) /\ Held(v)
        BY <2>5, <3>2 DEF LockInv, PromptInv, PromptRuns, Running
      <4>2. clock \in Nat /\ workers[v].until \in Nat /\ workers[v].until >= clock
        BY <4>1, WorkerTypes, RowTypes DEF WorkerState, InTerm
      <4> QED BY <2>3, <3>1, <4>1, <4>2 DEF Held, Starts
    <3>3. CASE ~workers[v].started
      BY <2>3, <2>5, <3>1, <3>3 DEF PromptInv, PromptRuns, Starts
    <3> QED BY <3>2, <3>3
  <2>6. /\ workers'[w].inv = i /\ workers'[w].hash = h /\ workers'[w].started
        /\ workers'[w].until = clock + LeaseTerm /\ workers'[w].pc # "idle"
    BY <2>1 DEF Settling
  <2>7. rows'[i].tx = h
    BY <2>2, RowTypes DEF Leased, Row
  <2>8. clock + LeaseTerm >= clock
    BY RowTypes
  <2>9. PromptRuns'
    <3> SUFFICES ASSUME NEW v \in Worker
                 PROVE  /\ Running(v)' => InTerm(v)'
                        /\ workers'[v].pc # "idle" /\ ~workers'[v].started =>
                             rows'[workers'[v].inv].state = "accepted"
                        /\ Running(v)' /\ rows'[workers'[v].inv].state = "settling" =>
                             rows'[workers'[v].inv].tx = workers'[v].hash
      BY DEF PromptRuns
    <3>1. CASE v = w
      BY <2>1, <2>6, <2>7, <2>8, <3>1 DEF InTerm, Running
    <3>2. CASE v # w
      BY <2>1, <2>2, <2>5, <3>2 DEF PromptInv, PromptRuns, InTerm, Running
    <3> QED BY <3>1, <3>2
  <2>10. ClaimBound'
    <3>1. ASSUME NEW j \in Invoice, NEW v \in Worker, j # i,
                 Running(v)', workers'[v].inv = j
          PROVE  Running(v) /\ workers'[v] = workers[v]
      BY <2>1, <2>6, <3>1 DEF Running
    <3> QED BY <2>1, <2>2, <2>4, <3>1 DEF PromptInv, ClaimBound
  <2> QED BY <2>9, <2>10 DEF PromptInv
<1>5. ASSUME NEW w \in Worker, Consume(w) PROVE PromptInv'
  <2> DEFINE i == workers[w].inv
             t == FeltOf[workers[w].hash]
  <2>1. i \in Invoice /\ t \in Tx /\ workers[w].pc = "verified"
    BY <1>5, WorkerTypes DEF Consume
  <2>2. /\ ledger'[i] = t
        /\ \A j \in Invoice \ {i} : ledger'[j] = ledger[j]
        /\ rows' = rows /\ clock' = clock /\ Goto(w, "consumed")
    BY <1>5, <2>1 DEF Consume, TypeOK
  <2>3. PromptRuns'
    BY <2>1, <2>2, GotoOnly DEF PromptInv, PromptRuns, InTerm, Running
  <2>4. CASE rows[i].state = "accepted"
    <3>1. ClaimBound'
      BY <2>2, <2>4, GotoOnly DEF PromptInv, ClaimBound, Running
    <3> QED BY <2>3, <3>1 DEF PromptInv
  <2>5. CASE rows[i].state # "accepted"
    <3>1. rows[i].state = "settling"
      BY <2>1, <2>5, BusyRow
    <3>2. Running(w) /\ InTerm(w)
      BY <2>1, <2>5 DEF PromptInv, PromptRuns, Running
    <3>3. rows[i].tx = workers[w].hash
      BY <3>1, <3>2 DEF PromptInv, PromptRuns
    <3>4. \A v \in Worker \ {w} : Running(v) => workers[v].inv # i
      BY <3>2 DEF LockInv, OneSettlementAtATime, PromptInv, PromptRuns
    <3>5. ClaimBound'
      BY <2>2, <3>1, <3>3, <3>4, GotoOnly DEF PromptInv, ClaimBound, Running
    <3> QED BY <2>3, <3>5 DEF PromptInv
  <2> QED BY <2>4, <2>5
<1>6. ASSUME NEW w \in Worker, Verified(w) \/ NotVerified(w) \/ ConsumeFails(w)
      PROVE  PromptInv'
  <2>1. /\ rows' = rows /\ clock' = clock /\ ledger' = ledger
        /\ workers[w].pc \in {"verifying", "verified"}
        /\ \E pc \in {"verified", "failed"} : Goto(w, pc)
    BY <1>6 DEF Verified, NotVerified, ConsumeFails
  <2> QED BY <2>1, GotoOnly, PromptInvKept
<1>7. ASSUME NEW w \in Worker, Serve(w) PROVE PromptInv'
  <2>1. workers[w].inv \in Invoice /\ clock' = clock /\ ledger' = ledger /\ Finish(w)
    BY <1>7, WorkerTypes DEF Serve
  <2>2. /\ rows'[workers[w].inv] = Accepted(rows[workers[w].inv])
        /\ \A j \in Invoice \ {workers[w].inv} : rows'[j] = rows[j]
    BY <1>7, <2>1, OneRowOnly DEF Serve
  <2>3. rows'[workers[w].inv].state = "accepted"
    BY <2>1, <2>2, RowTypes DEF Accepted, Row
  <2> QED BY <2>1, <2>2, <2>3, FinishOnly, PromptInvKept DEF Idle
<1>8. ASSUME NEW w \in Worker, ServeConflict(w) PROVE PromptInv'
  <2>1. rows' = rows /\ clock' = clock /\ ledger' = ledger /\ Finish(w)
    BY <1>8 DEF ServeConflict
  <2> QED BY <2>1, FinishOnly, PromptInvKept DEF Idle
<1>9. ASSUME NEW w \in Worker, GiveUp(w) PROVE PromptInv'
  <2> DEFINE i == workers[w].inv
  <2>1. /\ i \in Invoice /\ workers[w].pc = "failed"
        /\ clock' = clock /\ ledger' = ledger /\ Finish(w)
    BY <1>9, WorkerTypes DEF GiveUp
  <2>2. CASE ~workers[w].started
    <3>1. rows' = rows
      BY <1>9, <2>2 DEF GiveUp
    <3> QED BY <2>1, <3>1, FinishOnly, PromptInvKept DEF Idle
  <2>3. CASE workers[w].started /\ rows[i].state = "accepted"
    <3>1. rows' = rows
      BY <1>9, <2>1, <2>3 DEF GiveUp, Failed, TypeOK
    <3> QED BY <2>1, <3>1, FinishOnly, PromptInvKept DEF Idle
  <2>4. CASE workers[w].started /\ rows[i].state # "accepted"
    <3>1. Running(w) /\ InTerm(w)
      BY <2>1, <2>4 DEF PromptInv, PromptRuns, Running
    <3>2. ledger[i] = NoTx
      BY <2>1, <2>4, <3>1 DEF PromptInv, ClaimBound
    <3>3. \A v \in Worker \ {w} : workers[v].pc # "idle" => workers[v].inv # i
      BY <2>4, <3>1, WorkerTypes
         DEF LockInv, OneSettlementAtATime, PromptInv, PromptRuns, Running, WorkerState
    <3>4. \A j \in Invoice \ {i} : rows'[j] = rows[j]
      BY <1>9, <2>1, OneRowOnly DEF GiveUp
    <3> QED BY <2>1, <3>2, <3>3, <3>4, FinishOnly, PromptInvKept DEF Idle
  <2> QED BY <2>2, <2>3, <2>4
<1>10. CASE Crash
  BY <1>10, PromptInvKept DEF Crash, Idle
<1>11. CASE Tick
  <2>1. rows' = rows /\ workers' = workers /\ ledger' = ledger /\ clock' = clock + 1
    BY <1>11 DEF Tick
  <2>2. \A w \in Worker : Running(w) => workers[w].until > clock
    BY <1>11 DEF Tick
  <2>3. \A w \in Worker : Running(w)' => InTerm(w)'
    BY <2>1, <2>2, WorkerTypes, RowTypes DEF InTerm, Running, WorkerState
  <2> QED BY <2>1, <2>3 DEF PromptInv, PromptRuns, ClaimBound, Running
<1>12. ASSUME rows' = rows, workers' = workers, clock' = clock, ledger' = ledger
       PROVE  PromptInv'
  BY <1>12, PromptInvKept
<1> QED BY <1>1, <1>2, <1>3, <1>4, <1>5, <1>6, <1>7, <1>8, <1>9, <1>10, <1>11, <1>12
        DEF Next, WorkerStep, RefuseChallenge, PresentExpired, PresentRefused,
            Finalize, vars

\* When every settlement ends within its lease, an invoice with a claim never
\* loses its row: the exact retry of a claimed payment is always recognised.
THEOREM PromptClaimsKeepRows == ASSUME Prompt PROVE Spec => []ClaimKeepsRow
<1>1. Init => PromptInv
  BY DEF Init, PromptInv, PromptRuns, ClaimBound, InTerm, Running, Idle
<1>2. PromptInv => ClaimKeepsRow
  BY DEF PromptInv, ClaimBound, ClaimKeepsRow, Exists
<1>3. TypeOK /\ LockInv /\ PromptInv /\ [Next]_vars => PromptInv'
  BY PromptInvStep
<1> QED BY <1>1, <1>2, <1>3, TypeCorrect, LockSafe, PTL DEF Spec
-----------------------------------------------------------------------------
(* The capacity: the server never has more unexpired unpaid invoices than  *)
(* maxOutstandingInvoices.                                                 *)


\* A row that can still be paid for.
Payable(r, now) == r.state \in {"issued", "settling"} /\ r.expires >= now

PayableInvoices == {i \in Invoice : Payable(rows[i], clock)}

\* Starting a settlement makes no row payable that was not.
LEMMA LeasedWasPayable ==
  ASSUME NEW r \in Row, NEW now \in Nat, NEW h \in Hash, NEW w \in Worker,
         NEW until \in Nat, Starts(r, h, now), Payable(Leased(r, h, w, until), now)
  PROVE  Payable(r, now)
BY DEF Payable, Leased, Starts, Row

\* Nor does the failure that reopens an invoice.
LEMMA FailedWasPayable ==
  ASSUME NEW r \in Row, NEW now \in Nat, NEW w \in Worker, Payable(Failed(r, w, now), now)
  PROVE  Payable(r, now)
BY DEF Payable, Failed, IssuedRow, UnusedRow, Row

\* A row that is not used yet stays so unless the server issues an invoice.
LEMMA UnusedStays ==
  ASSUME TypeOK, [Next]_vars, NEW i \in Invoice, rows[i].state = "unused",
         \A j \in Invoice : ~Challenge(j)
  PROVE  rows'[i].state = "unused"
<1>0. PrunedRows[i] = Pruned(rows[i], clock) /\ ~Exists(rows[i])
  BY DEF PrunedRows, Exists
<1>1. Pruned(rows[i], clock) = rows[i]
  BY DEF Pruned, Prunable, PruneGuard
<1>2. ASSUME NEW w \in Worker, NEW j \in Invoice, NEW h \in Hash,
             \/ PresentExactRetry(w, j, h) \/ PresentStarted(w, j, h)
             \/ PresentExpired(w, j, h) \/ PresentRefused(w, j, h)
      PROVE  rows'[i] = rows[i]
  <2>1. CASE PresentExactRetry(w, j, h)
    BY <1>0, <2>1, OneRowOnly DEF PresentExactRetry, Known
  <2>2. CASE PresentStarted(w, j, h)
    BY <1>0, <2>2, OneRowOnly DEF PresentStarted, Known
  <2>3. CASE PresentExpired(w, j, h) \/ PresentRefused(w, j, h)
    BY <1>0, <1>1, <2>3 DEF PresentExpired, PresentRefused, vars
  <2> QED BY <1>2, <2>1, <2>2, <2>3
<1>3. ASSUME NEW w \in Worker, WorkerStep(w) PROVE rows'[i] = rows[i]
  <2>1. CASE Serve(w)
    <3>1. workers[w].inv \in Invoice
      BY <2>1, WorkerTypes DEF Serve
    <3> QED BY <1>0, <2>1, <3>1, OneRowOnly DEF Serve
  <2>2. CASE GiveUp(w)
    <3>1. workers[w].inv \in Invoice
      BY <2>2, WorkerTypes DEF GiveUp
    <3>2. Failed(rows[i], w, clock) = rows[i]
      BY DEF Failed
    <3> QED BY <2>2, <3>1, <3>2, OneRowOnly DEF GiveUp
  <2>3. CASE ~Serve(w) /\ ~GiveUp(w)
    BY <1>3, <2>3 DEF WorkerStep, Verified, NotVerified, Consume, ConsumeFails,
                      ServeConflict
  <2> QED BY <2>1, <2>2, <2>3
<1>4. CASE \/ RefuseChallenge \/ Crash \/ Tick \/ \E t \in Tx : Finalize(t)
           \/ UNCHANGED vars
  BY <1>0, <1>1, <1>4 DEF RefuseChallenge, Crash, Tick, Finalize, vars
<1> QED BY <1>2, <1>3, <1>4 DEF Next

\* A step that issues nothing adds no payable invoice.
LEMMA NotMorePayable ==
  ASSUME TypeOK, TypeOK', [Next]_vars, \A j \in Invoice : ~Challenge(j)
  PROVE  PayableInvoices' \subseteq PayableInvoices
<1> SUFFICES ASSUME NEW i \in Invoice, Payable(rows'[i], clock')
             PROVE  Payable(rows[i], clock)
  BY DEF PayableInvoices
<1>0. /\ rows[i] \in Row /\ rows'[i] \in Row /\ rows'[i].expires \in Nat
      /\ clock \in Nat /\ clock' \in Nat /\ clock' >= clock
      /\ LeaseTerm \in Nat /\ clock + LeaseTerm \in Nat
  <2>1. clock' = clock \/ clock' = clock + 1
    <3>1. ASSUME NEW w \in Worker, NEW j \in Invoice, NEW h \in Hash,
                 \/ PresentExactRetry(w, j, h) \/ PresentStarted(w, j, h)
                 \/ PresentExpired(w, j, h) \/ PresentRefused(w, j, h)
          PROVE  clock' = clock
      <4>1. CASE PresentExactRetry(w, j, h)
        BY <4>1 DEF PresentExactRetry
      <4>2. CASE PresentStarted(w, j, h)
        BY <4>2 DEF PresentStarted
      <4>3. CASE PresentExpired(w, j, h) \/ PresentRefused(w, j, h)
        BY <4>3 DEF PresentExpired, PresentRefused, vars
      <4> QED BY <3>1, <4>1, <4>2, <4>3
    <3>2. ASSUME NEW w \in Worker, WorkerStep(w) PROVE clock' = clock
      <4>1. CASE Verified(w) \/ NotVerified(w) \/ Consume(w) \/ ConsumeFails(w)
        BY <4>1 DEF Verified, NotVerified, Consume, ConsumeFails
      <4>2. CASE Serve(w) \/ ServeConflict(w) \/ GiveUp(w)
        BY <4>2 DEF Serve, ServeConflict, GiveUp
      <4> QED BY <3>2, <4>1, <4>2 DEF WorkerStep
    <3>3. CASE RefuseChallenge \/ Crash \/ Tick \/ \E t \in Tx : Finalize(t)
      BY <3>3 DEF RefuseChallenge, Crash, Tick, Finalize
    <3>4. CASE UNCHANGED vars
      BY <3>4 DEF vars
    <3> QED BY <3>1, <3>2, <3>3, <3>4 DEF Next
  <2>2. rows[i] \in Row /\ rows'[i] \in Row /\ clock \in Nat /\ clock' \in Nat
    BY DEF TypeOK
  <2>3. LeaseTerm \in Nat
    BY TermAssumption DEF TermAssumption
  <2> QED BY <2>1, <2>2, <2>3 DEF Row
<1>1. Payable(rows'[i], clock)
  BY <1>0 DEF Payable
<1>2. RowStep(i)
  BY EveryRowStep
<1>3. rows[i].state # "unused"
  BY <1>1, UnusedStays DEF Payable
<1>4. CASE rows'[i] = rows[i]
  BY <1>1, <1>4
<1>5. CASE rows'[i] = Pruned(rows[i], clock)
  BY <1>0, <1>1, <1>5 DEF Payable, Pruned, DeletedRow, UnusedRow
<1>6. CASE Exists(rows[i]) /\ rows'[i] = Accepted(rows[i])
  BY <1>0, <1>1, <1>6 DEF Payable, Accepted, Row
<1>7. ASSUME NEW h \in Hash, NEW w \in Worker, Starts(rows[i], h, clock),
             rows'[i] = Leased(rows[i], h, w, clock + LeaseTerm)
      PROVE  Payable(rows[i], clock)
  <2>1. clock + LeaseTerm \in Nat
    BY <1>0
  <2> QED BY <1>0, <1>1, <1>7, <2>1, LeasedWasPayable
<1>8. ASSUME NEW w \in Worker, rows'[i] = Failed(rows[i], w, clock)
      PROVE  Payable(rows[i], clock)
  BY <1>0, <1>1, <1>8, FailedWasPayable
<1> QED BY <1>2, <1>3, <1>4, <1>5, <1>6, <1>7, <1>8, Zenon DEF RowStep

\* An invoice is issued only below the limit, counted after pruning.
LEMMA IssuedBelowCap ==
  ASSUME TypeOK, NEW i \in Invoice, Challenge(i)
  PROVE  UnexpiredWithinCap'
<1> DEFINE before == OutstandingIn(PrunedRows)
<1>1. IsFiniteSet(before) /\ Cardinality(before) \in Nat
      /\ MaxOutstanding \in Nat /\ Cardinality(before) < MaxOutstanding
  <2>1. IsFiniteSet(Invoice) /\ MaxOutstanding \in Nat
    BY CapAssumption DEF CapAssumption
  <2>2. IsFiniteSet(before)
    BY <2>1, FS_Subset DEF OutstandingIn
  <2> QED BY <2>1, <2>2, FS_CardinalityType DEF Challenge
<1>2. PayableInvoices' \subseteq before \cup {i}
  <2> SUFFICES ASSUME NEW j \in Invoice \ {i}, Payable(rows'[j], clock')
               PROVE  j \in before
    BY DEF PayableInvoices
  <2>1. rows'[j] = PrunedRows[j] /\ clock' = clock
    BY TableTypes DEF Challenge
  <2> QED BY <2>1 DEF Payable, OutstandingIn, Outstanding
<1>3. /\ IsFiniteSet(before \cup {i})
      /\ Cardinality(before \cup {i}) <= MaxOutstanding
  <2>1. /\ IsFiniteSet(before \cup {i})
        /\ Cardinality(before \cup {i}) =
             IF i \in before THEN Cardinality(before) ELSE Cardinality(before) + 1
    BY <1>1, FS_AddElement, Zenon
  <2> QED BY <1>1, <2>1
<1>4. Cardinality(PayableInvoices') <= Cardinality(before \cup {i})
      /\ Cardinality(PayableInvoices') \in Nat
      /\ Cardinality(before \cup {i}) \in Nat
  BY <1>2, <1>3, FS_Subset, FS_CardinalityType
<1>5. Cardinality(PayableInvoices') <= MaxOutstanding
  BY <1>1, <1>3, <1>4
<1> QED BY <1>5 DEF UnexpiredWithinCap, PayableInvoices, Payable

\* The capacity limit holds of what is still payable, in every state: failures that
\* reopen an invoice only reopen one that was counted.
THEOREM CapacityKept == Spec => []UnexpiredWithinCap
<1>1. UnexpiredWithinCap <=> Cardinality(PayableInvoices) <= MaxOutstanding
  BY DEF UnexpiredWithinCap, PayableInvoices, Payable
<1>2. Init => UnexpiredWithinCap
  <2> SUFFICES ASSUME Init PROVE UnexpiredWithinCap
    OBVIOUS
  <2>1. PayableInvoices = {}
    BY DEF Init, PayableInvoices, Payable, UnusedRow
  <2> QED BY <1>1, <2>1, FS_EmptySet, CapAssumption DEF CapAssumption
<1>3. TypeOK /\ TypeOK' /\ UnexpiredWithinCap /\ [Next]_vars => UnexpiredWithinCap'
  <2> SUFFICES ASSUME TypeOK, TypeOK', UnexpiredWithinCap, [Next]_vars
               PROVE  UnexpiredWithinCap'
    OBVIOUS
  <2>1. CASE \E i \in Invoice : Challenge(i)
    BY <2>1, IssuedBelowCap
  <2>2. CASE \A i \in Invoice : ~Challenge(i)
    <3>1. PayableInvoices' \subseteq PayableInvoices
      BY <2>2, NotMorePayable
    <3>2. IsFiniteSet(PayableInvoices)
      BY CapAssumption, FS_Subset DEF PayableInvoices, CapAssumption
    <3>3. /\ Cardinality(PayableInvoices') <= Cardinality(PayableInvoices)
          /\ Cardinality(PayableInvoices') \in Nat /\ Cardinality(PayableInvoices) \in Nat
      BY <3>1, <3>2, FS_Subset, FS_CardinalityType
    <3>4. Cardinality(PayableInvoices') <= MaxOutstanding
      BY <1>1, <3>3, CapAssumption DEF CapAssumption
    <3> QED BY <3>4 DEF UnexpiredWithinCap, PayableInvoices, Payable
  <2> QED BY <2>1, <2>2
<1> QED BY <1>2, <1>3, TypeCorrect, PTL DEF Spec
=============================================================================
