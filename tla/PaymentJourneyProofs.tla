------------------------ MODULE PaymentJourneyProofs ------------------------
(***************************************************************************)
(* The margins of the payer are enough: proofs about PaymentJourney for    *)
(* every expiry, lease, clock, margin, skew and duration of submission and *)
(* wait that the assumptions allow.                                        *)
(***************************************************************************)
EXTENDS PaymentJourney, PaidServerProofs

LEMMA MarginTypes ==
  /\ MinValidity \in Nat /\ Skew \in Nat /\ SubmitMax \in Nat /\ WaitMax \in Nat
  /\ Ttl \in Nat /\ LeaseTerm \in Nat
  /\ MinValidity >= SubmitMax + WaitMax + Skew
  /\ \A o \in Offset : o \in Int /\ o >= -Skew
BY MarginAssumption, TermAssumption DEF MarginAssumption, TermAssumption
-----------------------------------------------------------------------------
(* The server on the journey is the paid server. *)

\* Where the payer is tells what its session and its attempt are.
PlaceInv ==
  /\ payer.pc # "stopped" => session \in Invoice /\ session # NoInvoice
  /\ session \in Invoice \cup {NoInvoice}
  /\ session = NoInvoice => attempt = "none" /\ chain = "none"
  /\ attempt = "none" => chain = "none"
  /\ payer.pc = "starting" => attempt = "none"
  /\ payer.pc = "proving" => attempt = "begun" /\ chain = "none"
  /\ payer.pc = "sending" => attempt = "begun" /\ chain # "none"
  /\ attempt = "submitted" => chain # "none"

\* Where a process is that stopped, or a receipt that was answered or taken up.
LEMMA StopFacts == ASSUME Stop PROVE payer'.pc = "stopped"
BY DEF Stop, Stopped

LEMMA AskFacts ==
  ASSUME NEW w \in Worker, \/ payer' = Stopped
                           \/ payer' = [Stopped EXCEPT !.pc = "asking", !.run = w]
  PROVE  payer'.pc \in {"stopped", "asking"}
<1>1. CASE payer' = Stopped
  BY <1>1 DEF Stopped
<1>2. CASE payer' = [Stopped EXCEPT !.pc = "asking", !.run = w]
  BY <1>2 DEF Stopped
<1> QED BY <1>1, <1>2

\* The payer's place fits its session and attempt in every state.
LEMMA PlaceStep == PlaceInv /\ [JourneyNext]_all => PlaceInv'
<1> SUFFICES ASSUME PlaceInv, [JourneyNext]_all PROVE PlaceInv'
  OBVIOUS
<1>1. CASE \E i \in Invoice : Fetch(i)
  <2>1. PICK i \in Invoice : Fetch(i)
    BY <1>1
  <2>2. session' = i /\ attempt = "none" /\ chain = "none" /\ payer'.pc = "starting"
        /\ UNCHANGED <<attempt, chain>>
    BY <2>1 DEF Fetch, Move, PlaceInv, Stopped
  <2> QED BY <2>2, NullAssumption DEF PlaceInv, NullAssumption
<1>2. CASE Resume
  <2>1. /\ UNCHANGED <<session, attempt, chain>>
        /\ \/ payer'.pc = "starting" /\ attempt = "none"
           \/ payer'.pc = "waiting"
    BY <1>2 DEF Resume, Move, Within, Stopped
  <2>2. session \in Invoice /\ session # NoInvoice
    BY <1>2 DEF Resume, PlaceInv
  <2> QED BY <2>1, <2>2 DEF PlaceInv
<1>3. CASE Begin
  <2>1. \/ attempt' = "begun" /\ Move("proving")
        \/ Stop /\ UNCHANGED attempt
    BY <1>3 DEF Begin
  <2>2. /\ UNCHANGED <<session, chain>> /\ payer.pc = "starting"
        /\ \/ payer'.pc = "proving" /\ attempt' = "begun"
           \/ payer'.pc = "stopped" /\ attempt' = attempt
    BY <1>3, <2>1 DEF Begin, At, Move, Stop, Stopped
  <2> QED BY <2>2 DEF PlaceInv
<1>4. CASE Send \/ NotSent
  <2>1. CASE Send
    <3>1. payer'.pc = "sending" /\ payer.pc = "proving" /\ chain' = "sent"
          /\ UNCHANGED <<session, attempt>>
      BY <2>1 DEF Send, At, Within, Stopped
    <3> QED BY <3>1 DEF PlaceInv
  <2>2. CASE NotSent
    <3>1. payer'.pc = "stopped" /\ payer.pc = "proving" /\ attempt' = "none"
          /\ UNCHANGED <<session, chain>>
      BY <2>2 DEF NotSent, At, Stop, Stopped
    <3> QED BY <3>1 DEF PlaceInv
  <2> QED BY <1>4, <2>1, <2>2
<1>5. CASE Submitted \/ Confirmed
  <2>1. CASE Submitted
    <3>1. payer'.pc = "waiting" /\ payer.pc = "sending" /\ attempt' = "submitted"
          /\ UNCHANGED <<session, chain>>
      BY <2>1 DEF Submitted, At, Within, Stopped
    <3> QED BY <3>1 DEF PlaceInv
  <2>2. CASE Confirmed
    <3>1. payer'.pc = "presenting" /\ payer.pc = "waiting"
          /\ UNCHANGED <<session, attempt, chain>>
      BY <2>2 DEF Confirmed, At, Move, Stopped
    <3> QED BY <3>1 DEF PlaceInv
  <2> QED BY <1>5, <2>1, <2>2
<1>6. ASSUME NEW w \in Worker, NEW h \in Hash, Present(w, h) PROVE PlaceInv'
  <2>1. UNCHANGED <<session, attempt, chain>> /\ payer.pc = "presenting"
    BY <1>6 DEF Present, At
  <2>2. payer' = [Stopped EXCEPT !.pc = "asking", !.run = w] \/ payer' = Stopped
    BY <1>6 DEF Present, Stop
  <2>3. payer'.pc \in {"asking", "stopped"}
    BY <2>2, AskFacts
  <2> QED BY <2>1, <2>3 DEF PlaceInv
<1>7. CASE Die
  BY <1>7 DEF Die, Stop, PlaceInv, Stopped
<1>8. ASSUME NEW w \in Worker, Answered(w) PROVE PlaceInv'
  <2>1. /\ UNCHANGED <<session, attempt, chain>>
        /\ \/ payer' = payer
           \/ payer'.pc \in {"answered", "stopped"} /\ payer.pc = "asking"
    BY <1>8 DEF Answered, Asks, At, Stopped
  <2> QED BY <2>1 DEF PlaceInv
<1>9. CASE ServerCrash
  BY <1>9 DEF ServerCrash, PlaceInv, Stopped
<1>10. CASE OthersPrune \/ (\E t \in Tx : Shown(t)) \/ Pass \/ UNCHANGED all
  BY <1>10 DEF OthersPrune, Shown, Pass, all, journey, PlaceInv
<1>11. CASE Execute
  BY <1>11 DEF Execute, PlaceInv
<1> QED BY <1>1, <1>2, <1>3, <1>4, <1>5, <1>6, <1>7, <1>8, <1>9, <1>10, <1>11
        DEF JourneyNext, PayerStep

LEMMA PlaceAlways == JourneySpec => []PlaceInv
<1>1. JourneyInit => PlaceInv
  BY DEF JourneyInit, PlaceInv, Stopped
<1> QED BY <1>1, PlaceStep, PTL DEF JourneySpec

\* What a step of the journey does to the server is a step of the server.
LEMMA JourneyStepsServer == PlaceInv /\ [JourneyNext]_all => [Next]_vars
<1> SUFFICES ASSUME PlaceInv, [JourneyNext]_all PROVE [Next]_vars
  OBVIOUS
<1>1. CASE \E i \in Invoice : Fetch(i)
  BY <1>1 DEF Fetch, Next
<1>2. CASE Resume \/ Begin \/ Send \/ NotSent \/ Submitted \/ Confirmed \/ Die \/ Execute
  BY <1>2 DEF Resume, Begin, Send, NotSent, Submitted, Confirmed, Die, Execute
<1>3. CASE \E w \in Worker, h \in Hash : Present(w, h)
  <2>1. PICK w \in Worker, h \in Hash : Present(w, h)
    BY <1>3
  <2>2. session \in Invoice /\ session # NoInvoice
    BY <2>1 DEF Present, At, PlaceInv
  <2>3. \/ PresentExactRetry(w, session, h) \/ PresentStarted(w, session, h)
        \/ PresentExpired(w, session, h) \/ PresentRefused(w, session, h)
    BY <2>1 DEF Present
  <2> QED BY <2>2, <2>3 DEF Next
<1>4. CASE \E w \in Worker : Answered(w)
  BY <1>4 DEF Answered, Next
<1>5. CASE ServerCrash \/ OthersPrune \/ (\E t \in Tx : Shown(t)) \/ Pass
  BY <1>5 DEF ServerCrash, OthersPrune, Shown, Pass, Next
<1>6. CASE UNCHANGED all
  BY <1>6 DEF all
<1> QED BY <1>1, <1>2, <1>3, <1>4, <1>5, <1>6 DEF JourneyNext, PayerStep

\* The journey is a behaviour of the paid server: whatever was proved of the server
\* holds of the server that the payer deals with.
THEOREM JourneyIsServed == JourneySpec => Spec
<1>1. JourneyInit => Init
  BY DEF JourneyInit
<1> QED BY <1>1, PlaceAlways, JourneyStepsServer, PTL DEF JourneySpec, Spec
-----------------------------------------------------------------------------
(* Type correctness *)

\* A record the payer is well typed with.
PayerState == [pc : {"stopped", "starting", "proving", "sending", "waiting",
                     "presenting", "asking", "answered"},
               by : Nat, run : Worker \cup {NoLease}]

\* The payer's record after each move is well typed.
LEMMA MoveTypes ==
  /\ Stopped \in PayerState
  /\ \A pc \in {"starting", "proving", "presenting", "answered"} :
       [Stopped EXCEPT !.pc = pc] \in PayerState
  /\ \A pc \in {"sending", "waiting"}, by \in Nat :
       [Stopped EXCEPT !.pc = pc, !.by = by] \in PayerState
  /\ \A w \in Worker : [Stopped EXCEPT !.pc = "asking", !.run = w] \in PayerState
BY DEF Stopped, PayerState

\* The payer and what is known of its payment, without the server.
PayerTypes ==
  /\ session \in Invoice \cup {NoInvoice}
  /\ attempt \in {"none", "begun", "submitted"}
  /\ payer \in PayerState
  /\ chain \in {"none", "sent", "success", "reverted"}
  /\ upset \in BOOLEAN

\* How they belong together, and with the clock.
PayerFits ==
  /\ payer.pc \in {"sending", "waiting"} => clock <= payer.by
  /\ payer.pc \in {"waiting", "presenting", "asking", "answered"} => attempt = "submitted"
  /\ (chain = "none") => final = {} /\ attempt # "submitted"

LEMMA JourneyTypeParts == JourneyTypeOK <=> TypeOK /\ PayerTypes /\ PayerFits
BY DEF JourneyTypeOK, PayerTypes, PayerFits, PayerState

\* A wait that begins now ends in the future.
LEMMA WithinTypes ==
  ASSUME TypeOK, NEW pc \in {"sending", "waiting"}, NEW time \in Nat, Within(pc, time)
  PROVE  payer' \in PayerState /\ payer'.pc = pc /\ payer'.by = clock + time
         /\ clock <= payer'.by
<1>1. clock \in Nat /\ clock + time \in Nat /\ clock <= clock + time
  BY DEF TypeOK
<1>2. payer' = [Stopped EXCEPT !.pc = pc, !.by = clock + time]
  BY DEF Within
<1>3. payer' \in PayerState /\ payer'.pc = pc /\ payer'.by = clock + time
  BY <1>1, <1>2 DEF Stopped, PayerState
<1> QED BY <1>1, <1>3

\* The steps of the worker, the clock and the chain that the payer does not see.
LEMMA WorkerFrame ==
  ASSUME NEW w \in Worker, WorkerStep(w) PROVE UNCHANGED <<clock, final>>
BY DEF WorkerStep, Verified, NotVerified, Consume, ConsumeFails, Serve, ServeConflict, GiveUp

LEMMA PresentFrame ==
  ASSUME NEW w \in Worker, NEW h \in Hash, Present(w, h) PROVE UNCHANGED <<clock, final>>
BY DEF Present, PresentExactRetry, PresentStarted, PresentExpired, PresentRefused, vars

\* Every step keeps the payer well typed.
LEMMA PayerTypesStep ==
  TypeOK /\ TypeOK' /\ PlaceInv /\ PayerTypes /\ PayerFits /\ [JourneyNext]_all
    => PayerTypes' /\ PayerFits'
<1> SUFFICES ASSUME TypeOK, TypeOK', PlaceInv, PayerTypes, PayerFits, [JourneyNext]_all
             PROVE  PayerTypes' /\ PayerFits'
  OBVIOUS
<1>0. SubmitMax \in Nat /\ WaitMax \in Nat /\ clock \in Nat
  BY MarginTypes DEF TypeOK
<1>1. ASSUME NEW i \in Invoice, Fetch(i) PROVE PayerTypes' /\ PayerFits'
  <2>1. UNCHANGED <<clock, final, attempt, chain, upset>> /\ session' = i
        /\ payer' \in PayerState /\ payer'.pc = "starting"
    BY <1>1, MoveTypes DEF Fetch, Challenge, Move, Stopped
  <2> QED BY <2>1 DEF PayerTypes, PayerFits
<1>2. CASE Resume
  <2>1. CASE attempt = "none"
    <3>1. UNCHANGED <<clock, final, session, attempt, chain, upset>>
          /\ payer' \in PayerState /\ payer'.pc = "starting"
      BY <1>2, <2>1, MoveTypes DEF Resume, Move, vars, Stopped
    <3> QED BY <3>1 DEF PayerTypes, PayerFits
  <2>2. CASE attempt = "submitted"
    <3>1. Within("waiting", WaitMax)
          /\ UNCHANGED <<clock, final, session, attempt, chain, upset>>
      BY <1>2, <2>2 DEF Resume, vars
    <3> QED BY <1>0, <2>2, <3>1, WithinTypes DEF PayerTypes, PayerFits
  <2> QED BY <1>2, <2>1, <2>2 DEF Resume
<1>3. CASE Begin
  <2>1. UNCHANGED <<clock, final, session, chain, upset>>
        /\ payer' \in PayerState
        /\ \/ payer'.pc = "proving" /\ attempt' = "begun"
           \/ payer'.pc = "stopped" /\ attempt' = attempt
    <3>1. \/ attempt' = "begun" /\ Move("proving")
          \/ Stop /\ UNCHANGED attempt
      BY <1>3 DEF Begin
    <3>2. Move("proving") => payer' \in PayerState /\ payer'.pc = "proving"
      BY MoveTypes DEF Move, Stopped
    <3>3. Stop => payer' \in PayerState /\ payer'.pc = "stopped"
      BY MoveTypes, StopFacts DEF Stop
    <3> QED BY <1>3, <3>1, <3>2, <3>3 DEF Begin, vars
  <2> QED BY <2>1 DEF PayerTypes, PayerFits
<1>4. CASE Send
  <2>1. Within("sending", SubmitMax) /\ chain' = "sent"
        /\ UNCHANGED <<clock, final, session, attempt, upset>>
    BY <1>4 DEF Send, vars
  <2> QED BY <1>0, <2>1, WithinTypes DEF PayerTypes, PayerFits
<1>5. CASE NotSent
  BY <1>5, MoveTypes DEF NotSent, Stop, vars, PayerTypes, PayerFits, Stopped
<1>6. CASE Submitted
  <2>1. Within("waiting", WaitMax) /\ attempt' = "submitted" /\ chain # "none"
        /\ UNCHANGED <<clock, final, session, chain, upset>>
    BY <1>6 DEF Submitted, vars, At, PlaceInv
  <2> QED BY <1>0, <2>1, WithinTypes DEF PayerTypes, PayerFits
<1>7. CASE Confirmed
  <2>1. UNCHANGED <<clock, final, session, attempt, chain, upset>>
        /\ payer' \in PayerState /\ payer'.pc = "presenting" /\ payer.pc = "waiting"
    BY <1>7, MoveTypes DEF Confirmed, Move, At, vars, Stopped
  <2> QED BY <2>1 DEF PayerTypes, PayerFits
<1>8. ASSUME NEW w \in Worker, NEW h \in Hash, Present(w, h)
      PROVE  PayerTypes' /\ PayerFits'
  <2>1. UNCHANGED <<clock, final, session, attempt, chain, upset>>
        /\ payer.pc = "presenting"
    BY <1>8, PresentFrame DEF Present, At
  <2>2. payer' = [Stopped EXCEPT !.pc = "asking", !.run = w] \/ payer' = Stopped
    BY <1>8 DEF Present, Stop
  <2>3. payer' \in PayerState /\ payer'.pc \in {"asking", "stopped"}
    BY <2>2, MoveTypes, AskFacts
  <2> QED BY <2>1, <2>3 DEF PayerTypes, PayerFits
<1>9. CASE Die
  <2>1. UNCHANGED <<clock, final, session, attempt, chain>> /\ upset' \in BOOLEAN
        /\ payer' \in PayerState /\ payer'.pc = "stopped"
    BY <1>9, MoveTypes DEF Die, Stop, vars, PayerTypes, Stopped
  <2> QED BY <2>1 DEF PayerTypes, PayerFits
<1>10. ASSUME NEW w \in Worker, Answered(w) PROVE PayerTypes' /\ PayerFits'
  <2>1. UNCHANGED <<clock, final, session, attempt, chain>> /\ upset' \in BOOLEAN
    BY <1>10, WorkerFrame DEF Answered, PayerTypes
  <2>2. \/ payer' = payer
        \/ /\ payer.pc = "asking"
           /\ payer' \in {Stopped, [Stopped EXCEPT !.pc = "answered"]}
    BY <1>10 DEF Answered, Asks, At
  <2>3. \/ payer' = payer
        \/ /\ payer' \in PayerState /\ payer.pc = "asking"
           /\ payer'.pc \in {"answered", "stopped"}
    <3>1. Stopped \in PayerState /\ Stopped.pc = "stopped"
      BY MoveTypes DEF Stopped
    <3>2. /\ [Stopped EXCEPT !.pc = "answered"] \in PayerState
          /\ [Stopped EXCEPT !.pc = "answered"].pc = "answered"
      BY MoveTypes DEF Stopped
    <3> QED BY <2>2, <3>1, <3>2
  <2> QED BY <2>1, <2>3 DEF PayerTypes, PayerFits
<1>11. CASE ServerCrash
  <2>1. /\ UNCHANGED <<clock, final, session, attempt, chain, upset>>
        /\ payer' = payer \/ (payer' \in PayerState /\ payer'.pc = "stopped")
    BY <1>11, MoveTypes DEF ServerCrash, Crash, Stopped
  <2> QED BY <2>1 DEF PayerTypes, PayerFits
<1>12. CASE OthersPrune \/ UNCHANGED all
  BY <1>12 DEF OthersPrune, RefuseChallenge, all, vars, journey, PayerTypes, PayerFits
<1>13. CASE Execute
  BY <1>13 DEF Execute, vars, PayerTypes, PayerFits
<1>14. ASSUME NEW t \in Tx, Shown(t) PROVE PayerTypes' /\ PayerFits'
  BY <1>14 DEF Shown, Finalize, journey, PayerTypes, PayerFits
<1>15. CASE Pass
  <2>1. /\ UNCHANGED <<final, session, attempt, payer, chain, upset>> /\ clock' = clock + 1
        /\ payer.pc \in {"sending", "waiting"} => clock < payer.by
    BY <1>15 DEF Pass, Tick, journey
  <2>2. payer.by \in Nat
    BY DEF PayerTypes, PayerState
  <2>3. clock < payer.by => clock + 1 <= payer.by
    BY <1>0, <2>2
  <2>4. PayerTypes'
    BY <2>1 DEF PayerTypes
  <2>5. PayerFits'
    BY <2>1, <2>3 DEF PayerFits
  <2> QED BY <2>4, <2>5
<1> QED BY <1>1, <1>2, <1>3, <1>4, <1>5, <1>6, <1>7, <1>8, <1>9, <1>10, <1>11, <1>12,
           <1>13, <1>14, <1>15 DEF JourneyNext, PayerStep

\* Every state of the journey is well typed; a submission and a wait are never past
\* their end.
THEOREM JourneyTypeCorrect == JourneySpec => []JourneyTypeOK
<1>1. JourneyInit => PayerTypes /\ PayerFits
  <2> SUFFICES ASSUME JourneyInit PROVE PayerTypes /\ PayerFits
    OBVIOUS
  <2>1. payer = Stopped /\ Stopped \in PayerState /\ Stopped.pc = "stopped"
    BY MoveTypes DEF JourneyInit, Stopped
  <2> QED BY <2>1 DEF JourneyInit, Init, PayerTypes, PayerFits
<1>2. JourneySpec => []TypeOK
  BY JourneyIsServed, TypeCorrect, PTL
<1>3. JourneySpec => [](PayerTypes /\ PayerFits)
  BY <1>1, <1>2, PlaceAlways, PayerTypesStep, PTL DEF JourneySpec
<1> QED BY <1>2, <1>3, JourneyTypeParts, PTL
-----------------------------------------------------------------------------
(* The invoice of the payment. *)

\* A settling row names a transaction, as it was presented.
LEMMA SettlingNamed ==
  Spec => [](\A i \in Invoice : rows[i].state = "settling" => rows[i].tx \in Hash)
<1> DEFINE Named == \A i \in Invoice : rows[i].state = "settling" => rows[i].tx \in Hash
<1>1. Init => Named
  BY DEF Init, UnusedRow
<1>2. TypeOK /\ Named /\ [Next]_vars => Named'
  <2> SUFFICES ASSUME TypeOK, Named, [Next]_vars, NEW i \in Invoice,
                      rows'[i].state = "settling"
               PROVE  rows'[i].tx \in Hash
    OBVIOUS
  <2>0. rows[i] \in Row /\ RowStep(i)
    BY RowTypes, EveryRowStep
  <2>1. CASE rows'[i] = rows[i]
    BY <2>1
  <2>2. CASE rows'[i] = Pruned(rows[i], clock)
    BY <2>2 DEF Pruned, DeletedRow, UnusedRow
  <2>3. CASE rows'[i] = IssuedRow(clock + Ttl)
    BY <2>3 DEF IssuedRow, UnusedRow
  <2>4. CASE rows'[i] = Accepted(rows[i])
    BY <2>0, <2>4 DEF Accepted, Row
  <2>5. ASSUME NEW h \in Hash, NEW w \in Worker,
               rows'[i] = Leased(rows[i], h, w, clock + LeaseTerm)
        PROVE  rows'[i].tx \in Hash
    BY <2>0, <2>5 DEF Leased, Row
  <2>6. ASSUME NEW w \in Worker, rows'[i] = Failed(rows[i], w, clock)
        PROVE  rows'[i].tx \in Hash
    BY <2>0, <2>6 DEF Failed, IssuedRow, UnusedRow, Row
  <2> QED BY <2>0, <2>1, <2>2, <2>3, <2>4, <2>5, <2>6, Zenon DEF RowStep
<1> HIDE DEF Named
<1>3. Spec => []Named
  BY <1>1, <1>2, TypeCorrect, PTL DEF Spec
<1> QED BY <1>3 DEF Named

\* The row can still be settled at time t.
Kept(t) ==
  /\ Exists(rows[session])
  /\ rows[session].state = "issued" => t <= rows[session].expires

\* A settlement has begun, and it was not undone.
Bound == rows[session].state \in {"settling", "accepted"}

\* The inductive invariant of a journey that was not interrupted: after each check,
\* what the payer may still need until it presents fits into what is left of the
\* invoice; from the presentation on the invoice is bound to the payment.
InTime ==
  ~upset =>
    /\ chain # "none" => attempt = "submitted" \/ payer.pc = "sending"
    /\ payer.pc = "sending" => Kept(payer.by + WaitMax)
    /\ payer.pc = "waiting" => Kept(payer.by)
    /\ payer.pc = "presenting" => Kept(clock)
    /\ attempt = "submitted" /\ payer.pc \in {"stopped", "asking", "answered"} => Bound

\* What a handler run does to the row of the payment.
LEMMA WorkerRow ==
  ASSUME TypeOK, NEW w \in Worker, WorkerStep(w), NEW i \in Invoice
  PROVE  \/ rows'[i] = rows[i]
         \/ rows'[i] = Accepted(rows[i]) /\ Exists(rows[i])
         \/ rows'[i] = Failed(rows[i], w, clock) /\ workers[w].pc = "failed"
<1>1. CASE Serve(w)
  <2>1. workers[w].inv \in Invoice
    BY <1>1, WorkerTypes DEF Serve
  <2> QED BY <1>1, <2>1, OneRowOnly DEF Serve
<1>2. CASE GiveUp(w)
  <2>1. workers[w].inv \in Invoice
    BY <1>2, WorkerTypes DEF GiveUp
  <2> QED BY <1>2, <2>1, OneRowOnly DEF GiveUp
<1>3. CASE ~Serve(w) /\ ~GiveUp(w)
  BY <1>3 DEF WorkerStep, Verified, NotVerified, Consume, ConsumeFails, ServeConflict
<1> QED BY <1>1, <1>2, <1>3

\* A handler run that does not reopen the invoice leaves it to the payment.
LEMMA WorkerKeeps ==
  ASSUME TypeOK, session \in Invoice, session' = session,
         NEW w \in Worker, WorkerStep(w), ~Reopens(w), NEW t \in Int
  PROVE  /\ Kept(t) => Exists(rows'[session]) /\ (rows'[session].state = "issued" =>
                                                    t <= rows'[session].expires)
         /\ Bound => rows'[session].state \in {"settling", "accepted"}
<1>0. rows[session] \in Row /\ clock \in Nat
  BY RowTypes
<1>1. CASE rows'[session] = rows[session]
  BY <1>1 DEF Kept, Bound
<1>2. CASE rows'[session] = Accepted(rows[session]) /\ Exists(rows[session])
  BY <1>0, <1>2 DEF Accepted, Row, Exists
<1>3. CASE rows'[session] = Failed(rows[session], w, clock) /\ workers[w].pc = "failed"
  <2>1. CASE rows[session].state # "settling" \/ rows[session].lease # w
    BY <1>3, <2>1 DEF Failed, Kept, Bound
  <2>2. CASE rows[session].state = "settling" /\ rows[session].expires < clock
    <3>1. rows'[session].state = "settling"
      BY <1>0, <1>3, <2>2 DEF Failed, Row
    <3> QED BY <3>1 DEF Exists
  <2>3. CASE /\ rows[session].state = "settling" /\ rows[session].lease = w
             /\ ~(rows[session].expires < clock)
    <3>1. rows'[session].state = "issued"
      BY <1>3, <2>3 DEF Failed, IssuedRow, UnusedRow
    <3> QED BY <1>3, <2>3, <3>1 DEF Reopens
  <2> QED BY <2>1, <2>2, <2>3
<1> QED BY <1>1, <1>2, <1>3, WorkerRow

\* Pruning spares a row that is needed now or later.
LEMMA PruneKeeps ==
  ASSUME TypeOK, session \in Invoice, NEW t \in Int, clock <= t
  PROVE  /\ Kept(t) => PrunedRows[session] = rows[session]
         /\ Bound => PrunedRows[session] = rows[session]
<1>0. rows[session].expires \in Nat /\ clock \in Nat
  BY RowTypes DEF Row
<1>1. PrunedRows[session] = Pruned(rows[session], clock)
  BY DEF PrunedRows
<1> QED BY <1>0, <1>1 DEF Pruned, Prunable, PruneGuard, Kept, Bound

\* A payer that presents an invoice that is kept finds it, and its settlement begins
\* or has begun.
LEMMA PresentBinds ==
  ASSUME TypeOK, session \in Invoice, Kept(clock),
         NEW w \in Worker, NEW h \in Hash, Present(w, h)
  PROVE  rows'[session].state \in {"settling", "accepted"}
<1>0. rows[session] \in Row /\ clock \in Nat /\ clock + LeaseTerm \in Nat
  BY RowTypes, MarginTypes
<1>1. Exists(rows[session])
  BY DEF Kept
<1>2. CASE rows[session].state = "issued"
  <2>1. Starts(rows[session], h, clock) /\ ~(clock > rows[session].expires)
    BY <1>0, <1>2 DEF Starts, Kept, Row
  <2>2. BeginOutcome(rows[session], h, clock) = "started"
    BY <1>2, <2>1 DEF BeginOutcome
  <2>3. PresentExactRetry(w, session, h) \/ PresentStarted(w, session, h)
    BY <1>1, <2>1, <2>2 DEF Present, PresentExpired, PresentRefused, PaidByAnother
  <2>4. rows' = [rows EXCEPT ![session] = Accepted(rows[session])]
        \/ rows' = [rows EXCEPT ![session] = Leased(rows[session], h, w, clock + LeaseTerm)]
    BY <2>3 DEF PresentExactRetry, PresentStarted
  <2>5. \/ rows'[session] = Accepted(rows[session])
        \/ rows'[session] = Leased(rows[session], h, w, clock + LeaseTerm)
    BY <2>4, OneRowOnly
  <2> QED BY <1>0, <2>5 DEF Accepted, Leased, Row
<1>3. CASE rows[session].state \in {"settling", "accepted"}
  <2>1. CASE PresentExactRetry(w, session, h)
    <3>1. rows'[session] = Accepted(rows[session])
      BY <2>1, OneRowOnly DEF PresentExactRetry
    <3> QED BY <1>0, <3>1 DEF Accepted, Row
  <2>2. CASE PresentStarted(w, session, h)
    <3>1. rows'[session] = Leased(rows[session], h, w, clock + LeaseTerm)
      BY <2>2, OneRowOnly DEF PresentStarted
    <3> QED BY <1>0, <3>1 DEF Leased, Row
  <2>3. CASE PresentExpired(w, session, h)
    <3>1. PrunedRows[session] = rows[session]
      BY <1>3 DEF PrunedRows, Pruned, Prunable, PruneGuard
    <3> QED BY <1>3, <2>3, <3>1 DEF PresentExpired
  <2>4. CASE PresentRefused(w, session, h)
    BY <1>3, <2>4 DEF PresentRefused, vars
  <2> QED BY <2>1, <2>2, <2>3, <2>4 DEF Present
<1> QED BY <1>1, <1>2, <1>3 DEF Exists

\* The payer's checks leave time for the submission and the wait: its clock is at
\* most Skew behind.
LEMMA ValidLeavesTime ==
  ASSUME TypeOK, session \in Invoice, NEW o \in Offset, Valid(o)
  PROVE  Kept(clock + SubmitMax + WaitMax)
<1>1. rows[session].expires \in Nat /\ clock \in Nat
  BY RowTypes DEF Row
<1>2. rows[session].expires - (clock + o) >= MinValidity /\ o \in Int /\ o >= -Skew
  BY MarginTypes DEF Valid, Left
<1>3. clock + SubmitMax + WaitMax <= rows[session].expires
  BY <1>1, <1>2, MarginTypes
<1> QED BY <1>3 DEF Valid, Kept

\* The payment does not outlive its invoice in any step that does not interrupt it.
LEMMA InTimeStep ==
  JourneyTypeOK /\ JourneyTypeOK' /\ PlaceInv /\ InTime /\ [JourneyNext]_all => InTime'
<1> SUFFICES ASSUME JourneyTypeOK, JourneyTypeOK', PlaceInv, InTime, [JourneyNext]_all,
                    ~upset'
             PROVE  InTime'
  BY DEF InTime
<1>0. /\ TypeOK /\ clock \in Nat /\ SubmitMax \in Nat /\ WaitMax \in Nat
      /\ payer \in PayerState /\ PayerFits /\ payer.by \in Nat
  BY JourneyTypeParts, MarginTypes DEF TypeOK, PayerTypes, PayerState
<1>1. ASSUME NEW i \in Invoice, Fetch(i) PROVE InTime'
  <2>1. payer'.pc = "starting" /\ UNCHANGED <<attempt, chain>> /\ session = NoInvoice
    BY <1>1 DEF Fetch, Move, Stopped
  <2> QED BY <2>1 DEF InTime, PlaceInv
<1>2. CASE Resume
  <2>1. CASE attempt = "none"
    <3>1. payer'.pc = "starting" /\ UNCHANGED <<attempt, chain>>
      BY <1>2, <2>1 DEF Resume, Move, Stopped
    <3> QED BY <2>1, <3>1 DEF InTime, PlaceInv
  <2>2. CASE attempt = "submitted"
    <3>1. /\ payer.pc = "stopped" /\ payer'.pc = "waiting" /\ ~upset
          /\ UNCHANGED <<rows, session, attempt, chain>>
      BY <1>2, <2>2 DEF Resume, At, Within, Stopped, vars
    <3>2. Bound
      BY <2>2, <3>1 DEF InTime
    <3> QED BY <2>2, <3>1, <3>2 DEF InTime, Bound, Kept, Exists
  <2> QED BY <1>2, <2>1, <2>2 DEF Resume
<1>3. CASE Begin
  <2>1. \/ attempt' = "begun" /\ Move("proving")
        \/ Stop /\ UNCHANGED attempt
    BY <1>3 DEF Begin
  <2>2. payer.pc = "starting" /\ attempt = "none" /\ chain = "none" /\ chain' = chain
    BY <1>3 DEF Begin, At, PlaceInv
  <2>3. Move("proving") => payer'.pc = "proving"
    BY DEF Move, Stopped
  <2>4. payer'.pc \in {"proving", "stopped"} /\ attempt' # "submitted"
    BY <2>1, <2>2, <2>3, StopFacts
  <2> QED BY <2>2, <2>4 DEF InTime
<1>4. CASE Send
  <2>1. PICK o \in Offset : Valid(o)
    BY <1>4 DEF Send
  <2>2. /\ payer'.pc = "sending" /\ payer'.by = clock + SubmitMax
        /\ payer.pc = "proving" /\ UNCHANGED <<rows, session, attempt>>
    BY <1>4 DEF Send, At, Within, Stopped, vars
  <2>3. session \in Invoice /\ attempt = "begun"
    BY <2>2 DEF PlaceInv
  <2>4. Kept(clock + SubmitMax + WaitMax)
    BY <1>0, <2>1, <2>3, ValidLeavesTime
  <2> QED BY <2>2, <2>3, <2>4 DEF InTime, Kept
<1>5. CASE NotSent
  <2>1. /\ payer'.pc = "stopped" /\ payer.pc = "proving" /\ attempt' = "none"
        /\ chain' = chain /\ chain = "none"
    BY <1>5, StopFacts DEF NotSent, At, PlaceInv
  <2> QED BY <2>1 DEF InTime
<1>6. CASE Submitted
  <2>1. /\ payer'.pc = "waiting" /\ payer'.by = clock + WaitMax /\ payer.pc = "sending"
        /\ attempt' = "submitted" /\ UNCHANGED <<rows, session, chain, upset>>
    BY <1>6 DEF Submitted, At, Within, Stopped, vars
  <2>2. Kept(payer.by + WaitMax) /\ clock <= payer.by /\ session \in Invoice
    BY <1>0, <2>1 DEF InTime, PayerFits, PlaceInv
  <2>3. rows[session].expires \in Nat
    BY <1>0, <2>2, RowTypes DEF Row
  <2>4. Kept(clock + WaitMax)
    BY <1>0, <2>2, <2>3 DEF Kept
  <2> QED BY <2>1, <2>4 DEF InTime, Kept
<1>7. CASE Confirmed
  <2>1. /\ payer'.pc = "presenting" /\ payer.pc = "waiting"
        /\ UNCHANGED <<clock, rows, session, attempt, chain, upset>>
    BY <1>7 DEF Confirmed, At, Move, Stopped, vars
  <2>2. Kept(payer.by) /\ clock <= payer.by /\ session \in Invoice /\ attempt = "submitted"
    BY <1>0, <2>1 DEF InTime, PayerFits, PlaceInv
  <2>3. rows[session].expires \in Nat
    BY <1>0, <2>2, RowTypes DEF Row
  <2>4. Kept(clock)
    BY <1>0, <2>2, <2>3 DEF Kept
  <2> QED BY <2>1, <2>2, <2>4 DEF InTime, Kept
<1>8. ASSUME NEW w \in Worker, NEW h \in Hash, Present(w, h) PROVE InTime'
  <2>1. payer.pc = "presenting" /\ UNCHANGED <<session, attempt, chain, upset>>
    BY <1>8 DEF Present, At
  <2>2. Kept(clock) /\ session \in Invoice /\ attempt = "submitted"
    BY <1>0, <2>1 DEF InTime, PayerFits, PlaceInv
  <2>3. Bound'
    BY <1>0, <1>8, <2>1, <2>2, PresentBinds DEF Bound
  <2>4. payer' = Stopped \/ payer' = [Stopped EXCEPT !.pc = "asking", !.run = w]
    BY <1>8 DEF Present, Stop
  <2>5. payer'.pc \in {"stopped", "asking"}
    BY <2>4, AskFacts
  <2> QED BY <2>1, <2>2, <2>3, <2>5 DEF InTime
<1>9. CASE Die
  <2>1. /\ payer'.pc = "stopped" /\ payer.pc \in {"starting", "proving", "asking"}
        /\ UNCHANGED <<rows, session, attempt, chain>> /\ ~upset
    BY <1>0, <1>9, StopFacts DEF Die, vars, PayerState
  <2> QED BY <2>1 DEF InTime, PlaceInv, Bound
<1>10. ASSUME NEW w \in Worker, Answered(w) PROVE InTime'
  <2>1. /\ WorkerStep(w) /\ ~Reopens(w) /\ ~upset
        /\ UNCHANGED <<clock, session, attempt, chain>>
    BY <1>10, WorkerFrame DEF Answered
  <2>2. \/ payer' = payer
        \/ payer.pc = "asking" /\ payer'.pc \in {"answered", "stopped"}
    BY <1>10 DEF Answered, Asks, At, Stopped
  <2>3. CASE session \in Invoice
    <3>1. \A t \in Int : Kept(t) => /\ Exists(rows'[session])
                                    /\ rows'[session].state = "issued" =>
                                         t <= rows'[session].expires
      BY <1>0, <2>1, <2>3, WorkerKeeps
    <3>2. Bound => rows'[session].state \in {"settling", "accepted"}
      BY <1>0, <2>1, <2>3, WorkerKeeps
    <3>3. \A t \in Int : Kept(t) => /\ Exists(rows'[session'])
                                    /\ rows'[session'].state = "issued" =>
                                         t <= rows'[session'].expires
      BY <2>1, <3>1
    <3>4. Bound => Bound'
      BY <2>1, <3>2 DEF Bound
    <3>5. CASE payer' = payer
      <4>1. payer.by \in Int /\ payer.by + WaitMax \in Int /\ clock \in Int
        BY <1>0
      <4>2. payer.pc = "sending" => Kept(payer.by + WaitMax)'
        BY <2>1, <3>3, <3>5, <4>1 DEF InTime, Kept
      <4>3. payer.pc = "waiting" => Kept(payer.by)'
        BY <2>1, <3>3, <3>5, <4>1 DEF InTime, Kept
      <4>4. payer.pc = "presenting" => Kept(clock)'
        BY <2>1, <3>3, <3>5, <4>1 DEF InTime, Kept
      <4> QED BY <2>1, <3>4, <3>5, <4>2, <4>3, <4>4 DEF InTime
    <3>6. CASE payer.pc = "asking" /\ payer'.pc \in {"answered", "stopped"}
      BY <2>1, <3>4, <3>6 DEF InTime
    <3> QED BY <2>2, <3>5, <3>6
  <2>4. CASE session \notin Invoice
    BY <2>1, <2>2, <2>4 DEF InTime, PlaceInv
  <2> QED BY <2>3, <2>4
<1>11. CASE ServerCrash
  <2>1. UNCHANGED <<clock, rows, session, attempt, chain, upset>>
    BY <1>11 DEF ServerCrash, Crash
  <2>2. \/ payer' = payer
        \/ payer.pc = "asking" /\ payer'.pc = "stopped"
    BY <1>11 DEF ServerCrash, At, Stopped
  <2>3. CASE payer' = payer
    BY <2>1, <2>3 DEF InTime, Kept, Bound
  <2>4. CASE payer.pc = "asking" /\ payer'.pc = "stopped"
    BY <2>1, <2>4 DEF InTime, Bound
  <2> QED BY <2>2, <2>3, <2>4
<1>12. CASE OthersPrune
  <2>1. /\ rows' = PrunedRows
        /\ UNCHANGED <<clock, session, attempt, payer, chain, upset>>
    BY <1>12 DEF OthersPrune, RefuseChallenge, journey
  <2>2. CASE session \in Invoice
    <3>1. Bound => PrunedRows[session] = rows[session]
      BY <1>0, <2>2, PruneKeeps
    <3>2. \A t \in Int : clock <= t /\ Kept(t) => PrunedRows[session] = rows[session]
      BY <1>0, <2>2, PruneKeeps
    <3>3. payer.pc \in {"sending", "waiting"} => clock <= payer.by
      BY <1>0 DEF PayerFits
    <3>4. payer.pc = "sending" => clock <= payer.by + WaitMax /\ payer.by + WaitMax \in Int
      BY <1>0, <3>3
    <3>5. payer.pc \in {"sending", "waiting", "presenting"} =>
            PrunedRows[session] = rows[session]
      BY <1>0, <2>1, <3>2, <3>3, <3>4 DEF InTime
    <3> QED BY <2>1, <3>1, <3>5 DEF InTime, Kept, Bound
  <2>3. CASE session \notin Invoice
    BY <2>1, <2>3 DEF InTime, PlaceInv
  <2> QED BY <2>2, <2>3
<1>13. CASE Execute
  <2>1. chain = "sent" /\ UNCHANGED <<clock, rows, session, attempt, payer, upset>>
    BY <1>13 DEF Execute, vars
  <2> QED BY <2>1 DEF InTime, Kept, Bound
<1>14. ASSUME (\E t \in Tx : Shown(t)) \/ UNCHANGED all PROVE InTime'
  <2>1. UNCHANGED <<clock, rows, session, attempt, payer, chain, upset>>
    BY <1>14 DEF Shown, Finalize, all, vars, journey
  <2> QED BY <2>1 DEF InTime, Kept, Bound
<1>15. CASE Pass
  <2>1. /\ UNCHANGED <<rows, session, attempt, payer, chain, upset>>
        /\ payer.pc # "presenting"
    BY <1>15 DEF Pass, Tick, journey, At
  <2> QED BY <2>1 DEF InTime, Kept, Bound
<1> QED BY <1>1, <1>2, <1>3, <1>4, <1>5, <1>6, <1>7, <1>8, <1>9, <1>10, <1>11, <1>12,
           <1>13, <1>14, <1>15 DEF JourneyNext, PayerStep

LEMMA InTimeAlways == JourneySpec => []InTime
<1>1. JourneyInit => InTime
  BY DEF JourneyInit, InTime, Stopped
<1> QED BY <1>1, PlaceAlways, JourneyTypeCorrect, InTimeStep, PTL DEF JourneySpec

\* A payment whose journey was not interrupted finds its invoice, whatever the
\* margins are, as long as they cover the skew of the clocks, the submission and
\* the wait.
THEOREM OnlyUpsetLoses == JourneySpec => []LostOnlyIfUpset
<1>1. JourneyTypeOK /\ PlaceInv /\ InTime => LostOnlyIfUpset
  <2> SUFFICES ASSUME JourneyTypeOK, PlaceInv, InTime, chain = "success",
                      rows[session].state = "deleted", ~upset
               PROVE  FALSE
    BY DEF LostOnlyIfUpset
  <2>1. attempt = "submitted" \/ payer.pc = "sending"
    BY DEF InTime
  <2>2. ~Exists(rows[session]) /\ ~Bound
    BY DEF Exists, Bound
  <2>3. payer.pc \notin {"stopped", "sending", "waiting", "presenting", "asking", "answered"}
    BY <2>1, <2>2 DEF InTime, Kept, PlaceInv
  <2>4. payer.pc \in {"starting", "proving"}
    BY <2>3, JourneyTypeParts DEF PayerTypes, PayerState
  <2> QED BY <2>1, <2>4 DEF PlaceInv
<1> QED BY <1>1, JourneyTypeCorrect, PlaceAlways, InTimeAlways, PTL

\* A payer that was not interrupted is not told that its invoice has expired.
THEOREM NeverTooLateAlways == JourneySpec => []NeverTooLate
<1> DEFINE Named == \A i \in Invoice : rows[i].state = "settling" => rows[i].tx \in Hash
<1>1. JourneyTypeOK /\ PlaceInv /\ InTime /\ Named => NeverTooLate
  <2> SUFFICES ASSUME JourneyTypeOK, PlaceInv, InTime, Named,
                      payer.pc = "presenting", ~upset
               PROVE  /\ Exists(rows[session])
                      /\ \A h \in Hash : BeginOutcome(rows[session], h, clock) # "expired"
    BY DEF NeverTooLate, At
  <2>1. Kept(clock) /\ session \in Invoice
    BY DEF InTime, PlaceInv
  <2>2. ASSUME NEW h \in Hash PROVE BeginOutcome(rows[session], h, clock) # "expired"
    <3>0. rows[session].expires \in Nat /\ clock \in Nat
      BY <2>1, RowTypes, JourneyTypeParts DEF Row
    <3>1. CASE rows[session].state = "issued"
      <4>1. Starts(rows[session], h, clock)
        BY <2>1, <3>0, <3>1 DEF Kept, Starts
      <4> QED BY <3>1, <4>1 DEF BeginOutcome
    <3>2. CASE rows[session].state = "settling"
      <4>1. rows[session].tx = h
        BY <2>1, <3>2, SpellingAssumption DEF SpellingAssumption
      <4>2. CASE Starts(rows[session], h, clock)
        BY <3>2, <4>2 DEF BeginOutcome
      <4>3. CASE ~Starts(rows[session], h, clock)
        BY <3>2, <4>1, <4>3 DEF BeginOutcome
      <4> QED BY <4>2, <4>3
    <3>3. CASE rows[session].state = "accepted"
      <4>1. ~Starts(rows[session], h, clock)
        BY <3>3 DEF Starts
      <4> QED BY <3>3, <4>1 DEF BeginOutcome
    <3> QED BY <2>1, <3>1, <3>2, <3>3 DEF Kept, Exists
  <2> QED BY <2>1, <2>2 DEF Kept
<1> HIDE DEF Named
<1>2. Spec => []Named
  BY SettlingNamed DEF Named
<1> QED BY <1>1, <1>2, JourneyIsServed, JourneyTypeCorrect, PlaceAlways, InTimeAlways, PTL
-----------------------------------------------------------------------------
(* The answer of the payer. *)

\* The resource has been given for this invoice.
Given == \E t \in Tx : <<session, t>> \in served

\* A receipt is only made for a payment that succeeded; the run a payer waits for is
\* one for its invoice; and it has its answer from a run that gave the resource.
Heard ==
  /\ payer.pc \in {"presenting", "asking", "answered"} => chain = "success"
  /\ payer.pc = "asking" => /\ payer.run \in Worker
                            /\ workers[payer.run].pc # "idle"
                            /\ workers[payer.run].inv = session
  /\ payer.pc = "answered" => Given

\* Nothing that was given is taken back.
LEMMA ServedGrows == [Next]_vars => served \subseteq served'
<1> SUFFICES ASSUME [Next]_vars PROVE served \subseteq served'
  OBVIOUS
<1>1. ASSUME NEW w \in Worker, WorkerStep(w) PROVE served \subseteq served'
  BY <1>1 DEF WorkerStep, Verified, NotVerified, Consume, ConsumeFails, Serve,
              ServeConflict, GiveUp
<1>2. ASSUME NEW i \in Invoice, Challenge(i) PROVE served' = served
  BY <1>2 DEF Challenge
<1>3. ASSUME NEW w \in Worker, NEW i \in Invoice, NEW h \in Hash,
             \/ PresentExactRetry(w, i, h) \/ PresentStarted(w, i, h)
             \/ PresentExpired(w, i, h) \/ PresentRefused(w, i, h)
      PROVE  served' = served
  BY <1>3 DEF PresentExactRetry, PresentStarted, PresentExpired, PresentRefused, vars
<1>4. CASE RefuseChallenge \/ Crash \/ (\E t \in Tx : Finalize(t)) \/ Tick \/ UNCHANGED vars
  BY <1>4 DEF RefuseChallenge, Crash, Finalize, Tick, vars
<1> QED BY <1>1, <1>2, <1>3, <1>4 DEF Next

\* Where the payer is after the steps that are its own and no presentation.
LEMMA OwnSteps ==
  ASSUME Resume \/ Begin \/ Send \/ NotSent \/ Submitted \/ Confirmed \/ Die
  PROVE  /\ payer.pc # "answered"
         /\ payer'.pc \in {"starting", "proving", "waiting", "stopped", "sending", "presenting"}
         /\ payer'.pc = "presenting" => chain' = "success"
<1>1. CASE Begin
  <2>1. Move("proving") \/ Stop
    BY <1>1 DEF Begin
  <2> QED BY <1>1, <2>1, StopFacts DEF Begin, At, Move, Stopped
<1>2. CASE Resume
  BY <1>2 DEF Resume, At, Move, Within, Stopped
<1>3. CASE NotSent \/ Die
  <2>1. Stop /\ payer.pc # "answered"
    BY <1>3 DEF NotSent, Die, At
  <2> QED BY <2>1, StopFacts
<1>4. CASE Send
  BY <1>4 DEF Send, At, Within, Stopped
<1>5. CASE Submitted
  BY <1>5 DEF Submitted, At, Within, Stopped
<1>6. CASE Confirmed
  BY <1>6 DEF Confirmed, At, Move, Stopped
<1> QED BY <1>1, <1>2, <1>3, <1>4, <1>5, <1>6

\* A payer that neither asks nor has its answer has heard nothing that could change.
LEMMA HeardElsewhere ==
  ASSUME payer'.pc \notin {"presenting", "asking", "answered"} PROVE Heard'
BY DEF Heard

\* What a step of a run does to it: it goes on for its invoice, or ends.
LEMMA RunGoesOn ==
  ASSUME TypeOK, NEW w \in Worker, WorkerStep(w)
  PROVE  /\ workers'[w] = Idle \/ (workers'[w].pc # "idle" /\ workers'[w].inv = workers[w].inv)
         /\ \A v \in Worker \ {w} : workers'[v] = workers[v]
<1>1. CASE \E pc \in {"verified", "consumed", "failed"} : Goto(w, pc)
  BY <1>1, GotoOnly
<1>2. CASE Finish(w)
  BY <1>2, FinishOnly
<1> QED BY <1>1, <1>2
        DEF WorkerStep, Verified, NotVerified, Consume, ConsumeFails, Serve, ServeConflict,
            GiveUp

\* A run that ends with its claim, on an invoice that has its row, gives the resource.
LEMMA ConsumedGives ==
  ASSUME TypeOK, NEW w \in Worker, WorkerStep(w), workers'[w] = Idle,
         workers[w].pc = "consumed", workers[w].inv = session, Exists(rows[session])
  PROVE  \E t \in Tx : <<session, t>> \in served'
<1>1. Serve(w)
  BY DEF WorkerStep, Verified, NotVerified, Consume, ConsumeFails, ServeConflict, GiveUp
<1>2. FeltOf[workers[w].hash] \in Tx
  BY WorkerTypes
<1> QED BY <1>1, <1>2 DEF Serve

LEMMA HeardStep ==
  JourneyTypeOK /\ PlaceInv /\ Heard /\ [JourneyNext]_all => Heard'
<1> SUFFICES ASSUME JourneyTypeOK, PlaceInv, Heard, [JourneyNext]_all PROVE Heard'
  OBVIOUS
<1>0. TypeOK /\ served \subseteq served'
  BY JourneyTypeParts, JourneyStepsServer, ServedGrows
<1>1. CASE \E i \in Invoice : Fetch(i)
  <2>1. payer'.pc = "starting"
    BY <1>1 DEF Fetch, Move, Stopped
  <2> QED BY <2>1, HeardElsewhere
<1>2. CASE Resume \/ Begin \/ Send \/ NotSent \/ Submitted \/ Confirmed \/ Die
  <2>1. /\ payer'.pc \in {"starting", "proving", "waiting", "stopped", "sending", "presenting"}
        /\ payer'.pc = "presenting" => chain' = "success"
    BY <1>2, OwnSteps
  <2> QED BY <2>1 DEF Heard
<1>3. ASSUME NEW w \in Worker, NEW h \in Hash, Present(w, h) PROVE Heard'
  <2>1. payer.pc = "presenting" /\ chain' = chain /\ session' = session /\ session \in Invoice
    BY <1>3 DEF Present, At, PlaceInv
  <2>2. CASE Stop
    BY <2>2, StopFacts, HeardElsewhere
  <2>3. CASE /\ PresentExactRetry(w, session, h) \/ PresentStarted(w, session, h)
             /\ payer' = [Stopped EXCEPT !.pc = "asking", !.run = w]
    <3>1. payer'.pc = "asking" /\ payer'.run = w
      BY <2>3 DEF Stopped
    <3>2. \/ workers' = [workers EXCEPT ![w] = Settling(session, h, FALSE, 0)]
          \/ workers' = [workers EXCEPT ![w] = Settling(session, h, TRUE, clock + LeaseTerm)]
      BY <2>3 DEF PresentExactRetry, PresentStarted
    <3>3. \/ workers'[w] = Settling(session, h, FALSE, 0)
          \/ workers'[w] = Settling(session, h, TRUE, clock + LeaseTerm)
      BY <1>0, <3>2, BeginsOnly
    <3>4. workers'[w].pc # "idle" /\ workers'[w].inv = session
      BY <3>3 DEF Settling
    <3> QED BY <2>1, <3>1, <3>4 DEF Heard
  <2> QED BY <1>3, <2>2, <2>3 DEF Present
<1>4. ASSUME NEW w \in Worker, Answered(w) PROVE Heard'
  <2>1. WorkerStep(w) /\ UNCHANGED <<session, chain>>
    BY <1>4 DEF Answered
  <2>2. CASE payer' = payer
    <3>1. payer.pc = "asking" => /\ workers'[payer.run].pc # "idle"
                                 /\ workers'[payer.run].inv = session
      <4> SUFFICES ASSUME payer.pc = "asking"
                   PROVE  /\ workers'[payer.run].pc # "idle"
                          /\ workers'[payer.run].inv = session
        OBVIOUS
      <4>1. payer.run = w => workers'[w] # Idle
        BY <1>4, <2>2 DEF Answered, Asks, At, Stopped
      <4> QED BY <1>0, <2>1, <4>1, RunGoesOn DEF Heard
    <3>2. Given => Given'
      BY <1>0, <2>1 DEF Given
    <3> QED BY <2>1, <2>2, <3>1, <3>2 DEF Heard
  <2>3. CASE payer' # payer
    <3>1. /\ payer.pc = "asking" /\ payer.run = w /\ workers'[w] = Idle
          /\ payer' = IF workers[w].pc = "consumed" /\ Exists(rows[session])
                      THEN [Stopped EXCEPT !.pc = "answered"] ELSE Stopped
      BY <1>4, <2>3 DEF Answered, Asks, At
    <3>2. CASE workers[w].pc = "consumed" /\ Exists(rows[session])
      <4>1. payer'.pc = "answered"
        BY <3>1, <3>2 DEF Stopped
      <4>2. Given'
        BY <1>0, <2>1, <3>1, <3>2, ConsumedGives DEF Given, Heard
      <4> QED BY <2>1, <3>1, <4>1, <4>2 DEF Heard
    <3>3. CASE ~(workers[w].pc = "consumed" /\ Exists(rows[session]))
      <4>1. payer'.pc = "stopped"
        BY <3>1, <3>3 DEF Stopped
      <4> QED BY <4>1, HeardElsewhere
    <3> QED BY <3>2, <3>3
  <2> QED BY <2>2, <2>3
<1>5. CASE ServerCrash
  <2>1. UNCHANGED <<session, chain, served>>
    BY <1>5 DEF ServerCrash, Crash
  <2>2. CASE payer.pc = "asking"
    <3>1. payer'.pc = "stopped"
      BY <1>5, <2>2 DEF ServerCrash, At, Stopped
    <3> QED BY <3>1, HeardElsewhere
  <2>3. CASE payer.pc # "asking"
    <3>1. payer' = payer
      BY <1>5, <2>3 DEF ServerCrash, At
    <3> QED BY <2>1, <2>3, <3>1 DEF Heard, Given
  <2> QED BY <2>2, <2>3
<1>6. CASE OthersPrune \/ (\E t \in Tx : Shown(t)) \/ Pass \/ UNCHANGED all
  <2>1. UNCHANGED <<session, payer, chain, workers, served>>
    BY <1>6 DEF OthersPrune, RefuseChallenge, Shown, Finalize, Pass, Tick, all, vars, journey
  <2> QED BY <2>1 DEF Heard, Given
<1>7. CASE Execute
  <2>1. UNCHANGED <<session, payer, workers, served>> /\ chain # "success"
    BY <1>7 DEF Execute, vars
  <2> QED BY <2>1 DEF Heard, Given
<1> QED BY <1>1, <1>2, <1>3, <1>4, <1>5, <1>6, <1>7 DEF JourneyNext, PayerStep

LEMMA HeardAlways == JourneySpec => []Heard
<1>1. JourneyInit => Heard
  BY DEF JourneyInit, Heard, Stopped
<1> QED BY <1>1, HeardStep, JourneyTypeCorrect, PlaceAlways, PTL DEF JourneySpec

\* A payer that has its answer paid for it, its payment is final and claimed for its
\* invoice, and the server gave the resource for that claim.
THEOREM AnsweredIsServedAlways == JourneySpec => []AnsweredIsServed
<1>1. Heard /\ ServedIsClaimed => AnsweredIsServed
  <2> SUFFICES ASSUME Heard, ServedIsClaimed, payer.pc = "answered"
               PROVE  /\ chain = "success" /\ ledger[session] \in final
                      /\ <<session, ledger[session]>> \in served
    BY DEF AnsweredIsServed, At
  <2>1. PICK t \in Tx : <<session, t>> \in served
    BY DEF Heard, Given
  <2>2. ledger[session] = t /\ t \in final
    BY <2>1 DEF ServedIsClaimed
  <2> QED BY <2>1, <2>2 DEF Heard
<1> QED BY <1>1, HeardAlways, JourneyIsServed, ServedClaims, PTL
-----------------------------------------------------------------------------
(* To its caller, the payer of the journey is that of PaymentSession. *)

\* What the caller sees is told by the session, the chain and whether there is an answer.
LEMMA CallerSeesNothing ==
  ASSUME UNCHANGED <<session, chain>>, payer'.pc = "answered" <=> payer.pc = "answered"
  PROVE  UNCHANGED Payer!vars
BY DEF Payer!vars, At

LEMMA CallerInit == JourneyInit => Payer!Init
BY DEF JourneyInit, Payer!Init, At, Stopped

LEMMA CallerFetch ==
  ASSUME PlaceInv, NEW i \in Invoice, Fetch(i) PROVE Payer!Open(i)
<1>1. /\ session = NoInvoice /\ session' = i /\ chain = "none" /\ chain' = "none"
      /\ payer.pc # "answered" /\ payer'.pc # "answered"
  BY DEF Fetch, At, Move, Stopped, PlaceInv
<1> QED BY <1>1 DEF Payer!Open, At

LEMMA CallerSend == ASSUME PlaceInv, Send PROVE Payer!Pay(0, 0)
<1>1. /\ session \in Invoice /\ session' = session /\ chain = "none" /\ chain' = "sent"
      /\ payer.pc # "answered" /\ payer'.pc # "answered"
  BY DEF Send, At, Within, Stopped, PlaceInv
<1> QED BY <1>1 DEF Payer!Pay, At

LEMMA CallerExecute ==
  ASSUME PlaceInv, NullAssumption, Execute
  PROVE  \E i \in Invoice, result \in {"success", "reverted"} : Payer!Settle(i, result)
<1>1. /\ chain = "sent" /\ chain' \in {"success", "reverted"}
      /\ session' = session /\ payer' = payer
  BY DEF Execute
<1>2. session \in Invoice
  BY <1>1 DEF PlaceInv
<1>3. PICK result \in {"success", "reverted"} : chain' = result
  BY <1>1
<1>4. Payer!Settle(session, result)
  BY <1>1, <1>2, <1>3 DEF Payer!Settle, At
<1> QED BY <1>2, <1>4

LEMMA CallerAnswer ==
  ASSUME PlaceInv, Heard, NEW w \in Worker, Answered(w),
         payer.pc # "answered", payer'.pc = "answered"
  PROVE  Payer!Answer
<1>1. payer.pc = "asking" /\ UNCHANGED <<session, chain>>
  BY DEF Answered, Asks, At, Stopped
<1>2. session \in Invoice /\ chain = "success"
  BY <1>1 DEF PlaceInv, Heard
<1> QED BY <1>1, <1>2 DEF Payer!Answer, At

LEMMA CallerStep ==
  PlaceInv /\ Heard /\ [JourneyNext]_all => [Payer!Next]_Payer!vars
<1> SUFFICES ASSUME PlaceInv, Heard, [JourneyNext]_all
             PROVE  Payer!Next \/ UNCHANGED Payer!vars
  OBVIOUS
<1>1. CASE \E i \in Invoice : Fetch(i)
  BY <1>1, CallerFetch DEF Payer!Next
<1>2. CASE Send
  BY <1>2, CallerSend DEF Payer!Next
<1>3. CASE Execute
  BY <1>3, CallerExecute, NullAssumption DEF Payer!Next
<1>4. ASSUME NEW w \in Worker, Answered(w) PROVE Payer!Next \/ UNCHANGED Payer!vars
  <2>1. UNCHANGED <<session, chain>> /\ (payer.pc = "answered" => payer'.pc = "answered")
    BY <1>4 DEF Answered, Asks, At
  <2>2. CASE payer'.pc = "answered" /\ payer.pc # "answered"
    BY <1>4, <2>2, CallerAnswer DEF Payer!Next
  <2>3. CASE payer'.pc = "answered" <=> payer.pc = "answered"
    BY <2>1, <2>3, CallerSeesNothing
  <2> QED BY <2>1, <2>2, <2>3
<1>5. CASE Resume \/ Begin \/ NotSent \/ Submitted \/ Confirmed \/ Die
  <2>1. UNCHANGED <<session, chain>>
    BY <1>5 DEF Resume, Begin, NotSent, Submitted, Confirmed, Die
  <2>2. payer.pc # "answered" /\ payer'.pc # "answered"
    BY <1>5, OwnSteps
  <2> QED BY <2>1, <2>2, CallerSeesNothing
<1>6. ASSUME NEW w \in Worker, NEW h \in Hash, Present(w, h) PROVE UNCHANGED Payer!vars
  <2>1. payer' = Stopped \/ payer' = [Stopped EXCEPT !.pc = "asking", !.run = w]
    BY <1>6 DEF Present, Stop
  <2>2. payer'.pc # "answered"
    <3>1. CASE payer' = Stopped
      BY <3>1 DEF Stopped
    <3>2. CASE payer' = [Stopped EXCEPT !.pc = "asking", !.run = w]
      BY <3>2 DEF Stopped
    <3> QED BY <2>1, <3>1, <3>2
  <2>3. UNCHANGED <<session, chain>> /\ payer.pc # "answered"
    BY <1>6 DEF Present, At
  <2> QED BY <2>2, <2>3, CallerSeesNothing
<1>7. CASE ServerCrash
  <2>1. UNCHANGED <<session, chain>> /\ (payer'.pc = "answered" <=> payer.pc = "answered")
    BY <1>7 DEF ServerCrash, At, Stopped
  <2> QED BY <2>1, CallerSeesNothing
<1>8. CASE OthersPrune \/ (\E t \in Tx : Shown(t)) \/ Pass \/ UNCHANGED all
  <2>1. UNCHANGED <<session, payer, chain>>
    BY <1>8 DEF OthersPrune, Shown, Pass, all, journey
  <2> QED BY <2>1, CallerSeesNothing
<1> QED BY <1>1, <1>2, <1>3, <1>4, <1>5, <1>6, <1>7, <1>8 DEF JourneyNext, PayerStep

\* The journey implements PaymentSession: whatever happens on it, one payment leaves,
\* and an answer comes only after it succeeded.
THEOREM JourneyKeepsPromise == JourneySpec => SessionPromise
<1> QED BY CallerInit, CallerStep, PlaceAlways, HeardAlways, PTL
        DEF JourneySpec, SessionPromise, Payer!Spec
=============================================================================
