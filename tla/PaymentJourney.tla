--------------------------- MODULE PaymentJourney ---------------------------
(***************************************************************************)
(* One payment from the challenge to the resource: the paid server         *)
(* (PaidServer) and an Agent Payer (pay-resource.ts, agent-payer.ts) that  *)
(* have different clocks, with the chain and the indexer between them.     *)
(* The payer sends money only if enough validity is left by its own clock; *)
(* whether the server still takes the receipt is decided by the server's.  *)
(* The payer is one process at a time on one session (AgentPayer has the   *)
(* tables and the races between processes); it can die at any step and is  *)
(* run again, and a handler run can outlive the payer that started it.     *)
(***************************************************************************)
EXTENDS PaidServer

CONSTANTS MinValidity,  \* minimumInvoiceValidityMs
          Skew,         \* allowedClockSkewMs
          Offset,       \* how far the payer's clock may be ahead of the server's
          SubmitMax,    \* bound: how long a submission takes
          WaitMax       \* retries of waitForTransaction, one a second

\* The payer's clock is behind by no more than the skew it allows, and the margin
\* covers it, the submission and the wait: 360 s, 30 s and 300 s by default.
ASSUME MarginAssumption ==
  /\ {MinValidity, Skew, SubmitMax, WaitMax} \subseteq Nat
  /\ Offset \subseteq Int /\ \A o \in Offset : o >= -Skew
  /\ MinValidity >= SubmitMax + WaitMax + Skew

\* The journal keeps the hash as the node spelled it, and the payer presents no other.
ASSUME SpellingAssumption == \A g, h \in Hash : g = h

VARIABLES session,  \* the invoice of the pending session
          attempt,  \* payer_attempts: "begun" is in_progress or unknown
          payer,    \* the payer process
          chain,    \* what became of the payment on chain
          upset     \* history: the journey of the payment was interrupted

journey == <<session, attempt, payer, chain, upset>>
all == <<vars, journey>>

Stopped == [pc |-> "stopped", by |-> 0, run |-> NoLease]

JourneyTypeOK ==
  /\ TypeOK
  /\ session \in Invoice \cup {NoInvoice}
  /\ attempt \in {"none", "begun", "submitted"}
  /\ payer \in [pc : {"stopped", "starting", "proving", "sending", "waiting",
                      "presenting", "asking", "answered"},
                by : Nat, run : Worker \cup {NoLease}]
  /\ payer.pc \in {"sending", "waiting"} => clock <= payer.by
  /\ payer.pc \in {"waiting", "presenting", "asking", "answered"} => attempt = "submitted"
  /\ chain \in {"none", "sent", "success", "reverted"}
  /\ (chain = "none") => final = {} /\ attempt # "submitted"
  /\ upset \in BOOLEAN

JourneyInit ==
  /\ Init
  /\ session = NoInvoice /\ attempt = "none"
  /\ payer = Stopped /\ chain = "none" /\ upset = FALSE
-----------------------------------------------------------------------------
(* The payer, up to the payment. *)

At(pc) == payer.pc = pc

Move(pc) == payer' = [Stopped EXCEPT !.pc = pc]

Within(pc, time) == payer' = [Stopped EXCEPT !.pc = pc, !.by = clock + time]

Stop == payer' = Stopped

\* A challenge is fetched and stored.  Bound: at time 0; only the time since then
\* matters.
Fetch(i) ==
  /\ clock = 0
  /\ At("stopped") /\ session = NoInvoice
  /\ Challenge(i)
  /\ session' = i /\ Move("starting")
  /\ UNCHANGED <<attempt, chain, upset>>

\* Mutation: an attempt whose hash was never recorded is awaited like a submitted one.
ResumeAnyAttempt ==
  /\ At("stopped") /\ session # NoInvoice
  /\ \/ attempt = "none" /\ Move("starting")
     \/ attempt # "none" /\ Within("waiting", WaitMax)
  /\ UNCHANGED <<vars, session, attempt, chain, upset>>

\* The pending session is resumed: a submitted payment is only awaited.
Resume ==
  /\ At("stopped") /\ session # NoInvoice
  /\ \/ attempt = "none" /\ Move("starting")
     \/ attempt = "submitted" /\ Within("waiting", WaitMax)
  /\ UNCHANGED <<vars, session, attempt, chain, upset>>

\* What is left of the invoice by the payer's clock, off by o when it is read.
Left(o) == rows[session].expires - (clock + o)

\* Mutation: an invoice that has not expired is good enough.
ValidUnexpired(o) == Left(o) <= Ttl + Skew /\ Left(o) >= 1

\* assertInvoiceValidity; the row's expiry is the one of the payer's terms.  A
\* deleted row keeps none, and its invoice is too old by any clock of the payer.
Valid(o) ==
  /\ Exists(rows[session])
  /\ Left(o) <= Ttl + Skew /\ Left(o) >= MinValidity

\* begin, and the first check; an attempt that fails it is released.
Begin ==
  /\ At("starting")
  /\ \E o \in Offset : IF Valid(o) THEN attempt' = "begun" /\ Move("proving")
                                   ELSE Stop /\ UNCHANGED attempt
  /\ UNCHANGED <<vars, session, chain, upset>>

\* Mutation: the invoice is not checked again after proving.
SendUnchecked ==
  /\ At("proving")
  /\ chain' = "sent"
  /\ Within("sending", SubmitMax)
  /\ UNCHANGED <<vars, session, attempt, upset>>

\* Proving took its time; the second check, and the payment leaves.
Send ==
  /\ At("proving") /\ \E o \in Offset : Valid(o)
  /\ chain' = "sent"
  /\ Within("sending", SubmitMax)
  /\ UNCHANGED <<vars, session, attempt, upset>>

\* The second check or anything before it failed: release.
NotSent ==
  /\ At("proving")
  /\ attempt' = "none" /\ Stop
  /\ UNCHANGED <<vars, session, chain, upset>>
-----------------------------------------------------------------------------
(* The payer, from the payment to the receipt. *)

\* markSubmitted.
Submitted ==
  /\ At("sending")
  /\ attempt' = "submitted" /\ Within("waiting", WaitMax)
  /\ UNCHANGED <<vars, session, chain, upset>>

\* waitForTransaction returns, and the receipt is signed.
Confirmed ==
  /\ At("waiting") /\ chain = "success"
  /\ Move("presenting")
  /\ UNCHANGED <<vars, session, attempt, chain, upset>>

\* The receipt arrives: the handler runs up to its await, or answers at once.
Present(w, h) ==
  /\ At("presenting")
  /\ \/ /\ PresentExactRetry(w, session, h) \/ PresentStarted(w, session, h)
        /\ payer' = [Stopped EXCEPT !.pc = "asking", !.run = w]
     \/ /\ PresentExpired(w, session, h) \/ PresentRefused(w, session, h)
        /\ Stop
  /\ UNCHANGED <<session, attempt, chain, upset>>

\* Mutation: a submission of unknown outcome releases the attempt.
DieReleases ==
  /\ payer.pc \notin {"stopped", "answered"}
  /\ Stop
  /\ attempt' = IF At("sending") THEN "none" ELSE attempt
  /\ upset' = (upset \/ payer.pc \in {"sending", "waiting", "presenting"})
  /\ UNCHANGED <<vars, session, chain>>

\* Submission failed with an unknown outcome, the payment was not confirmed in
\* time or reverted, or the process died: what is not presented now may be
\* presented too late.  A handler run that has the receipt goes on.
Die ==
  /\ payer.pc \notin {"stopped", "answered"}
  /\ Stop
  /\ upset' = (upset \/ payer.pc \in {"sending", "waiting", "presenting"})
  /\ UNCHANGED <<vars, session, attempt, chain>>
-----------------------------------------------------------------------------
(* The server, and the payer that waits for it. *)

Asks(w) == At("asking") /\ payer.run = w

\* The settlement fails before the expiry, and the invoice is open again.
Reopens(w) ==
  /\ workers[w].pc = "failed"
  /\ rows[session].state = "settling" /\ rows'[session].state = "issued"

\* 200, and the session is completed; or an error.
Answered(w) ==
  /\ WorkerStep(w)
  /\ payer' = IF Asks(w) /\ workers'[w] = Idle
              THEN IF workers[w].pc = "consumed" /\ Exists(rows[session])
                   THEN [Stopped EXCEPT !.pc = "answered"] ELSE Stopped
              ELSE payer
  /\ upset' = (upset \/ Reopens(w))
  /\ UNCHANGED <<session, attempt, chain>>

\* Bound: the server does not crash in the last tick, where no lease runs out.
ServerCrash ==
  /\ clock < MaxClock
  /\ Crash
  /\ payer' = IF At("asking") THEN Stopped ELSE payer
  /\ UNCHANGED <<session, attempt, chain, upset>>

\* Other clients fetch challenges: the table is pruned.
OthersPrune == RefuseChallenge /\ UNCHANGED journey

Execute ==
  /\ chain = "sent"
  /\ chain' \in {"success", "reverted"}
  /\ UNCHANGED <<vars, session, attempt, payer, upset>>

\* The server's indexer shows what the payer's node has accepted, later or never.
Shown(t) == chain = "success" /\ Finalize(t) /\ UNCHANGED journey

\* A submission and a wait end in their time, and a receipt that is signed is
\* presented.
Pass ==
  /\ payer.pc \in {"sending", "waiting"} => clock < payer.by
  /\ ~At("presenting")
  /\ Tick
  /\ UNCHANGED journey

PayerStep ==
  \/ Resume \/ Begin \/ Send \/ NotSent \/ Submitted \/ Confirmed
  \/ \E w \in Worker, h \in Hash : Present(w, h)

JourneyNext ==
  \/ \E i \in Invoice : Fetch(i)
  \/ PayerStep \/ Die
  \/ \E w \in Worker : Answered(w)
  \/ ServerCrash \/ OthersPrune \/ Execute
  \/ \E t \in Tx : Shown(t)
  \/ Pass

JourneySpec == JourneyInit /\ [][JourneyNext]_all
-----------------------------------------------------------------------------
(* Properties *)

\* Money is lost to the clock only where the journey was interrupted: a payment
\* that succeeds, of a payer that was not stopped on the way and whose first
\* settlement did not fail before the expiry, always finds its invoice there,
\* whichever clock is ahead and however often the server crashed.
LostOnlyIfUpset ==
  chain = "success" /\ rows[session].state = "deleted" => upset

\* An uninterrupted payer is never told that its invoice has expired.
NeverTooLate ==
  At("presenting") /\ ~upset =>
    /\ Exists(rows[session])
    /\ \A h \in Hash : ExactRetry(session, h) \/ BeginOutcome(rows[session], h, clock) # "expired"

\* A payer that has its answer has it for its own payment: the payment succeeded, and
\* the server gave the resource of this invoice for the claim it made of it.
AnsweredIsServed ==
  At("answered") =>
    chain = "success" /\ ledger[session] \in final /\ <<session, ledger[session]>> \in served

\* To its caller the payer of the journey is the one of PaymentSession, with one
\* invoice and no budget: one payment, and an answer only after it succeeded.
Payer == INSTANCE PaymentSession WITH
  Days <- {0}, Costs <- {0}, Limit <- 0,
  open <- session, answered <- At("answered"), closed <- {},
  paid <- IF chain = "none" THEN {} ELSE {session},
  outcome <- [i \in Invoice |-> IF i = session /\ chain # "sent" THEN chain ELSE "none"],
  spent <- [d \in {0} |-> 0]

SessionPromise == Payer!Spec

\* The caller runs the payer until it has its answer, and the payer does not die in
\* the same place every time; time goes on, also if the payer retries all the while;
\* the indexer shows the payment in the end; a handler run ends, and neither
\* providers nor the server fail every time.
JourneyFairness ==
  /\ SF_all(Pass) /\ WF_all(Execute)
  /\ WF_all(\E t \in Tx : Shown(t))
  /\ SF_all(Resume) /\ SF_all(Confirmed)
  /\ SF_all(\E w \in Worker, h \in Hash : Present(w, h))
  /\ \A w \in Worker : WF_all(Answered(w))
  /\ SF_all(\E w \in Worker : Verified(w) /\ Answered(w))
  /\ SF_all(\E w \in Worker : Consume(w) /\ Answered(w))
  /\ SF_all(\E w \in Worker : Serve(w) /\ Answered(w))

JourneyFairSpec == JourneySpec /\ JourneyFairness

\* A payment that the server had begun to settle when its invoice expired is
\* served in the end: the payer comes back with it, and the invoice is still bound
\* to it, whatever died or failed since.
BoundEventuallyServed ==
  \A i \in Invoice :
    chain = "success" /\ rows[i].state = "settling" /\ rows[i].expires < clock
      ~> \E t \in Tx : <<i, t>> \in served
=============================================================================
