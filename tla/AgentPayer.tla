----------------------------- MODULE AgentPayer -----------------------------
(***************************************************************************)
(* The Agent Payer for one paid resource: payResource (pay-resource.ts),   *)
(* Strk20ReceiptCreator.createReceipt (agent-payer.ts) and the SQLite      *)
(* tables they share: the payment session, the payer journal and the daily *)
(* spend budget; and the operator's tools pay:recover and pay:ack.         *)
(*                                                                         *)
(* Payers are operating-system processes on one database file.  Each step  *)
(* is one SQL statement or transaction, or what lies between two awaits;   *)
(* a process can die between any two steps, and what it sent stays sent.   *)
(***************************************************************************)
EXTENDS Integers, FiniteSets

CONSTANTS Invoice,         \* invoice ids the server can issue
          NoInvoice,
          Proc,            \* payer processes
          Offsets,         \* how far ahead of the payer's clock an invoice expires
          Ttl,             \* requirements.maxTimeoutSeconds
          Skew,            \* allowedClockSkewMs
          MinValidity,     \* minimumInvoiceValidityMs
          Costs,           \* what a payment may cost: amount and fees
          DailyLimit,      \* dailySpendLimit
          DayLength,       \* ticks of a UTC day
          MaxClock,        \* bound: the clock stops here
          UsesPaymaster,   \* the runtime's mode; FALSE: the account pays the fees
          AckQuiet         \* pay:ack is run while no payer process is running

\* An invoice whose expiry is not positive is refused (invoiceExpiresAt).
ASSUME TimeAssumption ==
  /\ Offsets \subseteq Nat \ {0} /\ Ttl \in Nat /\ Skew \in Nat
  /\ MinValidity \in Nat \ {0} /\ DayLength \in Nat \ {0} /\ MaxClock \in Nat
ASSUME CostAssumption == Costs \subseteq Nat \ {0} /\ DailyLimit \in Nat
ASSUME ModeAssumption ==
  UsesPaymaster \in BOOLEAN /\ AckQuiet \in BOOLEAN /\ NoInvoice \notin Invoice

VARIABLES clock,
          expires,   \* expiry of each invoice the server issued, 0 before
          session,   \* the row of payment_sessions for the resource
          journal,   \* payer_attempts: the state of each invoice's attempt
          reserved,  \* payer_spend_reservations
          procs,     \* payer processes
          recovery,  \* the invoice pay:recover found unstarted
          chain,     \* what became of an invoice's payment on chain
          sent,      \* history: payments sent for each invoice
          spent,     \* history: cost of the payments sent on each day
          cleared,   \* history: invoices whose session recovery cleared
          acked      \* history: invoices whose session was acknowledged

tables == <<session, journal, reserved>>
history == <<sent, spent, cleared, acked>>
vars == <<clock, expires, tables, procs, recovery, chain, history>>

Day == clock \div DayLength
Days == 0 .. (MaxClock \div DayLength)

NoSession == [state |-> "none", inv |-> NoInvoice, result |-> NoInvoice]
Pending(i) == [state |-> "pending", inv |-> i, result |-> NoInvoice]

NoReservation == [day |-> 0, cost |-> 0]

Stopped == [pc |-> "stopped", inv |-> NoInvoice, cost |-> 0]

Places == {"stopped", "fetching", "claiming", "loading", "starting", "begun",
           "proving", "rechecked", "reserved", "sending", "lost", "hashed",
           "waiting", "presenting", "completing", "releasing"}

TypeOK ==
  /\ clock \in 0 .. MaxClock
  /\ expires \in [Invoice -> Nat]
  /\ session \in [state : {"none", "pending", "completed"},
                  inv : Invoice \cup {NoInvoice}, result : Invoice \cup {NoInvoice}]
  /\ session.state = "none" <=> session.inv = NoInvoice
  /\ journal \in [Invoice -> {"none", "in_progress", "unknown", "submitted"}]
  /\ reserved \in [Invoice -> [day : Days, cost : Costs \cup {0}]]
  /\ procs \in [Proc -> [pc : Places, inv : Invoice \cup {NoInvoice},
                         cost : Costs \cup {0}]]
  /\ recovery \in Invoice \cup {NoInvoice}
  /\ chain \in [Invoice -> {"none", "success", "reverted"}]
  /\ sent \in [Invoice -> Nat] /\ spent \in [Days -> Nat]
  /\ cleared \subseteq Invoice /\ acked \subseteq Invoice

Init ==
  /\ clock = 0
  /\ expires = [i \in Invoice |-> 0]
  /\ session = NoSession
  /\ journal = [i \in Invoice |-> "none"]
  /\ reserved = [i \in Invoice |-> NoReservation]
  /\ procs = [p \in Proc |-> Stopped]
  /\ recovery = NoInvoice
  /\ chain = [i \in Invoice |-> "none"]
  /\ sent = [i \in Invoice |-> 0]
  /\ spent = [d \in Days |-> 0]
  /\ cleared = {} /\ acked = {}
-----------------------------------------------------------------------------
(* payResource: the session *)

At(p, pc) == procs[p].pc = pc

Goto(p, pc) == procs' = [procs EXCEPT ![p].pc = pc]

Pay(p, i) == procs' = [procs EXCEPT ![p].pc = "starting", ![p].inv = i]

Stop(p) == procs' = [procs EXCEPT ![p] = Stopped]

\* load: a pending session is resumed, without one a challenge is fetched.  A
\* completed session answers at once.
Start(p) ==
  /\ At(p, "stopped")
  /\ \/ session.state = "pending" /\ Pay(p, session.inv)
     \/ session.state = "none" /\ Goto(p, "fetching")
  /\ UNCHANGED <<clock, expires, tables, recovery, chain, history>>

\* A 402 with a fresh invoice of the resource, in terms that open.
Challenged(p, i, offset) ==
  /\ At(p, "fetching")
  /\ expires[i] = 0
  /\ expires' = [expires EXCEPT ![i] = clock + offset]
  /\ procs' = [procs EXCEPT ![p].pc = "claiming", ![p].inv = i]
  /\ UNCHANGED <<clock, tables, recovery, chain, history>>

\* claim: INSERT OR IGNORE, and what is there is what will be paid.
Claim(p) ==
  /\ At(p, "claiming")
  /\ session' = IF session.state = "none" THEN Pending(procs[p].inv) ELSE session
  /\ Goto(p, "loading")
  /\ UNCHANGED <<clock, expires, journal, reserved, recovery, chain, history>>

\* Mutation: the process goes on with the challenge it fetched itself.
LoadKeepsOwn(p) ==
  /\ At(p, "loading")
  /\ Pay(p, procs[p].inv)
  /\ UNCHANGED <<clock, expires, tables, recovery, chain, history>>

\* The load that ends claim: pay, answer from a completed session, or throw.
Load(p) ==
  /\ At(p, "loading")
  /\ IF session.state = "pending" THEN Pay(p, session.inv) ELSE Stop(p)
  /\ UNCHANGED <<clock, expires, tables, recovery, chain, history>>
-----------------------------------------------------------------------------
(* createReceipt *)

\* assertInvoiceValidity.
Valid(i) ==
  /\ expires[i] - clock <= Ttl + Skew
  /\ expires[i] - clock >= MinValidity

\* Mutation: an attempt that was submitted is refused like the others.
BeginRefuses(p) ==
  /\ At(p, "starting")
  /\ IF journal[procs[p].inv] = "none"
     THEN journal' = [journal EXCEPT ![procs[p].inv] = "in_progress"] /\ Goto(p, "begun")
     ELSE Stop(p) /\ UNCHANGED journal
  /\ UNCHANGED <<clock, expires, session, reserved, recovery, chain, history>>

\* journal.begin: one process owns the attempt; a submitted payment is only
\* awaited again; an attempt in progress or of unknown outcome is refused.
Begin(p) ==
  /\ At(p, "starting")
  /\ LET i == procs[p].inv
     IN  CASE journal[i] = "none" ->
                journal' = [journal EXCEPT ![i] = "in_progress"] /\ Goto(p, "begun")
           [] journal[i] = "submitted" -> Goto(p, "waiting") /\ UNCHANGED journal
           [] OTHER -> Stop(p) /\ UNCHANGED journal
  /\ UNCHANGED <<clock, expires, session, reserved, recovery, chain, history>>

\* The first expiry check.
CheckBefore(p) ==
  /\ At(p, "begun")
  /\ Goto(p, IF Valid(procs[p].inv) THEN "proving" ELSE "releasing")
  /\ UNCHANGED <<clock, expires, tables, recovery, chain, history>>

\* Chain checks, quote and proof took their time; the expiry is checked again.
Proved(p, cost) ==
  /\ At(p, "proving")
  /\ Valid(procs[p].inv)
  /\ procs' = [procs EXCEPT ![p].pc = "rechecked", ![p].cost = cost]
  /\ UNCHANGED <<clock, expires, tables, recovery, chain, history>>

\* A check failed or a service threw, before or after the second expiry check;
\* or the budget was exceeded, already reserved, or locked.
Unprepared(p) ==
  /\ At(p, "proving") \/ At(p, "rechecked")
  /\ Goto(p, "releasing")
  /\ UNCHANGED <<clock, expires, tables, recovery, chain, history>>

ReservedOn(d) == {i \in Invoice : reserved[i].cost > 0 /\ reserved[i].day = d}

\* One element for each unit of money that is reserved for these invoices.
Units(S) == UNION {{i} \X (1 .. reserved[i].cost) : i \in S}

SpentOn(d) == Cardinality(Units(ReservedOn(d)))

\* Mutation: the cost of the payment itself is left out of the comparison.
FitsBefore(cost) == SpentOn(Day) <= DailyLimit

Fits(cost) == SpentOn(Day) + cost <= DailyLimit

\* reserve: once per invoice for good, and within the limit of the day.
Reserve(p) ==
  /\ At(p, "rechecked")
  /\ reserved[procs[p].inv] = NoReservation
  /\ Fits(procs[p].cost)
  /\ reserved' = [reserved EXCEPT ![procs[p].inv] =
                    [day |-> Day, cost |-> procs[p].cost]]
  /\ Goto(p, "reserved")
  /\ UNCHANGED <<clock, expires, session, journal, recovery, chain, history>>

\* release: the attempt is forgotten, and the error goes to the caller.
Release(p) ==
  /\ At(p, "releasing")
  /\ journal' = [journal EXCEPT ![procs[p].inv] =
                   IF @ = "in_progress" THEN "none" ELSE @]
  /\ Stop(p)
  /\ UNCHANGED <<clock, expires, session, reserved, recovery, chain, history>>

\* The payment leaves the process, in the turn that reserved it.
Send(p) ==
  /\ At(p, "reserved")
  /\ Goto(p, "sending")
  /\ sent' = [sent EXCEPT ![procs[p].inv] = @ + 1]
  /\ spent' = [spent EXCEPT ![Day] = @ + procs[p].cost]
  /\ UNCHANGED <<clock, expires, tables, recovery, chain, cleared, acked>>

\* Mutation: a submission that answered with an error is sent again.
AnsweredRetries(p) ==
  /\ At(p, "sending")
  /\ Goto(p, "hashed") \/ Goto(p, "reserved")
  /\ UNCHANGED <<clock, expires, tables, recovery, chain, history>>

\* A transaction hash came back, or the outcome is unknown.
Answered(p) ==
  /\ At(p, "sending")
  /\ Goto(p, "hashed") \/ Goto(p, "lost")
  /\ UNCHANGED <<clock, expires, tables, recovery, chain, history>>

\* Mutation: after a failed submission the attempt is released.
MarkReleased(p) ==
  /\ At(p, "lost")
  /\ journal' = [journal EXCEPT ![procs[p].inv] =
                   IF @ = "in_progress" THEN "none" ELSE @]
  /\ Stop(p)
  /\ UNCHANGED <<clock, expires, session, reserved, recovery, chain, history>>

\* markUnknown: the attempt is kept for reconciliation.
MarkUnknown(p) ==
  /\ At(p, "lost")
  /\ journal' = [journal EXCEPT ![procs[p].inv] =
                   IF @ = "in_progress" THEN "unknown" ELSE @]
  /\ Stop(p)
  /\ UNCHANGED <<clock, expires, session, reserved, recovery, chain, history>>

\* markSubmitted throws when the attempt is not in progress any more.
MarkSubmitted(p) ==
  /\ At(p, "hashed")
  /\ IF journal[procs[p].inv] = "in_progress"
     THEN journal' = [journal EXCEPT ![procs[p].inv] = "submitted"] /\ Goto(p, "waiting")
     ELSE Stop(p) /\ UNCHANGED journal
  /\ UNCHANGED <<clock, expires, session, reserved, recovery, chain, history>>

\* finishReceipt: the payment is final and succeeded, and the receipt is signed.
Confirmed(p) ==
  /\ At(p, "waiting")
  /\ chain[procs[p].inv] = "success"
  /\ Goto(p, "presenting")
  /\ UNCHANGED <<clock, expires, tables, recovery, chain, history>>

\* The server answered the receipt with the resource.  It may also refuse (GiveUp),
\* and for good: an invoice that was not claimed before it expired.
Presented(p) ==
  /\ At(p, "presenting")
  /\ Goto(p, "completing")
  /\ UNCHANGED <<clock, expires, tables, recovery, chain, history>>

\* Mutation: the row is written whatever its state.
CompleteAnyState(p) ==
  /\ At(p, "completing")
  /\ session' = [session EXCEPT !.state = "completed", !.result = procs[p].inv]
  /\ Stop(p)
  /\ UNCHANGED <<clock, expires, journal, reserved, recovery, chain, history>>

\* complete: whatever invoice the pending session of the resource is for.
Complete(p) ==
  /\ At(p, "completing")
  /\ session' = IF session.state = "pending"
                THEN [session EXCEPT !.state = "completed", !.result = procs[p].inv]
                ELSE session
  /\ Stop(p)
  /\ UNCHANGED <<clock, expires, journal, reserved, recovery, chain, history>>

\* The challenge failed, its terms are outside the payer's policy, waiting timed
\* out, the payment reverted, the server refused the receipt, or its answer was
\* lost.
GiveUp(p) ==
  /\ At(p, "fetching") \/ At(p, "starting") \/ At(p, "waiting")
     \/ At(p, "presenting")
  /\ Stop(p)
  /\ UNCHANGED <<clock, expires, tables, recovery, chain, history>>

\* The process dies, or a statement failed on a locked database where nothing
\* catches the error.
Die(p) ==
  /\ procs[p].pc # "stopped"
  /\ Stop(p)
  /\ UNCHANGED <<clock, expires, tables, recovery, chain, history>>
-----------------------------------------------------------------------------
(* The operator, the chain, the clock *)

\* Mutation: the journal is not inspected.
RecoverUnjournaled ==
  /\ recovery = NoInvoice
  /\ session.state = "pending"
  /\ clock > expires[session.inv] + Skew
  /\ recovery' = session.inv
  /\ UNCHANGED <<clock, expires, tables, procs, chain, history>>

\* clearUnstartedPayment up to its last statement: the session is pending, its
\* invoice long expired, and no attempt is in the journal.
Recover ==
  /\ recovery = NoInvoice
  /\ session.state = "pending"
  /\ clock > expires[session.inv] + Skew
  /\ journal[session.inv] = "none"
  /\ recovery' = session.inv
  /\ UNCHANGED <<clock, expires, tables, procs, chain, history>>

\* clearPending deletes the pending session of the resource, and throws when
\* there is none; or the tool died before it.
ClearPending ==
  /\ recovery # NoInvoice
  /\ recovery' = NoInvoice
  /\ \/ /\ session.state = "pending"
        /\ session' = NoSession
        /\ cleared' = cleared \cup {session.inv}
     \/ UNCHANGED <<session, cleared>>
  /\ UNCHANGED <<clock, expires, journal, reserved, procs, chain, sent, spent, acked>>

\* acknowledge: a completed session is deleted.
Acknowledge ==
  /\ session.state = "completed"
  /\ AckQuiet => \A p \in Proc : At(p, "stopped")
  /\ session' = NoSession
  /\ acked' = acked \cup {session.result}
  /\ UNCHANGED <<clock, expires, journal, reserved, procs, recovery, chain,
                 sent, spent, cleared>>

\* Chain reconciliation (the three methods of the journal, which the operator calls
\* from a program of its own) while no payer process is running: a payment that
\* was found is submitted, one that never left or was reverted is forgotten.
Reconcile(i) ==
  /\ \A p \in Proc : At(p, "stopped")
  /\ \/ /\ journal[i] \in {"in_progress", "unknown"}
        /\ journal' = [journal EXCEPT ![i] = IF sent[i] > 0 THEN "submitted" ELSE "none"]
     \/ /\ journal[i] = "submitted" /\ chain[i] = "reverted"
        /\ journal' = [journal EXCEPT ![i] = "none"]
  /\ UNCHANGED <<clock, expires, session, reserved, procs, recovery, chain, history>>

\* The chain executes a payment that was sent, sooner or later or never.
Execute(i) ==
  /\ sent[i] > 0 /\ chain[i] = "none"
  /\ \E outcome \in {"success", "reverted"} : chain' = [chain EXCEPT ![i] = outcome]
  /\ UNCHANGED <<clock, expires, tables, procs, recovery, history>>

\* Time does not pass between the steps of one synchronous turn: reserving and
\* sending, and with a paymaster the second expiry check before them.
Tick ==
  /\ clock < MaxClock
  /\ \A p \in Proc : ~At(p, "reserved") /\ (UsesPaymaster => ~At(p, "rechecked"))
  /\ clock' = clock + 1
  /\ UNCHANGED <<expires, tables, procs, recovery, chain, history>>

Step(p) ==
  \/ Start(p)
  \/ \E i \in Invoice, offset \in Offsets : Challenged(p, i, offset)
  \/ Claim(p) \/ Load(p)
  \/ Begin(p) \/ CheckBefore(p)
  \/ \E cost \in Costs : Proved(p, cost)
  \/ Unprepared(p) \/ Reserve(p) \/ Release(p)
  \/ Send(p) \/ Answered(p) \/ MarkUnknown(p) \/ MarkSubmitted(p)
  \/ Confirmed(p) \/ Presented(p) \/ Complete(p) \/ GiveUp(p)

Next ==
  \/ \E p \in Proc : Step(p) \/ Die(p)
  \/ Recover \/ ClearPending \/ Acknowledge
  \/ \E i \in Invoice : Reconcile(i) \/ Execute(i)
  \/ Tick

Spec == Init /\ [][Next]_vars
-----------------------------------------------------------------------------
(* Properties *)

\* No invoice is paid twice, whatever processes run, die and are started again,
\* and whatever the operator reconciles: the journal and the permanent reservation
\* together prevent it.
SentOnce == \A i \in Invoice : sent[i] <= 1

\* What leaves the wallet on a day stays within the limit of that day; the day of a
\* payment is that of its reservation (sent in direct mode, where the account makes
\* calls of its own first, it may reach the chain after midnight).
SpendWithinLimit == \A d \in Days : spent[d] <= DailyLimit

\* A payment that was sent keeps its journal entry unless it was reverted, so no
\* later run takes the invoice for unpaid.
SentIsJournaled ==
  \A i \in Invoice : sent[i] > 0 => journal[i] # "none" \/ chain[i] = "reverted"

\* Recovery clears no session whose invoice was or will be paid, even when payer
\* processes run beside it, as long as sessions are acknowledged only between
\* payer runs: clearPending deletes whatever session is pending by then.
ClearedNeverSent == \A i \in cleared : sent[i] = 0 \/ chain[i] = "reverted"

\* A payment belongs to the session until its own result was acknowledged: so
\* a retry resumes it and no second invoice of the resource is paid meanwhile.
RetryResumesPayment ==
  \A i \in Invoice : sent[i] > 0 /\ chain[i] # "reverted" /\ i \notin acked =>
    /\ session.inv = i
    /\ session.state = "completed" => session.result = i

\* Sessions acknowledged only between payer runs, the payer keeps what
\* PaymentSession promises.
Promise == INSTANCE PaymentSession WITH
             open <- session.inv,
             answered <- session.state = "completed",
             closed <- cleared \cup acked,
             paid <- {i \in Invoice : sent[i] > 0},
             outcome <- chain,
             Limit <- DailyLimit

\* Processes that overlap and die, the journal, the reservations and the recovery
\* tool add up to one payment of one open invoice at a time, within the day's
\* limit, and to no session closed over a payment that nobody has seen answered.
SessionPromise == Promise!Spec
-----------------------------------------------------------------------------
(* Liveness *)

\* The caller runs the payer again and again; it does not die in the same place
\* every time, and waiting for a payment that is on chain does not time out every
\* time: strong fairness.  No step waits for ever.  Nothing is assumed of the
\* server, which may refuse every receipt.
Fairness ==
  /\ \A p \in Proc : WF_vars(Step(p))
  /\ SF_vars(\E p \in Proc : Begin(p))
  /\ SF_vars(\E p \in Proc : Confirmed(p))

FairSpec == Spec /\ Fairness

\* The result of invoice i is the caller's: recorded, or taken and acknowledged.
ResultKept(i) ==
  i \in acked \/ (session.state = "completed" /\ session.result = i)

\* Whatever died after the hash was written, the payer keeps presenting the receipt
\* of that very payment until the caller has its result: after every refusal, lost
\* answer or crash it comes to present it again, and never another invoice's
\* instead.  That an answer comes is not the payer's promise: a server that
\* has neither bound nor claimed the invoice before its expiry refuses it for good.
PaidEventuallyPresented ==
  \A i \in Invoice :
    journal[i] = "submitted" /\ chain[i] = "success"
      ~> ResultKept(i) \/ \E p \in Proc : At(p, "presenting") /\ procs[p].inv = i
=============================================================================
