-------------------------- MODULE AgentPayerProofs --------------------------
(***************************************************************************)
(* Proofs about AgentPayer, for every set of invoices and payer processes, *)
(* every expiry, cost, limit and length of a day, in both payment modes.   *)
(***************************************************************************)
EXTENDS AgentPayer, FiniteSetTheorems, TLAPS

USE TimeAssumption, CostAssumption, ModeAssumption
-----------------------------------------------------------------------------
(* Types. *)

ProcState == [pc : Places, inv : Invoice \cup {NoInvoice}, cost : Costs \cup {0}]

\* A process that is past its challenge is about an invoice, and one that was
\* proved has a cost.
ProcTypes ==
  \A p \in Proc :
    /\ procs[p].pc \notin {"stopped", "fetching"} => procs[p].inv \in Invoice
    /\ procs[p].pc \in {"rechecked", "reserved"} => procs[p].cost \in Costs

\* A session is completed with the invoice that was paid.
ResultType == session.state = "completed" => session.result \in Invoice

TypeInv == TypeOK /\ ProcTypes /\ ResultType

\* Moving a process changes its place and nothing else.
LEMMA GotoFacts ==
  ASSUME procs \in [Proc -> ProcState], NEW p \in Proc, NEW pc \in Places, Goto(p, pc)
  PROVE  /\ procs' \in [Proc -> ProcState]
         /\ procs'[p].pc = pc /\ procs'[p].inv = procs[p].inv
         /\ procs'[p].cost = procs[p].cost
         /\ \A q \in Proc \ {p} : procs'[q] = procs[q]
BY DEF Goto, ProcState

\* A process that takes up an invoice, its own or that of the session.
LEMMA TakeFacts ==
  ASSUME procs \in [Proc -> ProcState], NEW p \in Proc, NEW i \in Invoice,
         NEW pc \in Places, procs' = [procs EXCEPT ![p].pc = pc, ![p].inv = i]
  PROVE  /\ procs' \in [Proc -> ProcState]
         /\ procs'[p].pc = pc /\ procs'[p].inv = i
         /\ \A q \in Proc \ {p} : procs'[q] = procs[q]
BY DEF ProcState

LEMMA PayFacts ==
  ASSUME procs \in [Proc -> ProcState], NEW p \in Proc, NEW i \in Invoice, Pay(p, i)
  PROVE  /\ procs' \in [Proc -> ProcState]
         /\ procs'[p].pc = "starting" /\ procs'[p].inv = i
         /\ \A q \in Proc \ {p} : procs'[q] = procs[q]
BY TakeFacts DEF Pay, Places

\* A process that stops forgets everything.
LEMMA StopFacts ==
  ASSUME procs \in [Proc -> ProcState], NEW p \in Proc, Stop(p)
  PROVE  /\ procs' \in [Proc -> ProcState]
         /\ procs'[p].pc = "stopped"
         /\ \A q \in Proc \ {p} : procs'[q] = procs[q]
BY DEF Stop, Stopped, ProcState, Places

\* Every time the clock shows lies on one of the days.
LEMMA DayInDays ==
  ASSUME clock \in 0 .. MaxClock
  PROVE  Day \in Days
<1> DEFINE d == clock \div DayLength
           m == MaxClock \div DayLength
<1>1. clock \in Nat /\ MaxClock \in Nat /\ clock <= MaxClock
      /\ DayLength \in Nat /\ DayLength > 0
  OBVIOUS
<1>2. d \in Nat /\ m \in Nat
  BY <1>1, SMTT(30)
<1>3. d <= m
  BY <1>1, SMTT(30)
<1> QED BY <1>2, <1>3 DEF Day, Days
-----------------------------------------------------------------------------
\* What the variables other than the processes are.
RestTypes ==
  /\ clock \in 0 .. MaxClock
  /\ expires \in [Invoice -> Nat]
  /\ session \in [state : {"none", "pending", "completed"},
                  inv : Invoice \cup {NoInvoice}, result : Invoice \cup {NoInvoice}]
  /\ session.state = "none" <=> session.inv = NoInvoice
  /\ ResultType
  /\ journal \in [Invoice -> {"none", "in_progress", "unknown", "submitted"}]
  /\ reserved \in [Invoice -> [day : Days, cost : Costs \cup {0}]]
  /\ recovery \in Invoice \cup {NoInvoice}
  /\ chain \in [Invoice -> {"none", "success", "reverted"}]
  /\ sent \in [Invoice -> Nat] /\ spent \in [Days -> Nat]
  /\ cleared \subseteq Invoice /\ acked \subseteq Invoice

LEMMA TypeInvParts ==
  /\ TypeInv <=> RestTypes /\ procs \in [Proc -> ProcState] /\ ProcTypes
  /\ TypeInv' <=> RestTypes' /\ procs' \in [Proc -> ProcState] /\ ProcTypes'
BY DEF TypeInv, TypeOK, RestTypes, ResultType, ProcState

LEMMA TypeStart ==
  ASSUME TypeInv, NEW p \in Proc, Start(p) PROVE TypeInv'
<1> USE TypeInvParts
<1>1. RestTypes'
  BY DEF Start, RestTypes, ResultType, tables, history
<1>2. CASE session.state = "pending" /\ Pay(p, session.inv)
  <2>1. session.inv \in Invoice
    BY <1>2 DEF RestTypes, ResultType
  <2> QED BY <1>1, <1>2, <2>1, PayFacts DEF ProcTypes
<1>3. CASE session.state = "none" /\ Goto(p, "fetching")
  BY <1>1, <1>3, GotoFacts DEF ProcTypes, Places
<1> QED BY <1>2, <1>3 DEF Start

LEMMA TypeChallenged ==
  ASSUME TypeInv, NEW p \in Proc, NEW i \in Invoice, NEW offset \in Offsets,
         Challenged(p, i, offset)
  PROVE  TypeInv'
<1> USE TypeInvParts
<1>1. RestTypes'
  BY DEF Challenged, RestTypes, ResultType, tables, history
<1>2. /\ procs' \in [Proc -> ProcState]
      /\ procs'[p].pc = "claiming" /\ procs'[p].inv = i
      /\ \A q \in Proc \ {p} : procs'[q] = procs[q]
  BY TakeFacts DEF Challenged, Places
<1> QED BY <1>1, <1>2 DEF ProcTypes

LEMMA TypeClaim ==
  ASSUME TypeInv, NEW p \in Proc, Claim(p) \/ Load(p) PROVE TypeInv'
<1> USE TypeInvParts
<1>1. CASE Claim(p)
  <2>1. procs[p].inv \in Invoice
    BY <1>1 DEF ProcTypes, Claim, At
  <2>2. RestTypes'
    BY <1>1, <2>1 DEF Claim, Pending, RestTypes, ResultType, history
  <2> QED BY <1>1, <2>1, <2>2, GotoFacts DEF Claim, ProcTypes, Places
<1>2. CASE Load(p)
  <2>1. RestTypes'
    BY <1>2 DEF Load, RestTypes, ResultType, tables, history
  <2>2. CASE session.state = "pending"
    <3>1. session.inv \in Invoice
      BY <2>2 DEF RestTypes, ResultType
    <3> QED BY <1>2, <2>1, <2>2, <3>1, PayFacts DEF Load, ProcTypes
  <2>3. CASE session.state # "pending"
    BY <1>2, <2>1, <2>3, StopFacts DEF Load, ProcTypes
  <2> QED BY <2>2, <2>3
<1> QED BY <1>1, <1>2

\* Steps that only move a process, or stop it.
Moved(p) ==
  /\ \/ Stop(p)
     \/ \E pc \in Places :
          /\ Goto(p, pc)
          /\ procs[p].inv \in Invoice
          /\ pc = "reserved" => procs[p].cost \in Costs
          /\ pc # "rechecked"
  /\ RestTypes'

LEMMA TypeMoved ==
  ASSUME TypeInv, NEW p \in Proc, Moved(p) PROVE TypeInv'
<1>0. RestTypes' /\ procs \in [Proc -> ProcState] /\ ProcTypes
  BY TypeInvParts DEF Moved
<1>1. CASE Stop(p)
  BY <1>0, <1>1, StopFacts, TypeInvParts DEF ProcTypes
<1>2. CASE ~Stop(p)
  <2>1. PICK pc \in Places : /\ Goto(p, pc)
                             /\ procs[p].inv \in Invoice
                             /\ pc = "reserved" => procs[p].cost \in Costs
                             /\ pc # "rechecked"
    BY <1>2, Zenon DEF Moved
  <2>2. /\ procs' \in [Proc -> ProcState]
        /\ procs'[p].pc = pc /\ procs'[p].inv = procs[p].inv
        /\ procs'[p].cost = procs[p].cost
        /\ \A q \in Proc \ {p} : procs'[q] = procs[q]
    BY <1>0, <2>1, GotoFacts
  <2>3. ProcTypes'
    BY <1>0, <2>1, <2>2 DEF ProcTypes
  <2> QED BY <1>0, <2>2, <2>3, TypeInvParts
<1> QED BY <1>1, <1>2

LEMMA TypeProved ==
  ASSUME TypeInv, NEW p \in Proc, NEW cost \in Costs, Proved(p, cost) PROVE TypeInv'
<1>0. RestTypes /\ procs \in [Proc -> ProcState] /\ ProcTypes
  BY TypeInvParts
<1>1. RestTypes'
  BY <1>0 DEF Proved, RestTypes, ResultType, tables, history
<1>2. /\ procs' \in [Proc -> ProcState]
      /\ procs'[p].pc = "rechecked" /\ procs'[p].inv = procs[p].inv
      /\ procs'[p].cost = cost
      /\ \A q \in Proc \ {p} : procs'[q] = procs[q]
  BY <1>0 DEF Proved, ProcState, Places
<1>3. procs[p].inv \in Invoice
  BY <1>0 DEF ProcTypes, Proved, At
<1>4. ProcTypes'
  BY <1>0, <1>2, <1>3 DEF ProcTypes
<1> QED BY <1>1, <1>2, <1>4, TypeInvParts

\* Every other step of a process only moves it.
LEMMA OthersMoved ==
  ASSUME TypeInv, NEW p \in Proc,
         \/ Begin(p) \/ CheckBefore(p) \/ Unprepared(p) \/ Reserve(p) \/ Release(p)
         \/ Send(p) \/ Answered(p) \/ MarkUnknown(p) \/ MarkSubmitted(p)
         \/ Confirmed(p) \/ Presented(p) \/ Complete(p) \/ GiveUp(p) \/ Die(p)
  PROVE  Moved(p)
<1>0. RestTypes /\ ProcTypes
  BY TypeInvParts
<1>1. procs[p].pc \notin {"stopped", "fetching"} => procs[p].inv \in Invoice
  BY <1>0 DEF ProcTypes
<1>2. {"begun", "waiting", "proving", "releasing", "reserved",
       "sending", "hashed", "lost", "presenting", "completing"} \subseteq Places
  BY DEF Places
<1>3. ASSUME Begin(p) PROVE Moved(p)
  <2>1. RestTypes'
    BY <1>0, <1>1, <1>3 DEF Begin, At, RestTypes, ResultType, history
  <2>2. Goto(p, "begun") \/ Goto(p, "waiting") \/ Stop(p)
    BY <1>3 DEF Begin
  <2> QED BY <1>1, <1>2, <1>3, <2>1, <2>2 DEF Moved, Begin, At
<1>4. ASSUME CheckBefore(p) PROVE Moved(p)
  <2>1. RestTypes'
    BY <1>0, <1>4 DEF CheckBefore, RestTypes, ResultType, tables, history
  <2>2. Goto(p, "proving") \/ Goto(p, "releasing")
    BY <1>4 DEF CheckBefore
  <2> QED BY <1>1, <1>2, <1>4, <2>1, <2>2 DEF Moved, CheckBefore, At
<1>5. ASSUME Unprepared(p) PROVE Moved(p)
  <2>1. RestTypes'
    BY <1>0, <1>5 DEF Unprepared, RestTypes, ResultType, tables, history
  <2> QED BY <1>1, <1>2, <1>5, <2>1 DEF Moved, Unprepared, At
<1>6. ASSUME Reserve(p) PROVE Moved(p)
  <2>1. procs[p].inv \in Invoice /\ procs[p].cost \in Costs
    BY <1>0, <1>6 DEF Reserve, At, ProcTypes
  <2>2. [day |-> Day, cost |-> procs[p].cost] \in [day : Days, cost : Costs \cup {0}]
    BY <1>0, <2>1, DayInDays DEF RestTypes, ResultType
  <2>3. RestTypes'
    BY <1>0, <1>6, <2>2 DEF Reserve, RestTypes, ResultType, history
  <2> QED BY <1>2, <1>6, <2>1, <2>3 DEF Moved, Reserve
<1>7. ASSUME Release(p) PROVE Moved(p)
  BY <1>0, <1>1, <1>7 DEF Moved, Release, At, RestTypes, ResultType, history
<1>8. ASSUME Send(p) PROVE Moved(p)
  <2>1. procs[p].inv \in Invoice /\ procs[p].cost \in Nat
    BY <1>0, <1>8 DEF Send, At, ProcTypes
  <2>2. sent' \in [Invoice -> Nat] /\ spent' \in [Days -> Nat]
    BY <1>0, <1>8, <2>1, DayInDays DEF Send, RestTypes, ResultType
  <2>3. RestTypes'
    BY <1>0, <1>8, <2>2 DEF Send, RestTypes, ResultType, tables
  <2> QED BY <1>2, <1>8, <2>1, <2>3 DEF Moved, Send
<1>9. ASSUME Answered(p) PROVE Moved(p)
  <2>1. RestTypes'
    BY <1>0, <1>9 DEF Answered, RestTypes, ResultType, tables, history
  <2> QED BY <1>1, <1>2, <1>9, <2>1 DEF Moved, Answered, At
<1>10. ASSUME MarkUnknown(p) PROVE Moved(p)
  BY <1>0, <1>1, <1>10 DEF Moved, MarkUnknown, At, RestTypes, ResultType, history
<1>11. ASSUME MarkSubmitted(p) PROVE Moved(p)
  <2>1. RestTypes'
    BY <1>0, <1>1, <1>11 DEF MarkSubmitted, At, RestTypes, ResultType, history
  <2>2. Goto(p, "waiting") \/ Stop(p)
    BY <1>11 DEF MarkSubmitted
  <2> QED BY <1>1, <1>2, <1>11, <2>1, <2>2 DEF Moved, MarkSubmitted, At
<1>12. ASSUME Confirmed(p) PROVE Moved(p)
  <2>1. RestTypes'
    BY <1>0, <1>12 DEF Confirmed, RestTypes, ResultType, tables, history
  <2> QED BY <1>1, <1>2, <1>12, <2>1 DEF Moved, Confirmed, At
<1>13. ASSUME Presented(p) PROVE Moved(p)
  <2>1. RestTypes'
    BY <1>0, <1>13 DEF Presented, RestTypes, ResultType, tables, history
  <2> QED BY <1>1, <1>2, <1>13, <2>1 DEF Moved, Presented, At
<1>14. ASSUME Complete(p) PROVE Moved(p)
  <2>1. RestTypes'
    BY <1>0, <1>1, <1>14 DEF Complete, At, RestTypes, ResultType, history
  <2> QED BY <1>14, <2>1 DEF Moved, Complete
<1>15. ASSUME GiveUp(p) \/ Die(p) PROVE Moved(p)
  BY <1>0, <1>15 DEF Moved, GiveUp, Die, RestTypes, ResultType, tables, history
<1> QED BY <1>3, <1>4, <1>5, <1>6, <1>7, <1>8, <1>9, <1>10, <1>11, <1>12, <1>13,
           <1>14, <1>15

LEMMA TypeStep ==
  ASSUME TypeInv, [Next]_vars PROVE TypeInv'
<1>0. RestTypes /\ procs \in [Proc -> ProcState] /\ ProcTypes
  BY TypeInvParts
<1>1. ASSUME NEW p \in Proc, Step(p) \/ Die(p) PROVE TypeInv'
  <2>1. CASE Start(p)
    BY <2>1, TypeStart
  <2>2. CASE \E i \in Invoice, offset \in Offsets : Challenged(p, i, offset)
    BY <2>2, TypeChallenged
  <2>3. CASE Claim(p) \/ Load(p)
    BY <2>3, TypeClaim
  <2>4. CASE \E cost \in Costs : Proved(p, cost)
    BY <2>4, TypeProved
  <2>5. CASE \/ Begin(p) \/ CheckBefore(p) \/ Unprepared(p) \/ Reserve(p) \/ Release(p)
             \/ Send(p) \/ Answered(p) \/ MarkUnknown(p) \/ MarkSubmitted(p)
             \/ Confirmed(p) \/ Presented(p) \/ Complete(p) \/ GiveUp(p) \/ Die(p)
    BY <2>5, OthersMoved, TypeMoved
  <2> QED BY <1>1, <2>1, <2>2, <2>3, <2>4, <2>5 DEF Step
<1>2. ASSUME Recover \/ ClearPending \/ Acknowledge PROVE TypeInv'
  <2>1. UNCHANGED procs
    BY <1>2 DEF Recover, ClearPending, Acknowledge
  <2>2. NoSession \in [state : {"none", "pending", "completed"},
                       inv : Invoice \cup {NoInvoice}, result : Invoice \cup {NoInvoice}]
        /\ NoSession.state = "none" /\ NoSession.inv = NoInvoice
    BY DEF NoSession
  <2>3. CASE Recover
    <3>1. RestTypes'
      BY <1>0, <2>3 DEF Recover, RestTypes, ResultType, tables, history
    <3> QED BY <1>0, <2>1, <3>1, TypeInvParts DEF ProcTypes
  <2>4. CASE ClearPending
    <3>1. \/ /\ session' = NoSession /\ cleared' = cleared \cup {session.inv}
             /\ session.state = "pending"
          \/ UNCHANGED <<session, cleared>>
      BY <2>4 DEF ClearPending
    <3>2. RestTypes'
      BY <1>0, <2>2, <2>4, <3>1 DEF ClearPending, RestTypes, ResultType
    <3> QED BY <1>0, <2>1, <3>2, TypeInvParts DEF ProcTypes
  <2>5. CASE Acknowledge
    <3>1. RestTypes'
      BY <1>0, <2>2, <2>5 DEF Acknowledge, RestTypes, ResultType
    <3> QED BY <1>0, <2>1, <3>1, TypeInvParts DEF ProcTypes
  <2> QED BY <1>2, <2>3, <2>4, <2>5
<1>3. ASSUME NEW i \in Invoice, Reconcile(i) \/ Execute(i) PROVE TypeInv'
  <2>1. UNCHANGED procs
    BY <1>3 DEF Reconcile, Execute
  <2>2. RestTypes'
    BY <1>0, <1>3 DEF Reconcile, Execute, RestTypes, ResultType, tables, history
  <2> QED BY <1>0, <2>1, <2>2, TypeInvParts DEF ProcTypes
<1>4. CASE Tick
  <2>1. RestTypes'
    BY <1>0, <1>4 DEF Tick, RestTypes, ResultType, tables, history
  <2> QED BY <1>0, <1>4, <2>1, TypeInvParts DEF Tick, ProcTypes
<1>5. CASE UNCHANGED vars
  BY <1>0, <1>5, TypeInvParts DEF vars, RestTypes, ResultType, ProcTypes, tables, history
<1> QED BY <1>1, <1>2, <1>3, <1>4, <1>5 DEF Next

LEMMA TypeInit == Init => TypeInv
<1>1. 0 \in Days
  <2>1. DayLength \in Nat /\ DayLength > 0 /\ MaxClock \in Nat
    OBVIOUS
  <2>2. MaxClock \div DayLength \in Nat
    BY <2>1, SMTT(30)
  <2> QED BY <2>2 DEF Days
<1> SUFFICES ASSUME Init PROVE TypeInv
  OBVIOUS
<1>2. RestTypes
  <2>1. clock \in 0 .. MaxClock
    BY DEF Init
  <2>2. reserved \in [Invoice -> [day : Days, cost : Costs \cup {0}]]
    BY <1>1 DEF Init, NoReservation
  <2>3. /\ session \in [state : {"none", "pending", "completed"},
                        inv : Invoice \cup {NoInvoice}, result : Invoice \cup {NoInvoice}]
        /\ session.state = "none" /\ session.inv = NoInvoice
    BY DEF Init, NoSession
  <2> QED BY <2>1, <2>2, <2>3 DEF Init, RestTypes, ResultType
<1>3. procs \in [Proc -> ProcState] /\ ProcTypes
  BY DEF Init, ProcState, ProcTypes, Stopped, Places
<1> QED BY <1>2, <1>3, TypeInvParts

\* Every table, every payer process and the history of payments are well typed in
\* every state the payer reaches.
THEOREM PayerTypeCorrect == Spec => []TypeOK
<1>1. Init => TypeInv
  BY TypeInit
<1>2. TypeInv /\ [Next]_vars => TypeInv'
  BY TypeStep
<1>3. TypeInv => TypeOK
  BY DEF TypeInv
<1> QED BY <1>1, <1>2, <1>3, PTL DEF Spec
-----------------------------------------------------------------------------
(* One payment per invoice.                                                *)

\* Places where a process owns the attempt of its invoice in the journal.
Owning == {"begun", "proving", "rechecked", "reserved", "sending", "lost", "hashed",
           "releasing"}

\* Places of an owner that has not paid yet.
Unpaid == {"begun", "proving", "rechecked", "reserved", "releasing"}

\* Places a process reaches only when its invoice was paid.
Paid == {"sending", "lost", "hashed", "waiting", "presenting", "completing"}

\* Places it reaches only when the payment succeeded on chain.
Settled == {"presenting", "completing"}

NotPaid(i) == sent[i] = 0 \/ chain[i] = "reverted"

OwnersInProgress ==
  \A p \in Proc : procs[p].pc \in Owning => journal[procs[p].inv] = "in_progress"

OneOwner ==
  \A p, q \in Proc :
    procs[p].pc \in Owning /\ procs[q].pc \in Owning /\ procs[p].inv = procs[q].inv => p = q

PlacesTruthful ==
  \A p \in Proc :
    /\ procs[p].pc \in Unpaid => NotPaid(procs[p].inv)
    /\ procs[p].pc = "reserved" =>
         sent[procs[p].inv] = 0 /\ reserved[procs[p].inv].cost > 0
    /\ procs[p].pc \in Paid => sent[procs[p].inv] > 0
    /\ procs[p].pc \in Settled => chain[procs[p].inv] = "success"

InvoicesOk ==
  \A i \in Invoice :
    /\ sent[i] <= 1
    /\ sent[i] > 0 => reserved[i].cost > 0
    /\ sent[i] > 0 => journal[i] # "none" \/ chain[i] = "reverted"
    /\ journal[i] \in {"unknown", "submitted"} => sent[i] > 0

\* The attempt in the journal is owned by one process, every process is where its
\* invoice allows it to be, and a payment keeps its reservation and its entry.
JournalInv == OwnersInProgress /\ OneOwner /\ PlacesTruthful /\ InvoicesOk

\* A step that moves one process, and changes neither journal, reservations,
\* payments nor chain, keeps the invariant if the new place claims nothing new.
LEMMA JournalFrame ==
  ASSUME TypeInv, TypeInv', JournalInv, NEW p \in Proc,
         UNCHANGED <<journal, reserved, chain, sent>>,
         \A q \in Proc \ {p} : procs'[q] = procs[q],
         \/ procs'[p].pc \notin Owning \cup Paid
         \/ /\ procs'[p].inv = procs[p].inv
            /\ procs'[p].pc \in Owning => procs[p].pc \in Owning
            /\ procs'[p].pc \in Unpaid => procs[p].pc \in Unpaid
            /\ procs'[p].pc # "reserved"
            /\ procs'[p].pc \in Paid => procs[p].pc \in Paid
            /\ procs'[p].pc \in Settled => chain[procs[p].inv] = "success"
  PROVE  JournalInv'
<1>0. OwnersInProgress /\ OneOwner /\ PlacesTruthful /\ InvoicesOk
  BY DEF JournalInv
<1>a. Unpaid \subseteq Owning /\ "reserved" \in Owning /\ Settled \subseteq Paid
  BY DEF Unpaid, Owning, Settled, Paid
<1>1. OwnersInProgress'
  BY <1>0 DEF OwnersInProgress
<1>2. OneOwner'
  BY <1>0 DEF OneOwner
<1>3. PlacesTruthful'
  BY <1>0, <1>a DEF PlacesTruthful, NotPaid
<1>4. InvoicesOk'
  BY <1>0 DEF InvoicesOk
<1> QED BY <1>1, <1>2, <1>3, <1>4 DEF JournalInv

\* The steps of JournalFrame.
LEMMA JournalMoves ==
  ASSUME TypeInv, TypeInv', JournalInv, NEW p \in Proc,
         \/ Start(p) \/ \E i \in Invoice, offset \in Offsets : Challenged(p, i, offset)
         \/ Claim(p) \/ Load(p) \/ CheckBefore(p) \/ \E cost \in Costs : Proved(p, cost)
         \/ Unprepared(p) \/ Answered(p) \/ Confirmed(p) \/ Presented(p)
         \/ Complete(p) \/ GiveUp(p) \/ Die(p)
  PROVE  JournalInv'
<1>0. RestTypes /\ procs \in [Proc -> ProcState]
  BY TypeInvParts
<1>a. {"fetching", "claiming", "loading", "starting", "proving", "releasing",
       "hashed", "lost", "presenting", "completing"} \subseteq Places
  BY DEF Places
<1>1. CASE Start(p)
  <2>1. CASE session.state = "pending" /\ Pay(p, session.inv)
    <3>1. session.inv \in Invoice
      BY <1>0, <2>1 DEF RestTypes
    <3>2. procs'[p].pc = "starting" /\ \A q \in Proc \ {p} : procs'[q] = procs[q]
      BY <1>0, <2>1, <3>1, PayFacts
    <3> QED BY <1>1, <3>2, JournalFrame DEF Start, tables, history, Owning, Paid
  <2>2. CASE session.state = "none" /\ Goto(p, "fetching")
    <3>1. procs'[p].pc = "fetching" /\ \A q \in Proc \ {p} : procs'[q] = procs[q]
      BY <1>0, <1>a, <2>2, GotoFacts
    <3> QED BY <1>1, <3>1, JournalFrame DEF Start, tables, history, Owning, Paid
  <2> QED BY <1>1, <2>1, <2>2 DEF Start
<1>2. CASE \E i \in Invoice, offset \in Offsets : Challenged(p, i, offset)
  <2>1. PICK i \in Invoice, offset \in Offsets : Challenged(p, i, offset)
    BY <1>2
  <2>2. procs'[p].pc = "claiming" /\ \A q \in Proc \ {p} : procs'[q] = procs[q]
    BY <1>0, <2>1, TakeFacts DEF Challenged, Places
  <2> QED BY <2>1, <2>2, JournalFrame DEF Challenged, tables, history, Owning, Paid
<1>3. CASE Claim(p)
  <2>1. procs'[p].pc = "loading" /\ \A q \in Proc \ {p} : procs'[q] = procs[q]
    BY <1>0, <1>a, <1>3, GotoFacts DEF Claim
  <2> QED BY <1>3, <2>1, JournalFrame DEF Claim, history, Owning, Paid
<1>4. CASE Load(p)
  <2>1. CASE session.state = "pending"
    <3>1. session.inv \in Invoice
      BY <1>0, <2>1 DEF RestTypes
    <3>2. procs'[p].pc = "starting" /\ \A q \in Proc \ {p} : procs'[q] = procs[q]
      BY <1>0, <1>4, <2>1, <3>1, PayFacts DEF Load
    <3> QED BY <1>4, <3>2, JournalFrame DEF Load, tables, history, Owning, Paid
  <2>2. CASE session.state # "pending"
    <3>1. procs'[p].pc = "stopped" /\ \A q \in Proc \ {p} : procs'[q] = procs[q]
      BY <1>0, <1>4, <2>2, StopFacts DEF Load
    <3> QED BY <1>4, <3>1, JournalFrame DEF Load, tables, history, Owning, Paid
  <2> QED BY <2>1, <2>2
<1>5. CASE CheckBefore(p) \/ Unprepared(p) \/ Answered(p) \/ Confirmed(p) \/ Presented(p)
  <2>1. UNCHANGED <<journal, reserved, chain, sent>>
    BY <1>5 DEF CheckBefore, Unprepared, Answered, Confirmed, Presented, tables, history
  <2>2. PICK pc \in {"proving", "releasing", "hashed", "lost", "presenting", "completing"} :
          /\ Goto(p, pc)
          /\ pc \in {"proving", "releasing"} =>
               procs[p].pc \in {"begun", "proving", "rechecked"}
          /\ pc \in {"hashed", "lost"} => procs[p].pc = "sending"
          /\ pc = "presenting" =>
               procs[p].pc = "waiting" /\ chain[procs[p].inv] = "success"
          /\ pc = "completing" => procs[p].pc = "presenting"
    BY <1>5 DEF CheckBefore, Unprepared, Answered, Confirmed, Presented, At
  <2>3. /\ procs'[p].pc = pc /\ procs'[p].inv = procs[p].inv
        /\ \A q \in Proc \ {p} : procs'[q] = procs[q]
    BY <1>0, <1>a, <2>2, GotoFacts
  <2>4. procs[p].pc = "presenting" => chain[procs[p].inv] = "success"
    BY DEF JournalInv, PlacesTruthful, Settled
  <2>5. /\ pc \in Owning => procs[p].pc \in Owning
        /\ pc \in Unpaid => procs[p].pc \in Unpaid
        /\ pc # "reserved"
        /\ pc \in Paid => procs[p].pc \in Paid
        /\ pc \in Settled => chain[procs[p].inv] = "success"
    BY <2>2, <2>4 DEF Owning, Unpaid, Paid, Settled
  <2> QED BY <2>1, <2>3, <2>5, JournalFrame
<1>6. CASE \E cost \in Costs : Proved(p, cost)
  <2>1. PICK cost \in Costs : Proved(p, cost)
    BY <1>6
  <2>2. /\ procs'[p].pc = "rechecked" /\ procs'[p].inv = procs[p].inv
        /\ \A q \in Proc \ {p} : procs'[q] = procs[q]
    BY <1>0, <2>1 DEF Proved, ProcState, Places
  <2>3. procs[p].pc = "proving"
    BY <2>1 DEF Proved, At
  <2>4. UNCHANGED <<journal, reserved, chain, sent>>
    BY <2>1 DEF Proved, tables, history
  <2> QED BY <2>2, <2>3, <2>4, JournalFrame DEF Owning, Unpaid, Paid, Settled
<1>7. CASE Complete(p) \/ GiveUp(p) \/ Die(p)
  <2>1. procs'[p].pc = "stopped" /\ \A q \in Proc \ {p} : procs'[q] = procs[q]
    BY <1>0, <1>7, StopFacts DEF Complete, GiveUp, Die
  <2>2. UNCHANGED <<journal, reserved, chain, sent>>
    BY <1>7 DEF Complete, GiveUp, Die, tables, history
  <2> QED BY <2>1, <2>2, JournalFrame DEF Owning, Paid
<1> QED BY <1>1, <1>2, <1>3, <1>4, <1>5, <1>6, <1>7

\* begin: only an invoice without an attempt gets an owner, so it is the only one.
LEMMA JournalBegin ==
  ASSUME TypeInv, TypeInv', JournalInv, NEW p \in Proc, Begin(p) PROVE JournalInv'
<1> DEFINE i == procs[p].inv
<1>0. /\ RestTypes /\ procs \in [Proc -> ProcState] /\ i \in Invoice
      /\ {"begun", "waiting"} \subseteq Places
  BY TypeInvParts DEF ProcTypes, Begin, At, Places
<1>1. UNCHANGED <<reserved, chain, sent>>
  BY DEF Begin, history
<1>2. OwnersInProgress /\ OneOwner /\ PlacesTruthful /\ InvoicesOk
  BY DEF JournalInv
<1>3. CASE journal[i] = "none"
  <2>1. journal' = [journal EXCEPT ![i] = "in_progress"] /\ Goto(p, "begun")
    BY <1>3 DEF Begin
  <2>2. /\ journal'[i] = "in_progress"
        /\ \A j \in Invoice \ {i} : journal'[j] = journal[j]
    BY <1>0, <2>1 DEF RestTypes
  <2>3. /\ procs'[p].pc = "begun" /\ procs'[p].inv = i
        /\ \A q \in Proc \ {p} : procs'[q] = procs[q]
    BY <1>0, <2>1, GotoFacts
  <2>4. \A q \in Proc : procs[q].pc \in Owning => procs[q].inv \in Invoice \ {i}
    BY <1>2, <1>3, TypeInvParts DEF OwnersInProgress, ProcTypes, Owning
  <2>5. OwnersInProgress'
    BY <1>2, <2>2, <2>3, <2>4 DEF OwnersInProgress
  <2>6. OneOwner'
    BY <1>2, <2>3, <2>4 DEF OneOwner
  <2>7. NotPaid(i)
    BY <1>0, <1>2, <1>3 DEF InvoicesOk, NotPaid, RestTypes
  <2>8. PlacesTruthful'
    BY <1>1, <1>2, <2>3, <2>7 DEF PlacesTruthful, NotPaid, Paid, Settled
  <2>9. InvoicesOk'
    BY <1>0, <1>1, <1>2, <1>3, <2>2 DEF InvoicesOk
  <2> QED BY <2>5, <2>6, <2>8, <2>9 DEF JournalInv
<1>4. CASE journal[i] = "submitted"
  <2>1. Goto(p, "waiting") /\ UNCHANGED journal
    BY <1>4 DEF Begin
  <2>2. /\ procs'[p].pc = "waiting" /\ procs'[p].inv = i
        /\ \A q \in Proc \ {p} : procs'[q] = procs[q]
    BY <1>0, <2>1, GotoFacts
  <2>3. sent[i] > 0
    BY <1>0, <1>2, <1>4 DEF InvoicesOk
  <2>4. OwnersInProgress' /\ OneOwner'
    BY <1>2, <2>1, <2>2 DEF OwnersInProgress, OneOwner, Owning
  <2>5. PlacesTruthful'
    BY <1>1, <1>2, <2>2, <2>3 DEF PlacesTruthful, NotPaid, Unpaid, Settled
  <2>6. InvoicesOk'
    BY <1>1, <1>2, <2>1 DEF InvoicesOk
  <2> QED BY <2>4, <2>5, <2>6 DEF JournalInv
<1>5. CASE journal[i] \notin {"none", "submitted"}
  <2>1. Stop(p) /\ UNCHANGED journal
    BY <1>5 DEF Begin
  <2>2. procs'[p].pc = "stopped" /\ \A q \in Proc \ {p} : procs'[q] = procs[q]
    BY <1>0, <2>1, StopFacts
  <2> QED BY <1>1, <2>1, <2>2, JournalFrame DEF Owning, Paid
<1> QED BY <1>3, <1>4, <1>5

LEMMA CostPositive == \A cost \in Costs : cost > 0
BY DEF CostAssumption

\* reserve: an invoice without a reservation was never paid.
LEMMA JournalReserve ==
  ASSUME TypeInv, TypeInv', JournalInv, NEW p \in Proc, Reserve(p) PROVE JournalInv'
<1> DEFINE i == procs[p].inv
<1>0. /\ RestTypes /\ procs \in [Proc -> ProcState] /\ i \in Invoice
      /\ procs[p].pc = "rechecked" /\ procs[p].cost > 0 /\ "reserved" \in Places
  <2>1. procs[p].pc = "rechecked"
    BY DEF Reserve, At
  <2>2. i \in Invoice /\ procs[p].cost \in Costs
    BY <2>1, TypeInvParts DEF ProcTypes
  <2>3. procs[p].cost > 0
    BY <2>2, CostPositive
  <2> QED BY <2>1, <2>2, <2>3, TypeInvParts, Zenon DEF Places
<1>1. UNCHANGED <<journal, chain, sent>> /\ reserved[i] = NoReservation
      /\ reserved' = [reserved EXCEPT ![i] = [day |-> Day, cost |-> procs[p].cost]]
  BY DEF Reserve, history
<1>2. OwnersInProgress /\ OneOwner /\ PlacesTruthful /\ InvoicesOk
  BY DEF JournalInv
<1>3. reserved'[i].cost > 0 /\ \A j \in Invoice \ {i} : reserved'[j] = reserved[j]
  BY <1>0, <1>1 DEF RestTypes
<1>4. /\ procs'[p].pc = "reserved" /\ procs'[p].inv = i
      /\ \A q \in Proc \ {p} : procs'[q] = procs[q]
  BY <1>0, GotoFacts DEF Reserve
<1>5. sent[i] = 0
  BY <1>0, <1>1, <1>2 DEF InvoicesOk, NoReservation, RestTypes
<1>6. OwnersInProgress' /\ OneOwner'
  BY <1>0, <1>1, <1>2, <1>4 DEF OwnersInProgress, OneOwner, Owning
<1>7. PlacesTruthful'
  <2>1. \A q \in Proc : procs'[q].inv # i => procs[q].inv # i
    BY <1>4
  <2>2. \A q \in Proc : procs[q].pc = "reserved" => procs[q].inv \in Invoice
    BY TypeInvParts DEF ProcTypes
  <2> QED BY <1>1, <1>2, <1>3, <1>4, <1>5, <2>1, <2>2
          DEF PlacesTruthful, NotPaid, Paid, Settled
<1>8. InvoicesOk'
  BY <1>1, <1>2, <1>3 DEF InvoicesOk
<1> QED BY <1>6, <1>7, <1>8 DEF JournalInv

\* The owner of an attempt writes the outcome into its entry and owns it no more.
LEMMA JournalOutcome ==
  ASSUME TypeInv, TypeInv', JournalInv, NEW p \in Proc, procs[p].pc \in Owning,
         UNCHANGED <<reserved, chain, sent>>,
         NEW state \in {"none", "unknown", "submitted"},
         journal' = [journal EXCEPT ![procs[p].inv] = state],
         \A q \in Proc \ {p} : procs'[q] = procs[q],
         \/ procs'[p].pc = "stopped"
         \/ procs'[p].pc = "waiting" /\ procs'[p].inv = procs[p].inv /\ procs[p].pc \in Paid,
         state = "none" => NotPaid(procs[p].inv),
         state # "none" => sent[procs[p].inv] > 0
  PROVE  JournalInv'
<1> DEFINE i == procs[p].inv
<1>0. RestTypes /\ i \in Invoice
  BY TypeInvParts DEF ProcTypes, Owning
<1>1. OwnersInProgress /\ OneOwner /\ PlacesTruthful /\ InvoicesOk
  BY DEF JournalInv
<1>2. journal'[i] = state /\ \A j \in Invoice \ {i} : journal'[j] = journal[j]
  BY <1>0 DEF RestTypes
<1>3. \A q \in Proc \ {p} : procs[q].pc \in Owning => procs[q].inv \in Invoice \ {i}
  BY <1>1, TypeInvParts DEF OneOwner, ProcTypes, Owning
<1>4. OwnersInProgress' /\ OneOwner'
  BY <1>1, <1>2, <1>3 DEF OwnersInProgress, OneOwner, Owning
<1>5. PlacesTruthful'
  BY <1>1 DEF PlacesTruthful, NotPaid, Unpaid, Paid, Settled
<1>6. InvoicesOk'
  BY <1>0, <1>1, <1>2 DEF InvoicesOk, NotPaid
<1> QED BY <1>4, <1>5, <1>6 DEF JournalInv

\* The payment leaves: the first one of its invoice, by its only owner.
LEMMA JournalSend ==
  ASSUME TypeInv, TypeInv', JournalInv, NEW p \in Proc, Send(p) PROVE JournalInv'
<1> DEFINE i == procs[p].inv
<1>0. /\ RestTypes /\ procs \in [Proc -> ProcState] /\ i \in Invoice
      /\ procs[p].pc = "reserved" /\ "sending" \in Places
  BY TypeInvParts DEF ProcTypes, Send, At, Places
<1>1. UNCHANGED <<journal, reserved, chain>> /\ sent' = [sent EXCEPT ![i] = @ + 1]
  BY DEF Send, tables
<1>2. OwnersInProgress /\ OneOwner /\ PlacesTruthful /\ InvoicesOk
  BY DEF JournalInv
<1>3. sent[i] = 0 /\ reserved[i].cost > 0 /\ journal[i] = "in_progress"
  BY <1>0, <1>2 DEF PlacesTruthful, OwnersInProgress, Owning
<1>4. sent'[i] = 1 /\ \A j \in Invoice \ {i} : sent'[j] = sent[j]
  BY <1>0, <1>1, <1>3 DEF RestTypes
<1>5. /\ procs'[p].pc = "sending" /\ procs'[p].inv = i
      /\ \A q \in Proc \ {p} : procs'[q] = procs[q]
  BY <1>0, GotoFacts DEF Send
<1>6. \A q \in Proc \ {p} : procs[q].pc \in Unpaid => procs[q].inv \in Invoice \ {i}
  BY <1>0, <1>2, TypeInvParts DEF OneOwner, ProcTypes, Owning, Unpaid
<1>7. \A q \in Proc : procs[q].pc \in Paid => procs[q].inv \in Invoice
  BY TypeInvParts DEF ProcTypes, Paid
<1>8. OwnersInProgress' /\ OneOwner'
  BY <1>0, <1>1, <1>2, <1>5 DEF OwnersInProgress, OneOwner, Owning
<1>9. PlacesTruthful'
  <2>1. \A q \in Proc \ {p} : procs[q].pc \in Paid => sent'[procs[q].inv] > 0
    BY <1>2, <1>4, <1>7 DEF PlacesTruthful
  <2>2. \A q \in Proc \ {p} :
          procs[q].pc \in Unpaid => sent'[procs[q].inv] = sent[procs[q].inv]
    BY <1>4, <1>6
  <2> QED BY <1>1, <1>2, <1>4, <1>5, <2>1, <2>2
          DEF PlacesTruthful, NotPaid, Unpaid, Settled
<1>10. InvoicesOk'
  BY <1>0, <1>1, <1>2, <1>3, <1>4 DEF InvoicesOk
<1> QED BY <1>8, <1>9, <1>10 DEF JournalInv

LEMMA JournalOutcomes ==
  ASSUME TypeInv, TypeInv', JournalInv, NEW p \in Proc,
         Release(p) \/ MarkUnknown(p) \/ MarkSubmitted(p)
  PROVE  JournalInv'
<1> DEFINE i == procs[p].inv
<1>0. /\ procs[p].pc \in {"releasing", "lost", "hashed"} /\ "waiting" \in Places
      /\ procs \in [Proc -> ProcState] /\ i \in Invoice /\ RestTypes
  BY TypeInvParts DEF ProcTypes, Release, MarkUnknown, MarkSubmitted, At, Places
<1>1. UNCHANGED <<reserved, chain, sent>>
  BY DEF Release, MarkUnknown, MarkSubmitted, history
<1>2. procs[p].pc \in Owning /\ journal[i] = "in_progress"
  BY <1>0 DEF JournalInv, OwnersInProgress, Owning
<1>3. /\ procs[p].pc = "releasing" => NotPaid(i)
      /\ procs[p].pc \in {"lost", "hashed"} => procs[p].pc \in Paid /\ sent[i] > 0
  BY DEF JournalInv, PlacesTruthful, Unpaid, Paid
<1>4. CASE Release(p)
  <2>1. journal' = [journal EXCEPT ![i] = "none"]
    BY <1>0, <1>2, <1>4 DEF Release, RestTypes
  <2>2. procs'[p].pc = "stopped" /\ \A q \in Proc \ {p} : procs'[q] = procs[q]
    BY <1>0, <1>4, StopFacts DEF Release
  <2> QED BY <1>1, <1>2, <1>3, <1>4, <2>1, <2>2, JournalOutcome DEF Release, At
<1>5. CASE MarkUnknown(p)
  <2>1. journal' = [journal EXCEPT ![i] = "unknown"]
    BY <1>0, <1>2, <1>5 DEF MarkUnknown, RestTypes
  <2>2. procs'[p].pc = "stopped" /\ \A q \in Proc \ {p} : procs'[q] = procs[q]
    BY <1>0, <1>5, StopFacts DEF MarkUnknown
  <2> QED BY <1>1, <1>2, <1>3, <1>5, <2>1, <2>2, JournalOutcome DEF MarkUnknown, At
<1>6. CASE MarkSubmitted(p)
  <2>1. journal' = [journal EXCEPT ![i] = "submitted"] /\ Goto(p, "waiting")
    BY <1>2, <1>6 DEF MarkSubmitted
  <2>2. /\ procs'[p].pc = "waiting" /\ procs'[p].inv = i
        /\ \A q \in Proc \ {p} : procs'[q] = procs[q]
    BY <1>0, <2>1, GotoFacts
  <2> QED BY <1>1, <1>2, <1>3, <1>6, <2>1, <2>2, JournalOutcome DEF MarkSubmitted, At
<1> QED BY <1>4, <1>5, <1>6

\* Reconciliation runs while nobody owns an attempt, and knows what was paid.
LEMMA JournalReconcile ==
  ASSUME TypeInv, TypeInv', JournalInv, NEW i \in Invoice, Reconcile(i) PROVE JournalInv'
<1>0. RestTypes /\ InvoicesOk
  BY TypeInvParts DEF JournalInv
<1>1. UNCHANGED <<reserved, chain, sent, procs>>
  BY DEF Reconcile, history
<1>2. \A p \in Proc : procs'[p].pc = "stopped"
  BY <1>1 DEF Reconcile, At
<1>3. OwnersInProgress' /\ OneOwner' /\ PlacesTruthful'
  BY <1>2 DEF OwnersInProgress, OneOwner, PlacesTruthful, Owning, Unpaid, Paid, Settled
<1>4. \/ journal' = [journal EXCEPT ![i] = "submitted"] /\ sent[i] > 0
      \/ journal' = [journal EXCEPT ![i] = "none"] /\ (sent[i] = 0 \/ chain[i] = "reverted")
  BY <1>0 DEF Reconcile, RestTypes
<1>5. InvoicesOk'
  BY <1>0, <1>1, <1>4 DEF InvoicesOk, RestTypes
<1> QED BY <1>3, <1>5 DEF JournalInv

\* The chain only decides payments that were sent.
LEMMA JournalExecute ==
  ASSUME TypeInv, TypeInv', JournalInv, NEW i \in Invoice, Execute(i) PROVE JournalInv'
<1>0. RestTypes /\ OwnersInProgress /\ OneOwner /\ PlacesTruthful /\ InvoicesOk
  BY TypeInvParts DEF JournalInv
<1>1. UNCHANGED <<journal, reserved, sent, procs>> /\ sent[i] > 0 /\ chain[i] = "none"
  BY DEF Execute, tables, history
<1>2. \A j \in Invoice : j # i => chain'[j] = chain[j]
  BY <1>0 DEF Execute, RestTypes
<1>3. \A p \in Proc : procs[p].pc \in Unpaid \cup Paid => procs[p].inv \in Invoice
  BY TypeInvParts DEF ProcTypes, Unpaid, Paid
<1>4. \A p \in Proc : procs[p].pc \in Unpaid \cup Settled =>
        (procs[p].inv # i \/ procs[p].pc \notin Settled \cup Unpaid)
  BY <1>0, <1>1 DEF PlacesTruthful, NotPaid, RestTypes
<1>5. OwnersInProgress' /\ OneOwner'
  BY <1>0, <1>1 DEF OwnersInProgress, OneOwner
<1>6. PlacesTruthful'
  <2>1. Settled \subseteq Paid
    BY DEF Settled, Paid
  <2>2. \A p \in Proc : procs[p].pc \in Unpaid \cup Settled =>
          chain'[procs[p].inv] = chain[procs[p].inv]
    BY <1>2, <1>3, <1>4, <2>1
  <2> QED BY <1>0, <1>1, <2>2 DEF PlacesTruthful, NotPaid
<1>7. InvoicesOk'
  BY <1>0, <1>1, <1>2 DEF InvoicesOk
<1> QED BY <1>5, <1>6, <1>7 DEF JournalInv

LEMMA JournalStep ==
  ASSUME TypeInv, JournalInv, [Next]_vars PROVE JournalInv'
<1>0. TypeInv'
  BY TypeStep
<1>1. ASSUME NEW p \in Proc, Step(p) \/ Die(p) PROVE JournalInv'
  <2>1. CASE Begin(p)
    BY <1>0, <2>1, JournalBegin
  <2>2. CASE Reserve(p)
    BY <1>0, <2>2, JournalReserve
  <2>3. CASE Send(p)
    BY <1>0, <2>3, JournalSend
  <2>4. CASE Release(p) \/ MarkUnknown(p) \/ MarkSubmitted(p)
    BY <1>0, <2>4, JournalOutcomes
  <2>5. CASE \/ Start(p) \/ \E i \in Invoice, offset \in Offsets : Challenged(p, i, offset)
             \/ Claim(p) \/ Load(p) \/ CheckBefore(p) \/ \E cost \in Costs : Proved(p, cost)
             \/ Unprepared(p) \/ Answered(p) \/ Confirmed(p) \/ Presented(p)
             \/ Complete(p) \/ GiveUp(p) \/ Die(p)
    BY <1>0, <2>5, JournalMoves
  <2> QED BY <1>1, <2>1, <2>2, <2>3, <2>4, <2>5 DEF Step
<1>2. CASE Recover \/ ClearPending \/ Acknowledge \/ Tick \/ UNCHANGED vars
  <2>1. UNCHANGED <<journal, reserved, chain, sent, procs>>
    BY <1>2 DEF Recover, ClearPending, Acknowledge, Tick, vars, tables, history
  <2> QED BY <2>1 DEF JournalInv, OwnersInProgress, OneOwner, PlacesTruthful, NotPaid,
                      InvoicesOk
<1>3. ASSUME NEW i \in Invoice, Reconcile(i) \/ Execute(i) PROVE JournalInv'
  BY <1>0, <1>3, JournalReconcile, JournalExecute
<1> QED BY <1>1, <1>2, <1>3 DEF Next

LEMMA JournalAlways == Spec => [](TypeInv /\ JournalInv)
<1>1. Init => TypeInv
  BY TypeInit
<1>2. Init => JournalInv
  BY DEF Init, JournalInv, OwnersInProgress, OneOwner, PlacesTruthful, InvoicesOk, Stopped,
         Owning, Unpaid, Paid, Settled
<1>3. TypeInv /\ JournalInv /\ [Next]_vars => (TypeInv /\ JournalInv)'
  BY TypeStep, JournalStep
<1> QED BY <1>1, <1>2, <1>3, PTL DEF Spec

\* No invoice is paid twice, by any number of processes that are stopped and started
\* anywhere, whatever the operator reconciles: the journal gives the attempt one
\* owner, and the reservation it leaves behind lets no later owner pay.
THEOREM SentOnceAlways == Spec => []SentOnce
<1>1. JournalInv => SentOnce
  BY DEF JournalInv, InvoicesOk, SentOnce
<1> QED BY <1>1, JournalAlways, PTL

\* A payment that left keeps its journal entry unless it was reverted.
THEOREM SentIsJournaledAlways == Spec => []SentIsJournaled
<1>1. JournalInv => SentIsJournaled
  BY DEF JournalInv, InvoicesOk, SentIsJournaled
<1> QED BY <1>1, JournalAlways, PTL
-----------------------------------------------------------------------------
(* The daily budget.  The sum of reservations is the number of units of    *)
(* money they hold, so it grows by a cost when an invoice joins.           *)

\* The units a table of reservations f holds for the invoices of S.
UnitsIn(f, S) == UNION {{i} \X (1 .. f[i].cost) : i \in S}

LEMMA UnitsAreIn == \A S : Units(S) = UnitsIn(reserved, S)
BY DEF Units, UnitsIn

\* Two tables that agree on the invoices of S hold the same units for them.
LEMMA UnitsSame ==
  ASSUME NEW f, NEW g, NEW S, \A i \in S : f[i] = g[i]
  PROVE  UnitsIn(f, S) = UnitsIn(g, S)
<1>1. \A u : u \in UnitsIn(f, S) => u \in UnitsIn(g, S)
  BY DEF UnitsIn
<1>2. \A u : u \in UnitsIn(g, S) => u \in UnitsIn(f, S)
  BY DEF UnitsIn
<1> QED BY <1>1, <1>2

\* More invoices hold more units.
LEMMA UnitsMonotone ==
  ASSUME NEW f, NEW S, NEW T, S \subseteq T
  PROVE  UnitsIn(f, S) \subseteq UnitsIn(f, T)
BY DEF UnitsIn

\* An invoice that joins brings exactly its cost.
LEMMA UnitsAdded ==
  ASSUME NEW f, NEW S, NEW i, i \notin S, f[i].cost \in Nat, IsFiniteSet(UnitsIn(f, S))
  PROVE  /\ IsFiniteSet(UnitsIn(f, S \cup {i}))
         /\ Cardinality(UnitsIn(f, S \cup {i})) = Cardinality(UnitsIn(f, S)) + f[i].cost
<1> DEFINE U == UnitsIn(f, S)
           own == {i} \X (1 .. f[i].cost)
<1>1. UnitsIn(f, S \cup {i}) = U \cup own
  <2>1. \A u : u \in UnitsIn(f, S \cup {i}) <=> u \in U \/ u \in own
    BY DEF UnitsIn
  <2> QED BY <2>1
<1>2. U \cap own = {}
  <2>1. \A u \in U : \E j \in S : u \in {j} \X (1 .. f[j].cost)
    BY DEF UnitsIn
  <2>2. \A u \in U : u[1] \in S
    BY <2>1
  <2> QED BY <2>2
<1>3. IsFiniteSet(own) /\ Cardinality(own) = f[i].cost
  <2>1. IsFiniteSet({i}) /\ Cardinality({i}) = 1
    BY FS_Singleton
  <2>2. IsFiniteSet(1 .. f[i].cost) /\ Cardinality(1 .. f[i].cost) = f[i].cost
    BY FS_Interval
  <2>3. IsFiniteSet(own) /\ Cardinality(own) = 1 * Cardinality(1 .. f[i].cost)
    BY <2>1, <2>2, FS_Product
  <2> QED BY <2>2, <2>3
<1>4. Cardinality(U) \in Nat
  BY FS_CardinalityType
<1>5. /\ IsFiniteSet(U \cup own)
      /\ Cardinality(U \cup own) = Cardinality(U) + Cardinality(own) - Cardinality(U \cap own)
  BY <1>3, FS_Union
<1>6. Cardinality(U \cap own) = 0
  BY <1>2, FS_EmptySet
<1>7. Cardinality(U \cup own) = Cardinality(U) + f[i].cost
  <2> HIDE DEF U, own
  <2> QED BY <1>3, <1>4, <1>5, <1>6
<1> QED BY <1>1, <1>5, <1>7

\* Invoices whose payment left on a day.
SentOn(d) == {i \in Invoice : sent[i] > 0 /\ reserved[i].day = d}

\* What is reserved on a day stays within the limit, what left on it is what its
\* paid invoices had reserved, and a process about to send reserved just now.
BudgetInv ==
  /\ \A d \in Days : IsFiniteSet(Units(ReservedOn(d))) /\ SpentOn(d) <= DailyLimit
  /\ \A d \in Days : spent[d] = Cardinality(Units(SentOn(d)))
  /\ \A p \in Proc : procs[p].pc = "reserved" =>
       reserved[procs[p].inv] = [day |-> Day, cost |-> procs[p].cost]

LEMMA SentIsReserved ==
  ASSUME JournalInv, NEW d PROVE SentOn(d) \subseteq ReservedOn(d)
BY DEF JournalInv, InvoicesOk, SentOn, ReservedOn

LEMMA BudgetInit == Init => BudgetInv
<1> SUFFICES ASSUME Init PROVE BudgetInv
  OBVIOUS
<1>1. \A i \in Invoice : reserved[i].cost = 0 /\ sent[i] = 0
  BY DEF Init, NoReservation
<1>2. \A d \in Days : ReservedOn(d) = {} /\ SentOn(d) = {}
  BY <1>1 DEF ReservedOn, SentOn
<1>3. Units({}) = {}
  BY DEF Units
<1>4. IsFiniteSet({}) /\ Cardinality({}) = 0 /\ DailyLimit \in Nat
  BY FS_EmptySet, CostAssumption DEF CostAssumption
<1>5. \A d \in Days : spent[d] = 0
  BY DEF Init
<1>6. \A p \in Proc : procs[p].pc = "stopped"
  BY DEF Init, Stopped
<1>7. ASSUME NEW d \in Days
      PROVE  /\ IsFiniteSet(Units(ReservedOn(d))) /\ SpentOn(d) <= DailyLimit
             /\ spent[d] = Cardinality(Units(SentOn(d)))
  <2>1. Units(ReservedOn(d)) = {} /\ Units(SentOn(d)) = {}
    BY <1>2, <1>3
  <2> QED BY <1>4, <1>5, <2>1 DEF SpentOn
<1> QED BY <1>6, <1>7 DEF BudgetInv

\* Steps that neither reserve nor send, nor let time pass while a process is in
\* between.
LEMMA BudgetFrame ==
  ASSUME BudgetInv, UNCHANGED <<reserved, sent, spent>>,
         \A p \in Proc : procs'[p].pc = "reserved" => procs'[p] = procs[p] /\ clock' = clock
  PROVE  BudgetInv'
<1>1. \A d : ReservedOn(d)' = ReservedOn(d) /\ SentOn(d)' = SentOn(d)
  BY DEF ReservedOn, SentOn
<1>2. \A d : Units(ReservedOn(d))' = Units(ReservedOn(d)) /\ Units(SentOn(d))' = Units(SentOn(d))
  BY <1>1 DEF Units
<1>3. \A p \in Proc : procs'[p].pc = "reserved" =>
        reserved'[procs'[p].inv] = [day |-> Day', cost |-> procs'[p].cost]
  BY DEF BudgetInv, Day
<1> QED BY <1>1, <1>2, <1>3 DEF BudgetInv, SpentOn

\* reserve: the invoice had no reservation, so the day's sum grows by its cost, which
\* fits; the sums of the other days and what was sent stay.
LEMMA BudgetReserve ==
  ASSUME TypeInv, JournalInv, BudgetInv, NEW p \in Proc, Reserve(p) PROVE BudgetInv'
<1> DEFINE i == procs[p].inv
<1>0. /\ RestTypes /\ procs \in [Proc -> ProcState] /\ i \in Invoice
      /\ procs[p].cost \in Costs /\ procs[p].cost \in Nat /\ procs[p].cost > 0
      /\ Day \in Days /\ "reserved" \in Places
  <2>1. procs[p].pc = "rechecked"
    BY DEF Reserve, At
  <2>2. i \in Invoice /\ procs[p].cost \in Costs
    BY <2>1, TypeInvParts DEF ProcTypes
  <2>3. RestTypes /\ procs \in [Proc -> ProcState]
    BY TypeInvParts
  <2>4. Day \in Days
    BY <2>3, DayInDays DEF RestTypes
  <2> QED BY <2>2, <2>3, <2>4, CostPositive, CostAssumption DEF CostAssumption, Places
<1>1. /\ UNCHANGED <<clock, sent, spent>> /\ reserved[i] = NoReservation
      /\ SpentOn(Day) + procs[p].cost <= DailyLimit
      /\ reserved' = [reserved EXCEPT ![i] = [day |-> Day, cost |-> procs[p].cost]]
  BY DEF Reserve, Fits, history
<1>2. /\ reserved'[i] = [day |-> Day, cost |-> procs[p].cost]
      /\ \A j \in Invoice \ {i} : reserved'[j] = reserved[j]
  BY <1>0, <1>1 DEF RestTypes
<1>3. /\ procs'[p].pc = "reserved" /\ procs'[p].inv = i /\ procs'[p].cost = procs[p].cost
      /\ \A q \in Proc \ {p} : procs'[q] = procs[q]
  BY <1>0, GotoFacts DEF Reserve
<1>4. Day' = Day
  BY <1>1 DEF Day
<1>5. \A d : i \notin ReservedOn(d) /\ i \notin SentOn(d)
  <2>1. sent[i] = 0 /\ reserved[i].cost = 0
    BY <1>0, <1>1 DEF JournalInv, InvoicesOk, NoReservation, RestTypes
  <2> QED BY <2>1 DEF ReservedOn, SentOn
<1>6. ReservedOn(Day)' = ReservedOn(Day) \cup {i}
  BY <1>0, <1>2, <1>4 DEF ReservedOn
<1>7. \A d \in Days \ {Day} : ReservedOn(d)' = ReservedOn(d)
  BY <1>0, <1>2, <1>5 DEF ReservedOn
<1>8. \A d : SentOn(d)' = SentOn(d)
  BY <1>0, <1>1, <1>2, <1>5 DEF SentOn
<1>9. \A S : Units(S)' = UnitsIn(reserved', S)
  BY DEF Units, UnitsIn
<1>10. \A d : /\ UnitsIn(reserved', ReservedOn(d)) = Units(ReservedOn(d))
              /\ UnitsIn(reserved', SentOn(d)) = Units(SentOn(d))
  <2> TAKE d
  <2>1. ReservedOn(d) \subseteq Invoice \ {i} /\ SentOn(d) \subseteq Invoice \ {i}
    BY <1>5 DEF ReservedOn, SentOn
  <2>2. UnitsIn(reserved', ReservedOn(d)) = UnitsIn(reserved, ReservedOn(d))
    BY <1>2, <2>1, UnitsSame
  <2>3. UnitsIn(reserved', SentOn(d)) = UnitsIn(reserved, SentOn(d))
    BY <1>2, <2>1, UnitsSame
  <2> QED BY <2>2, <2>3, UnitsAreIn
<1>11. /\ IsFiniteSet(Units(ReservedOn(Day))') /\ SpentOn(Day)' <= DailyLimit
  <2>1. /\ IsFiniteSet(UnitsIn(reserved', ReservedOn(Day)))
        /\ Cardinality(UnitsIn(reserved', ReservedOn(Day))) = SpentOn(Day)
    BY <1>0, <1>10 DEF BudgetInv, SpentOn
  <2>2. i \notin ReservedOn(Day) /\ reserved'[i].cost \in Nat
    BY <1>0, <1>2, <1>5
  <2>3. /\ IsFiniteSet(UnitsIn(reserved', ReservedOn(Day) \cup {i}))
        /\ Cardinality(UnitsIn(reserved', ReservedOn(Day) \cup {i})) =
             Cardinality(UnitsIn(reserved', ReservedOn(Day))) + reserved'[i].cost
    BY <2>1, <2>2, UnitsAdded
  <2>4. Units(ReservedOn(Day))' = UnitsIn(reserved', ReservedOn(Day) \cup {i})
    BY <1>4, <1>6 DEF Units, UnitsIn
  <2>5. SpentOn(Day)' = Cardinality(UnitsIn(reserved', ReservedOn(Day) \cup {i}))
    BY <2>4 DEF SpentOn
  <2> QED BY <1>1, <1>2, <2>1, <2>3, <2>4, <2>5
<1>12. ASSUME NEW d \in Days
       PROVE  /\ IsFiniteSet(Units(ReservedOn(d))') /\ SpentOn(d)' <= DailyLimit
              /\ spent'[d] = Cardinality(Units(SentOn(d)))'
  <2>1. Units(SentOn(d))' = Units(SentOn(d))
    BY <1>8, <1>10 DEF Units, UnitsIn
  <2>2. CASE d = Day
    BY <1>1, <1>4, <1>11, <2>1, <2>2 DEF BudgetInv
  <2>3. CASE d # Day
    <3>1. Units(ReservedOn(d))' = Units(ReservedOn(d))
      BY <1>7, <1>10, <2>3 DEF Units, UnitsIn
    <3> QED BY <1>1, <2>1, <3>1 DEF BudgetInv, SpentOn
  <2> QED BY <2>2, <2>3
<1>13. ASSUME NEW q \in Proc, procs'[q].pc = "reserved"
       PROVE  reserved'[procs'[q].inv] = [day |-> Day', cost |-> procs'[q].cost]
  <2>1. CASE q = p
    BY <1>2, <1>3, <1>4, <2>1
  <2>2. CASE q # p
    <3>1. procs'[q] = procs[q] /\ procs[q].inv \in Invoice
      BY <1>3, <1>13, <2>2, TypeInvParts DEF ProcTypes
    <3>2. reserved[procs[q].inv].cost > 0
      BY <1>13, <3>1 DEF JournalInv, PlacesTruthful
    <3>3. procs[q].inv # i
      BY <1>1, <3>2 DEF NoReservation
    <3> QED BY <1>2, <1>4, <1>13, <3>1, <3>3 DEF BudgetInv
  <2> QED BY <2>1, <2>2
<1> QED BY <1>12, <1>13 DEF BudgetInv

\* The payment leaves: what was reserved for it joins what left on the day.
LEMMA BudgetSend ==
  ASSUME TypeInv, JournalInv, BudgetInv, NEW p \in Proc, Send(p) PROVE BudgetInv'
<1> DEFINE i == procs[p].inv
<1>0. /\ RestTypes /\ procs \in [Proc -> ProcState] /\ i \in Invoice
      /\ procs[p].cost \in Nat /\ Day \in Days /\ "sending" \in Places
      /\ procs[p].pc = "reserved"
  <2>1. procs[p].pc = "reserved" /\ RestTypes /\ procs \in [Proc -> ProcState]
    BY TypeInvParts DEF Send, At
  <2>2. i \in Invoice /\ procs[p].cost \in Costs
    BY <2>1, TypeInvParts DEF ProcTypes
  <2>3. Day \in Days
    BY <2>1, DayInDays DEF RestTypes
  <2> QED BY <2>1, <2>2, <2>3, CostAssumption DEF CostAssumption, Places
<1>1. /\ UNCHANGED <<clock, reserved>>
      /\ sent' = [sent EXCEPT ![i] = @ + 1]
      /\ spent' = [spent EXCEPT ![Day] = @ + procs[p].cost]
  BY DEF Send, tables
<1>2. reserved[i] = [day |-> Day, cost |-> procs[p].cost] /\ sent[i] = 0
  BY <1>0 DEF BudgetInv, JournalInv, PlacesTruthful
<1>3. /\ procs'[p].pc = "sending" /\ \A q \in Proc \ {p} : procs'[q] = procs[q]
  BY <1>0, GotoFacts DEF Send
<1>4. Day' = Day
  BY <1>1 DEF Day
<1>5. \A d : Units(ReservedOn(d))' = Units(ReservedOn(d)) /\ SpentOn(d)' = SpentOn(d)
  BY <1>1 DEF Units, ReservedOn, SpentOn
<1>6. SentOn(Day)' = SentOn(Day) \cup {i} /\ i \notin SentOn(Day)
  <2>1. sent'[i] = 1 /\ \A j \in Invoice \ {i} : sent'[j] = sent[j]
    BY <1>0, <1>1, <1>2 DEF RestTypes
  <2> QED BY <1>0, <1>1, <1>2, <1>4, <2>1 DEF SentOn
<1>7. \A d \in Days \ {Day} : SentOn(d)' = SentOn(d)
  <2>1. \A j \in Invoice \ {i} : sent'[j] = sent[j]
    BY <1>0, <1>1 DEF RestTypes
  <2>2. \A d \in Days \ {Day} : reserved[i].day # d
    BY <1>2
  <2> QED BY <1>0, <1>1, <2>1, <2>2 DEF SentOn
<1>8. spent'[Day] = Cardinality(Units(SentOn(Day)))'
  <2>1. /\ IsFiniteSet(UnitsIn(reserved, SentOn(Day)))
        /\ Cardinality(UnitsIn(reserved, SentOn(Day))) = spent[Day]
    <3>1. UnitsIn(reserved, SentOn(Day)) \subseteq UnitsIn(reserved, ReservedOn(Day))
      BY SentIsReserved, UnitsMonotone
    <3>2. IsFiniteSet(UnitsIn(reserved, ReservedOn(Day)))
      BY <1>0, UnitsAreIn DEF BudgetInv
    <3>3. IsFiniteSet(UnitsIn(reserved, SentOn(Day)))
      BY <3>1, <3>2, FS_Subset
    <3> QED BY <1>0, <3>3, UnitsAreIn DEF BudgetInv
  <2>2. reserved[i].cost = procs[p].cost /\ reserved[i].cost \in Nat
    BY <1>0, <1>2
  <2>3. Cardinality(UnitsIn(reserved, SentOn(Day) \cup {i})) = spent[Day] + procs[p].cost
    <3>1. Cardinality(UnitsIn(reserved, SentOn(Day) \cup {i})) =
            Cardinality(UnitsIn(reserved, SentOn(Day))) + reserved[i].cost
      BY <1>6, <2>1, <2>2, UnitsAdded
    <3> QED BY <2>1, <2>2, <3>1
  <2>4. Units(SentOn(Day))' = UnitsIn(reserved, SentOn(Day) \cup {i})
    BY <1>1, <1>4, <1>6 DEF Units, UnitsIn
  <2>5. spent'[Day] = spent[Day] + procs[p].cost
    BY <1>0, <1>1 DEF RestTypes
  <2> QED BY <1>4, <2>3, <2>4, <2>5
<1>9. \A d \in Days \ {Day} : spent'[d] = Cardinality(Units(SentOn(d)))'
  <2> TAKE d \in Days \ {Day}
  <2>1. Units(SentOn(d))' = Units(SentOn(d))
    BY <1>1, <1>7 DEF Units
  <2>2. spent'[d] = spent[d]
    BY <1>0, <1>1 DEF RestTypes
  <2>3. spent[d] = Cardinality(Units(SentOn(d)))
    BY Zenon DEF BudgetInv
  <2> QED BY <2>1, <2>2, <2>3, Zenon
<1>10. ASSUME NEW q \in Proc, procs'[q].pc = "reserved"
       PROVE  reserved'[procs'[q].inv] = [day |-> Day', cost |-> procs'[q].cost]
  BY <1>1, <1>3, <1>4, <1>10 DEF BudgetInv
<1>11. (\A d \in Days : IsFiniteSet(Units(ReservedOn(d))) /\ SpentOn(d) <= DailyLimit)'
  BY <1>5 DEF BudgetInv
<1>12. (\A d \in Days : spent[d] = Cardinality(Units(SentOn(d))))'
  BY <1>4, <1>8, <1>9
<1> QED BY <1>10, <1>11, <1>12 DEF BudgetInv

\* Every other step of a process ends in a place other than "reserved".
LEMMA BudgetOthers ==
  ASSUME TypeInv, BudgetInv, NEW p \in Proc, Step(p) \/ Die(p), ~Reserve(p), ~Send(p)
  PROVE  BudgetInv'
<1>0. procs \in [Proc -> ProcState] /\ RestTypes
  BY TypeInvParts
<1>1. UNCHANGED <<clock, reserved, sent, spent>>
  BY DEF Step, Start, Challenged, Claim, Load, Begin, CheckBefore, Proved, Unprepared,
         Release, Answered, MarkUnknown, MarkSubmitted, Confirmed, Presented, Complete,
         GiveUp, Die, tables, history
<1>2. \/ Stop(p)
      \/ \E pc \in Places \ {"reserved"} : Goto(p, pc)
      \/ session.state = "pending" /\ Pay(p, session.inv)
      \/ \E i \in Invoice : procs' = [procs EXCEPT ![p].pc = "claiming", ![p].inv = i]
      \/ \E cost \in Costs : procs' = [procs EXCEPT ![p].pc = "rechecked", ![p].cost = cost]
  <2>1. {"fetching", "loading", "begun", "waiting", "proving", "releasing", "hashed",
         "lost", "presenting", "completing"} \subseteq Places \ {"reserved"}
    BY DEF Places
  <2> QED BY <2>1 DEF Step, Start, Challenged, Claim, Load, Begin, CheckBefore, Proved,
                      Unprepared, Release, Answered, MarkUnknown, MarkSubmitted, Confirmed,
                      Presented, Complete, GiveUp, Die
<1>3. procs'[p].pc # "reserved" /\ \A q \in Proc \ {p} : procs'[q] = procs[q]
  BY <1>0, <1>2 DEF Stop, Stopped, Goto, Pay, ProcState
<1> QED BY <1>1, <1>3, BudgetFrame

LEMMA BudgetStep ==
  ASSUME TypeInv, JournalInv, BudgetInv, [Next]_vars PROVE BudgetInv'
<1>1. ASSUME NEW p \in Proc, Step(p) \/ Die(p) PROVE BudgetInv'
  BY <1>1, BudgetReserve, BudgetSend, BudgetOthers
<1>2. CASE \/ Recover \/ ClearPending \/ Acknowledge \/ UNCHANGED vars
           \/ \E i \in Invoice : Reconcile(i) \/ Execute(i)
  <2>1. UNCHANGED <<clock, reserved, sent, spent, procs>>
    BY <1>2 DEF Recover, ClearPending, Acknowledge, Reconcile, Execute, vars, tables, history
  <2> QED BY <2>1, BudgetFrame
<1>3. CASE Tick
  <2>1. UNCHANGED <<reserved, sent, spent, procs>>
    BY <1>3 DEF Tick, tables, history
  <2>2. \A p \in Proc : procs[p].pc # "reserved"
    BY <1>3 DEF Tick, At
  <2> QED BY <2>1, <2>2, BudgetFrame
<1> QED BY <1>1, <1>2, <1>3 DEF Next

LEMMA BudgetAlways == Spec => []BudgetInv
<1>1. TypeInv /\ JournalInv /\ BudgetInv /\ [Next]_vars => BudgetInv'
  BY BudgetStep
<1> QED BY <1>1, BudgetInit, JournalAlways, PTL DEF Spec

\* What leaves the wallet on a day stays within the limit of that day, however many
\* processes prepare payments at once: each reserves its cost in one transaction with
\* the comparison, and sends before the day can change.
THEOREM SpendWithinLimitAlways == Spec => []SpendWithinLimit
<1>1. TypeInv /\ JournalInv /\ BudgetInv => SpendWithinLimit
  <2> SUFFICES ASSUME TypeInv, JournalInv, BudgetInv, NEW d \in Days
               PROVE  spent[d] <= DailyLimit
    BY DEF SpendWithinLimit
  <2>1. Units(SentOn(d)) \subseteq Units(ReservedOn(d))
    BY SentIsReserved, UnitsMonotone, UnitsAreIn
  <2>2. IsFiniteSet(Units(ReservedOn(d))) /\ SpentOn(d) <= DailyLimit
    BY DEF BudgetInv
  <2>3. /\ Cardinality(Units(SentOn(d))) <= Cardinality(Units(ReservedOn(d)))
        /\ IsFiniteSet(Units(SentOn(d)))
    BY <2>1, <2>2, FS_Subset
  <2>4. Cardinality(Units(SentOn(d))) \in Nat /\ Cardinality(Units(ReservedOn(d))) \in Nat
    BY <2>2, <2>3, FS_CardinalityType
  <2> QED BY <2>2, <2>3, <2>4, CostAssumption DEF BudgetInv, SpentOn, CostAssumption
<1> QED BY <1>1, JournalAlways, BudgetAlways, PTL
-----------------------------------------------------------------------------
(* The payment session, when it is acknowledged only between payer runs.   *)

\* Places of a process that works on a payment or has made it.
Busy == {"proving", "rechecked", "reserved", "sending", "lost", "hashed", "presenting",
         "completing"}

\* An invoice that was not paid and never will be: it is so long expired that the
\* payer's own check refuses it.
Dead(i) ==
  /\ expires[i] > 0 /\ clock > expires[i] + Skew
  /\ NotPaid(i)
  /\ \A p \in Proc : procs[p].inv = i => procs[p].pc \notin Busy

\* No process gets to work on a dead invoice.
LEMMA DeadPlaces ==
  ASSUME TypeInv, JournalInv, NEW i \in Invoice, Dead(i), NEW p \in Proc, Step(p) \/ Die(p),
         NEW q \in Proc, procs'[q].inv = i
  PROVE  procs'[q].pc \notin Busy
<1>0. /\ RestTypes /\ procs \in [Proc -> ProcState] /\ \A r \in Proc : procs[r].pc \in Places
      /\ {"fetching", "claiming", "loading", "begun", "waiting", "proving", "releasing",
          "reserved", "sending", "hashed", "lost", "presenting", "completing"}
           \subseteq Places
  BY TypeInvParts DEF ProcState, Places
<1>a. \A r \in Proc : procs[r].inv = i => procs[r].pc \notin Busy
  BY DEF Dead
<1>1. CASE Start(p) \/ Load(p)
  <2>1. CASE Stop(p)
    BY <1>0, <1>a, <2>1, StopFacts DEF Busy
  <2>2. CASE Goto(p, "fetching")
    BY <1>0, <1>a, <2>2, GotoFacts DEF Busy
  <2>3. CASE session.state = "pending" /\ Pay(p, session.inv)
    <3>1. session.inv \in Invoice
      BY <1>0, <2>3 DEF RestTypes
    <3> QED BY <1>0, <1>a, <2>3, <3>1, PayFacts DEF Busy
  <2> QED BY <1>1, <2>1, <2>2, <2>3 DEF Start, Load
<1>2. CASE \E j \in Invoice, offset \in Offsets : Challenged(p, j, offset)
  <2>1. PICK j \in Invoice, offset \in Offsets : Challenged(p, j, offset)
    BY <1>2
  <2>2. procs'[p].pc = "claiming" /\ \A r \in Proc \ {p} : procs'[r] = procs[r]
    BY <1>0, <2>1, TakeFacts DEF Challenged, Places
  <2> QED BY <1>a, <2>2 DEF Busy
<1>3. CASE CheckBefore(p)
  <2>1. CASE Goto(p, "releasing")
    BY <1>0, <1>a, <2>1, GotoFacts DEF Busy
  <2>2. CASE Goto(p, "proving") /\ Valid(procs[p].inv)
    <3>1. ~Valid(i)
      <4>1. clock \in Nat /\ expires[i] \in Nat /\ Skew \in Nat /\ MinValidity \in Nat \ {0}
        BY <1>0, TimeAssumption DEF RestTypes, TimeAssumption
      <4>2. clock > expires[i] + Skew
        BY DEF Dead
      <4> QED BY <4>1, <4>2 DEF Valid
    <3>2. /\ procs'[p].inv = procs[p].inv
          /\ \A r \in Proc \ {p} : procs'[r] = procs[r]
      BY <1>0, <2>2, GotoFacts
    <3> QED BY <1>a, <2>2, <3>1, <3>2
  <2> QED BY <1>3, <2>1, <2>2 DEF CheckBefore
<1>4. CASE Confirmed(p)
  <2>1. /\ procs'[p].inv = procs[p].inv
        /\ \A r \in Proc \ {p} : procs'[r] = procs[r]
    BY <1>0, <1>4, GotoFacts DEF Confirmed
  <2>2. procs[p].pc = "waiting" /\ chain[procs[p].inv] = "success"
    BY <1>4 DEF Confirmed, At
  <2>3. sent[procs[p].inv] > 0
    BY <2>2 DEF JournalInv, PlacesTruthful, Paid
  <2>4. procs[p].inv # i
    BY <2>2, <2>3 DEF Dead, NotPaid
  <2> QED BY <1>a, <2>1, <2>4
<1>5. CASE \E cost \in Costs : Proved(p, cost)
  <2>1. /\ procs'[p].inv = procs[p].inv
        /\ \A r \in Proc \ {p} : procs'[r] = procs[r]
    BY <1>0, <1>5 DEF Proved, ProcState
  <2>2. procs[p].pc \in Busy
    BY <1>5 DEF Proved, At, Busy
  <2> QED BY <1>a, <2>1, <2>2
<1>6. CASE Reserve(p) \/ Send(p) \/ Answered(p) \/ Presented(p)
  <2>1. PICK pc \in {"reserved", "sending", "hashed", "lost", "completing"} : Goto(p, pc)
    BY <1>6 DEF Reserve, Send, Answered, Presented
  <2>2. /\ procs'[p].inv = procs[p].inv
        /\ \A r \in Proc \ {p} : procs'[r] = procs[r]
    BY <1>0, <2>1, GotoFacts
  <2>3. procs[p].pc \in Busy
    BY <1>6 DEF Reserve, Send, Answered, Presented, At, Busy
  <2> QED BY <1>a, <2>2, <2>3
<1>7. CASE \/ Claim(p) \/ Begin(p) \/ Unprepared(p) \/ MarkSubmitted(p)
           \/ Release(p) \/ MarkUnknown(p) \/ Complete(p) \/ GiveUp(p) \/ Die(p)
  <2>1. \/ Stop(p)
        \/ \E pc \in {"loading", "begun", "waiting", "releasing"} : Goto(p, pc)
    BY <1>7 DEF Claim, Begin, Unprepared, MarkSubmitted, Release, MarkUnknown, Complete,
                GiveUp, Die
  <2>2. CASE Stop(p)
    BY <1>0, <1>a, <2>2, StopFacts DEF Busy
  <2>3. CASE \E pc \in {"loading", "begun", "waiting", "releasing"} : Goto(p, pc)
    <3>1. PICK pc \in {"loading", "begun", "waiting", "releasing"} : Goto(p, pc)
      BY <2>3
    <3>2. procs'[p].pc = pc /\ \A r \in Proc \ {p} : procs'[r] = procs[r]
      BY <1>0, <3>1, GotoFacts
    <3> QED BY <1>a, <3>2 DEF Busy
  <2> QED BY <2>1, <2>2, <2>3
<1> QED BY <1>1, <1>2, <1>3, <1>4, <1>5, <1>6, <1>7 DEF Step

\* What is dead stays dead: its expiry and its payments do not change any more.
LEMMA DeadKept ==
  ASSUME TypeInv, TypeInv', JournalInv, NEW i \in Invoice, Dead(i), [Next]_vars
  PROVE  Dead(i)'
<1>0. RestTypes /\ RestTypes'
  BY TypeInvParts
<1>a. /\ expires[i] > 0 /\ clock > expires[i] + Skew /\ NotPaid(i)
      /\ \A p \in Proc : procs[p].inv = i => procs[p].pc \notin Busy
  BY DEF Dead
<1>1. ASSUME NEW p \in Proc, Step(p) \/ Die(p) PROVE Dead(i)'
  <2>1. \A q \in Proc : procs'[q].inv = i => procs'[q].pc \notin Busy
    BY <1>1, DeadPlaces
  <2>2. expires'[i] = expires[i] /\ clock' = clock
    <3>1. CASE \E j \in Invoice, offset \in Offsets : Challenged(p, j, offset)
      <4>1. PICK j \in Invoice, offset \in Offsets : Challenged(p, j, offset)
        BY <3>1
      <4>2. j # i
        BY <1>0, <1>a, <4>1 DEF Challenged, RestTypes
      <4> QED BY <1>0, <4>1, <4>2 DEF Challenged, RestTypes
    <3>2. CASE ~ \E j \in Invoice, offset \in Offsets : Challenged(p, j, offset)
      BY <1>1, <3>2 DEF Step, Start, Claim, Load, Begin, CheckBefore, Proved, Unprepared,
                        Reserve, Release, Send, Answered, MarkUnknown, MarkSubmitted,
                        Confirmed, Presented, Complete, GiveUp, Die
    <3> QED BY <3>1, <3>2
  <2>3. chain'[i] = chain[i] /\ sent'[i] = sent[i]
    <3>1. CASE Send(p)
      <4>1. procs[p].inv # i
        BY <1>a, <3>1 DEF Send, At, Busy
      <4> QED BY <1>0, <3>1, <4>1 DEF Send, RestTypes
    <3>2. CASE ~Send(p)
      BY <1>1, <3>2 DEF Step, Start, Challenged, Claim, Load, Begin, CheckBefore, Proved,
                        Unprepared, Reserve, Release, Answered, MarkUnknown, MarkSubmitted,
                        Confirmed, Presented, Complete, GiveUp, Die, history
    <3> QED BY <3>1, <3>2
  <2> QED BY <1>a, <2>1, <2>2, <2>3 DEF Dead, NotPaid
<1>2. CASE \/ Recover \/ ClearPending \/ Acknowledge \/ UNCHANGED vars
           \/ \E j \in Invoice : Reconcile(j)
  <2>1. UNCHANGED <<expires, clock, chain, sent, procs>>
    BY <1>2 DEF Recover, ClearPending, Acknowledge, Reconcile, vars, history
  <2> QED BY <1>a, <2>1 DEF Dead, NotPaid
<1>3. CASE Tick
  <2>1. UNCHANGED <<expires, chain, sent, procs>> /\ clock' = clock + 1
    BY <1>3 DEF Tick, history
  <2>2. clock' > expires[i] + Skew
    BY <1>0, <1>a, <2>1, TimeAssumption DEF RestTypes, TimeAssumption
  <2> QED BY <1>a, <2>1, <2>2 DEF Dead, NotPaid
<1>4. CASE \E j \in Invoice : Execute(j)
  <2>1. PICK j \in Invoice : Execute(j)
    BY <1>4
  <2>2. j # i
    BY <1>a, <2>1 DEF Execute, NotPaid
  <2>3. chain'[i] = chain[i]
    BY <1>0, <2>1, <2>2 DEF Execute, RestTypes
  <2>4. UNCHANGED <<expires, clock, sent, procs>>
    BY <2>1 DEF Execute, history
  <2> QED BY <1>a, <2>3, <2>4 DEF Dead, NotPaid
<1> QED BY <1>1, <1>2, <1>3, <1>4 DEF Next

\* Places of a process that has taken up the payment of the session.
Holding == {"starting"} \cup Owning \cup Paid

ExpiriesKnown ==
  /\ session.inv \in Invoice => expires[session.inv] > 0
  /\ \A p \in Proc : procs[p].pc \notin {"stopped", "fetching"} => expires[procs[p].inv] > 0

HoldersPaySession ==
  \A p \in Proc :
    procs[p].pc \in Holding => session.inv = procs[p].inv \/ procs[p].inv \in cleared

CompletedByOwn == session.state = "completed" => session.result = session.inv

RecoveryOfSession ==
  recovery # NoInvoice => session.state = "pending" /\ session.inv = recovery

ClearedDead ==
  /\ \A i \in cleared : Dead(i)
  /\ recovery # NoInvoice => Dead(recovery)

\* Whoever pays, pays the invoice of the session, unless that one is dead; only a
\* dead invoice's session is being cleared or was.
SessionInv ==
  /\ ExpiriesKnown /\ HoldersPaySession /\ CompletedByOwn
  /\ RecoveryOfSession /\ ClearedDead /\ RetryResumesPayment

LEMMA ClearedDeadKept ==
  ASSUME TypeInv, TypeInv', JournalInv, ClearedDead, [Next]_vars,
         cleared' \subseteq cleared \cup ({recovery} \ {NoInvoice}),
         recovery' \in {recovery, NoInvoice}
  PROVE  ClearedDead'
<1>1. \A i \in cleared \cup ({recovery} \ {NoInvoice}) : i \in Invoice /\ Dead(i)
  BY TypeInvParts DEF ClearedDead, RestTypes
<1>2. \A i \in cleared \cup ({recovery} \ {NoInvoice}) : Dead(i)'
  BY <1>1, DeadKept
<1> QED BY <1>2 DEF ClearedDead

\* A step that leaves session, expiries and payments alone and moves at most one
\* process, which takes up nothing but the invoice of the session.
LEMMA SessionFrame ==
  ASSUME TypeInv, TypeInv', JournalInv, SessionInv, [Next]_vars, NEW p \in Proc,
         UNCHANGED <<expires, session, recovery, chain, sent, cleared, acked>>,
         \A q \in Proc \ {p} : procs'[q] = procs[q],
         \/ procs'[p].pc \in {"stopped", "fetching"}
         \/ procs'[p].inv = session.inv /\ session.inv \in Invoice
         \/ /\ procs'[p].inv = procs[p].inv
            /\ procs[p].pc \notin {"stopped", "fetching"}
            /\ procs'[p].pc \in Holding => procs[p].pc \in Holding
  PROVE  SessionInv'
<1>0. /\ ExpiriesKnown /\ HoldersPaySession /\ CompletedByOwn
      /\ RecoveryOfSession /\ ClearedDead /\ RetryResumesPayment
  BY DEF SessionInv
<1>1. ExpiriesKnown'
  BY <1>0 DEF ExpiriesKnown
<1>2. HoldersPaySession'
  <2>1. "stopped" \notin Holding /\ "fetching" \notin Holding
    BY DEF Holding, Owning, Paid
  <2> QED BY <1>0, <2>1 DEF HoldersPaySession
<1>3. CompletedByOwn' /\ RecoveryOfSession'
  BY <1>0 DEF CompletedByOwn, RecoveryOfSession
<1>4. ClearedDead'
  BY <1>0, ClearedDeadKept
<1>5. RetryResumesPayment'
  BY <1>0 DEF RetryResumesPayment
<1> QED BY <1>1, <1>2, <1>3, <1>4, <1>5 DEF SessionInv

\* The steps of SessionFrame.
LEMMA SessionMoves ==
  ASSUME TypeInv, TypeInv', JournalInv, SessionInv, [Next]_vars, NEW p \in Proc,
         \/ Start(p) \/ Load(p) \/ Begin(p) \/ CheckBefore(p)
         \/ \E cost \in Costs : Proved(p, cost)
         \/ Unprepared(p) \/ Reserve(p) \/ Release(p) \/ Answered(p) \/ MarkUnknown(p)
         \/ MarkSubmitted(p) \/ Confirmed(p) \/ Presented(p) \/ GiveUp(p) \/ Die(p)
  PROVE  SessionInv'
<1>0. /\ RestTypes /\ procs \in [Proc -> ProcState]
      /\ {"fetching", "begun", "waiting", "proving", "releasing", "reserved", "hashed",
          "lost", "presenting", "completing"} \subseteq Places
  BY TypeInvParts DEF Places
<1>1. UNCHANGED <<expires, session, recovery, chain, sent, cleared, acked>>
  BY DEF Start, Load, Begin, CheckBefore, Proved, Unprepared, Reserve, Release, Answered,
         MarkUnknown, MarkSubmitted, Confirmed, Presented, GiveUp, Die, tables, history
<1>2. \/ Stop(p) \/ Goto(p, "fetching")
      \/ session.state = "pending" /\ Pay(p, session.inv)
      \/ /\ \E pc \in {"begun", "waiting", "proving", "releasing", "reserved", "hashed",
                       "lost", "presenting", "completing"} : Goto(p, pc)
         /\ procs[p].pc \in {"starting", "begun", "proving", "rechecked", "sending",
                             "hashed", "waiting", "presenting"}
      \/ \E cost \in Costs : Proved(p, cost)
  BY DEF Start, Load, Begin, CheckBefore, Unprepared, Reserve, Release, Answered,
         MarkUnknown, MarkSubmitted, Confirmed, Presented, GiveUp, Die, At
<1>3. CASE Stop(p)
  BY <1>0, <1>1, <1>3, StopFacts, SessionFrame
<1>4. CASE Goto(p, "fetching")
  BY <1>0, <1>1, <1>4, GotoFacts, SessionFrame
<1>5. CASE session.state = "pending" /\ Pay(p, session.inv)
  <2>1. session.inv \in Invoice
    BY <1>0, <1>5 DEF RestTypes
  <2> QED BY <1>0, <1>1, <1>5, <2>1, PayFacts, SessionFrame
<1>6. CASE /\ \E pc \in {"begun", "waiting", "proving", "releasing", "reserved", "hashed",
                         "lost", "presenting", "completing"} : Goto(p, pc)
           /\ procs[p].pc \in {"starting", "begun", "proving", "rechecked", "sending",
                               "hashed", "waiting", "presenting"}
  <2>1. PICK pc \in {"begun", "waiting", "proving", "releasing", "reserved", "hashed",
                     "lost", "presenting", "completing"} : Goto(p, pc)
    BY <1>6
  <2>2. procs'[p].inv = procs[p].inv /\ \A q \in Proc \ {p} : procs'[q] = procs[q]
    BY <1>0, <2>1, GotoFacts
  <2>3. procs[p].pc \in Holding /\ procs[p].pc \notin {"stopped", "fetching"}
    BY <1>6 DEF Holding, Owning, Paid
  <2> QED BY <1>1, <2>2, <2>3, SessionFrame
<1>7. CASE \E cost \in Costs : Proved(p, cost)
  <2>0. PICK cost \in Costs : procs' = [procs EXCEPT ![p].pc = "rechecked", ![p].cost = cost]
    BY <1>7 DEF Proved
  <2>1. procs'[p].inv = procs[p].inv /\ \A q \in Proc \ {p} : procs'[q] = procs[q]
    BY <1>0, <2>0 DEF ProcState
  <2>2. procs[p].pc \in Holding /\ procs[p].pc \notin {"stopped", "fetching"}
    BY <1>7 DEF Proved, At, Holding, Owning
  <2> QED BY <1>1, <2>1, <2>2, SessionFrame
<1> QED BY <1>2, <1>3, <1>4, <1>5, <1>6, <1>7

\* A fresh invoice is nobody's yet.
LEMMA SessionChallenged ==
  ASSUME TypeInv, TypeInv', JournalInv, SessionInv, [Next]_vars, NEW p \in Proc,
         NEW i \in Invoice, NEW offset \in Offsets, Challenged(p, i, offset)
  PROVE  SessionInv'
<1>0. /\ RestTypes /\ RestTypes' /\ procs \in [Proc -> ProcState]
      /\ ExpiriesKnown /\ HoldersPaySession /\ CompletedByOwn
      /\ RecoveryOfSession /\ ClearedDead /\ RetryResumesPayment
  BY TypeInvParts DEF SessionInv
<1>1. /\ procs'[p].pc = "claiming" /\ procs'[p].inv = i
      /\ \A q \in Proc \ {p} : procs'[q] = procs[q]
  BY <1>0, TakeFacts DEF Challenged, Places
<1>2. UNCHANGED <<session, recovery, chain, sent, cleared, acked>>
  BY DEF Challenged, tables, history
<1>3. /\ expires[i] = 0 /\ expires'[i] > 0
      /\ \A j \in Invoice \ {i} : expires'[j] = expires[j]
  <2>1. offset \in Nat /\ offset > 0 /\ clock \in Nat
    BY <1>0, TimeAssumption DEF RestTypes, TimeAssumption
  <2> QED BY <1>0, <2>1 DEF Challenged, RestTypes
<1>4. ExpiriesKnown'
  <2>1. \A q \in Proc : procs[q].pc \notin {"stopped", "fetching"} => procs[q].inv \in Invoice
    BY TypeInvParts DEF ProcTypes
  <2> QED BY <1>0, <1>1, <1>2, <1>3, <2>1 DEF ExpiriesKnown
<1>5. HoldersPaySession'
  BY <1>0, <1>1, <1>2 DEF HoldersPaySession, Holding, Owning, Paid
<1>6. CompletedByOwn' /\ RecoveryOfSession' /\ RetryResumesPayment'
  BY <1>0, <1>2 DEF CompletedByOwn, RecoveryOfSession, RetryResumesPayment
<1>7. ClearedDead'
  BY <1>0, <1>2, ClearedDeadKept
<1> QED BY <1>4, <1>5, <1>6, <1>7 DEF SessionInv

\* A session is claimed only when there is none: then no invoice is being paid.
LEMMA SessionClaim ==
  ASSUME TypeInv, TypeInv', JournalInv, SessionInv, [Next]_vars, NEW p \in Proc, Claim(p)
  PROVE  SessionInv'
<1> DEFINE i == procs[p].inv
<1>0. /\ RestTypes /\ procs \in [Proc -> ProcState] /\ ProcTypes
      /\ ExpiriesKnown /\ HoldersPaySession /\ CompletedByOwn
      /\ RecoveryOfSession /\ ClearedDead /\ RetryResumesPayment
  BY TypeInvParts DEF SessionInv
<1>1. /\ procs'[p].pc = "loading" /\ procs'[p].inv = i
      /\ \A q \in Proc \ {p} : procs'[q] = procs[q]
  BY <1>0, GotoFacts DEF Claim, Places
<1>2. UNCHANGED <<expires, recovery, chain, sent, cleared, acked>>
  BY DEF Claim, history
<1>3. CASE session.state = "none"
  <2>1. session' = Pending(i) /\ session.inv = NoInvoice /\ i \in Invoice /\ expires[i] > 0
    BY <1>0, <1>3 DEF Claim, At, ProcTypes, RestTypes, ExpiriesKnown
  <2>2. session'.inv = i /\ session'.state = "pending"
    BY <2>1 DEF Pending
  <2>3. ExpiriesKnown'
    BY <1>0, <1>1, <1>2, <2>1, <2>2 DEF ExpiriesKnown
  <2>4. HoldersPaySession'
    <3>1. \A q \in Proc : procs[q].pc \in Holding => procs[q].inv \in Invoice
      BY <1>0 DEF ProcTypes, Holding, Owning, Paid
    <3>2. \A q \in Proc : procs[q].pc \in Holding => procs[q].inv \in cleared
      BY <1>0, <2>1, <3>1, ModeAssumption DEF HoldersPaySession, ModeAssumption
    <3> QED BY <1>1, <1>2, <3>2 DEF HoldersPaySession, Holding, Owning, Paid
  <2>5. CompletedByOwn' /\ RecoveryOfSession'
    BY <1>0, <1>2, <1>3, <2>2 DEF CompletedByOwn, RecoveryOfSession
  <2>6. RetryResumesPayment'
    <3>1. \A j \in Invoice : ~(sent[j] > 0 /\ chain[j] # "reverted" /\ j \notin acked)
      BY <1>0, <2>1, ModeAssumption DEF RetryResumesPayment, ModeAssumption
    <3> QED BY <1>2, <3>1 DEF RetryResumesPayment
  <2>7. ClearedDead'
    BY <1>0, <1>2, ClearedDeadKept
  <2> QED BY <2>3, <2>4, <2>5, <2>6, <2>7 DEF SessionInv
<1>4. CASE session.state # "none"
  <2>1. UNCHANGED session /\ procs[p].pc = "claiming"
    BY <1>4 DEF Claim, At
  <2> QED BY <1>1, <1>2, <2>1, SessionFrame DEF Holding, Owning, Paid
<1> QED BY <1>3, <1>4

\* A process that made a payment made that of the session.
LEMMA PayerOfSession ==
  ASSUME TypeInv, SessionInv, NEW p \in Proc, procs[p].pc \in Busy
  PROVE  procs[p].inv \in Invoice /\ session.inv = procs[p].inv
<1>1. procs[p].inv \in Invoice
  BY TypeInvParts DEF ProcTypes, Busy
<1>2. procs[p].inv \notin cleared
  BY DEF SessionInv, ClearedDead, Dead
<1>3. procs[p].pc \in Holding
  BY DEF Busy, Holding, Owning, Paid
<1> QED BY <1>1, <1>2, <1>3 DEF SessionInv, HoldersPaySession

LEMMA SessionComplete ==
  ASSUME TypeInv, TypeInv', JournalInv, SessionInv, [Next]_vars, NEW p \in Proc, Complete(p)
  PROVE  SessionInv'
<1> DEFINE i == procs[p].inv
<1>0. /\ RestTypes /\ procs \in [Proc -> ProcState]
      /\ ExpiriesKnown /\ HoldersPaySession /\ CompletedByOwn
      /\ RecoveryOfSession /\ ClearedDead /\ RetryResumesPayment
  BY TypeInvParts DEF SessionInv
<1>1. procs'[p].pc = "stopped" /\ \A q \in Proc \ {p} : procs'[q] = procs[q]
  BY <1>0, StopFacts DEF Complete
<1>2. UNCHANGED <<expires, recovery, chain, sent, cleared, acked>>
  BY DEF Complete, history
<1>3. procs[p].pc \in Busy
  BY DEF Complete, At, Busy
<1>4. i \in Invoice /\ session.inv = i
  BY <1>3, PayerOfSession
<1>5. CASE session.state = "pending"
  <2>1. session' = [session EXCEPT !.state = "completed", !.result = i]
    BY <1>5 DEF Complete
  <2>2. session'.state = "completed" /\ session'.result = i /\ session'.inv = i
    BY <1>0, <1>4, <2>1 DEF RestTypes
  <2>3. recovery = NoInvoice
    <3>1. recovery # i
      BY <1>0, <1>3, <1>4, ModeAssumption DEF ClearedDead, Dead, ModeAssumption
    <3> QED BY <1>0, <1>4, <3>1 DEF RecoveryOfSession
  <2>4. ExpiriesKnown' /\ HoldersPaySession'
    BY <1>0, <1>1, <1>2, <1>4, <2>2 DEF ExpiriesKnown, HoldersPaySession, Holding, Owning, Paid
  <2>5. CompletedByOwn' /\ RecoveryOfSession' /\ RetryResumesPayment'
    BY <1>0, <1>2, <1>4, <2>2, <2>3
       DEF CompletedByOwn, RecoveryOfSession, RetryResumesPayment
  <2>6. ClearedDead'
    BY <1>0, <1>2, ClearedDeadKept
  <2> QED BY <2>4, <2>5, <2>6 DEF SessionInv
<1>6. CASE session.state # "pending"
  BY <1>1, <1>2, <1>6, SessionFrame DEF Complete
<1> QED BY <1>5, <1>6

\* The payment that leaves is that of the session.
LEMMA SessionSend ==
  ASSUME TypeInv, TypeInv', JournalInv, SessionInv, [Next]_vars, NEW p \in Proc, Send(p)
  PROVE  SessionInv'
<1> DEFINE i == procs[p].inv
<1>0. /\ RestTypes /\ procs \in [Proc -> ProcState]
      /\ ExpiriesKnown /\ HoldersPaySession /\ CompletedByOwn
      /\ RecoveryOfSession /\ ClearedDead /\ RetryResumesPayment
  BY TypeInvParts DEF SessionInv
<1>1. /\ procs'[p].inv = i /\ procs'[p].pc = "sending"
      /\ \A q \in Proc \ {p} : procs'[q] = procs[q]
  BY <1>0, GotoFacts DEF Send, Places
<1>2. UNCHANGED <<expires, session, recovery, chain, cleared, acked>>
      /\ sent' = [sent EXCEPT ![i] = @ + 1] /\ procs[p].pc = "reserved"
  BY DEF Send, At, tables
<1>3. i \in Invoice /\ session.inv = i
  BY <1>2, PayerOfSession DEF Busy
<1>4. ExpiriesKnown' /\ HoldersPaySession'
  BY <1>0, <1>1, <1>2 DEF ExpiriesKnown, HoldersPaySession, Holding, Owning, Paid
<1>5. CompletedByOwn' /\ RecoveryOfSession'
  BY <1>0, <1>2 DEF CompletedByOwn, RecoveryOfSession
<1>6. RetryResumesPayment'
  <2>1. \A j \in Invoice \ {i} : sent'[j] = sent[j]
    BY <1>0, <1>2 DEF RestTypes
  <2> QED BY <1>0, <1>2, <1>3, <2>1 DEF RetryResumesPayment, CompletedByOwn
<1>7. ClearedDead'
  BY <1>0, <1>2, ClearedDeadKept
<1> QED BY <1>4, <1>5, <1>6, <1>7 DEF SessionInv

\* An expired invoice without an attempt is dead: whoever paid it left an attempt.
LEMMA SessionRecover ==
  ASSUME TypeInv, TypeInv', JournalInv, SessionInv, [Next]_vars, Recover PROVE SessionInv'
<1> DEFINE i == session.inv
<1>0. /\ RestTypes /\ procs \in [Proc -> ProcState] /\ ProcTypes
      /\ ExpiriesKnown /\ HoldersPaySession /\ CompletedByOwn
      /\ RecoveryOfSession /\ ClearedDead /\ RetryResumesPayment
      /\ OwnersInProgress /\ PlacesTruthful /\ InvoicesOk
  BY TypeInvParts DEF SessionInv, JournalInv
<1>1. /\ UNCHANGED <<clock, expires, session, procs, chain, sent, cleared, acked>>
      /\ recovery' = i /\ session.state = "pending" /\ journal[i] = "none"
      /\ clock > expires[i] + Skew
  BY DEF Recover, tables, history
<1>2. i \in Invoice
  BY <1>0, <1>1 DEF RestTypes
<1>3. NotPaid(i)
  BY <1>0, <1>1, <1>2 DEF InvoicesOk, NotPaid, RestTypes
<1>4. \A p \in Proc : procs[p].inv = i => procs[p].pc \notin Busy
  <2>1. \A p \in Proc : procs[p].inv = i => procs[p].pc \notin Owning
    BY <1>0, <1>1 DEF OwnersInProgress
  <2>2. \A p \in Proc : procs[p].inv = i => procs[p].pc \notin Settled
    BY <1>0, <1>2, <1>3 DEF PlacesTruthful, NotPaid, Paid, Settled
  <2> QED BY <2>1, <2>2 DEF Busy, Owning, Settled
<1>5. Dead(i)
  BY <1>0, <1>1, <1>2, <1>3, <1>4 DEF Dead, ExpiriesKnown
<1>6. ClearedDead'
  <2>1. \A j \in cleared \cup {i} : j \in Invoice /\ Dead(j)
    BY <1>0, <1>2, <1>5 DEF ClearedDead, RestTypes
  <2>2. \A j \in cleared \cup {i} : Dead(j)'
    BY <2>1, DeadKept
  <2> QED BY <1>1, <2>2 DEF ClearedDead
<1>7. ExpiriesKnown' /\ HoldersPaySession' /\ CompletedByOwn' /\ RecoveryOfSession'
  BY <1>0, <1>1 DEF ExpiriesKnown, HoldersPaySession, CompletedByOwn, RecoveryOfSession
<1>8. RetryResumesPayment'
  BY <1>0, <1>1 DEF RetryResumesPayment
<1> QED BY <1>6, <1>7, <1>8 DEF SessionInv

\* What clearPending deletes is the session that was inspected, and that is dead.
LEMMA SessionClearPending ==
  ASSUME TypeInv, TypeInv', JournalInv, SessionInv, [Next]_vars, ClearPending
  PROVE  SessionInv'
<1>0. /\ RestTypes /\ procs \in [Proc -> ProcState] /\ ProcTypes
      /\ ExpiriesKnown /\ HoldersPaySession /\ CompletedByOwn
      /\ RecoveryOfSession /\ ClearedDead /\ RetryResumesPayment
  BY TypeInvParts DEF SessionInv
<1>1. /\ UNCHANGED <<expires, procs, chain, sent, acked>>
      /\ recovery # NoInvoice /\ recovery' = NoInvoice
  BY DEF ClearPending
<1>2. session.inv = recovery /\ recovery \in Invoice /\ NotPaid(recovery)
  BY <1>0, <1>1 DEF RecoveryOfSession, RestTypes, ClearedDead, Dead
<1>3. CASE session' = NoSession /\ cleared' = cleared \cup {session.inv}
  <2>1. session'.inv = NoInvoice /\ session'.state = "none"
    BY <1>3 DEF NoSession
  <2>2. ExpiriesKnown'
    BY <1>0, <1>1, <2>1, ModeAssumption DEF ExpiriesKnown, ModeAssumption
  <2>3. HoldersPaySession'
    BY <1>0, <1>1, <1>3 DEF HoldersPaySession
  <2>4. CompletedByOwn' /\ RecoveryOfSession'
    BY <1>1, <2>1 DEF CompletedByOwn, RecoveryOfSession
  <2>5. RetryResumesPayment'
    <3>1. \A j \in Invoice : ~(sent[j] > 0 /\ chain[j] # "reverted" /\ j \notin acked)
      BY <1>0, <1>2 DEF RetryResumesPayment, NotPaid
    <3> QED BY <1>1, <3>1 DEF RetryResumesPayment
  <2>6. ClearedDead'
    BY <1>0, <1>1, <1>2, <1>3, ClearedDeadKept
  <2> QED BY <2>2, <2>3, <2>4, <2>5, <2>6 DEF SessionInv
<1>4. CASE UNCHANGED <<session, cleared>>
  <2>1. ExpiriesKnown' /\ HoldersPaySession' /\ CompletedByOwn' /\ RecoveryOfSession'
    BY <1>0, <1>1, <1>4
       DEF ExpiriesKnown, HoldersPaySession, CompletedByOwn, RecoveryOfSession
  <2>2. RetryResumesPayment'
    BY <1>0, <1>1, <1>4 DEF RetryResumesPayment
  <2>3. ClearedDead'
    BY <1>0, <1>1, <1>4, ClearedDeadKept
  <2> QED BY <2>1, <2>2, <2>3 DEF SessionInv
<1> QED BY <1>3, <1>4 DEF ClearPending

\* Between payer runs nobody holds the session that is acknowledged.
LEMMA SessionAcknowledge ==
  ASSUME AckQuiet, TypeInv, TypeInv', JournalInv, SessionInv, [Next]_vars, Acknowledge
  PROVE  SessionInv'
<1>0. /\ RestTypes /\ ExpiriesKnown /\ CompletedByOwn
      /\ RecoveryOfSession /\ ClearedDead /\ RetryResumesPayment
  BY TypeInvParts DEF SessionInv
<1>1. /\ UNCHANGED <<expires, recovery, procs, chain, sent, cleared>>
      /\ session.state = "completed" /\ acked' = acked \cup {session.result}
      /\ session' = NoSession
      /\ \A p \in Proc : procs[p].pc = "stopped"
  BY DEF Acknowledge, At
<1>2. session'.inv = NoInvoice /\ session'.state = "none"
  BY <1>1 DEF NoSession
<1>3. ExpiriesKnown' /\ HoldersPaySession'
  BY <1>1, <1>2, ModeAssumption
     DEF ExpiriesKnown, HoldersPaySession, Holding, Owning, Paid, ModeAssumption
<1>4. CompletedByOwn' /\ RecoveryOfSession'
  BY <1>0, <1>1, <1>2 DEF CompletedByOwn, RecoveryOfSession
<1>5. RetryResumesPayment'
  BY <1>0, <1>1 DEF RetryResumesPayment
<1>6. ClearedDead'
  BY <1>0, <1>1, ClearedDeadKept
<1> QED BY <1>3, <1>4, <1>5, <1>6 DEF SessionInv

\* Steps that touch neither the session nor who holds it.
LEMMA SessionOthers ==
  ASSUME TypeInv, TypeInv', JournalInv, SessionInv, [Next]_vars,
         \/ Tick \/ UNCHANGED vars
         \/ \E i \in Invoice : Reconcile(i) \/ Execute(i)
  PROVE  SessionInv'
<1>0. /\ RestTypes /\ ExpiriesKnown /\ HoldersPaySession /\ CompletedByOwn
      /\ RecoveryOfSession /\ ClearedDead /\ RetryResumesPayment
  BY TypeInvParts DEF SessionInv
<1>1. UNCHANGED <<expires, session, recovery, procs, sent, cleared, acked>>
  BY DEF Tick, Reconcile, Execute, vars, tables, history
<1>2. \A i \in Invoice : chain[i] = "reverted" => chain'[i] = "reverted"
  BY <1>0 DEF Tick, Reconcile, Execute, vars, RestTypes
<1>3. ExpiriesKnown' /\ HoldersPaySession' /\ CompletedByOwn' /\ RecoveryOfSession'
  BY <1>0, <1>1 DEF ExpiriesKnown, HoldersPaySession, CompletedByOwn, RecoveryOfSession
<1>4. RetryResumesPayment'
  BY <1>0, <1>1, <1>2 DEF RetryResumesPayment
<1>5. ClearedDead'
  BY <1>0, <1>1, ClearedDeadKept
<1> QED BY <1>3, <1>4, <1>5 DEF SessionInv

LEMMA SessionStep ==
  ASSUME AckQuiet, TypeInv, JournalInv, SessionInv, [Next]_vars PROVE SessionInv'
<1>0. TypeInv'
  BY TypeStep
<1>1. ASSUME NEW p \in Proc, Step(p) \/ Die(p) PROVE SessionInv'
  <2>1. CASE \E i \in Invoice, offset \in Offsets : Challenged(p, i, offset)
    BY <1>0, <2>1, SessionChallenged
  <2>2. CASE Claim(p)
    BY <1>0, <2>2, SessionClaim
  <2>3. CASE Send(p)
    BY <1>0, <2>3, SessionSend
  <2>4. CASE Complete(p)
    BY <1>0, <2>4, SessionComplete
  <2>5. CASE \/ Start(p) \/ Load(p) \/ Begin(p) \/ CheckBefore(p)
             \/ \E cost \in Costs : Proved(p, cost)
             \/ Unprepared(p) \/ Reserve(p) \/ Release(p) \/ Answered(p) \/ MarkUnknown(p)
             \/ MarkSubmitted(p) \/ Confirmed(p) \/ Presented(p) \/ GiveUp(p) \/ Die(p)
    BY <1>0, <2>5, SessionMoves
  <2> QED BY <1>1, <2>1, <2>2, <2>3, <2>4, <2>5 DEF Step
<1>2. CASE Recover
  BY <1>0, <1>2, SessionRecover
<1>3. CASE ClearPending
  BY <1>0, <1>3, SessionClearPending
<1>4. CASE Acknowledge
  BY <1>0, <1>4, SessionAcknowledge
<1>5. CASE Tick \/ UNCHANGED vars \/ \E i \in Invoice : Reconcile(i) \/ Execute(i)
  BY <1>0, <1>5, SessionOthers
<1> QED BY <1>1, <1>2, <1>3, <1>4, <1>5 DEF Next

LEMMA SessionAlways == ASSUME AckQuiet PROVE Spec => []SessionInv
<1>1. Init => SessionInv
  BY ModeAssumption
     DEF Init, NoSession, Stopped, SessionInv, ExpiriesKnown, HoldersPaySession,
         CompletedByOwn, RecoveryOfSession, ClearedDead, RetryResumesPayment, Holding,
         Owning, Paid, ModeAssumption
<1>2. TypeInv /\ JournalInv /\ SessionInv /\ [Next]_vars => SessionInv'
  BY SessionStep
<1> QED BY <1>1, <1>2, JournalAlways, PTL DEF Spec

\* A payment belongs to the session until its own result was acknowledged, so a retry
\* resumes it and no second invoice of the resource is paid meanwhile: if sessions
\* are acknowledged only while no payer process runs.
THEOREM RetryResumesPaymentAlways == ASSUME AckQuiet PROVE Spec => []RetryResumesPayment
<1>1. SessionInv => RetryResumesPayment
  BY DEF SessionInv
<1> QED BY <1>1, SessionAlways, PTL

\* Under the same condition recovery, run at any moment beside payer processes,
\* clears no session whose invoice was or will be paid.
THEOREM ClearedNeverSentAlways == ASSUME AckQuiet PROVE Spec => []ClearedNeverSent
<1>1. SessionInv => ClearedNeverSent
  BY DEF SessionInv, ClearedDead, Dead, NotPaid, ClearedNeverSent
<1> QED BY <1>1, SessionAlways, PTL
-----------------------------------------------------------------------------
(* PaymentSession: what processes and tables do is one of its steps, or     *)
(* nothing.                                                                *)

\* An invoice that was paid, or whose session is over, is not a fresh one.
InvoicesAged ==
  \A i \in Invoice : sent[i] > 0 \/ i \in cleared \cup acked => expires[i] > 0

\* The invoice a process is about to claim the session for is its own discovery.
ClaimersFresh ==
  /\ \A p \in Proc : procs[p].pc = "claiming" =>
       /\ procs[p].inv \notin cleared \cup acked \cup {session.inv}
       /\ sent[procs[p].inv] = 0
  /\ \A p, q \in Proc :
       procs[p].pc = "claiming" /\ procs[q].pc = "claiming" /\ procs[p].inv = procs[q].inv
         => p = q

CompletedPaid == session.state = "completed" => sent[session.inv] > 0

FreshInv == InvoicesAged /\ ClaimersFresh /\ CompletedPaid

\* Steps that neither fetch nor claim, pay or end a session.
LEMMA FreshFrame ==
  ASSUME FreshInv, UNCHANGED <<expires, session, sent, cleared, acked>>,
         \A p \in Proc : procs'[p].pc = "claiming" => procs'[p] = procs[p]
  PROVE  FreshInv'
<1>1. InvoicesAged' /\ CompletedPaid'
  BY DEF FreshInv, InvoicesAged, CompletedPaid
<1>2. ClaimersFresh'
  BY DEF FreshInv, ClaimersFresh
<1> QED BY <1>1, <1>2 DEF FreshInv

\* An invoice that the server has just issued is unknown to everybody else.
LEMMA FreshChallenged ==
  ASSUME TypeInv, SessionInv, FreshInv, NEW p \in Proc, NEW i \in Invoice,
         NEW offset \in Offsets, Challenged(p, i, offset)
  PROVE  FreshInv'
<1>0. RestTypes /\ InvoicesAged /\ ClaimersFresh /\ CompletedPaid /\ ExpiriesKnown
  BY TypeInvParts DEF FreshInv, SessionInv
<1>1. /\ procs'[p].pc = "claiming" /\ procs'[p].inv = i
      /\ \A q \in Proc \ {p} : procs'[q] = procs[q]
  <2>1. procs' = [procs EXCEPT ![p].pc = "claiming", ![p].inv = i]
    BY DEF Challenged
  <2>2. procs \in [Proc -> ProcState] /\ "claiming" \in Places
    BY TypeInvParts DEF Places
  <2> QED BY <2>1, <2>2 DEF ProcState
<1>2. UNCHANGED <<session, sent, cleared, acked>> /\ expires[i] = 0
  BY DEF Challenged, tables, history
<1>3. expires'[i] > 0 /\ \A j \in Invoice \ {i} : expires'[j] = expires[j]
  <2>1. offset \in Nat /\ offset > 0 /\ clock \in Nat
    BY <1>0, TimeAssumption DEF RestTypes, TimeAssumption
  <2> QED BY <1>0, <2>1 DEF Challenged, RestTypes
<1>4. InvoicesAged' /\ CompletedPaid'
  BY <1>0, <1>2, <1>3 DEF InvoicesAged, CompletedPaid
<1>5. i \notin cleared \cup acked \cup {session.inv} /\ sent[i] = 0
  BY <1>0, <1>2 DEF InvoicesAged, ExpiriesKnown, RestTypes
<1>6. \A q \in Proc \ {p} : procs[q].pc = "claiming" => procs[q].inv # i
  BY <1>0, <1>2 DEF ExpiriesKnown
<1>7. ClaimersFresh'
  BY <1>0, <1>1, <1>2, <1>5, <1>6 DEF ClaimersFresh
<1> QED BY <1>4, <1>7 DEF FreshInv

LEMMA FreshClaim ==
  ASSUME TypeInv, SessionInv, FreshInv, NEW p \in Proc, Claim(p)
  PROVE  FreshInv'
<1> DEFINE i == procs[p].inv
<1>0. /\ RestTypes /\ procs \in [Proc -> ProcState] /\ procs[p].pc = "claiming"
      /\ InvoicesAged /\ ClaimersFresh /\ CompletedPaid
  BY TypeInvParts DEF FreshInv, Claim, At
<1>1. procs'[p].pc = "loading" /\ \A q \in Proc \ {p} : procs'[q] = procs[q]
  BY <1>0, GotoFacts DEF Claim, Places
<1>2. UNCHANGED <<expires, sent, cleared, acked>>
  BY DEF Claim, history
<1>3. session'.inv \in {session.inv, i} /\ (session'.state = "completed" => session' = session)
  BY DEF Claim, Pending
<1>4. InvoicesAged' /\ CompletedPaid'
  BY <1>0, <1>2, <1>3 DEF InvoicesAged, CompletedPaid
<1>5. ClaimersFresh'
  BY <1>0, <1>1, <1>2, <1>3 DEF ClaimersFresh
<1> QED BY <1>4, <1>5 DEF FreshInv

LEMMA FreshSend ==
  ASSUME TypeInv, SessionInv, FreshInv, NEW p \in Proc, Send(p)
  PROVE  FreshInv'
<1> DEFINE i == procs[p].inv
<1>0. /\ RestTypes /\ procs \in [Proc -> ProcState] /\ i \in Invoice
      /\ procs[p].pc = "reserved" /\ "sending" \in Places
      /\ InvoicesAged /\ ClaimersFresh /\ CompletedPaid /\ ExpiriesKnown
  BY TypeInvParts DEF ProcTypes, FreshInv, SessionInv, Send, At, Places
<1>1. procs'[p].pc = "sending" /\ \A q \in Proc \ {p} : procs'[q] = procs[q]
  BY <1>0, GotoFacts DEF Send
<1>2. UNCHANGED <<expires, session, cleared, acked>>
  BY DEF Send, tables
<1>3. /\ sent'[i] = sent[i] + 1 /\ sent[i] \in Nat
      /\ \A j \in Invoice \ {i} : sent'[j] = sent[j]
  BY <1>0 DEF Send, RestTypes
<1>4. session.inv = i
  BY <1>0, PayerOfSession DEF Busy
<1>5. InvoicesAged' /\ CompletedPaid'
  BY <1>0, <1>2, <1>3, <1>4 DEF InvoicesAged, ExpiriesKnown, CompletedPaid
<1>6. ClaimersFresh'
  <2>1. \A q \in Proc : procs[q].pc = "claiming" => procs[q].inv \in Invoice \ {i}
    BY <1>0, <1>4, TypeInvParts DEF ClaimersFresh, ProcTypes
  <2> QED BY <1>0, <1>1, <1>2, <1>3, <2>1 DEF ClaimersFresh
<1> QED BY <1>5, <1>6 DEF FreshInv

LEMMA FreshComplete ==
  ASSUME TypeInv, JournalInv, SessionInv, FreshInv, NEW p \in Proc, Complete(p)
  PROVE  FreshInv'
<1> DEFINE i == procs[p].inv
<1>0. /\ RestTypes /\ procs \in [Proc -> ProcState] /\ procs[p].pc = "completing"
      /\ InvoicesAged /\ ClaimersFresh /\ CompletedPaid
  BY TypeInvParts DEF FreshInv, Complete, At
<1>1. procs'[p].pc = "stopped" /\ \A q \in Proc \ {p} : procs'[q] = procs[q]
  BY <1>0, StopFacts DEF Complete
<1>2. UNCHANGED <<expires, sent, cleared, acked>>
  BY DEF Complete, history
<1>3. session.inv = i /\ sent[i] > 0
  BY <1>0, PayerOfSession DEF Busy, JournalInv, PlacesTruthful, Paid
<1>4. session'.inv = session.inv
  BY <1>0 DEF Complete, RestTypes
<1>5. InvoicesAged' /\ CompletedPaid'
  BY <1>0, <1>2, <1>3, <1>4 DEF InvoicesAged, CompletedPaid
<1>6. ClaimersFresh'
  BY <1>0, <1>1, <1>2, <1>4 DEF ClaimersFresh
<1> QED BY <1>5, <1>6 DEF FreshInv

\* A session that ends leaves its invoice among the cleared or acknowledged ones, to
\* which no claimer's invoice belongs.
LEMMA FreshEnd ==
  ASSUME TypeInv, SessionInv, FreshInv, ClearPending \/ Acknowledge
  PROVE  FreshInv'
<1>0. /\ RestTypes /\ InvoicesAged /\ ClaimersFresh /\ CompletedPaid
      /\ ExpiriesKnown /\ CompletedByOwn
  BY TypeInvParts DEF FreshInv, SessionInv
<1>1. UNCHANGED <<expires, sent, procs>>
  BY DEF ClearPending, Acknowledge
<1>2. \A p \in Proc : procs[p].pc = "claiming" => procs[p].inv \in Invoice
  BY TypeInvParts DEF ProcTypes
<1>3. CASE UNCHANGED <<session, cleared, acked>>
  BY <1>1, <1>3, FreshFrame
<1>4. CASE /\ session' = NoSession
           /\ session.inv \in Invoice
           /\ cleared' \cup acked' = cleared \cup acked \cup {session.inv}
  <2>1. session'.inv = NoInvoice /\ session'.state = "none"
    BY <1>4 DEF NoSession
  <2>2. InvoicesAged' /\ CompletedPaid'
    BY <1>0, <1>1, <1>4, <2>1 DEF InvoicesAged, CompletedPaid, ExpiriesKnown
  <2>3. ClaimersFresh'
    BY <1>0, <1>1, <1>2, <1>4, <2>1, ModeAssumption DEF ClaimersFresh, ModeAssumption
  <2> QED BY <2>2, <2>3 DEF FreshInv
<1> QED BY <1>0, <1>3, <1>4 DEF ClearPending, Acknowledge, RestTypes, CompletedByOwn

\* Every other step of a process ends in a place other than "claiming".
LEMMA FreshOthers ==
  ASSUME TypeInv, FreshInv, NEW p \in Proc,
         \/ Start(p) \/ Load(p) \/ Begin(p) \/ CheckBefore(p)
         \/ \E cost \in Costs : Proved(p, cost)
         \/ Unprepared(p) \/ Reserve(p) \/ Release(p) \/ Answered(p) \/ MarkUnknown(p)
         \/ MarkSubmitted(p) \/ Confirmed(p) \/ Presented(p) \/ GiveUp(p) \/ Die(p)
  PROVE  FreshInv'
<1>0. procs \in [Proc -> ProcState]
  BY TypeInvParts
<1>1. UNCHANGED <<expires, session, sent, cleared, acked>>
  BY DEF Start, Load, Begin, CheckBefore, Proved, Unprepared, Reserve, Release, Answered,
         MarkUnknown, MarkSubmitted, Confirmed, Presented, GiveUp, Die, tables, history
<1>2. \/ Stop(p)
      \/ \E pc \in Places \ {"claiming"} : Goto(p, pc)
      \/ session.state = "pending" /\ Pay(p, session.inv)
      \/ \E cost \in Costs : procs' = [procs EXCEPT ![p].pc = "rechecked", ![p].cost = cost]
  <2>1. {"fetching", "begun", "waiting", "proving", "releasing", "reserved", "hashed",
         "lost", "presenting", "completing"} \subseteq Places \ {"claiming"}
    BY DEF Places
  <2> QED BY <2>1 DEF Start, Load, Begin, CheckBefore, Proved, Unprepared, Reserve, Release,
                      Answered, MarkUnknown, MarkSubmitted, Confirmed, Presented, GiveUp, Die
<1>3. procs'[p].pc # "claiming" /\ \A q \in Proc \ {p} : procs'[q] = procs[q]
  BY <1>0, <1>2 DEF Stop, Stopped, Goto, Pay, ProcState
<1> QED BY <1>1, <1>3, FreshFrame

LEMMA FreshStep ==
  ASSUME TypeInv, JournalInv, SessionInv, FreshInv, [Next]_vars PROVE FreshInv'
<1>1. ASSUME NEW p \in Proc, Step(p) \/ Die(p) PROVE FreshInv'
  <2>1. CASE \E i \in Invoice, offset \in Offsets : Challenged(p, i, offset)
    BY <2>1, FreshChallenged
  <2>2. CASE Claim(p) \/ Send(p) \/ Complete(p)
    BY <2>2, FreshClaim, FreshSend, FreshComplete
  <2>3. CASE \/ Start(p) \/ Load(p) \/ Begin(p) \/ CheckBefore(p)
             \/ \E cost \in Costs : Proved(p, cost)
             \/ Unprepared(p) \/ Reserve(p) \/ Release(p) \/ Answered(p) \/ MarkUnknown(p)
             \/ MarkSubmitted(p) \/ Confirmed(p) \/ Presented(p) \/ GiveUp(p) \/ Die(p)
    BY <2>3, FreshOthers
  <2> QED BY <1>1, <2>1, <2>2, <2>3 DEF Step
<1>2. CASE ClearPending \/ Acknowledge
  BY <1>2, FreshEnd
<1>3. CASE \/ Recover \/ Tick \/ UNCHANGED vars
           \/ \E i \in Invoice : Reconcile(i) \/ Execute(i)
  <2>1. UNCHANGED <<expires, session, sent, cleared, acked, procs>>
    BY <1>3 DEF Recover, Tick, Reconcile, Execute, vars, tables, history
  <2> QED BY <2>1, FreshFrame
<1> QED BY <1>1, <1>2, <1>3 DEF Next

LEMMA FreshAlways == ASSUME AckQuiet PROVE Spec => []FreshInv
<1>1. Init => FreshInv
  BY DEF Init, NoSession, Stopped, FreshInv, InvoicesAged, ClaimersFresh, CompletedPaid
<1>2. TypeInv /\ JournalInv /\ SessionInv /\ FreshInv /\ [Next]_vars => FreshInv'
  BY FreshStep
<1> QED BY <1>1, <1>2, JournalAlways, SessionAlways, PTL DEF Spec

\* What PaymentSession does not see.
LEMMA PromiseStutter ==
  ASSUME UNCHANGED <<session, chain, sent, spent, cleared, acked>>
  PROVE  UNCHANGED Promise!vars
BY DEF Promise!vars

\* A claim opens a fresh invoice, or finds another one open.
LEMMA PromiseOpen ==
  ASSUME TypeInv, FreshInv, NEW p \in Proc, Claim(p)
  PROVE  (\E i \in Invoice : Promise!Open(i)) \/ UNCHANGED Promise!vars
<1> DEFINE i == procs[p].inv
<1>0. RestTypes /\ i \in Invoice
  BY TypeInvParts DEF ProcTypes, Claim, At
<1>1. UNCHANGED <<chain, sent, spent, cleared, acked>>
  BY DEF Claim, history
<1>2. CASE session.state = "none"
  <2>1. session' = Pending(i) /\ session.inv = NoInvoice
    BY <1>0, <1>2 DEF Claim, RestTypes
  <2>2. session'.inv = i /\ session'.state = "pending"
    BY <2>1 DEF Pending
  <2>3. i \notin cleared \cup acked /\ sent[i] = 0
    BY DEF FreshInv, ClaimersFresh, Claim, At
  <2>4. Promise!Open(i)
    BY <1>0, <1>1, <1>2, <2>1, <2>2, <2>3 DEF Promise!Open
  <2> QED BY <1>0, <2>4
<1>3. CASE session.state # "none"
  BY <1>1, <1>3, PromiseStutter DEF Claim
<1> QED BY <1>2, <1>3

\* What is sent is the payment of the open invoice, its first, and fits the day.
LEMMA PromisePay ==
  ASSUME TypeInv, JournalInv, SessionInv, FreshInv, SpendWithinLimit',
         NEW p \in Proc, Send(p)
  PROVE  \E d \in Days, cost \in Costs : Promise!Pay(d, cost)
<1> DEFINE i == procs[p].inv
<1>0. /\ RestTypes /\ i \in Invoice /\ procs[p].pc = "reserved"
      /\ procs[p].cost \in Costs
  BY TypeInvParts DEF ProcTypes, Send, At
<1>1. Day \in Days
  BY <1>0, DayInDays DEF RestTypes
<1>2. session.inv = i /\ sent[i] = 0
  BY <1>0, PayerOfSession DEF Busy, JournalInv, PlacesTruthful
<1>3. session.state # "completed"
  BY <1>2 DEF FreshInv, CompletedPaid
<1>4. /\ UNCHANGED <<session, chain, cleared, acked>>
      /\ spent' = [spent EXCEPT ![Day] = @ + procs[p].cost]
      /\ sent' = [sent EXCEPT ![i] = @ + 1]
  BY DEF Send, tables
<1>5. spent[Day] + procs[p].cost <= DailyLimit
  <2>1. spent'[Day] = spent[Day] + procs[p].cost
    BY <1>0, <1>1, <1>4 DEF RestTypes
  <2> QED BY <1>1, <2>1 DEF SpendWithinLimit
<1>6. {j \in Invoice : sent[j] > 0}' = {j \in Invoice : sent[j] > 0} \cup {i}
  BY <1>0, <1>2, <1>4 DEF RestTypes
<1>7. PICK d \in Days : d = Day
  BY <1>1
<1>8. PICK cost \in Costs : cost = procs[p].cost
  BY <1>0
<1>9. Promise!Pay(d, cost)
  BY <1>0, <1>2, <1>3, <1>4, <1>5, <1>6, <1>7, <1>8 DEF Promise!Pay
<1> QED BY <1>9

\* A pending session is completed by the process whose payment of it succeeded.
LEMMA PromiseAnswer ==
  ASSUME TypeInv, JournalInv, SessionInv, NEW p \in Proc, Complete(p)
  PROVE  Promise!Answer \/ UNCHANGED Promise!vars
<1> DEFINE i == procs[p].inv
<1>0. RestTypes /\ procs[p].pc = "completing"
  BY TypeInvParts DEF Complete, At
<1>1. i \in Invoice /\ session.inv = i /\ sent[i] > 0 /\ chain[i] = "success"
  BY <1>0, PayerOfSession DEF Busy, JournalInv, PlacesTruthful, Paid, Settled
<1>2. UNCHANGED <<chain, sent, spent, cleared, acked>>
  BY DEF Complete, history
<1>3. CASE session.state = "pending"
  <2>1. session'.inv = session.inv /\ session'.state = "completed"
    BY <1>0, <1>3 DEF Complete, RestTypes
  <2> QED BY <1>1, <1>2, <1>3, <2>1 DEF Promise!Answer
<1>4. CASE session.state # "pending"
  BY <1>2, <1>4, PromiseStutter DEF Complete
<1> QED BY <1>3, <1>4

\* Recovery ends a session that took no money, the caller one whose result is read.
LEMMA PromiseEnd ==
  ASSUME TypeInv, SessionInv, ClearPending \/ Acknowledge
  PROVE  Promise!Abandon \/ Promise!Acknowledge \/ UNCHANGED Promise!vars
<1>0. /\ RestTypes /\ CompletedByOwn /\ RecoveryOfSession /\ ClearedDead
  BY TypeInvParts DEF SessionInv
<1>1. NoSession.inv = NoInvoice /\ NoSession.state = "none"
  BY DEF NoSession
<1>2. UNCHANGED <<chain, sent, spent>>
  BY DEF ClearPending, Acknowledge
<1>3. CASE ClearPending
  <2>1. session.inv = recovery /\ recovery \in Invoice /\ NotPaid(recovery)
    BY <1>0, <1>3 DEF ClearPending, RecoveryOfSession, RestTypes, ClearedDead, Dead
  <2>2. CASE UNCHANGED <<session, cleared>>
    BY <1>2, <1>3, <2>2, PromiseStutter DEF ClearPending
  <2>3. CASE /\ session.state = "pending" /\ session' = NoSession
             /\ cleared' = cleared \cup {session.inv}
    <3>1. acked' = acked /\ cleared' \cup acked' = cleared \cup acked \cup {session.inv}
      BY <1>3, <2>3 DEF ClearPending
    <3> QED BY <1>1, <1>2, <2>1, <2>3, <3>1
            DEF Promise!Abandon, Promise!Close, NotPaid
  <2> QED BY <1>3, <2>2, <2>3 DEF ClearPending
<1>4. CASE Acknowledge
  <2>1. /\ session.state = "completed" /\ session' = NoSession /\ cleared' = cleared
        /\ acked' = acked \cup {session.inv}
    BY <1>0, <1>4 DEF Acknowledge, CompletedByOwn
  <2> QED BY <1>1, <1>2, <2>1 DEF Promise!Acknowledge, Promise!Close
<1> QED BY <1>3, <1>4

LEMMA PromiseStep ==
  ASSUME TypeInv, JournalInv, SessionInv, FreshInv, SpendWithinLimit', [Next]_vars
  PROVE  [Promise!Next]_(Promise!vars)
<1>1. ASSUME NEW p \in Proc, Step(p) \/ Die(p) PROVE Promise!Next \/ UNCHANGED Promise!vars
  <2>1. CASE Claim(p)
    BY <2>1, PromiseOpen DEF Promise!Next
  <2>2. CASE Send(p)
    BY <2>2, PromisePay DEF Promise!Next
  <2>3. CASE Complete(p)
    BY <2>3, PromiseAnswer DEF Promise!Next
  <2>4. CASE ~Claim(p) /\ ~Send(p) /\ ~Complete(p)
    <3>1. UNCHANGED <<session, chain, sent, spent, cleared, acked>>
      BY <1>1, <2>4
         DEF Step, Start, Challenged, Load, Begin, CheckBefore, Proved, Unprepared, Reserve,
             Release, Answered, MarkUnknown, MarkSubmitted, Confirmed, Presented, GiveUp,
             Die, tables, history
    <3> QED BY <3>1, PromiseStutter
  <2> QED BY <2>1, <2>2, <2>3, <2>4
<1>2. CASE ClearPending \/ Acknowledge
  BY <1>2, PromiseEnd DEF Promise!Next
<1>3. CASE \E i \in Invoice : Execute(i)
  <2>1. PICK i \in Invoice : Execute(i)
    BY <1>3
  <2>2. PICK outcome \in {"success", "reverted"} : chain' = [chain EXCEPT ![i] = outcome]
    BY <2>1 DEF Execute
  <2>3. UNCHANGED <<session, sent, spent, cleared, acked>> /\ sent[i] > 0 /\ chain[i] = "none"
    BY <2>1 DEF Execute, tables, history
  <2>4. Promise!Settle(i, outcome)
    BY <2>2, <2>3 DEF Promise!Settle
  <2> QED BY <2>4 DEF Promise!Next
<1>4. CASE Recover \/ Tick \/ UNCHANGED vars \/ \E i \in Invoice : Reconcile(i)
  <2>1. UNCHANGED <<session, chain, sent, spent, cleared, acked>>
    BY <1>4 DEF Recover, Tick, Reconcile, vars, tables, history
  <2> QED BY <2>1, PromiseStutter
<1> QED BY <1>1, <1>2, <1>3, <1>4 DEF Next

\* Processes that overlap and die, the journal, the reservations, reconciliation and
\* the recovery tool add up to PaymentSession: one open invoice at a time, paid once
\* and within the day's limit, answered by its own payment, and closed only when that
\* answer was read or no payment of it can succeed any more; if sessions are
\* acknowledged only while no payer process runs.
THEOREM PayerKeepsPromise == ASSUME AckQuiet PROVE Spec => SessionPromise
<1>1. Init => Promise!Init
  BY DEF Init, NoSession, Promise!Init
<1>2. /\ TypeInv /\ JournalInv /\ SessionInv /\ FreshInv /\ SpendWithinLimit'
      /\ [Next]_vars
      => [Promise!Next]_(Promise!vars)
  BY PromiseStep
<1> QED BY <1>1, <1>2, JournalAlways, SessionAlways, FreshAlways, SpendWithinLimitAlways, PTL
        DEF Spec, SessionPromise, Promise!Spec
=============================================================================
