------------------------- MODULE PayerFundingProofs -------------------------
(***************************************************************************)
(* Proofs about PayerFunding, for every set of funding ids, amounts and    *)
(* processes, every age and validity of a proof.                           *)
(***************************************************************************)
EXTENDS PayerFunding, TLAPS
-----------------------------------------------------------------------------
(* Types. *)

ProcState == [pc : Places, id : FundingId \cup {NoId}, amount : Amount \cup {NoAmount},
              proving : Nat, valid : Nat, seen : Nat]

Attempts == [state : {"none", "in_progress", "unknown", "submitted"},
             amount : Amount \cup {NoAmount}]

\* The parts of TypeOK, before and after a step.
LEMMA TypeParts ==
  /\ TypeOK <=> /\ height \in Nat /\ journal \in [FundingId -> Attempts]
                /\ procs \in [Proc -> ProcState]
                /\ \A p \in Proc : procs[p].pc # "idle" =>
                     procs[p].id \in FundingId /\ procs[p].amount \in Amount
                /\ deposits \in [FundingId -> Seq(Amount)]
                /\ chain \in [FundingId -> {"none", "success", "reverted"}]
                /\ answered \subseteq FundingId \X Amount
  /\ TypeOK' <=> /\ height' \in Nat /\ journal' \in [FundingId -> Attempts]
                 /\ procs' \in [Proc -> ProcState]
                 /\ \A p \in Proc : procs'[p].pc # "idle" =>
                      procs'[p].id \in FundingId /\ procs'[p].amount \in Amount
                 /\ deposits' \in [FundingId -> Seq(Amount)]
                 /\ chain' \in [FundingId -> {"none", "success", "reverted"}]
                 /\ answered' \subseteq FundingId \X Amount
BY DEF TypeOK, ProcState, Attempts

\* Moving a process changes its place and nothing else.
LEMMA GotoFacts ==
  ASSUME procs \in [Proc -> ProcState], NEW p \in Proc, NEW pc \in Places, Goto(p, pc)
  PROVE  /\ procs' \in [Proc -> ProcState]
         /\ procs'[p].pc = pc /\ procs'[p].id = procs[p].id
         /\ procs'[p].amount = procs[p].amount
         /\ procs'[p].proving = procs[p].proving /\ procs'[p].valid = procs[p].valid
         /\ procs'[p].seen = procs[p].seen
         /\ \A q \in Proc \ {p} : procs'[q] = procs[q]
BY DEF Goto, ProcState

LEMMA StopFacts ==
  ASSUME procs \in [Proc -> ProcState], NEW p \in Proc, Stop(p)
  PROVE  /\ procs' \in [Proc -> ProcState]
         /\ procs'[p].pc = "idle"
         /\ \A q \in Proc \ {p} : procs'[q] = procs[q]
BY DEF Stop, Idle, ProcState, Places

\* A process whose record is exchanged for another.
LEMMA RecordFacts ==
  ASSUME procs \in [Proc -> ProcState], NEW p \in Proc, NEW r \in ProcState,
         procs' = [procs EXCEPT ![p] = r]
  PROVE  /\ procs' \in [Proc -> ProcState] /\ procs'[p] = r
         /\ \A q \in Proc \ {p} : procs'[q] = procs[q]
OBVIOUS

\* What a step of a process does to the process: it stops, takes up an id, or moves
\* on with the id and the amount it has.
Moves(p) ==
  /\ procs' \in [Proc -> ProcState]
  /\ \A q \in Proc \ {p} : procs'[q] = procs[q]
  /\ \/ procs'[p].pc = "idle"
     \/ /\ procs'[p].pc = "starting"
        /\ procs'[p].id \in FundingId /\ procs'[p].amount \in Amount
     \/ procs[p].pc # "idle" /\ procs'[p].id = procs[p].id /\ procs'[p].amount = procs[p].amount

LEMMA EveryMove ==
  ASSUME TypeOK, NEW p \in Proc, Step(p) \/ Die(p) PROVE Moves(p)
<1>0. /\ procs \in [Proc -> ProcState] /\ height \in Nat
      /\ {"begun", "waiting", "releasing", "sending", "hashed", "lost"} \subseteq Places
  BY TypeParts DEF Places
<1>1. CASE \E f \in FundingId, a \in Amount : Start(p, f, a)
  <2>1. PICK f \in FundingId, a \in Amount : Start(p, f, a)
    BY <1>1
  <2>2. procs' = [procs EXCEPT ![p].pc = "starting", ![p].id = f, ![p].amount = a]
    BY <2>1 DEF Start
  <2>3. /\ procs' \in [Proc -> ProcState] /\ procs'[p].pc = "starting"
        /\ procs'[p].id = f /\ procs'[p].amount = a
        /\ \A q \in Proc \ {p} : procs'[q] = procs[q]
    <3>1. procs'[p] = [procs[p] EXCEPT !.pc = "starting", !.id = f, !.amount = a]
          /\ \A q \in Proc \ {p} : procs'[q] = procs[q]
      BY <1>0, <2>2
    <3>2. procs[p] \in ProcState
      BY <1>0
    <3>3. procs'[p] \in ProcState /\ procs'[p].pc = "starting"
          /\ procs'[p].id = f /\ procs'[p].amount = a
      BY <3>1, <3>2 DEF ProcState, Places
    <3> QED BY <1>0, <2>2, <3>1, <3>3
  <2> QED BY <2>3 DEF Moves
<1>2. CASE \/ Stop(p)
           \/ At(p, "idle") = FALSE
              /\ \E pc \in {"begun", "waiting", "releasing", "sending", "hashed", "lost"} :
                   Goto(p, pc)
  <2>1. CASE Stop(p)
    BY <1>0, <2>1, StopFacts DEF Moves
  <2>2. CASE ~Stop(p)
    <3>1. PICK pc \in {"begun", "waiting", "releasing", "sending", "hashed", "lost"} :
            Goto(p, pc)
      BY <1>2, <2>2
    <3>2. procs[p].pc # "idle"
      BY <1>2, <2>2 DEF At
    <3> QED BY <1>0, <3>1, <3>2, GotoFacts DEF Moves
  <2> QED BY <2>1, <2>2
<1>3. CASE Anchor(p)
  <2>1. CASE height < ProvingAge
    BY <1>2, <1>3, <2>1 DEF Anchor, At
  <2>2. CASE ~(height < ProvingAge)
    <3>1. procs' = [procs EXCEPT ![p].pc = "proving", ![p].proving = height - ProvingAge]
      BY <1>3, <2>2 DEF Anchor
    <3>2. height - ProvingAge \in Nat
      BY <1>0, <2>2, BlockAssumption DEF BlockAssumption
    <3>3. [procs[p] EXCEPT !.pc = "proving", !.proving = height - ProvingAge] \in ProcState
      BY <1>0, <3>2 DEF ProcState, Places
    <3>4. procs' = [procs EXCEPT ![p] =
                      [procs[p] EXCEPT !.pc = "proving", !.proving = height - ProvingAge]]
      BY <1>0, <3>1
    <3>5. procs[p].pc # "idle"
      BY <1>3 DEF Anchor, At
    <3> QED BY <1>0, <3>3, <3>4, <3>5, RecordFacts DEF Moves
  <2> QED BY <2>1, <2>2
<1>4. CASE \E valid \in Validities : Proved(p, valid)
  <2>1. PICK valid \in Validities : Proved(p, valid)
    BY <1>4
  <2>2. CASE Fresh(procs[p].proving, valid)
    <3>1. procs' = [procs EXCEPT ![p].pc = "estimating", ![p].valid = valid]
      BY <2>1, <2>2 DEF Proved
    <3>2. valid \in Nat
      BY BlockAssumption DEF BlockAssumption
    <3>3. [procs[p] EXCEPT !.pc = "estimating", !.valid = valid] \in ProcState
      BY <1>0, <3>2 DEF ProcState, Places
    <3>4. procs' = [procs EXCEPT ![p] =
                      [procs[p] EXCEPT !.pc = "estimating", !.valid = valid]]
      BY <1>0, <3>1
    <3>5. procs[p].pc # "idle"
      BY <2>1 DEF Proved, At
    <3> QED BY <1>0, <3>3, <3>4, <3>5, RecordFacts DEF Moves
  <2>3. CASE ~Fresh(procs[p].proving, valid)
    BY <1>2, <2>1, <2>3 DEF Proved, At
  <2> QED BY <2>2, <2>3
<1>5. CASE Estimated(p)
  <2>1. CASE Fresh(procs[p].proving, procs[p].valid)
    <3>1. procs' = [procs EXCEPT ![p].pc = "ready", ![p].seen = height]
      BY <1>5, <2>1 DEF Estimated
    <3>2. [procs[p] EXCEPT !.pc = "ready", !.seen = height] \in ProcState
      BY <1>0 DEF ProcState, Places
    <3>3. procs' = [procs EXCEPT ![p] = [procs[p] EXCEPT !.pc = "ready", !.seen = height]]
      BY <1>0, <3>1
    <3>4. procs[p].pc # "idle"
      BY <1>5 DEF Estimated, At
    <3> QED BY <1>0, <3>2, <3>3, <3>4, RecordFacts DEF Moves
  <2>2. CASE ~Fresh(procs[p].proving, procs[p].valid)
    BY <1>2, <1>5, <2>2 DEF Estimated, At
  <2> QED BY <2>1, <2>2
<1>6. CASE \/ Begin(p) \/ Refused(p) \/ Release(p) \/ Send(p) \/ Sent(p) \/ MarkUnknown(p)
           \/ MarkSubmitted(p) \/ Waited(p) \/ Die(p)
  BY <1>2, <1>6 DEF Begin, Refused, Release, Send, Sent, MarkUnknown, MarkSubmitted, Waited,
                    Die, At
<1> QED BY <1>1, <1>3, <1>4, <1>5, <1>6 DEF Step

\* Every step keeps the types.
LEMMA TypeStep == ASSUME TypeOK, [Next]_vars PROVE TypeOK'
<1>0. /\ height \in Nat /\ journal \in [FundingId -> Attempts]
      /\ procs \in [Proc -> ProcState]
      /\ \A p \in Proc : procs[p].pc # "idle" =>
           procs[p].id \in FundingId /\ procs[p].amount \in Amount
      /\ deposits \in [FundingId -> Seq(Amount)]
      /\ chain \in [FundingId -> {"none", "success", "reverted"}]
      /\ answered \subseteq FundingId \X Amount
  BY TypeParts
<1>1. ASSUME NEW p \in Proc, Step(p) \/ Die(p) PROVE TypeOK'
  <2>1. Moves(p)
    BY <1>1, EveryMove
  <2>2. \A q \in Proc : procs'[q].pc # "idle" =>
          procs'[q].id \in FundingId /\ procs'[q].amount \in Amount
    BY <1>0, <2>1 DEF Moves
  <2>3. journal' \in [FundingId -> Attempts]
    <3>1. CASE Begin(p)
      <4>1. procs[p].id \in FundingId /\ procs[p].amount \in Amount
        BY <1>0, <3>1 DEF Begin, At
      <4>2. \/ UNCHANGED journal
            \/ journal' = [journal EXCEPT ![procs[p].id] =
                             [state |-> "in_progress", amount |-> procs[p].amount]]
        BY <3>1 DEF Begin
      <4>3. [state |-> "in_progress", amount |-> procs[p].amount] \in Attempts
        BY <4>1 DEF Attempts
      <4> QED BY <1>0, <4>2, <4>3
    <3>2. CASE Release(p) \/ MarkUnknown(p) \/ MarkSubmitted(p)
      <4>1. \/ UNCHANGED journal
            \/ journal' = [journal EXCEPT ![procs[p].id] = NoAttempt]
            \/ journal' = [journal EXCEPT ![procs[p].id].state = "unknown"]
            \/ journal' = [journal EXCEPT ![procs[p].id].state = "submitted"]
        BY <3>2 DEF Release, MarkUnknown, MarkSubmitted
      <4>2. NoAttempt \in Attempts
        BY DEF NoAttempt, Attempts
      <4>3. \A f \in FundingId, state \in {"unknown", "submitted"} :
              [journal EXCEPT ![f].state = state] \in [FundingId -> Attempts]
        BY <1>0 DEF Attempts
      <4>4. procs[p].id \in FundingId
        BY <1>0, <3>2 DEF Release, MarkUnknown, MarkSubmitted, At
      <4>5. [journal EXCEPT ![procs[p].id] = NoAttempt] \in [FundingId -> Attempts]
        BY <1>0, <4>2
      <4>6. /\ [journal EXCEPT ![procs[p].id].state = "unknown"] \in [FundingId -> Attempts]
            /\ [journal EXCEPT ![procs[p].id].state = "submitted"] \in [FundingId -> Attempts]
        BY <4>3, <4>4
      <4> QED BY <1>0, <4>1, <4>5, <4>6, Zenon
    <3>3. CASE UNCHANGED journal
      BY <1>0, <3>3
    <3> QED BY <1>1, <3>1, <3>2, <3>3
            DEF Step, Start, Anchor, Proved, Estimated, Refused, Send, Sent, Waited, Die
  <2>4. deposits' \in [FundingId -> Seq(Amount)]
    <3>1. CASE Send(p)
      <4>1. procs[p].id \in FundingId /\ procs[p].amount \in Amount
        BY <1>0, <3>1 DEF Send, At
      <4>2. Append(deposits[procs[p].id], procs[p].amount) \in Seq(Amount)
        BY <1>0, <4>1
      <4>3. deposits' = [deposits EXCEPT ![procs[p].id] =
                           Append(deposits[procs[p].id], procs[p].amount)]
        BY <3>1 DEF Send
      <4> QED BY <1>0, <4>2, <4>3
    <3>2. CASE UNCHANGED deposits
      BY <1>0, <3>2
    <3> QED BY <1>1, <3>1, <3>2
            DEF Step, Start, Begin, Anchor, Proved, Estimated, Refused, Release, Sent,
                MarkUnknown, MarkSubmitted, Waited, Die
  <2>5. answered' \subseteq FundingId \X Amount
    <3>1. CASE Waited(p)
      <4>1. procs[p].id \in FundingId /\ procs[p].amount \in Amount
        BY <1>0, <3>1 DEF Waited, At
      <4> QED BY <1>0, <3>1, <4>1 DEF Waited
    <3>2. CASE UNCHANGED answered
      BY <1>0, <3>2
    <3> QED BY <1>1, <3>1, <3>2
            DEF Step, Start, Begin, Anchor, Proved, Estimated, Refused, Release, Send, Sent,
                MarkUnknown, MarkSubmitted, Die
  <2>6. UNCHANGED <<height, chain>>
    BY <1>1 DEF Step, Start, Begin, Anchor, Proved, Estimated, Refused, Release, Send, Sent,
                MarkUnknown, MarkSubmitted, Waited, Die
  <2> QED BY <1>0, <2>1, <2>2, <2>3, <2>4, <2>5, <2>6, TypeParts DEF Moves
<1>2. ASSUME NEW f \in FundingId, Execute(f) PROVE TypeOK'
  BY <1>0, <1>2, TypeParts DEF Execute
<1>3. CASE NewBlock
  BY <1>0, <1>3, TypeParts DEF NewBlock
<1>4. CASE UNCHANGED vars
  BY <1>0, <1>4, TypeParts DEF vars
<1> QED BY <1>1, <1>2, <1>3, <1>4 DEF Next

\* The journal, the processes and the history of deposits are well typed; a proof is
\* never anchored before the first block.
THEOREM FundingTypeCorrect == Spec => []TypeOK
<1>1. Init => TypeOK
  BY DEF Init, TypeOK, NoAttempt, Idle, Places
<1>2. TypeOK /\ [Next]_vars => TypeOK'
  BY TypeStep
<1> QED BY <1>1, <1>2, PTL DEF Spec
-----------------------------------------------------------------------------
(* One deposit per id, answered for its own amount. *)

\* Places of the owner of an attempt: before the deposit and after it.
Before == {"begun", "proving", "estimating", "ready", "releasing"}

After == {"sending", "hashed", "lost"}

Owning == Before \cup After

OwnersInProgress ==
  \A p \in Proc : procs[p].pc \in Owning =>
    journal[procs[p].id] = [state |-> "in_progress", amount |-> procs[p].amount]

OneOwner ==
  \A p, q \in Proc :
    procs[p].pc \in Owning /\ procs[q].pc \in Owning /\ procs[p].id = procs[q].id => p = q

PlacesTruthful ==
  \A p \in Proc :
    /\ procs[p].pc \in Before => deposits[procs[p].id] = <<>>
    /\ procs[p].pc \in After \cup {"waiting"} =>
         deposits[procs[p].id] = <<procs[p].amount>>

\* An id has no deposit, or one of the amount its attempt is for.
DepositsJournaled ==
  \A f \in FundingId :
    /\ deposits[f] = <<>> \/ (journal[f].state # "none" /\ deposits[f] = <<journal[f].amount>>)
    /\ journal[f].state \in {"unknown", "submitted"} => deposits[f] # <<>>

FundingInv ==
  OwnersInProgress /\ OneOwner /\ PlacesTruthful /\ DepositsJournaled /\ AnswerIsItsDeposit

LEMMA PlaceFacts ==
  /\ "idle" \notin Owning /\ "starting" \notin Owning /\ "waiting" \notin Owning
  /\ Before \subseteq Owning /\ After \subseteq Owning /\ Before \cap After = {}
  /\ "begun" \in Before /\ "ready" \in Before /\ "sending" \in After
BY DEF Owning, Before, After

\* A step that moves one process and changes neither journal, deposits nor chain
\* keeps the invariant if the new place claims nothing new.
LEMMA FundingFrame ==
  ASSUME TypeOK, TypeOK', FundingInv, NEW p \in Proc,
         UNCHANGED <<journal, deposits, chain, answered>>,
         \A q \in Proc \ {p} : procs'[q] = procs[q],
         \/ procs'[p].pc \notin Owning \cup {"waiting"}
         \/ /\ procs'[p].id = procs[p].id /\ procs'[p].amount = procs[p].amount
            /\ \/ procs'[p].pc \in Before /\ procs[p].pc \in Before
               \/ procs'[p].pc \in After /\ procs[p].pc \in After
  PROVE  FundingInv'
<1>0. OwnersInProgress /\ OneOwner /\ PlacesTruthful /\ DepositsJournaled /\ AnswerIsItsDeposit
  BY DEF FundingInv
<1>a. Before \subseteq Owning /\ After \subseteq Owning /\ Before \cap After = {}
      /\ "waiting" \notin Owning
  BY DEF Before, After, Owning
<1>1. OwnersInProgress'
  BY <1>0, <1>a DEF OwnersInProgress
<1>2. OneOwner'
  BY <1>0, <1>a DEF OneOwner
<1>3. PlacesTruthful'
  BY <1>0, <1>a DEF PlacesTruthful
<1>4. DepositsJournaled' /\ AnswerIsItsDeposit'
  BY <1>0 DEF DepositsJournaled, AnswerIsItsDeposit
<1> QED BY <1>1, <1>2, <1>3, <1>4 DEF FundingInv

LEMMA FundingMoves ==
  ASSUME TypeOK, TypeOK', FundingInv, NEW p \in Proc,
         \/ \E f \in FundingId, a \in Amount : Start(p, f, a)
         \/ Anchor(p) \/ \E valid \in Validities : Proved(p, valid)
         \/ Estimated(p) \/ Refused(p) \/ Sent(p) \/ Die(p)
  PROVE  FundingInv'
<1>0. procs \in [Proc -> ProcState]
  BY TypeParts
<1>1. UNCHANGED <<journal, deposits, chain, answered>>
  BY DEF Start, Anchor, Proved, Estimated, Refused, Sent, Die
<1>2. Moves(p)
  BY EveryMove DEF Step
<1>3. CASE (\E f \in FundingId, a \in Amount : Start(p, f, a)) \/ Die(p)
  <2>1. CASE Die(p)
    BY <1>0, <1>1, <1>2, <2>1, StopFacts, FundingFrame DEF Die, Moves, Owning, Before, After
  <2>2. CASE \E f \in FundingId, a \in Amount : Start(p, f, a)
    <3>1. PICK f \in FundingId, a \in Amount :
            procs' = [procs EXCEPT ![p].pc = "starting", ![p].id = f, ![p].amount = a]
      BY <2>2 DEF Start
    <3>2. procs'[p].pc = "starting"
      BY <1>0, <3>1 DEF ProcState
    <3> QED BY <1>1, <1>2, <3>2, FundingFrame DEF Moves, Owning, Before, After
  <2> QED BY <1>3, <2>1, <2>2
<1>4. CASE \/ Anchor(p) \/ \E valid \in Validities : Proved(p, valid)
           \/ Estimated(p) \/ Refused(p)
  <2>1. procs[p].pc \in {"begun", "proving", "estimating"}
    BY <1>4 DEF Anchor, Proved, Estimated, Refused, At
  <2>2. procs'[p].pc \in {"proving", "estimating", "ready", "releasing"}
    BY <1>0, <1>4 DEF Anchor, Proved, Estimated, Refused, Goto, ProcState
  <2>3. /\ procs'[p].id = procs[p].id /\ procs'[p].amount = procs[p].amount
        /\ procs[p].pc \in Before /\ procs'[p].pc \in Before
    BY <1>2, <2>1, <2>2 DEF Moves, Before
  <2>4. \A q \in Proc \ {p} : procs'[q] = procs[q]
    BY <1>2 DEF Moves
  <2> QED BY <1>1, <2>3, <2>4, FundingFrame
<1>5. CASE Sent(p)
  <2>1. procs[p].pc = "sending" /\ procs'[p].pc \in {"hashed", "lost"}
    BY <1>0, <1>5 DEF Sent, At, Goto, ProcState
  <2> QED BY <1>1, <1>2, <2>1, FundingFrame DEF Moves, After
<1> QED BY <1>3, <1>4, <1>5

\* begin: a new attempt gets one owner; a submitted one is awaited by a process of
\* the same amount only.
LEMMA FundingBegin ==
  ASSUME TypeOK, TypeOK', FundingInv, NEW p \in Proc, Begin(p) PROVE FundingInv'
<1> DEFINE f == procs[p].id
           a == procs[p].amount
<1>0. /\ procs \in [Proc -> ProcState] /\ f \in FundingId /\ a \in Amount
      /\ journal \in [FundingId -> Attempts] /\ {"begun", "waiting"} \subseteq Places
      /\ \A q \in Proc : procs[q].pc # "idle" => procs[q].id \in FundingId
  BY TypeParts DEF Begin, At, Places
<1>1. UNCHANGED <<deposits, chain, answered>>
  BY DEF Begin
<1>2. OwnersInProgress /\ OneOwner /\ PlacesTruthful /\ DepositsJournaled /\ AnswerIsItsDeposit
  BY DEF FundingInv
<1>3. CASE journal[f].state = "none"
  <2>1. journal' = [journal EXCEPT ![f] = [state |-> "in_progress", amount |-> a]]
        /\ Goto(p, "begun")
    BY <1>3 DEF Begin, BeginAttempt
  <2>2. /\ journal'[f] = [state |-> "in_progress", amount |-> a]
        /\ \A g \in FundingId \ {f} : journal'[g] = journal[g]
    BY <1>0, <2>1
  <2>3. /\ procs'[p].pc = "begun" /\ procs'[p].id = f /\ procs'[p].amount = a
        /\ \A q \in Proc \ {p} : procs'[q] = procs[q]
    BY <1>0, <2>1, GotoFacts
  <2>4. \A q \in Proc : procs[q].pc \in Owning => procs[q].id \in FundingId \ {f}
    <3> SUFFICES ASSUME NEW q \in Proc, procs[q].pc \in Owning
                 PROVE  procs[q].id \in FundingId \ {f}
      OBVIOUS
    <3>1. journal[procs[q].id] = [state |-> "in_progress", amount |-> procs[q].amount]
      BY <1>2 DEF OwnersInProgress
    <3>2. journal[procs[q].id].state = "in_progress"
      BY <3>1
    <3>3. procs[q].id \in FundingId
      BY <1>0, PlaceFacts
    <3> QED BY <1>3, <3>2, <3>3
  <2>5. deposits[f] = <<>>
    BY <1>0, <1>2, <1>3 DEF DepositsJournaled
  <2>6. OwnersInProgress'
    BY <1>2, <2>2, <2>3, <2>4 DEF OwnersInProgress
  <2>7. OneOwner'
    BY <1>2, <2>3, <2>4 DEF OneOwner
  <2>8. PlacesTruthful'
    BY <1>1, <1>2, <2>3, <2>5 DEF PlacesTruthful, After
  <2>9. DepositsJournaled'
    BY <1>1, <1>2, <2>2, <2>5 DEF DepositsJournaled
  <2>10. AnswerIsItsDeposit'
    BY <1>1, <1>2 DEF AnswerIsItsDeposit
  <2> QED BY <2>6, <2>7, <2>8, <2>9, <2>10 DEF FundingInv
<1>4. CASE journal[f].state = "submitted" /\ journal[f].amount = a
  <2>1. Goto(p, "waiting") /\ UNCHANGED journal
    BY <1>4 DEF Begin, BeginAttempt
  <2>2. /\ procs'[p].pc = "waiting" /\ procs'[p].id = f /\ procs'[p].amount = a
        /\ \A q \in Proc \ {p} : procs'[q] = procs[q]
    BY <1>0, <2>1, GotoFacts
  <2>3. deposits[f] = <<a>>
    BY <1>0, <1>2, <1>4 DEF DepositsJournaled
  <2>4. OwnersInProgress' /\ OneOwner'
    BY <1>2, <2>1, <2>2 DEF OwnersInProgress, OneOwner, Owning, Before, After
  <2>5. PlacesTruthful'
    BY <1>1, <1>2, <2>2, <2>3 DEF PlacesTruthful, Before
  <2>6. DepositsJournaled' /\ AnswerIsItsDeposit'
    BY <1>1, <1>2, <2>1 DEF DepositsJournaled, AnswerIsItsDeposit
  <2> QED BY <2>4, <2>5, <2>6 DEF FundingInv
<1>5. CASE journal[f].state # "none" /\ ~(journal[f].state = "submitted" /\ journal[f].amount = a)
  <2>1. BeginAttempt(f, a) \notin {"new", "submitted"}
    BY <1>0, <1>5 DEF BeginAttempt, Attempts
  <2>2. Stop(p) /\ UNCHANGED journal
    BY <2>1 DEF Begin
  <2>3. procs'[p].pc = "idle" /\ \A q \in Proc \ {p} : procs'[q] = procs[q]
    BY <1>0, <2>2, StopFacts
  <2> QED BY <1>1, <2>2, <2>3, FundingFrame DEF Owning, Before, After
<1> QED BY <1>3, <1>4, <1>5

\* The deposit leaves: the first one of its id, by its only owner.
LEMMA FundingSend ==
  ASSUME TypeOK, TypeOK', FundingInv, NEW p \in Proc, Send(p) PROVE FundingInv'
<1> DEFINE f == procs[p].id
           a == procs[p].amount
<1>0. /\ procs \in [Proc -> ProcState] /\ f \in FundingId /\ a \in Amount
      /\ procs[p].pc = "ready" /\ "sending" \in Places
      /\ deposits \in [FundingId -> Seq(Amount)]
      /\ \A q \in Proc : procs[q].pc # "idle" => procs[q].id \in FundingId
  BY TypeParts DEF Send, At, Places
<1>1. UNCHANGED <<journal, chain, answered>>
      /\ deposits' = [deposits EXCEPT ![f] = Append(deposits[f], a)]
  BY DEF Send
<1>2. OwnersInProgress /\ OneOwner /\ PlacesTruthful /\ DepositsJournaled /\ AnswerIsItsDeposit
  BY DEF FundingInv
<1>3. deposits[f] = <<>> /\ journal[f] = [state |-> "in_progress", amount |-> a]
  BY <1>0, <1>2 DEF PlacesTruthful, OwnersInProgress, Owning, Before
<1>4. deposits'[f] = <<a>> /\ \A g \in FundingId \ {f} : deposits'[g] = deposits[g]
  BY <1>0, <1>1, <1>3
<1>5. /\ procs'[p].pc = "sending" /\ procs'[p].id = f /\ procs'[p].amount = a
      /\ \A q \in Proc \ {p} : procs'[q] = procs[q]
  BY <1>0, GotoFacts DEF Send
<1>6. \A q \in Proc \ {p} :
        procs[q].pc \in Owning \cup {"waiting"} => procs[q].id \in FundingId \ {f}
  <2>1. \A q \in Proc \ {p} : procs[q].pc \in Owning => procs[q].id # f
    BY <1>0, <1>2, PlaceFacts DEF OneOwner
  <2>2. \A q \in Proc : procs[q].pc = "waiting" => procs[q].id # f
    BY <1>2, <1>3 DEF PlacesTruthful
  <2> QED BY <1>0, <2>1, <2>2, PlaceFacts
<1>7. OwnersInProgress'
  BY <1>0, <1>1, <1>2, <1>5, PlaceFacts DEF OwnersInProgress
<1>8. OneOwner'
  <2>1. \A q \in Proc : procs'[q].id = procs[q].id
    BY <1>5
  <2>2. \A q \in Proc : procs'[q].pc \in Owning => procs[q].pc \in Owning
    BY <1>0, <1>5, PlaceFacts
  <2> QED BY <1>2, <2>1, <2>2 DEF OneOwner
<1>9. PlacesTruthful'
  <2>1. "sending" \notin Before /\ deposits'[procs'[p].id] = <<procs'[p].amount>>
    BY <1>4, <1>5, PlaceFacts
  <2>2. ASSUME NEW q \in Proc \ {p}, procs'[q].pc \in Before \cup After \cup {"waiting"}
        PROVE  /\ procs'[q] = procs[q]
               /\ deposits'[procs'[q].id] = deposits[procs[q].id]
    <3>1. procs'[q] = procs[q] /\ procs[q].id \in FundingId \ {f}
      BY <1>5, <1>6, <2>2, PlaceFacts
    <3> QED BY <1>4, <3>1
  <2>3. ASSUME NEW q \in Proc, procs'[q].pc \in Before PROVE deposits'[procs'[q].id] = <<>>
    BY <1>2, <1>5, <2>1, <2>2, <2>3 DEF PlacesTruthful
  <2>4. ASSUME NEW q \in Proc, procs'[q].pc \in After \cup {"waiting"}
        PROVE  deposits'[procs'[q].id] = <<procs'[q].amount>>
    BY <1>2, <2>1, <2>2, <2>4 DEF PlacesTruthful
  <2> QED BY <2>3, <2>4 DEF PlacesTruthful
<1>10. DepositsJournaled'
  BY <1>1, <1>2, <1>3, <1>4 DEF DepositsJournaled
<1>11. AnswerIsItsDeposit'
  <2>1. \A d \in answered : d[1] \in FundingId
    BY TypeParts
  <2>2. ASSUME NEW d \in answered PROVE d[1] # f
    <3>1. deposits[d[1]] = <<d[2]>>
      BY <1>2 DEF AnswerIsItsDeposit
    <3>2. <<d[2]>> # <<>>
      OBVIOUS
    <3> QED BY <1>3, <3>1, <3>2
  <2> QED BY <1>1, <1>2, <1>4, <2>1, <2>2 DEF AnswerIsItsDeposit
<1> QED BY <1>7, <1>8, <1>9, <1>10, <1>11 DEF FundingInv

\* The owner writes the outcome into its entry and owns it no more.
LEMMA FundingOutcomes ==
  ASSUME TypeOK, TypeOK', FundingInv, NEW p \in Proc,
         Release(p) \/ MarkUnknown(p) \/ MarkSubmitted(p)
  PROVE  FundingInv'
<1> DEFINE f == procs[p].id
           a == procs[p].amount
<1>0. /\ procs \in [Proc -> ProcState] /\ f \in FundingId /\ "waiting" \in Places
      /\ procs[p].pc \in Owning /\ journal \in [FundingId -> Attempts]
      /\ \A q \in Proc : procs[q].pc # "idle" => procs[q].id \in FundingId
  <2>1. procs[p].pc \in Owning /\ procs[p].pc # "idle"
    BY DEF Release, MarkUnknown, MarkSubmitted, At, Owning, Before, After
  <2> QED BY <2>1, TypeParts DEF Places
<1>1. UNCHANGED <<deposits, chain, answered>>
  BY DEF Release, MarkUnknown, MarkSubmitted
<1>2. OwnersInProgress /\ OneOwner /\ PlacesTruthful /\ DepositsJournaled /\ AnswerIsItsDeposit
  BY DEF FundingInv
<1>3. journal[f] = [state |-> "in_progress", amount |-> a]
  BY <1>0, <1>2 DEF OwnersInProgress
<1>4. PICK new \in Attempts :
        /\ journal' = [journal EXCEPT ![f] = new]
        /\ \/ new.state = "none" /\ procs[p].pc \in Before /\ Stop(p)
           \/ /\ new.state \in {"unknown", "submitted"} /\ new.amount = a
              /\ procs[p].pc \in After
              /\ Stop(p) \/ Goto(p, "waiting")
  <2>1. CASE Release(p)
    <3>1. journal' = [journal EXCEPT ![f] = NoAttempt] /\ Stop(p) /\ procs[p].pc \in Before
      BY <1>3, <2>1 DEF Release, Attempt, At, Before
    <3>2. NoAttempt \in Attempts /\ NoAttempt.state = "none"
      BY DEF NoAttempt, Attempts
    <3> QED BY <3>1, <3>2
  <2>2. CASE MarkUnknown(p)
    <3>1. journal' = [journal EXCEPT ![f] = [journal[f] EXCEPT !.state = "unknown"]]
          /\ Stop(p) /\ procs[p].pc \in After
      BY <1>3, <2>2 DEF MarkUnknown, Attempt, At, After
    <3>2. [journal[f] EXCEPT !.state = "unknown"] \in Attempts
      BY <1>0 DEF Attempts
    <3>3. [journal[f] EXCEPT !.state = "unknown"].state = "unknown"
          /\ [journal[f] EXCEPT !.state = "unknown"].amount = a
      BY <1>3
    <3> QED BY <3>1, <3>2, <3>3
  <2>3. CASE MarkSubmitted(p)
    <3>1. journal' = [journal EXCEPT ![f] = [journal[f] EXCEPT !.state = "submitted"]]
          /\ Goto(p, "waiting") /\ procs[p].pc \in After
      BY <1>3, <2>3 DEF MarkSubmitted, Attempt, At, After
    <3>2. [journal[f] EXCEPT !.state = "submitted"] \in Attempts
      BY <1>0 DEF Attempts
    <3>3. [journal[f] EXCEPT !.state = "submitted"].state = "submitted"
          /\ [journal[f] EXCEPT !.state = "submitted"].amount = a
      BY <1>3
    <3> QED BY <3>1, <3>2, <3>3
  <2> QED BY <2>1, <2>2, <2>3
<1>5. journal'[f] = new /\ \A g \in FundingId \ {f} : journal'[g] = journal[g]
  BY <1>0, <1>4
<1>6. /\ procs'[p].pc = "idle"
         \/ (procs'[p].pc = "waiting" /\ procs'[p].id = f /\ procs'[p].amount = a)
      /\ \A q \in Proc \ {p} : procs'[q] = procs[q]
  BY <1>0, <1>4, StopFacts, GotoFacts
<1>7. \A q \in Proc \ {p} : procs[q].pc \in Owning => procs[q].id \in FundingId \ {f}
  BY <1>0, <1>2, PlaceFacts DEF OneOwner
<1>8. OwnersInProgress' /\ OneOwner'
  BY <1>2, <1>5, <1>6, <1>7, PlaceFacts DEF OwnersInProgress, OneOwner
<1>9. PlacesTruthful'
  <2>1. procs'[p].pc = "waiting" => deposits[f] = <<a>>
    BY <1>0, <1>2, <1>4, StopFacts DEF PlacesTruthful
  <2> QED BY <1>1, <1>2, <1>6, <2>1, PlaceFacts DEF PlacesTruthful
<1>10. DepositsJournaled'
  <2>1. procs[p].pc \in Before => deposits[f] = <<>>
    BY <1>2 DEF PlacesTruthful
  <2>2. procs[p].pc \in After => deposits[f] = <<a>> /\ deposits[f] # <<>>
    BY <1>2 DEF PlacesTruthful
  <2> QED BY <1>1, <1>2, <1>4, <1>5, <2>1, <2>2 DEF DepositsJournaled
<1>11. AnswerIsItsDeposit'
  BY <1>1, <1>2 DEF AnswerIsItsDeposit
<1> QED BY <1>8, <1>9, <1>10, <1>11 DEF FundingInv

\* What a run answers with is the deposit it waited for.
LEMMA FundingWaited ==
  ASSUME TypeOK, TypeOK', FundingInv, NEW p \in Proc, Waited(p) PROVE FundingInv'
<1>0. procs \in [Proc -> ProcState]
  BY TypeParts
<1>1. /\ UNCHANGED <<journal, deposits, chain>> /\ procs[p].pc = "waiting"
      /\ procs'[p].pc = "idle" /\ \A q \in Proc \ {p} : procs'[q] = procs[q]
  BY <1>0, StopFacts DEF Waited, At
<1>2. OwnersInProgress /\ OneOwner /\ PlacesTruthful /\ DepositsJournaled /\ AnswerIsItsDeposit
  BY DEF FundingInv
<1>3. OwnersInProgress' /\ OneOwner' /\ PlacesTruthful' /\ DepositsJournaled'
  <2>1. OwnersInProgress'
    BY <1>1, <1>2, PlaceFacts DEF OwnersInProgress
  <2>2. OneOwner'
    BY <1>1, <1>2, PlaceFacts DEF OneOwner
  <2>3. PlacesTruthful'
    BY <1>1, <1>2, PlaceFacts DEF PlacesTruthful
  <2>4. DepositsJournaled'
    BY <1>1, <1>2, PlaceFacts DEF DepositsJournaled
  <2> QED BY <2>1, <2>2, <2>3, <2>4
<1>4. AnswerIsItsDeposit'
  <2>1. deposits[procs[p].id] = <<procs[p].amount>>
    BY <1>1, <1>2 DEF PlacesTruthful
  <2>2. CASE UNCHANGED answered
    BY <1>1, <1>2, <2>2 DEF AnswerIsItsDeposit
  <2>3. CASE /\ chain[procs[p].id] = "success"
             /\ answered' = answered \cup {<<procs[p].id, procs[p].amount>>}
    BY <1>1, <1>2, <2>1, <2>3 DEF AnswerIsItsDeposit
  <2> QED BY <2>2, <2>3 DEF Waited
<1> QED BY <1>3, <1>4 DEF FundingInv

LEMMA FundingStep ==
  ASSUME TypeOK, FundingInv, [Next]_vars PROVE FundingInv'
<1>0. TypeOK'
  BY TypeStep
<1>1. ASSUME NEW p \in Proc, Step(p) \/ Die(p) PROVE FundingInv'
  BY <1>0, <1>1, FundingMoves, FundingBegin, FundingSend, FundingOutcomes, FundingWaited
     DEF Step
<1>2. ASSUME NEW f \in FundingId, Execute(f) PROVE FundingInv'
  <2>1. UNCHANGED <<journal, deposits, procs, answered>> /\ chain[f] = "none"
    BY <1>2 DEF Execute
  <2>2. \A g \in FundingId : chain[g] = "success" => chain'[g] = "success"
    <3>1. chain \in [FundingId -> {"none", "success", "reverted"}]
      BY TypeParts
    <3> QED BY <1>2, <3>1 DEF Execute
  <2>3. AnswerIsItsDeposit'
    <3>1. \A d \in answered : d[1] \in FundingId
      BY TypeParts
    <3> QED BY <2>1, <2>2, <3>1 DEF FundingInv, AnswerIsItsDeposit
  <2> QED BY <2>1, <2>3
          DEF FundingInv, OwnersInProgress, OneOwner, PlacesTruthful, DepositsJournaled
<1>3. CASE NewBlock \/ UNCHANGED vars
  <2>1. UNCHANGED <<journal, deposits, procs, chain, answered>>
    BY <1>3 DEF NewBlock, vars
  <2> QED BY <2>1 DEF FundingInv, OwnersInProgress, OneOwner, PlacesTruthful,
                      DepositsJournaled, AnswerIsItsDeposit
<1> QED BY <1>1, <1>2, <1>3 DEF Next

LEMMA FundingAlways == Spec => []FundingInv
<1>1. Init => FundingInv
  BY DEF Init, FundingInv, OwnersInProgress, OneOwner, PlacesTruthful, DepositsJournaled,
         AnswerIsItsDeposit, Idle, NoAttempt, Owning, Before, After
<1>2. TypeOK /\ FundingInv /\ [Next]_vars => FundingInv'
  BY FundingStep
<1> QED BY <1>1, <1>2, FundingTypeCorrect, PTL DEF Spec

\* A funding id is deposited once, whatever processes run with it, with whatever
\* amounts, die and are run again.
THEOREM DepositedOnceAlways == Spec => []DepositedOnce
<1>1. FundingInv => DepositedOnce
  <2> SUFFICES ASSUME FundingInv, NEW f \in FundingId PROVE Len(deposits[f]) <= 1
    BY DEF DepositedOnce
  <2>1. deposits[f] = <<>> \/ deposits[f] = <<journal[f].amount>>
    BY DEF FundingInv, DepositsJournaled
  <2>2. CASE deposits[f] = <<>>
    <3>1. Len(<<>>) = 0
      OBVIOUS
    <3> QED BY <2>2, <3>1
  <2>3. CASE deposits[f] = <<journal[f].amount>>
    <3>1. Len(<<journal[f].amount>>) = 1
      OBVIOUS
    <3> QED BY <2>3, <3>1
  <2> QED BY <2>1, <2>2, <2>3
<1> QED BY <1>1, FundingAlways, PTL

\* A run that returns a hash returns that of a deposit of its own amount.
THEOREM AnswerIsItsDepositAlways == Spec => []AnswerIsItsDeposit
<1>1. FundingInv => AnswerIsItsDeposit
  BY DEF FundingInv
<1> QED BY <1>1, FundingAlways, PTL
-----------------------------------------------------------------------------
(* Funding implements OneDeposit. *)

LEMMA PromiseInit == Init => Promise!Init
BY DEF Init, Promise!Init

\* A deposit leaves for an id that has none.
LEMMA PromiseSend ==
  ASSUME TypeOK, FundingInv, NEW p \in Proc, Send(p)
  PROVE  \E f \in FundingId, a \in Amount : Promise!Deposit(f, a)
<1> DEFINE f == procs[p].id
           a == procs[p].amount
<1>1. f \in FundingId /\ a \in Amount /\ procs[p].pc \in Before
  BY TypeParts DEF Send, At, Before
<1>2. deposits[f] = <<>>
  BY <1>1 DEF FundingInv, PlacesTruthful
<1>3. /\ deposits' = [deposits EXCEPT ![f] = Append(deposits[f], a)]
      /\ UNCHANGED <<chain, answered>>
  BY DEF Send
<1>4. Append(deposits[f], a) = <<a>>
  BY <1>2
<1>5. deposits' = [deposits EXCEPT ![f] = <<a>>]
  BY <1>3, <1>4
<1> QED BY <1>1, <1>2, <1>3, <1>5 DEF Promise!Deposit

\* A run is answered with the deposit of its own amount, or with nothing.
LEMMA PromiseWaited ==
  ASSUME TypeOK, FundingInv, NEW p \in Proc, Waited(p)
  PROVE  (\E f \in FundingId, a \in Amount : Promise!Answer(f, a)) \/ UNCHANGED Promise!vars
<1> DEFINE f == procs[p].id
           a == procs[p].amount
<1>1. f \in FundingId /\ a \in Amount /\ procs[p].pc = "waiting"
  BY TypeParts DEF Waited, At
<1>2. deposits[f] = <<a>>
  BY <1>1 DEF FundingInv, PlacesTruthful
<1>3. CASE UNCHANGED answered
  BY <1>3 DEF Waited, Promise!vars
<1>4. CASE chain[f] = "success" /\ answered' = answered \cup {<<f, a>>}
  <2>1. Promise!Answer(f, a)
    BY <1>2, <1>4 DEF Waited, Promise!Answer
  <2> QED BY <1>1, <2>1
<1> QED BY <1>3, <1>4 DEF Waited

LEMMA PromiseStep ==
  TypeOK /\ FundingInv /\ [Next]_vars => [Promise!Next]_Promise!vars
<1> SUFFICES ASSUME TypeOK, FundingInv, [Next]_vars
             PROVE  Promise!Next \/ UNCHANGED Promise!vars
  OBVIOUS
<1>1. ASSUME NEW p \in Proc, Step(p) \/ Die(p)
      PROVE  Promise!Next \/ UNCHANGED Promise!vars
  <2>1. CASE Send(p)
    BY <2>1, PromiseSend DEF Promise!Next
  <2>2. CASE Waited(p)
    BY <2>2, PromiseWaited DEF Promise!Next
  <2>3. CASE UNCHANGED <<deposits, chain, answered>>
    BY <2>3 DEF Promise!vars
  <2>4. CASE \/ \E f \in FundingId, a \in Amount : Start(p, f, a)
             \/ \E valid \in Validities : Proved(p, valid)
    <3>1. ASSUME NEW f \in FundingId, NEW a \in Amount, Start(p, f, a)
          PROVE  UNCHANGED <<deposits, chain, answered>>
      BY <3>1 DEF Start
    <3>2. ASSUME NEW valid \in Validities, Proved(p, valid)
          PROVE  UNCHANGED <<deposits, chain, answered>>
      BY <3>2 DEF Proved
    <3> QED BY <2>3, <2>4, <3>1, <3>2
  <2>5. CASE Begin(p) \/ Anchor(p) \/ Estimated(p) \/ Refused(p) \/ Release(p) \/ Sent(p)
    BY <2>3, <2>5 DEF Begin, Anchor, Estimated, Refused, Release, Sent
  <2>6. CASE MarkUnknown(p) \/ MarkSubmitted(p) \/ Die(p)
    BY <2>3, <2>6 DEF MarkUnknown, MarkSubmitted, Die
  <2> QED BY <1>1, <2>1, <2>2, <2>4, <2>5, <2>6 DEF Step
<1>2. ASSUME NEW f \in FundingId, Execute(f) PROVE Promise!Next
  <2>1. PICK result \in {"success", "reverted"} : chain' = [chain EXCEPT ![f] = result]
    BY <1>2 DEF Execute
  <2>2. Promise!Settle(f, result)
    BY <1>2, <2>1 DEF Execute, Promise!Settle
  <2> QED BY <2>2 DEF Promise!Next
<1>3. CASE NewBlock \/ UNCHANGED vars
  BY <1>3 DEF NewBlock, vars, Promise!vars
<1> QED BY <1>1, <1>2, <1>3 DEF Next

\* Funding implements OneDeposit: of what processes, journal and blocks do, only one
\* deposit of an id, its outcome and the answers about it are seen from outside.
THEOREM FundingKeepsPromise == Spec => FundingPromise
<1> QED BY PromiseInit, PromiseStep, FundingTypeCorrect, FundingAlways, PTL
        DEF Spec, FundingPromise, Promise!Spec
-----------------------------------------------------------------------------
(* The validity of the proof. *)

\* The height a ready process checked is at most Lag blocks old, and the margin
\* was there when it was checked.
WindowInv ==
  \A p \in Proc : procs[p].pc = "ready" =>
    /\ height <= procs[p].seen + Lag
    /\ procs[p].seen + MinValidity <= procs[p].proving + procs[p].valid

LEMMA WindowStep ==
  ASSUME TypeOK, WindowInv, [Next]_vars PROVE WindowInv'
<1>0. /\ procs \in [Proc -> ProcState] /\ height \in Nat
      /\ Lag \in Nat /\ MinValidity \in Nat /\ Lag <= MinValidity
      /\ {"begun", "waiting", "releasing", "sending", "hashed", "lost"} \subseteq Places
  BY TypeParts, BlockAssumption DEF BlockAssumption, Places
<1>1. ASSUME NEW p \in Proc, Step(p) \/ Die(p) PROVE WindowInv'
  <2>1. height' = height
    BY <1>1 DEF Step, Start, Begin, Anchor, Proved, Estimated, Refused, Release, Send, Sent,
                MarkUnknown, MarkSubmitted, Waited, Die
  <2>2. \A q \in Proc \ {p} : procs'[q] = procs[q]
    BY <1>1, EveryMove DEF Moves
  <2>3. CASE Estimated(p) /\ Fresh(procs[p].proving, procs[p].valid)
    <3>1. procs' = [procs EXCEPT ![p].pc = "ready", ![p].seen = height]
      BY <2>3 DEF Estimated
    <3>2. /\ procs'[p].seen = height /\ procs'[p].proving = procs[p].proving
          /\ procs'[p].valid = procs[p].valid
      BY <1>0, <3>1 DEF ProcState
    <3>3. height + MinValidity <= procs[p].proving + procs[p].valid
      BY <2>3 DEF Fresh
    <3> QED BY <1>0, <2>1, <2>2, <3>2, <3>3 DEF WindowInv
  <2>4. CASE ~(Estimated(p) /\ Fresh(procs[p].proving, procs[p].valid))
    <3>1. procs'[p].pc # "ready"
      <4>1. CASE Stop(p)
        BY <1>0, <4>1, StopFacts
      <4>2. CASE \E pc \in {"begun", "waiting", "releasing", "sending", "hashed", "lost"} :
                   Goto(p, pc)
        <5>1. PICK pc \in {"begun", "waiting", "releasing", "sending", "hashed", "lost"} :
                Goto(p, pc)
          BY <4>2
        <5> QED BY <1>0, <5>1, GotoFacts
      <4>3. CASE \E f \in FundingId, a \in Amount : Start(p, f, a)
        BY <1>0, <4>3 DEF Start, ProcState
      <4>4. CASE \E n \in Int : procs' = [procs EXCEPT ![p].pc = "proving", ![p].proving = n]
        BY <1>0, <4>4 DEF ProcState
      <4>5. CASE \E n \in Int : procs' = [procs EXCEPT ![p].pc = "estimating", ![p].valid = n]
        BY <1>0, <4>5 DEF ProcState
      <4>6. /\ \A valid \in Validities : valid \in Int
            /\ height - ProvingAge \in Int
        BY <1>0, BlockAssumption DEF BlockAssumption
      <4> QED BY <1>1, <2>4, <4>1, <4>2, <4>3, <4>4, <4>5, <4>6
              DEF Step, Begin, Anchor, Proved, Estimated, Refused, Release, Send, Sent,
                  MarkUnknown, MarkSubmitted, Waited, Die
    <3> QED BY <2>1, <2>2, <3>1 DEF WindowInv
  <2> QED BY <2>3, <2>4
<1>2. CASE NewBlock
  <2>1. \A p \in Proc : procs[p].pc = "ready" => procs[p].seen \in Nat
    BY <1>0 DEF ProcState
  <2> QED BY <1>0, <1>2, <2>1 DEF NewBlock, At, WindowInv
<1>3. CASE (\E f \in FundingId : Execute(f)) \/ UNCHANGED vars
  <2>1. UNCHANGED <<height, procs>>
    BY <1>3 DEF Execute, vars
  <2> QED BY <2>1 DEF WindowInv
<1> QED BY <1>1, <1>2, <1>3 DEF Next

\* A deposit is sent while its proof is valid, for every margin that covers the
\* blocks that pass between the check and the sending.
THEOREM ReadyProofIsValidAlways == Spec => []ReadyProofIsValid
<1>1. Init => WindowInv
  BY DEF Init, WindowInv, Idle
<1>2. TypeOK /\ WindowInv /\ [Next]_vars => WindowInv'
  BY WindowStep
<1>3. TypeOK /\ WindowInv => ReadyProofIsValid
  <2> SUFFICES ASSUME TypeOK, WindowInv, NEW p \in Proc, procs[p].pc = "ready"
               PROVE  height <= procs[p].proving + procs[p].valid
    BY DEF ReadyProofIsValid, At
  <2>1. procs[p].seen \in Nat /\ procs[p].proving \in Nat /\ procs[p].valid \in Nat
        /\ height \in Nat
    BY TypeParts DEF ProcState
  <2>2. Lag \in Nat /\ MinValidity \in Nat /\ Lag <= MinValidity
    BY BlockAssumption DEF BlockAssumption
  <2> QED BY <2>1, <2>2 DEF WindowInv
<1> QED BY <1>1, <1>2, <1>3, FundingTypeCorrect, PTL DEF Spec
=============================================================================
