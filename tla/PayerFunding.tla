---------------------------- MODULE PayerFunding ----------------------------
(***************************************************************************)
(* Strk20PayerFunding.fund (fund-payer.ts): one private deposit for a      *)
(* funding id, journaled like a payment, with a proof that is anchored ten *)
(* blocks back and valid for a number of blocks.  Processes run it with    *)
(* the id and the amount of their configuration; the chain grows under     *)
(* them, and an answer about its height is old when it arrives.            *)
(***************************************************************************)
EXTENDS Integers, Sequences

CONSTANTS FundingId,    \* STK402_PRIVATE_FUNDING_ID
          Amount,       \* STK402_PRIVATE_FUND_AMOUNT, what the fingerprint binds
          NoId, NoAmount,
          Proc,         \* payer processes
          ProvingAge,   \* blocks the proof is anchored behind the latest
          Validities,   \* what get_proof_validity_blocks can answer
          MinValidity,  \* minimumProofValidityBlocks
          Lag,          \* blocks that can pass between reading the height and sending
          MaxHeight     \* bound: the chain stops growing here

ASSUME BlockAssumption ==
  /\ ProvingAge \in Nat /\ Validities \subseteq Nat \ {0} /\ MaxHeight \in Nat
  /\ MinValidity \in Nat \ {0} /\ Lag \in 0 .. MinValidity
ASSUME NoneAssumption == NoId \notin FundingId /\ NoAmount \notin Amount

VARIABLES height,    \* latest block
          journal,   \* payer_attempts: state and fingerprint of each funding
          procs,     \* processes
          deposits,  \* history: amounts sent for each id
          chain,     \* what became of an id's first deposit
          answered   \* history: <<id, amount>> of runs that returned a hash

vars == <<height, journal, procs, deposits, chain, answered>>

NoAttempt == [state |-> "none", amount |-> NoAmount]

Idle == [pc |-> "idle", id |-> NoId, amount |-> NoAmount,
         proving |-> 0, valid |-> 0, seen |-> 0]

Places == {"idle", "starting", "begun", "proving", "estimating", "ready",
           "sending", "hashed", "lost", "waiting", "releasing"}

TypeOK ==
  /\ height \in Nat
  /\ journal \in [FundingId -> [state : {"none", "in_progress", "unknown", "submitted"},
                                amount : Amount \cup {NoAmount}]]
  /\ procs \in [Proc -> [pc : Places, id : FundingId \cup {NoId},
                         amount : Amount \cup {NoAmount},
                         proving : Nat, valid : Nat, seen : Nat]]
  /\ \A p \in Proc : procs[p].pc # "idle" =>
       procs[p].id \in FundingId /\ procs[p].amount \in Amount
  /\ deposits \in [FundingId -> Seq(Amount)]
  /\ chain \in [FundingId -> {"none", "success", "reverted"}]
  /\ answered \subseteq FundingId \X Amount

Init ==
  /\ height = 0
  /\ journal = [f \in FundingId |-> NoAttempt]
  /\ procs = [p \in Proc |-> Idle]
  /\ deposits = [f \in FundingId |-> <<>>]
  /\ chain = [f \in FundingId |-> "none"]
  /\ answered = {}
-----------------------------------------------------------------------------
At(p, pc) == procs[p].pc = pc

Goto(p, pc) == procs' = [procs EXCEPT ![p].pc = pc]

Stop(p) == procs' = [procs EXCEPT ![p] = Idle]

Attempt(p) == journal[procs[p].id]

Start(p, f, a) ==
  /\ At(p, "idle")
  /\ procs' = [procs EXCEPT ![p].pc = "starting", ![p].id = f, ![p].amount = a]
  /\ UNCHANGED <<height, journal, deposits, chain, answered>>

\* What journal.begin answers: the attempt is new, or in the state it is in; it
\* throws if the fingerprint is another one.
BeginAttempt(f, a) ==
  CASE journal[f].state = "none" -> "new"
    [] journal[f].state # "none" /\ journal[f].amount = a -> journal[f].state
    [] OTHER -> "threw"

\* A submitted attempt is waited for; one in progress or of unknown outcome is
\* an error.
Begin(p) ==
  LET f == procs[p].id
      a == procs[p].amount
  IN  /\ At(p, "starting")
      /\ CASE BeginAttempt(f, a) = "new" ->
                /\ journal' = [journal EXCEPT ![f] = [state |-> "in_progress", amount |-> a]]
                /\ Goto(p, "begun")
           [] BeginAttempt(f, a) = "submitted" -> Goto(p, "waiting") /\ UNCHANGED journal
           [] OTHER -> Stop(p) /\ UNCHANGED journal
      /\ UNCHANGED <<height, deposits, chain, answered>>

\* Mutation: a chain that is too young is not refused.
AnchorAny(p) ==
  /\ At(p, "begun")
  /\ procs' = [procs EXCEPT ![p].pc = "proving", ![p].proving = height - ProvingAge]
  /\ UNCHANGED <<height, journal, deposits, chain, answered>>

\* getBlockNumber: the proof will be anchored ProvingAge blocks back.
Anchor(p) ==
  /\ At(p, "begun")
  /\ IF height < ProvingAge
     THEN Goto(p, "releasing")
     ELSE procs' = [procs EXCEPT ![p].pc = "proving",
                                 ![p].proving = height - ProvingAge]
  /\ UNCHANGED <<height, journal, deposits, chain, answered>>

\* Mutation: the margin is forgotten.
FreshWithoutMargin(proving, valid) == height <= proving + valid

\* assertProofValidity, of the height it reads.
Fresh(proving, valid) == height + MinValidity <= proving + valid

\* Balance, fee, proof and pool call checked; the first check of the window.
Proved(p, valid) ==
  /\ At(p, "proving")
  /\ IF Fresh(procs[p].proving, valid)
     THEN procs' = [procs EXCEPT ![p].pc = "estimating", ![p].valid = valid]
     ELSE Goto(p, "releasing")
  /\ UNCHANGED <<height, journal, deposits, chain, answered>>

\* Fee estimated, current balance read; the second check of the window.
Estimated(p) ==
  /\ At(p, "estimating")
  /\ IF Fresh(procs[p].proving, procs[p].valid)
     THEN procs' = [procs EXCEPT ![p].pc = "ready", ![p].seen = height]
     ELSE Goto(p, "releasing")
  /\ UNCHANGED <<height, journal, deposits, chain, answered>>

\* A service threw or one of the other checks failed.
Refused(p) ==
  /\ procs[p].pc \in {"begun", "proving", "estimating"}
  /\ Goto(p, "releasing")
  /\ UNCHANGED <<height, journal, deposits, chain, answered>>

Release(p) ==
  /\ At(p, "releasing")
  /\ journal' = IF Attempt(p).state = "in_progress"
                THEN [journal EXCEPT ![procs[p].id] = NoAttempt] ELSE journal
  /\ Stop(p)
  /\ UNCHANGED <<height, deposits, chain, answered>>

\* account.execute: approval and deposit in one transaction.
Send(p) ==
  /\ At(p, "ready")
  /\ deposits' = [deposits EXCEPT ![procs[p].id] = Append(@, procs[p].amount)]
  /\ Goto(p, "sending")
  /\ UNCHANGED <<height, journal, chain, answered>>

\* It returned a hash, or threw.
Sent(p) ==
  /\ At(p, "sending")
  /\ Goto(p, "hashed") \/ Goto(p, "lost")
  /\ UNCHANGED <<height, journal, deposits, chain, answered>>

\* Mutation: after an error the attempt is released.
MarkReleased(p) ==
  /\ At(p, "lost")
  /\ journal' = IF Attempt(p).state = "in_progress"
                THEN [journal EXCEPT ![procs[p].id] = NoAttempt] ELSE journal
  /\ Stop(p)
  /\ UNCHANGED <<height, deposits, chain, answered>>

\* Throws in any case: the outcome is unknown.
MarkUnknown(p) ==
  /\ At(p, "lost")
  /\ journal' = IF Attempt(p).state = "in_progress"
                THEN [journal EXCEPT ![procs[p].id].state = "unknown"] ELSE journal
  /\ Stop(p)
  /\ UNCHANGED <<height, deposits, chain, answered>>

MarkSubmitted(p) ==
  /\ At(p, "hashed")
  /\ IF Attempt(p).state = "in_progress"
     THEN /\ journal' = [journal EXCEPT ![procs[p].id].state = "submitted"]
          /\ Goto(p, "waiting")
     ELSE Stop(p) /\ UNCHANGED journal
  /\ UNCHANGED <<height, deposits, chain, answered>>

\* waitForSuccess: the hash is returned, or waiting timed out or the deposit
\* reverted.
Waited(p) ==
  /\ At(p, "waiting")
  /\ \/ /\ chain[procs[p].id] = "success"
        /\ answered' = answered \cup {<<procs[p].id, procs[p].amount>>}
     \/ UNCHANGED answered
  /\ Stop(p)
  /\ UNCHANGED <<height, journal, deposits, chain>>

\* The process dies, or a statement fails where nothing catches it.
Die(p) ==
  /\ ~At(p, "idle")
  /\ Stop(p)
  /\ UNCHANGED <<height, journal, deposits, chain, answered>>

Execute(f) ==
  /\ deposits[f] # <<>> /\ chain[f] = "none"
  /\ \E outcome \in {"success", "reverted"} : chain' = [chain EXCEPT ![f] = outcome]
  /\ UNCHANGED <<height, journal, procs, deposits, answered>>

\* Between the reading of the height and the sending at most Lag blocks pass.
NewBlock ==
  /\ height < MaxHeight
  /\ \A p \in Proc : At(p, "ready") => height < procs[p].seen + Lag
  /\ height' = height + 1
  /\ UNCHANGED <<journal, procs, deposits, chain, answered>>

Step(p) ==
  \/ \E f \in FundingId, a \in Amount : Start(p, f, a)
  \/ Begin(p) \/ Anchor(p)
  \/ \E valid \in Validities : Proved(p, valid)
  \/ Estimated(p) \/ Refused(p) \/ Release(p)
  \/ Send(p) \/ Sent(p) \/ MarkUnknown(p) \/ MarkSubmitted(p) \/ Waited(p)

Next ==
  \/ \E p \in Proc : Step(p) \/ Die(p)
  \/ \E f \in FundingId : Execute(f)
  \/ NewBlock

Spec == Init /\ [][Next]_vars
-----------------------------------------------------------------------------
(* Properties *)

\* A funding id is deposited once, whatever processes run with it, with
\* whatever amounts, die, and are run again.
DepositedOnce == \A f \in FundingId : Len(deposits[f]) <= 1

\* A run that returns a hash returns that of a deposit of its own amount: an id
\* that is used again for another amount is never answered with the old one.
AnswerIsItsDeposit ==
  \A d \in answered : deposits[d[1]] = <<d[2]>> /\ chain[d[1]] = "success"

\* A deposit is sent while its proof is valid, although the height it was
\* checked against is up to Lag blocks old: the margin covers the delay.
ReadyProofIsValid ==
  \A p \in Proc : At(p, "ready") => height <= procs[p].proving + procs[p].valid

\* Funding keeps the promise of OneDeposit: whatever the processes do to the journal
\* is one deposit of an id, its outcome, an answer about it, or nothing.
Promise == INSTANCE OneDeposit

FundingPromise == Promise!Spec
=============================================================================
