--------------------------- MODULE EvidenceReader ---------------------------
(***************************************************************************)
(* Strk20HistoryEvidenceReader.findPayment (strk20-history.ts), the reader *)
(* the facilitator asks whether a transaction paid the seller, and         *)
(* RpcFinalityChecker.isFinal (rpc-finality.ts).  The seller's history is  *)
(* read page by page as of one block while the chain grows and blocks that *)
(* are only pre-confirmed are undone; the receipt is read last, as of now. *)
(***************************************************************************)
EXTENDS Integers, Sequences, SequencesExt

CONSTANTS Tx,
          Single,            \* those with exactly one incoming note
          NoTx,
          RequiredFinality,  \* "l2" as the server is configured; "l1"
          Kept,              \* the acceptance that is never undone: "l2", or only "l1"
          PageSize,          \* maxTransactions, 50 in the code
          MaxPages,          \* pages read before giving up, 100 in the code
          MaxHistory         \* bound: transactions on the chain

ASSUME ReaderAssumption ==
  /\ Single \subseteq Tx /\ NoTx \notin Tx
  /\ RequiredFinality \in {"l1", "l2"} /\ Kept \in {RequiredFinality, "l2"}
  /\ PageSize \in Nat \ {0} /\ MaxPages \in Nat \ {0} /\ MaxHistory \in Nat

VARIABLES chain,    \* transactions in block order, successful or reverted
          accepted, \* how many of them are accepted on "l2", and on "l1"
          reader,   \* the call of findPayment
          settled   \* history: transactions answered as final payments

vars == <<chain, accepted, reader, settled>>

\* notes is the history as of the block of discoverNotes, read the part of it
\* seen so far, pages how many pages that took.
Idle == [pc |-> "idle", tx |-> NoTx, notes |-> <<>>, read |-> 0, pages |-> 0,
         answer |-> "none"]

TypeOK ==
  /\ chain \in Seq([tx : Tx, ok : BOOLEAN]) /\ IsInjective(chain)
  /\ accepted \in [{"l2", "l1"} -> Nat]
  /\ accepted["l1"] <= accepted["l2"] /\ accepted["l2"] <= Len(chain)
  /\ reader \in [pc : {"idle", "called", "paging", "checking"}, tx : Tx \cup {NoTx},
                 notes : Seq(Tx), read : Nat, pages : 0 .. MaxPages - 1,
                 answer : {"none", "null", "evidence", "threw"}]
  /\ reader.read <= Len(reader.notes)
  /\ settled \subseteq Tx

Init ==
  /\ chain = <<>> /\ accepted = [level \in {"l2", "l1"} |-> 0]
  /\ reader = Idle /\ settled = {}
-----------------------------------------------------------------------------
(* The chain. *)

OnChain(t) == \E i \in DOMAIN chain : chain[i].tx = t

\* A transaction is pre-confirmed; a reverted one leaves no notes.
Include(t, ok) ==
  /\ Len(chain) < MaxHistory /\ ~OnChain(t)
  /\ chain' = Append(chain, [tx |-> t, ok |-> ok])
  /\ UNCHANGED <<accepted, reader, settled>>

AcceptOnL2 ==
  /\ accepted["l2"] < Len(chain)
  /\ accepted' = [accepted EXCEPT !["l2"] = @ + 1]
  /\ UNCHANGED <<chain, reader, settled>>

AcceptOnL1 ==
  /\ accepted["l1"] < accepted["l2"]
  /\ accepted' = [accepted EXCEPT !["l1"] = @ + 1]
  /\ UNCHANGED <<chain, reader, settled>>

Reorg ==
  /\ \E n \in accepted[Kept] .. Len(chain) - 1 :
       /\ chain' = SubSeq(chain, 1, n)
       /\ accepted' = [level \in {"l2", "l1"} |-> Min({n, accepted[level]})]
  /\ UNCHANGED <<reader, settled>>
-----------------------------------------------------------------------------
(* The reader. *)

Call(t) ==
  /\ reader.pc = "idle"
  /\ reader' = [Idle EXCEPT !.pc = "called", !.tx = t]
  /\ UNCHANGED <<chain, accepted, settled>>

\* The seller's history as of the block of the n-th transaction, in an order of
\* the indexer's: the code relies on none.
Histories(n) ==
  SetToSeqs({chain[i].tx : i \in {j \in 1 .. n : chain[j].ok}})

\* discoverNotes and discoverChannels: the block the history is read at is the
\* last one the indexer has, which may be behind the chain.
Discover ==
  /\ reader.pc = "called"
  /\ \E n \in 0 .. Len(chain) : \E notes \in Histories(n) :
       reader' = [reader EXCEPT !.pc = "paging", !.notes = notes]
  /\ UNCHANGED <<chain, accepted, settled>>

Answer(kind) == reader' = [reader EXCEPT !.pc = "idle", !.answer = kind]

\* What is left to read, and the pages of it the indexer can return: short or
\* empty, and complete only when nothing is left.
Rest == SubSeq(reader.notes, reader.read + 1, Len(reader.notes))

Page(k) == SubSeq(Rest, 1, k)

\* Mutation: a page that is not full is taken for the last one.
LastWhenShort(k, complete) == k < PageSize

\* historyComplete.
LastPage(k, complete) == complete

\* Mutation: the number of pages wraps, and never reaches the limit.
PagesReadRound == (reader.pages + 1) % MaxPages

PagesRead == reader.pages + 1

\* Mutation: one page more.
PastCap == PagesRead = MaxPages + 1

AtCap == PagesRead = MaxPages

\* fetchHistory and what is done with the page: the transaction is on it, with
\* one incoming note or not; or there are no more pages; or too many.
Fetch(k, complete) ==
  /\ reader.pc = "paging"
  /\ k <= PageSize /\ k <= Len(Rest) /\ (complete => k = Len(Rest))
  /\ CASE Contains(Page(k), reader.tx) /\ reader.tx \in Single ->
            reader' = [reader EXCEPT !.pc = "checking"]
       [] Contains(Page(k), reader.tx) /\ reader.tx \notin Single -> Answer("null")
       [] ~Contains(Page(k), reader.tx) /\ LastPage(k, complete) -> Answer("null")
       [] OTHER ->
            IF AtCap THEN Answer("threw")
            ELSE reader' = [reader EXCEPT !.read = @ + k, !.pages = PagesRead]
  /\ UNCHANGED <<chain, accepted, settled>>

\* Mutation: a successful receipt is enough.
FinalOnSuccess(t) == \E i \in DOMAIN chain : chain[i] = [tx |-> t, ok |-> TRUE]

\* isFinal, of the receipt as it is now.
Final(t) ==
  \E i \in 1 .. accepted[RequiredFinality] : chain[i] = [tx |-> t, ok |-> TRUE]

CheckFinal ==
  /\ reader.pc = "checking"
  /\ Answer("evidence")
  /\ settled' = IF Final(reader.tx) THEN settled \cup {reader.tx} ELSE settled
  /\ UNCHANGED <<chain, accepted>>

\* The indexer or the node threw, or knows no receipt.
Throw ==
  /\ reader.pc # "idle"
  /\ Answer("threw")
  /\ UNCHANGED <<chain, accepted, settled>>

ReaderStep ==
  \/ Discover
  \/ \E k \in 0 .. PageSize, complete \in BOOLEAN : Fetch(k, complete)
  \/ CheckFinal \/ Throw

Next ==
  \/ \E t \in Tx, ok \in BOOLEAN : Include(t, ok)
  \/ AcceptOnL2 \/ AcceptOnL1 \/ Reorg
  \/ \E t \in Tx : Call(t)
  \/ ReaderStep

Spec == Init /\ [][Next]_vars

\* Every request of the reader is answered, or times out and throws.
FairSpec == Spec /\ WF_vars(ReaderStep)
-----------------------------------------------------------------------------
(* Properties *)

\* A payment is denied only if the whole history as of the block it was read at
\* does not have it with its one note: never because it was on another page.
NullMeansAbsent ==
  reader.answer = "null" =>
    ~(Contains(reader.notes, reader.tx) /\ reader.tx \in Single)

\* What was answered as final stays a successful payment on the chain, although
\* the note was read as of one block and the receipt as of another and blocks
\* are undone between the two and afterwards: the server may claim it for good.
SettledForGood ==
  \A t \in settled : t \in Single /\ Final(t)

\* The payments the chain has made final, and the promise about them that
\* PaidServer builds on: what the reader calls final is final, for good.
FinalPayments == {t \in Single : Final(t)}

Evidence == INSTANCE FinalEvidence WITH Payment <- Single, final <- FinalPayments

\* Requests and answers a call may still wait for.
StepsLeft ==
  CASE reader.pc = "idle" -> 0
    [] reader.pc = "checking" -> 1
    [] reader.pc = "paging" -> MaxPages - reader.pages + 1
    [] reader.pc = "called" -> MaxPages + 2

\* Whatever the pages hold, also if they are empty and never the last one, each
\* of them brings a call closer to its end: it waits MaxPages + 2 times at most.
CallShrinks ==
  [][reader.pc # "idle" /\ reader' # reader
       => StepsLeft \in Nat /\ StepsLeft' \in 0 .. StepsLeft - 1]_vars

\* A call ends, also if the indexer returns empty pages that are never the last.
CallEnds == reader.pc = "called" ~> reader.pc = "idle"
=============================================================================
