------------------------ MODULE EvidenceReaderProofs ------------------------
(***************************************************************************)
(* Proofs about EvidenceReader, for every set of transactions, page size,  *)
(* limit of pages and length of the chain: a payment is denied only if it  *)
(* is not there, and the evidence implements FinalEvidence.                *)
(***************************************************************************)
EXTENDS EvidenceReader, FiniteSetTheorems, TLAPS

Entry == [tx : Tx, ok : BOOLEAN]

Reader == [pc : {"idle", "called", "paging", "checking"}, tx : Tx \cup {NoTx},
           notes : Seq(Tx), read : Nat, pages : 0 .. MaxPages - 1,
           answer : {"none", "null", "evidence", "threw"}]

\* What the reader knows of the transaction it was asked about.
ReaderTruthful ==
  /\ reader.pc # "idle" => reader.tx \in Tx /\ reader.answer = "none"
  /\ reader.pc = "called" => reader.read = 0
  /\ reader.pc = "paging" => \A i \in 1 .. reader.read : reader.notes[i] # reader.tx
  /\ reader.pc = "checking" => reader.tx \in Single

ReaderInv == TypeOK /\ ReaderTruthful /\ NullMeansAbsent /\ SettledForGood
-----------------------------------------------------------------------------
(* The chain. *)

\* The smaller of two numbers.
LEMMA MinOfTwo ==
  ASSUME NEW a \in Nat, NEW b \in Nat
  PROVE  Min({a, b}) = IF a <= b THEN a ELSE b
<1> DEFINE m == IF a <= b THEN a ELSE b
<1>1. m \in {a, b} /\ \A y \in {a, b} : m <= y
  OBVIOUS
<1>2. \A x \in {a, b} : (\A y \in {a, b} : x <= y) => x = m
  OBVIOUS
<1> QED BY <1>1, <1>2 DEF Min

\* The first n elements.
LEMMA CutFacts ==
  ASSUME NEW S, NEW c \in Seq(S), NEW n \in 0 .. Len(c)
  PROVE  /\ SubSeq(c, 1, n) \in Seq(S) /\ Len(SubSeq(c, 1, n)) = n
         /\ \A i \in 1 .. n : SubSeq(c, 1, n)[i] = c[i]
OBVIOUS

\* The parts of the state, typed one by one.
LEMMA ReaderParts ==
  ASSUME TypeOK
  PROVE  /\ chain \in Seq(Entry) /\ reader \in Reader
         /\ accepted \in [{"l2", "l1"} -> Nat]
         /\ accepted["l1"] \in Nat /\ accepted["l2"] \in Nat
         /\ accepted[RequiredFinality] \in Nat /\ accepted[Kept] \in Nat
         /\ accepted[RequiredFinality] <= accepted[Kept]
         /\ accepted[Kept] <= Len(chain) /\ accepted[RequiredFinality] <= Len(chain)
<1>1. /\ chain \in Seq(Entry) /\ reader \in Reader
      /\ accepted \in [{"l2", "l1"} -> Nat]
      /\ accepted["l1"] <= accepted["l2"] /\ accepted["l2"] <= Len(chain)
  BY DEF TypeOK, Entry, Reader
<1>2. /\ RequiredFinality \in {"l1", "l2"} /\ Kept \in {RequiredFinality, "l2"}
  BY ReaderAssumption DEF ReaderAssumption
<1>3. Len(chain) \in Nat
  BY <1>1
<1> QED BY <1>1, <1>2, <1>3

\* Only the environment moves the chain, and the reader stays.
LEMMA ChainSteps ==
  ASSUME TypeOK,
         (\E t \in Tx, ok \in BOOLEAN : Include(t, ok))
           \/ AcceptOnL2 \/ AcceptOnL1 \/ Reorg
  PROVE  /\ UNCHANGED <<reader, settled>>
         /\ chain' \in Seq(Entry) /\ IsInjective(chain')
         /\ accepted' \in [{"l2", "l1"} -> Nat]
         /\ accepted'["l1"] <= accepted'["l2"] /\ accepted'["l2"] <= Len(chain')
         /\ accepted[RequiredFinality] <= accepted'[RequiredFinality]
         /\ accepted'[RequiredFinality] <= accepted[RequiredFinality] + 1
         /\ \A i \in 1 .. accepted[RequiredFinality] : chain'[i] = chain[i]
<1>0. /\ RequiredFinality \in {"l1", "l2"} /\ Kept \in {RequiredFinality, "l2"}
  BY ReaderAssumption DEF ReaderAssumption
<1>1. IsInjective(chain) /\ accepted["l1"] <= accepted["l2"] /\ accepted["l2"] <= Len(chain)
  BY DEF TypeOK
<1>2. ASSUME NEW t \in Tx, NEW ok \in BOOLEAN, Include(t, ok)
      PROVE  /\ chain' \in Seq(Entry) /\ Len(chain') = Len(chain) + 1
             /\ \A i \in 1 .. Len(chain) : chain'[i] = chain[i]
             /\ chain'[Len(chain) + 1] = [tx |-> t, ok |-> ok]
             /\ IsInjective(chain') /\ accepted' = accepted
  <2>1. [tx |-> t, ok |-> ok] \in Entry
    BY DEF Entry
  <2>2. chain' = Append(chain, [tx |-> t, ok |-> ok]) /\ accepted' = accepted
    BY <1>2 DEF Include
  <2>3. /\ chain' \in Seq(Entry) /\ Len(chain') = Len(chain) + 1
        /\ \A i \in 1 .. Len(chain) : chain'[i] = chain[i]
        /\ chain'[Len(chain) + 1] = [tx |-> t, ok |-> ok]
    BY ReaderParts, <2>1, <2>2
  <2>4. \A i \in 1 .. Len(chain) : chain[i].tx # t
    BY <1>2, ReaderParts DEF Include, OnChain
  <2>5. DOMAIN chain = 1 .. Len(chain) /\ DOMAIN chain' = 1 .. Len(chain) + 1
        /\ Len(chain) \in Nat
    BY <2>3, ReaderParts
  <2>6. \A i \in 1 .. Len(chain) : chain[i] # [tx |-> t, ok |-> ok]
    BY <2>4
  <2>7. \A a, b \in DOMAIN chain' : chain'[a] = chain'[b] => a = b
    <3>1. TAKE a, b \in DOMAIN chain'
    <3>2. a \in 1 .. Len(chain) \/ a = Len(chain) + 1
      BY <2>5
    <3>3. b \in 1 .. Len(chain) \/ b = Len(chain) + 1
      BY <2>5
    <3> QED BY <3>2, <3>3, <2>3, <2>5, <2>6, <1>1 DEF IsInjective
  <2> QED BY <2>2, <2>3, <2>7 DEF IsInjective
<1>3. ASSUME NEW n \in accepted[Kept] .. Len(chain) - 1, chain' = SubSeq(chain, 1, n),
             accepted' = [level \in {"l2", "l1"} |-> Min({n, accepted[level]})]
      PROVE  /\ chain' \in Seq(Entry) /\ IsInjective(chain') /\ Len(chain') = n
             /\ accepted' \in [{"l2", "l1"} -> Nat]
             /\ accepted'["l1"] <= accepted'["l2"] /\ accepted'["l2"] <= n
             /\ accepted'[RequiredFinality] = accepted[RequiredFinality]
             /\ \A i \in 1 .. n : chain'[i] = chain[i]
  <2>1. n \in Nat /\ n \in 0 .. Len(chain)
    BY ReaderParts
  <2>2. /\ chain' \in Seq(Entry) /\ Len(chain') = n
        /\ \A i \in 1 .. n : chain'[i] = chain[i]
    BY <1>3, <2>1, ReaderParts, CutFacts
  <2>3. \A level \in {"l2", "l1"} :
          accepted'[level] = IF n <= accepted[level] THEN n ELSE accepted[level]
    BY <1>3, <2>1, ReaderParts, MinOfTwo
  <2>4. accepted' \in [{"l2", "l1"} -> Nat]
    <3>1. \A level \in {"l2", "l1"} : Min({n, accepted[level]}) \in Nat
      BY <2>1, ReaderParts, MinOfTwo
    <3> QED BY <1>3, <3>1
  <2>5. accepted'["l1"] <= accepted'["l2"] /\ accepted'["l2"] <= n
    BY <1>1, <2>1, <2>3, ReaderParts
  <2>6. accepted'[RequiredFinality] = accepted[RequiredFinality]
    BY <1>0, <2>1, <2>3, ReaderParts
  <2>7. DOMAIN chain = 1 .. Len(chain) /\ DOMAIN chain' = 1 .. n
    BY <2>2, ReaderParts
  <2>8. IsInjective(chain')
    BY <1>1, <2>1, <2>2, <2>7 DEF IsInjective
  <2> QED BY <2>2, <2>4, <2>5, <2>6, <2>8
<1>4. ASSUME NEW level \in {"l2", "l1"}, accepted' = [accepted EXCEPT ![level] = @ + 1],
             chain' = chain
      PROVE  /\ accepted' \in [{"l2", "l1"} -> Nat]
             /\ accepted[RequiredFinality] <= accepted'[RequiredFinality]
             /\ accepted'[RequiredFinality] <= accepted[RequiredFinality] + 1
  BY <1>0, <1>4, ReaderParts
<1>5. CASE \E t \in Tx, ok \in BOOLEAN : Include(t, ok)
  <2>1. PICK t \in Tx, ok \in BOOLEAN : Include(t, ok)
    BY <1>5
  <2>2. UNCHANGED <<reader, settled>>
    BY <2>1 DEF Include
  <2>3. /\ chain' \in Seq(Entry) /\ Len(chain') = Len(chain) + 1
        /\ \A i \in 1 .. Len(chain) : chain'[i] = chain[i]
        /\ IsInjective(chain') /\ accepted' = accepted
    BY <1>2, <2>1
  <2>4. Len(chain) \in Nat
    BY ReaderParts
  <2>5. \A i \in 1 .. accepted[RequiredFinality] : chain'[i] = chain[i]
    BY <2>3, <2>4, ReaderParts
  <2>6. accepted["l2"] <= Len(chain')
    BY <1>1, <2>3, <2>4, ReaderParts
  <2>7. accepted[RequiredFinality] <= accepted[RequiredFinality] + 1
    BY ReaderParts
  <2> QED BY <1>1, <2>2, <2>3, <2>5, <2>6, <2>7, ReaderParts
<1>6. CASE AcceptOnL2
  <2>1. /\ accepted' = [accepted EXCEPT !["l2"] = @ + 1] /\ accepted["l2"] < Len(chain)
        /\ UNCHANGED <<chain, reader, settled>>
    BY <1>6 DEF AcceptOnL2
  <2> QED BY <1>1, <1>4, <2>1, ReaderParts
<1>7. CASE AcceptOnL1
  <2>1. /\ accepted' = [accepted EXCEPT !["l1"] = @ + 1] /\ accepted["l1"] < accepted["l2"]
        /\ UNCHANGED <<chain, reader, settled>>
    BY <1>7 DEF AcceptOnL1
  <2> QED BY <1>1, <1>4, <2>1, ReaderParts
<1>8. CASE Reorg
  <2>1. PICK n \in accepted[Kept] .. Len(chain) - 1 :
          /\ chain' = SubSeq(chain, 1, n)
          /\ accepted' = [level \in {"l2", "l1"} |-> Min({n, accepted[level]})]
    BY <1>8 DEF Reorg
  <2>2. UNCHANGED <<reader, settled>>
    BY <1>8 DEF Reorg
  <2>3. accepted[RequiredFinality] <= n /\ n \in Nat
    BY ReaderParts
  <2>4. /\ chain' \in Seq(Entry) /\ IsInjective(chain') /\ Len(chain') = n
        /\ accepted' \in [{"l2", "l1"} -> Nat]
        /\ accepted'["l1"] <= accepted'["l2"] /\ accepted'["l2"] <= n
        /\ accepted'[RequiredFinality] = accepted[RequiredFinality]
        /\ \A i \in 1 .. n : chain'[i] = chain[i]
    BY <1>3, <2>1
  <2>5. \A i \in 1 .. accepted[RequiredFinality] : chain'[i] = chain[i]
    BY <2>3, <2>4, ReaderParts
  <2>6. /\ accepted[RequiredFinality] <= accepted'[RequiredFinality]
        /\ accepted'[RequiredFinality] <= accepted[RequiredFinality] + 1
    BY <2>4, ReaderParts
  <2> QED BY <2>2, <2>4, <2>5, <2>6
<1> QED BY <1>5, <1>6, <1>7, <1>8

\* A final payment stays final, and at most one more becomes final in a step.
LEMMA FinalityGrows ==
  ASSUME TypeOK,
         (\E t \in Tx, ok \in BOOLEAN : Include(t, ok))
           \/ AcceptOnL2 \/ AcceptOnL1 \/ Reorg
  PROVE  /\ \A t \in Tx : Final(t) => Final(t)'
         /\ \A s, t \in Tx : Final(s)' /\ ~Final(s) /\ Final(t)' /\ ~Final(t) => s = t
<1> DEFINE old == accepted[RequiredFinality]
           new == accepted'[RequiredFinality]
<1>1. /\ old \in Nat /\ new \in Nat /\ old <= new /\ new <= old + 1
      /\ \A i \in 1 .. old : chain'[i] = chain[i]
  <2>1. RequiredFinality \in {"l2", "l1"}
    BY ReaderAssumption DEF ReaderAssumption
  <2> QED BY <2>1, ReaderParts, ChainSteps
<1>2. \A t : Final(t) = \E i \in 1 .. old : chain[i] = [tx |-> t, ok |-> TRUE]
  BY DEF Final
<1>3. \A t : Final(t)' = \E i \in 1 .. new : chain'[i] = [tx |-> t, ok |-> TRUE]
  BY DEF Final
<1>4. ASSUME NEW t, Final(t)', ~Final(t)
      PROVE  chain'[old + 1] = [tx |-> t, ok |-> TRUE]
  <2>1. PICK i \in 1 .. new : chain'[i] = [tx |-> t, ok |-> TRUE]
    BY <1>3, <1>4
  <2>2. i \notin 1 .. old
    BY <1>1, <1>2, <1>4, <2>1
  <2>3. i = old + 1
    BY <1>1, <2>2
  <2> QED BY <2>1, <2>3
<1>5. ASSUME NEW t, Final(t) PROVE Final(t)'
  <2>1. PICK i \in 1 .. old : chain[i] = [tx |-> t, ok |-> TRUE]
    BY <1>2, <1>5
  <2>2. i \in 1 .. new /\ chain'[i] = [tx |-> t, ok |-> TRUE]
    BY <1>1, <2>1
  <2> QED BY <1>3, <2>2
<1>6. ASSUME NEW s, NEW t, Final(s)', ~Final(s), Final(t)', ~Final(t)
      PROVE  s = t
  <2>1. [tx |-> s, ok |-> TRUE] = [tx |-> t, ok |-> TRUE]
    BY <1>4, <1>6
  <2>2. [tx |-> s, ok |-> TRUE].tx = [tx |-> t, ok |-> TRUE].tx
    BY <2>1
  <2> QED BY <2>2
<1> QED BY <1>5, <1>6
-----------------------------------------------------------------------------
(* The reader. *)

\* What follows the first m elements.
LEMMA TailFacts ==
  ASSUME NEW S, NEW c \in Seq(S), NEW m \in 0 .. Len(c)
  PROVE  /\ SubSeq(c, m + 1, Len(c)) \in Seq(S)
         /\ Len(SubSeq(c, m + 1, Len(c))) = Len(c) - m
         /\ \A i \in 1 .. Len(c) - m : SubSeq(c, m + 1, Len(c))[i] = c[m + i]
<1>1. Len(c) \in Nat /\ m \in Nat /\ m <= Len(c) /\ DOMAIN c = 1 .. Len(c)
  OBVIOUS
<1>2. SubSeq(c, m + 1, Len(c)) = [i \in 1 .. Len(c) - m |-> c[m + i]]
  BY <1>1
<1>3. \A i \in 1 .. Len(c) - m : c[m + i] \in S
  BY <1>1
<1> DEFINE l == Len(c) - m
           d == [i \in 1 .. l |-> c[m + i]]
<1>4. l \in Nat
  BY <1>1
<1>5. d \in [1 .. l -> S]
  BY <1>3
<1> HIDE DEF l
<1>6. d \in Seq(S) /\ Len(d) = l /\ \A i \in 1 .. l : d[i] = c[m + i]
  BY <1>4, <1>5
<1> QED BY <1>2, <1>6 DEF l

\* A page is the next k transactions of the history.
LEMMA PageFacts ==
  ASSUME TypeOK, NEW k \in 0 .. PageSize, k <= Len(Rest)
  PROVE  /\ Len(Rest) = Len(reader.notes) - reader.read
         /\ reader.read + k <= Len(reader.notes) /\ reader.read + k \in Nat
         /\ (Contains(Page(k), reader.tx) <=>
               \E i \in reader.read + 1 .. reader.read + k : reader.notes[i] = reader.tx)
<1> DEFINE notes == reader.notes
           read  == reader.read
<1>1. notes \in Seq(Tx) /\ read \in Nat /\ read <= Len(notes) /\ Len(notes) \in Nat
  BY ReaderParts DEF TypeOK, Reader
<1>2. k \in Nat
  BY ReaderAssumption DEF ReaderAssumption
<1> HIDE DEF notes, read
<1>a. Rest = SubSeq(notes, read + 1, Len(notes)) /\ read \in 0 .. Len(notes)
  BY <1>1 DEF Rest, notes, read
<1>3. /\ Rest \in Seq(Tx) /\ Len(Rest) = Len(notes) - read
      /\ \A i \in 1 .. Len(notes) - read : Rest[i] = notes[read + i]
  BY <1>1, <1>a, TailFacts
<1>4. /\ Page(k) \in Seq(Tx) /\ Len(Page(k)) = k
      /\ \A i \in 1 .. k : Page(k)[i] = Rest[i]
  <2>1. k \in 0 .. Len(Rest)
    BY <1>1, <1>2, <1>3
  <2> QED BY <1>3, <2>1, CutFacts DEF Page
<1>5. ASSUME NEW i \in 1 .. k PROVE Page(k)[i] = notes[read + i]
  <2>1. i \in 1 .. Len(notes) - read
    BY <1>1, <1>2, <1>3
  <2> QED BY <1>3, <1>4, <2>1
<1>6. Contains(Page(k), reader.tx) <=>
        \E i \in 1 .. k : notes[read + i] = reader.tx
  BY <1>4, <1>5 DEF Contains
<1>7. (\E i \in 1 .. k : notes[read + i] = reader.tx) <=>
        \E i \in read + 1 .. read + k : notes[i] = reader.tx
  <2>1. ASSUME NEW i \in 1 .. k, notes[read + i] = reader.tx
        PROVE  \E j \in read + 1 .. read + k : notes[j] = reader.tx
    BY <1>1, <1>2, <2>1
  <2>2. ASSUME NEW j \in read + 1 .. read + k, notes[j] = reader.tx
        PROVE  \E i \in 1 .. k : notes[read + i] = reader.tx
    <3>1. j - read \in 1 .. k /\ read + (j - read) = j
      BY <1>1, <1>2
    <3> QED BY <2>2, <3>1
  <2> QED BY <2>1, <2>2
<1>8. read + k <= Len(notes) /\ read + k \in Nat
  BY <1>1, <1>2, <1>3
<1> QED BY <1>3, <1>6, <1>7, <1>8 DEF notes, read

\* A history the indexer can list is a sequence of transactions.
LEMMA HistoryIsSequence ==
  ASSUME TypeOK, NEW n \in 0 .. Len(chain), NEW notes \in Histories(n)
  PROVE  notes \in Seq(Tx)
<1> DEFINE S == {chain[i].tx : i \in {j \in 1 .. n : chain[j].ok}}
<1>1. /\ chain \in Seq(Entry) /\ Len(chain) \in Nat
  BY ReaderParts
<1>2. \A i \in 1 .. n : chain[i] \in Entry
  BY <1>1
<1>3. S \subseteq Tx
  BY <1>2 DEF Entry
<1>4. IsFiniteSet(S)
  <2>1. IsFiniteSet(1 .. n)
    BY <1>1, FS_Interval
  <2>2. IsFiniteSet({j \in 1 .. n : chain[j].ok})
    BY <2>1, FS_Subset
  <2> DEFINE J == {j \in 1 .. n : chain[j].ok}
             f == [i \in J |-> chain[i].tx]
  <2>3. f \in [J -> S]
    OBVIOUS
  <2>4. \A t \in S : \E i \in J : f[i] = t
    OBVIOUS
  <2>5. f \in Surjection(J, S)
    BY <2>3, <2>4 DEF Surjection
  <2> QED BY <2>2, <2>5, FS_Surjection
<1>5. Cardinality(S) \in Nat
  BY <1>4, FS_CardinalityType
<1>6. notes \in [1 .. Cardinality(S) -> S]
  BY DEF Histories, SetToSeqs
<1>7. notes \in [1 .. Cardinality(S) -> Tx]
  BY <1>3, <1>6
<1> HIDE DEF S
<1> QED BY <1>5, <1>7

\* The steps of the reader and what each leaves of the invariant.
LEMMA ReaderSteps ==
  ASSUME ReaderInv, (\E t \in Tx : Call(t)) \/ ReaderStep
  PROVE  /\ UNCHANGED <<chain, accepted>>
         /\ reader' \in Reader /\ reader'.read <= Len(reader'.notes)
         /\ ReaderTruthful' /\ NullMeansAbsent'
         /\ \/ UNCHANGED settled
            \/ \E t \in Single : Final(t) /\ settled' = settled \cup {t}
<1>0. /\ reader \in Reader /\ reader.read <= Len(reader.notes)
      /\ Single \subseteq Tx /\ NoTx \notin Tx /\ MaxPages \in Nat \ {0}
  BY ReaderParts, ReaderAssumption DEF ReaderInv, TypeOK, ReaderAssumption
<1>1. CASE \E t \in Tx : Call(t)
  <2>1. PICK t \in Tx : Call(t)
    BY <1>1
  <2>2. reader' = [pc |-> "called", tx |-> t, notes |-> <<>>, read |-> 0, pages |-> 0,
                   answer |-> "none"]
    BY <2>1 DEF Call, Idle
  <2>3. UNCHANGED <<chain, accepted, settled>>
    BY <2>1 DEF Call
  <2>4. reader' \in Reader /\ reader'.read <= Len(reader'.notes)
    BY <1>0, <2>2 DEF Reader
  <2> QED BY <2>2, <2>3, <2>4 DEF ReaderTruthful, NullMeansAbsent
<1>2. CASE Discover
  <2>0. PICK n \in 0 .. Len(chain) : \E notes \in Histories(n) :
          reader' = [reader EXCEPT !.pc = "paging", !.notes = notes]
    BY <1>2 DEF Discover
  <2>1. PICK notes \in Histories(n) :
          reader' = [reader EXCEPT !.pc = "paging", !.notes = notes]
    BY <2>0
  <2>2. /\ reader.pc = "called" /\ UNCHANGED <<chain, accepted, settled>>
    BY <1>2 DEF Discover
  <2>3. notes \in Seq(Tx)
    BY HistoryIsSequence DEF ReaderInv
  <2>4. /\ reader'.pc = "paging" /\ reader'.tx = reader.tx /\ reader'.notes = notes
        /\ reader'.read = reader.read /\ reader'.answer = reader.answer
    BY <1>0, <2>1 DEF Reader
  <2>5. reader.tx \in Tx /\ reader.answer = "none"
    BY <2>2 DEF ReaderInv, ReaderTruthful
  <2>6. reader.read = 0
    BY <2>2 DEF ReaderInv, ReaderTruthful
  <2>7. reader' \in Reader
    BY <1>0, <2>1, <2>3 DEF Reader
  <2>8. reader'.read <= Len(reader'.notes)
    BY <2>3, <2>4, <2>6
  <2> QED BY <2>2, <2>4, <2>5, <2>6, <2>7, <2>8 DEF ReaderTruthful, NullMeansAbsent
<1>3. CASE \E k \in 0 .. PageSize, complete \in BOOLEAN : Fetch(k, complete)
  <2>1. PICK k \in 0 .. PageSize, complete \in BOOLEAN : Fetch(k, complete)
    BY <1>3
  <2> DEFINE found == Contains(Page(k), reader.tx)
  <2>2. /\ reader.pc = "paging" /\ k <= Len(Rest) /\ (complete => k = Len(Rest))
        /\ UNCHANGED <<chain, accepted, settled>>
    BY <2>1 DEF Fetch
  <2>3. /\ reader.tx \in Tx /\ reader.answer = "none"
        /\ \A i \in 1 .. reader.read : reader.notes[i] # reader.tx
    BY <2>2 DEF ReaderInv, ReaderTruthful
  <2>4. /\ Len(Rest) = Len(reader.notes) - reader.read
        /\ reader.read + k <= Len(reader.notes) /\ reader.read + k \in Nat
        /\ (found <=> \E i \in reader.read + 1 .. reader.read + k :
                        reader.notes[i] = reader.tx)
    BY <2>2, PageFacts DEF ReaderInv
  <2>5. reader.read \in Nat /\ Len(reader.notes) \in Nat /\ k \in Nat
    BY <1>0, ReaderAssumption DEF Reader, ReaderAssumption
  <2>6. CASE found /\ reader.tx \in Single
    <3>1. reader' = [reader EXCEPT !.pc = "checking"]
      BY <2>1, <2>6 DEF Fetch
    <3>2. reader' \in Reader /\ reader'.read <= Len(reader'.notes)
      BY <1>0, <3>1 DEF Reader
    <3>3. reader'.pc = "checking" /\ reader'.tx = reader.tx /\ reader'.answer = "none"
      BY <1>0, <2>3, <3>1 DEF Reader
    <3> QED BY <2>2, <2>3, <2>6, <3>2, <3>3 DEF ReaderTruthful, NullMeansAbsent
  <2>7. CASE ~(found /\ reader.tx \in Single) /\ (found \/ LastPage(k, complete))
    <3>1. reader' = [reader EXCEPT !.pc = "idle", !.answer = "null"]
      BY <2>1, <2>7 DEF Fetch, Answer
    <3>2. reader' \in Reader /\ reader'.read <= Len(reader'.notes)
      BY <1>0, <3>1 DEF Reader
    <3>3. /\ reader'.pc = "idle" /\ reader'.tx = reader.tx
          /\ reader'.notes = reader.notes
      BY <1>0, <3>1 DEF Reader
    <3>4. ~(Contains(reader.notes, reader.tx) /\ reader.tx \in Single)
      <4>1. CASE found
        BY <2>7, <4>1
      <4>2. CASE ~found
        <5>1. reader.read + k = Len(reader.notes)
          BY <2>2, <2>4, <2>5, <2>7, <4>2 DEF LastPage
        <5>2. \A i \in 1 .. Len(reader.notes) : reader.notes[i] # reader.tx
          BY <2>3, <2>4, <2>5, <4>2, <5>1
        <5> QED BY <5>2 DEF Contains
      <4> QED BY <4>1, <4>2
    <3> QED BY <2>2, <3>2, <3>3, <3>4 DEF ReaderTruthful, NullMeansAbsent
  <2>8. CASE ~found /\ ~LastPage(k, complete) /\ AtCap
    <3>1. reader' = [reader EXCEPT !.pc = "idle", !.answer = "threw"]
      BY <2>1, <2>8 DEF Fetch, Answer
    <3>2. reader' \in Reader /\ reader'.read <= Len(reader'.notes)
      BY <1>0, <3>1 DEF Reader
    <3>3. reader'.pc = "idle" /\ reader'.answer = "threw"
      BY <1>0, <3>1 DEF Reader
    <3> QED BY <2>2, <3>2, <3>3 DEF ReaderTruthful, NullMeansAbsent
  <2>9. CASE ~found /\ ~LastPage(k, complete) /\ ~AtCap
    <3>1. reader' = [reader EXCEPT !.read = reader.read + k, !.pages = PagesRead]
      BY <2>1, <2>9 DEF Fetch
    <3>2. PagesRead \in 0 .. MaxPages - 1
      BY <1>0, <2>9 DEF AtCap, PagesRead, Reader
    <3>3. reader' \in Reader
      BY <1>0, <2>4, <3>1, <3>2 DEF Reader
    <3>4. /\ reader'.pc = "paging" /\ reader'.tx = reader.tx /\ reader'.answer = "none"
          /\ reader'.notes = reader.notes /\ reader'.read = reader.read + k
      BY <1>0, <2>2, <2>3, <3>1 DEF Reader
    <3>5. \A i \in 1 .. reader.read + k : reader.notes[i] # reader.tx
      BY <2>3, <2>4, <2>5, <2>9
    <3> QED BY <2>2, <2>3, <2>4, <3>3, <3>4, <3>5 DEF ReaderTruthful, NullMeansAbsent
  <2> QED BY <2>6, <2>7, <2>8, <2>9
<1>4. CASE CheckFinal
  <2>1. /\ reader' = [reader EXCEPT !.pc = "idle", !.answer = "evidence"]
        /\ reader.pc = "checking" /\ UNCHANGED <<chain, accepted>>
        /\ settled' = IF Final(reader.tx) THEN settled \cup {reader.tx} ELSE settled
    BY <1>4 DEF CheckFinal, Answer
  <2>2. reader.tx \in Single
    BY <2>1 DEF ReaderInv, ReaderTruthful
  <2>3. reader' \in Reader /\ reader'.read <= Len(reader'.notes)
    BY <1>0, <2>1 DEF Reader
  <2>4. reader'.pc = "idle" /\ reader'.answer = "evidence"
    BY <1>0, <2>1 DEF Reader
  <2> QED BY <2>1, <2>2, <2>3, <2>4 DEF ReaderTruthful, NullMeansAbsent
<1>5. CASE Throw
  <2>1. /\ reader' = [reader EXCEPT !.pc = "idle", !.answer = "threw"]
        /\ UNCHANGED <<chain, accepted, settled>>
    BY <1>5 DEF Throw, Answer
  <2>2. reader' \in Reader /\ reader'.read <= Len(reader'.notes)
    BY <1>0, <2>1 DEF Reader
  <2>3. reader'.pc = "idle" /\ reader'.answer = "threw"
    BY <1>0, <2>1 DEF Reader
  <2> QED BY <2>1, <2>2, <2>3 DEF ReaderTruthful, NullMeansAbsent
<1> QED BY <1>1, <1>2, <1>3, <1>4, <1>5 DEF ReaderStep
-----------------------------------------------------------------------------
(* The theorems. *)

\* What was answered as final was a payment, and is one whatever the chain does.
LEMMA SettledStays ==
  ASSUME TypeOK, SettledForGood, UNCHANGED settled,
         \A t \in Tx : Final(t) => Final(t)'
  PROVE  SettledForGood'
BY ReaderAssumption DEF SettledForGood, ReaderAssumption

LEMMA ReaderInit == Init => ReaderInv
<1>1. SUFFICES ASSUME Init PROVE ReaderInv
  OBVIOUS
<1>2. /\ chain = <<>> /\ accepted = [level \in {"l2", "l1"} |-> 0] /\ settled = {}
      /\ reader = [pc |-> "idle", tx |-> NoTx, notes |-> <<>>, read |-> 0,
                   pages |-> 0, answer |-> "none"]
  BY <1>1 DEF Init, Idle
<1>3. MaxPages \in Nat \ {0}
  BY ReaderAssumption DEF ReaderAssumption
<1>4. IsInjective(chain) /\ chain \in Seq(Entry) /\ Len(chain) = 0
  BY <1>2 DEF IsInjective
<1>5. TypeOK
  BY <1>2, <1>3, <1>4 DEF TypeOK, Entry
<1>6. ReaderTruthful /\ NullMeansAbsent /\ SettledForGood
  BY <1>2 DEF ReaderTruthful, NullMeansAbsent, SettledForGood
<1> QED BY <1>5, <1>6 DEF ReaderInv

LEMMA ReaderNext == ReaderInv /\ [Next]_vars => ReaderInv'
<1>1. SUFFICES ASSUME ReaderInv, [Next]_vars PROVE ReaderInv'
  OBVIOUS
<1>2. CASE (\E t \in Tx, ok \in BOOLEAN : Include(t, ok))
             \/ AcceptOnL2 \/ AcceptOnL1 \/ Reorg
  <2>1. /\ UNCHANGED <<reader, settled>>
        /\ chain' \in Seq(Entry) /\ IsInjective(chain')
        /\ accepted' \in [{"l2", "l1"} -> Nat]
        /\ accepted'["l1"] <= accepted'["l2"] /\ accepted'["l2"] <= Len(chain')
    BY <1>1, <1>2, ChainSteps DEF ReaderInv
  <2>2. TypeOK'
    BY <1>1, <2>1 DEF ReaderInv, TypeOK, Entry
  <2>3. \A t \in Tx : Final(t) => Final(t)'
    BY <1>1, <1>2, FinalityGrows DEF ReaderInv
  <2>4. SettledForGood'
    BY <1>1, <2>1, <2>3, SettledStays DEF ReaderInv
  <2>5. ReaderTruthful' /\ NullMeansAbsent'
    BY <1>1, <2>1 DEF ReaderInv, ReaderTruthful, NullMeansAbsent
  <2> QED BY <2>2, <2>4, <2>5 DEF ReaderInv
<1>3. CASE (\E t \in Tx : Call(t)) \/ ReaderStep
  <2>1. /\ UNCHANGED <<chain, accepted>>
        /\ reader' \in Reader /\ reader'.read <= Len(reader'.notes)
        /\ ReaderTruthful' /\ NullMeansAbsent'
        /\ \/ UNCHANGED settled
           \/ \E t \in Single : Final(t) /\ settled' = settled \cup {t}
    BY <1>1, <1>3, ReaderSteps
  <2>2. settled' \subseteq Tx
    BY <1>1, <2>1, ReaderAssumption DEF ReaderInv, TypeOK, ReaderAssumption
  <2>3. TypeOK'
    BY <1>1, <2>1, <2>2 DEF ReaderInv, TypeOK, Reader
  <2>4. \A t : Final(t) <=> Final(t)'
    BY <2>1 DEF Final
  <2>5. SettledForGood'
    BY <1>1, <2>1, <2>4 DEF ReaderInv, SettledForGood
  <2> QED BY <2>1, <2>3, <2>5 DEF ReaderInv
<1>4. CASE UNCHANGED vars
  <2>1. UNCHANGED <<chain, accepted, reader, settled>>
    BY <1>4 DEF vars
  <2>2. TypeOK' /\ ReaderTruthful' /\ NullMeansAbsent'
    BY <1>1, <2>1 DEF ReaderInv, TypeOK, ReaderTruthful, NullMeansAbsent
  <2>3. SettledForGood'
    BY <1>1, <2>1 DEF ReaderInv, SettledForGood, Final
  <2> QED BY <2>2, <2>3 DEF ReaderInv
<1> QED BY <1>1, <1>2, <1>3, <1>4 DEF Next

\* The invariant of the reader, of which the theorems below are consequences.
LEMMA ReaderCorrect == Spec => []ReaderInv
BY ReaderInit, ReaderNext, PTL DEF Spec

\* The chain, the call of findPayment and the history of its answers have their
\* types; in particular the reader never counts past its last page.
THEOREM ReaderTypeCorrect == Spec => []TypeOK
<1>1. ReaderInv => TypeOK
  BY DEF ReaderInv
<1> QED BY <1>1, ReaderCorrect, PTL

\* findPayment denies a payment only if the whole history it reads does not have
\* it with its one note, however the indexer cuts the history into pages.
THEOREM NullIsTrue == Spec => []NullMeansAbsent
<1>1. ReaderInv => NullMeansAbsent
  BY DEF ReaderInv
<1> QED BY <1>1, ReaderCorrect, PTL

\* Evidence that isFinal called final stays a successful payment on the chain,
\* whatever is undone above the acceptance the server is configured to require.
THEOREM FinalForGood == Spec => []SettledForGood
<1>1. ReaderInv => SettledForGood
  BY DEF ReaderInv
<1> QED BY <1>1, ReaderCorrect, PTL

\* Whatever history the indexer lists, no page of it has been read.
LEMMA DiscoverStarts ==
  ASSUME reader \in Reader, Discover
  PROVE  reader.pc = "called" /\ reader'.pc = "paging" /\ reader'.pages = reader.pages
<1>1. reader.pc = "called"
  BY DEF Discover
<1>2. PICK n \in 0 .. Len(chain) : \E notes \in Histories(n) :
        reader' = [reader EXCEPT !.pc = "paging", !.notes = notes]
  BY DEF Discover
<1>3. PICK notes \in Histories(n) :
        reader' = [reader EXCEPT !.pc = "paging", !.notes = notes]
  BY <1>2
<1> QED BY <1>1, <1>3 DEF Reader

\* Each step of a running call, of the reader or of the chain beside it.
LEMMA CallStep ==
  ASSUME ReaderInv, [Next]_vars, reader.pc # "idle", reader' # reader
  PROVE  StepsLeft \in Nat /\ StepsLeft' \in 0 .. StepsLeft - 1
<1>0. reader \in Reader /\ MaxPages \in Nat \ {0}
  BY ReaderParts, ReaderAssumption DEF ReaderInv, ReaderAssumption
<1>1. reader.pages \in 0 .. MaxPages - 1
  BY <1>0 DEF Reader
<1>2. StepsLeft \in Nat
  BY <1>0, <1>1 DEF StepsLeft, Reader
<1>3. ASSUME reader.pc \in {"called", "paging", "checking"}, reader'.pc = "idle"
      PROVE  StepsLeft' \in 0 .. StepsLeft - 1
  BY <1>0, <1>1, <1>3 DEF StepsLeft
<1>4. reader.pc \in {"called", "paging", "checking"}
  BY <1>0 DEF Reader
<1>5. ReaderStep
  <2>1. CASE (\E t \in Tx, ok \in BOOLEAN : Include(t, ok))
               \/ AcceptOnL2 \/ AcceptOnL1 \/ Reorg
    BY <2>1, ChainSteps DEF ReaderInv
  <2>2. CASE \E t \in Tx : Call(t)
    BY <2>2 DEF Call
  <2> QED BY <2>1, <2>2 DEF Next, vars
<1>6. CASE Discover
  <2>1. reader.pc = "called" /\ reader'.pc = "paging" /\ reader'.pages = reader.pages
    BY <1>0, <1>6, DiscoverStarts
  <2>2. StepsLeft = MaxPages + 2 /\ StepsLeft' = MaxPages - reader.pages + 1
    BY <2>1 DEF StepsLeft
  <2> QED BY <1>0, <1>1, <1>2, <2>2
<1>7. CASE \E k \in 0 .. PageSize, complete \in BOOLEAN : Fetch(k, complete)
  <2>1. PICK k \in 0 .. PageSize, complete \in BOOLEAN : Fetch(k, complete)
    BY <1>7
  <2> DEFINE found == Contains(Page(k), reader.tx)
  <2>2. reader.pc = "paging"
    BY <2>1 DEF Fetch
  <2>3. StepsLeft = MaxPages - reader.pages + 1
    BY <2>2 DEF StepsLeft
  <2>4. CASE found /\ reader.tx \in Single
    <3>1. reader' = [reader EXCEPT !.pc = "checking"]
      BY <2>1, <2>4 DEF Fetch
    <3>2. reader'.pc = "checking"
      BY <1>0, <3>1 DEF Reader
    <3>3. StepsLeft' = 1
      BY <3>2 DEF StepsLeft
    <3> QED BY <1>0, <1>1, <1>2, <2>3, <3>3
  <2>5. CASE ~(found /\ reader.tx \in Single) /\ (found \/ LastPage(k, complete))
    <3>1. reader' = [reader EXCEPT !.pc = "idle", !.answer = "null"]
      BY <2>1, <2>5 DEF Fetch, Answer
    <3>2. reader'.pc = "idle"
      BY <1>0, <3>1 DEF Reader
    <3> QED BY <1>2, <1>3, <1>4, <3>2
  <2>6. CASE ~found /\ ~LastPage(k, complete) /\ AtCap
    <3>1. reader' = [reader EXCEPT !.pc = "idle", !.answer = "threw"]
      BY <2>1, <2>6 DEF Fetch, Answer
    <3>2. reader'.pc = "idle"
      BY <1>0, <3>1 DEF Reader
    <3> QED BY <1>2, <1>3, <1>4, <3>2
  <2>7. CASE ~found /\ ~LastPage(k, complete) /\ ~AtCap
    <3>1. reader' = [reader EXCEPT !.read = @ + k, !.pages = PagesRead]
      BY <2>1, <2>7 DEF Fetch
    <3>2. reader'.pc = "paging" /\ reader'.pages = reader.pages + 1
      BY <1>0, <2>2, <3>1 DEF Reader, PagesRead
    <3>3. reader.pages + 1 # MaxPages
      BY <2>7 DEF AtCap, PagesRead
    <3>4. StepsLeft' = MaxPages - (reader.pages + 1) + 1
      BY <3>2 DEF StepsLeft
    <3> QED BY <1>0, <1>1, <1>2, <2>3, <3>3, <3>4
  <2> QED BY <2>4, <2>5, <2>6, <2>7
<1>8. CASE CheckFinal \/ Throw
  <2>1. reader'.pc = "idle"
    BY <1>0, <1>8 DEF CheckFinal, Throw, Answer, Reader
  <2> QED BY <1>2, <1>3, <1>4, <2>1
<1> QED BY <1>5, <1>6, <1>7, <1>8 DEF ReaderStep

\* findPayment never waits longer than for MaxPages + 2 answers, whatever the
\* pages hold and for every size and number of them: what CallEnds needs beside
\* the fairness of the answers.
THEOREM CallShrinksAlways == Spec => CallShrinks
<1>1. ReaderInv /\ [Next]_vars
        => [reader.pc # "idle" /\ reader' # reader
              => StepsLeft \in Nat /\ StepsLeft' \in 0 .. StepsLeft - 1]_vars
  BY CallStep
<1> QED BY <1>1, ReaderCorrect, PTL DEF Spec, CallShrinks

\* The reader against the moving chain implements FinalEvidence: for the rest of
\* the server, payments become final one by one, stay so, and only they are
\* answered as final.
THEOREM ReaderGivesEvidence == Spec => Evidence!Spec
<1>1. Init => Evidence!Init
  <2>1. SUFFICES ASSUME Init PROVE FinalPayments = {} /\ settled = {}
    BY DEF Evidence!Init
  <2>2. accepted[RequiredFinality] = 0
    BY <2>1, ReaderAssumption DEF Init, ReaderAssumption
  <2> QED BY <2>1, <2>2 DEF Init, FinalPayments, Final
<1>2. ReaderInv /\ [Next]_vars => [Evidence!Next]_(Evidence!vars)
  <2>1. SUFFICES ASSUME ReaderInv, [Next]_vars
                 PROVE  Evidence!Next \/ UNCHANGED <<FinalPayments, settled>>
    BY DEF Evidence!vars
  <2>2. CASE (\E t \in Tx, ok \in BOOLEAN : Include(t, ok))
               \/ AcceptOnL2 \/ AcceptOnL1 \/ Reorg
    <3>1. /\ \A t \in Single : Final(t) => Final(t)'
          /\ \A s, t \in Single : Final(s)' /\ ~Final(s) /\ Final(t)' /\ ~Final(t) => s = t
      BY <2>1, <2>2, FinalityGrows, ReaderAssumption DEF ReaderInv, ReaderAssumption
    <3>2. UNCHANGED settled
      BY <2>1, <2>2, ChainSteps DEF ReaderInv
    <3>3. CASE \E t \in Single : Final(t)' /\ ~Final(t)
      <4>1. PICK t \in Single : Final(t)' /\ ~Final(t)
        BY <3>3
      <4>2. t \notin FinalPayments /\ FinalPayments' = FinalPayments \cup {t}
        BY <3>1, <4>1 DEF FinalPayments
      <4>3. Evidence!Finalize(t)
        BY <3>2, <4>2 DEF Evidence!Finalize
      <4> QED BY <4>3 DEF Evidence!Next
    <3>4. CASE ~ \E t \in Single : Final(t)' /\ ~Final(t)
      <4>1. FinalPayments' = FinalPayments
        BY <3>1, <3>4 DEF FinalPayments
      <4> QED BY <3>2, <4>1
    <3> QED BY <3>3, <3>4
  <2>3. CASE (\E t \in Tx : Call(t)) \/ ReaderStep
    <3>1. /\ UNCHANGED <<chain, accepted>>
          /\ \/ UNCHANGED settled
             \/ \E t \in Single : Final(t) /\ settled' = settled \cup {t}
      BY <2>1, <2>3, ReaderSteps
    <3>2. FinalPayments' = FinalPayments
      BY <3>1 DEF FinalPayments, Final
    <3>3. ASSUME NEW t \in Single, Final(t), settled' = settled \cup {t}
          PROVE  Evidence!Next
      <4>1. Evidence!Settle(t)
        BY <3>2, <3>3 DEF Evidence!Settle, FinalPayments
      <4> QED BY <4>1 DEF Evidence!Next
    <3> QED BY <3>1, <3>2, <3>3
  <2>4. CASE UNCHANGED vars
    BY <2>4 DEF vars, FinalPayments, Final
  <2> QED BY <2>1, <2>2, <2>3, <2>4 DEF Next
<1> QED BY <1>1, <1>2, ReaderCorrect, PTL DEF Spec, Evidence!Spec
=============================================================================
