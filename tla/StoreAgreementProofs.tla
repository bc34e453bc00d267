------------------------ MODULE StoreAgreementProofs ------------------------
(***************************************************************************)
(* The in-memory stores are the SQLite stores, for every set of invoices,  *)
(* runs and transactions and every expiry and lease term: an algebraic     *)
(* fact about each row and each claim that the types of the tables give.   *)
(***************************************************************************)
EXTENDS StoreAgreement, PaidServerProofs

\* On any row of the table, pruning and counting are the same on both sides, at
\* every boundary of expiry and lease (invoice-store.ts:48-69 and 210-225).
LEMMA PruneAndCountAgree ==
  ASSUME NEW r \in Row, NEW now \in Nat
  PROVE  /\ MemPrune(r, now) = Pruned(r, now)
         /\ MemCounts(r, now) <=> Outstanding(r, now)
  BY DEF Row, MemPrune, Pruned, Prunable, PruneGuard, MemCounts, Outstanding, Exists

\* A failed settlement leaves the same row behind (invoice-store.ts:106-123 and
\* 285-296): the row of an invoice that is open again has nothing of the old
\* settlement in it.
LEMMA FailAgrees ==
  ASSUME NEW r \in Row, NEW now \in Nat, NEW lease
  PROVE  MemFail(r, lease, now) = Failed(r, lease, now)
<1>1. CASE r.state # "settling" \/ r.lease # lease
  BY <1>1 DEF MemFail, Failed
<1>2. CASE r.state = "settling" /\ r.lease = lease /\ r.expires < now
  BY <1>2 DEF MemFail, Failed, Exists
<1>3. CASE r.state = "settling" /\ r.lease = lease /\ ~(r.expires < now)
  <2>1. MemFail(r, lease, now) = [r EXCEPT !.state = "issued", !.tx = NoHash,
                                           !.lease = NoLease, !.until = 0]
    BY <1>3 DEF MemFail, Exists
  <2>2. Failed(r, lease, now) = IssuedRow(r.expires)
    BY <1>3 DEF Failed
  <2>3. IssuedRow(r.expires) \in Row
    BY NullAssumption DEF IssuedRow, UnusedRow, Row
  <2>4. [r EXCEPT !.state = "issued", !.tx = NoHash, !.lease = NoLease, !.until = 0] \in Row
    BY DEF Row
  <2>5. ASSUME NEW p \in Row, NEW q \in Row, p.state = q.state, p.expires = q.expires,
               p.tx = q.tx, p.lease = q.lease, p.until = q.until
        PROVE  p = q
    BY <2>5 DEF Row
  <2>6. IssuedRow(r.expires).state = "issued" /\ IssuedRow(r.expires).tx = NoHash
        /\ IssuedRow(r.expires).lease = NoLease /\ IssuedRow(r.expires).until = 0
        /\ IssuedRow(r.expires).expires = r.expires
    BY DEF IssuedRow, UnusedRow
  <2>7. MemFail(r, lease, now).state = "issued" /\ MemFail(r, lease, now).tx = NoHash
        /\ MemFail(r, lease, now).lease = NoLease /\ MemFail(r, lease, now).until = 0
        /\ MemFail(r, lease, now).expires = r.expires
    BY <2>1 DEF Row
  <2> QED BY <2>1, <2>2, <2>3, <2>4, <2>5, <2>6, <2>7
<1> QED BY <1>1, <1>2, <1>3

\* A settlement begins, or is refused for the same reason, on both sides
\* (invoice-store.ts:71-98 and 227-274).
LEMMA BeginAgrees ==
  ASSUME NEW r \in Row, Exists(r), NEW h \in Hash, NEW lease \in Worker,
         NEW now \in Nat, NEW term \in Nat
  PROVE  MemBegin(r, h, lease, now, term) = SqlBegin(r, h, lease, now, term)
<1>1. r.state \in {"issued", "settling", "accepted"}
  BY DEF Exists
<1>2. r.expires \in Nat /\ r.until \in Nat
  BY DEF Row
<1>3. CASE r.state = "accepted"
  BY <1>3 DEF MemBegin, MemKeep, SqlBegin, BeginOutcome, Starts
<1>4. CASE r.state = "issued"
  BY <1>2, <1>4 DEF MemBegin, MemKeep, MemTake, SqlBegin, BeginOutcome, Starts, Leased
<1>5. CASE r.state = "settling"
  BY <1>2, <1>5 DEF MemBegin, MemKeep, MemTake, SqlBegin, BeginOutcome, Starts, Leased
<1> QED BY <1>1, <1>3, <1>4, <1>5

\* The ledgers give the same answer to every claim, and name the same conflict
\* (signed-receipt.ts:190-199, claim-ledger.ts:18-46).
LEMMA ConsumeAgrees ==
  ASSUME NEW c \in [Invoice -> Tx \cup {NoTx}], NEW i \in Invoice, NEW t \in Tx
  PROVE  MemConsume(c, i, t) = SqlConsume(c, i, t)
<1> USE NullAssumption
<1>1. CASE c[i] = t
  <2>1. ~Inserts(c, i, t) /\ c[i] # NoTx
    BY <1>1 DEF Inserts
  <2> QED BY <1>1, <2>1 DEF MemConsume, SqlConsume
<1>2. CASE c[i] \in Tx \ {t}
  <2>1. ~Inserts(c, i, t) /\ c[i] # NoTx
    BY <1>2 DEF Inserts
  <2> QED BY <1>2, <2>1 DEF MemConsume, SqlConsume
<1>3. CASE c[i] = NoTx /\ \E j \in Invoice : c[j] = t
  <2>1. ~Inserts(c, i, t) /\ c[i] # t
    BY <1>3 DEF Inserts
  <2>2. t \in {c[j] : j \in Invoice} \ {NoTx}
    BY <1>3
  <2> QED BY <1>3, <2>1, <2>2 DEF MemConsume, SqlConsume
<1>4. CASE c[i] = NoTx /\ ~\E j \in Invoice : c[j] = t
  <2>1. Inserts(c, i, t) /\ c[i] # t
    BY <1>4 DEF Inserts
  <2>2. t \notin {c[j] : j \in Invoice} \ {NoTx}
    BY <1>4
  <2> QED BY <1>4, <2>1, <2>2 DEF MemConsume, SqlConsume
<1> QED BY <1>1, <1>2, <1>3, <1>4

\* A server on the in-memory stores is the server on the SQLite stores: whatever
\* it reaches, each call of the interfaces answers the same and leaves the same row.
THEOREM StoresAgreeAlways == Spec => []StoresAgree
<1>1. TypeOK => StoresAgree
  <2> SUFFICES ASSUME TypeOK, NEW i \in Invoice
               PROVE  /\ RowAgrees(rows[i])
                      /\ \A t \in Tx : MemConsume(ledger, i, t) = SqlConsume(ledger, i, t)
    BY DEF StoresAgree
  <2>1. rows[i] \in Row /\ clock \in Nat /\ LeaseTerm \in Nat
        /\ ledger \in [Invoice -> Tx \cup {NoTx}]
    BY TermAssumption DEF TypeOK
  <2>2. RowAgrees(rows[i])
    BY <2>1, PruneAndCountAgree, FailAgrees, BeginAgrees DEF RowAgrees
  <2>3. \A t \in Tx : MemConsume(ledger, i, t) = SqlConsume(ledger, i, t)
    BY <2>1, ConsumeAgrees
  <2> QED BY <2>2, <2>3
<1>2. Spec => []TypeOK
  BY TypeCorrect
<1> QED BY <1>1, <1>2, PTL
=============================================================================
