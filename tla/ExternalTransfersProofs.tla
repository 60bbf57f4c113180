------------------------ MODULE ExternalTransfersProofs ------------------------
(***************************************************************************)
(* Proofs about ExternalTransfers, for any sets of transfers, users and    *)
(* agents, any amounts, any overlap of requests and any number of faults.  *)
(***************************************************************************)
EXTENDS ExternalTransfers, FiniteSetTheorems, TLAPS

-----------------------------------------------------------------------------
(* Arithmetic of CreditFunding. *)

LEMMA PosIsNat == ASSUME NEW n \in Int PROVE Pos(n) \in Nat
BY DEF Pos

LEMMA LeastIsNat ==
    ASSUME NEW a \in Nat, NEW b \in Nat
    PROVE  Least(a, b) \in Nat /\ Least(a, b) <= a /\ Least(a, b) <= b
BY DEF Least

LEMMA NewDebtIsNat ==
    ASSUME NEW wal \in Int, NEW total \in Nat
    PROVE  NewDebt(wal, total) \in Nat
BY DEF NewDebt, Pos

\* A payment is never paid by more credit than the line has left.
LEMMA FundingWithinCredit ==
    ASSUME NEW wal \in Int, NEW avail \in Nat, NEW total \in Nat,
           NEW bif \in BOOLEAN
    PROVE  LET f == Funding(wal, avail, total, bif)
           IN  f.debit \in Nat /\ f.credit \in Nat /\ f.credit <= avail
<1>1. CreditOnly(avail, total).debit = 0
      /\ CreditOnly(avail, total).credit = Least(avail, total)
  BY DEF CreditOnly
<1>2. Mirrored(wal, avail, total).debit = total
      /\ Mirrored(wal, avail, total).credit = Least(avail, NewDebt(wal, total))
  BY DEF Mirrored
<1>3. CASE bif
  <2>1. Funding(wal, avail, total, bif) = CreditOnly(avail, total)
    BY <1>3 DEF Funding
  <2>2. Least(avail, total) \in Nat /\ Least(avail, total) <= avail
    BY LeastIsNat
  <2> QED
    BY <1>1, <2>1, <2>2
<1>4. CASE ~bif
  <2> DEFINE debt == NewDebt(wal, total)
  <2>1. Funding(wal, avail, total, bif) = Mirrored(wal, avail, total)
    BY <1>4 DEF Funding
  <2>2. debt \in Nat
    BY NewDebtIsNat
  <2>3. Least(avail, debt) \in Nat /\ Least(avail, debt) <= avail
    BY <2>2, LeastIsNat
  <2> QED
    BY <1>2, <2>1, <2>3
<1> QED
  BY <1>3, <1>4

Balanced(l) == l.used + l.avail = l.limit

\* A line stays balanced when at most what it has left is drawn, when it is
\* topped up, and when it gets back credit that was drawn before.
LEMMA DrawKeeps ==
    ASSUME NEW l \in LineType, NEW n \in Nat
    PROVE  /\ Draw(l, n) \in LineType
           /\ Draw(l, n).limit = l.limit
           /\ Balanced(l) /\ n <= l.avail => Balanced(Draw(l, n))
BY DEF Draw, LineType, Balanced, Pos

LEMMA TopUpKeeps ==
    ASSUME NEW l \in LineType, NEW n \in Nat
    PROVE  /\ TopUp(l, n) \in LineType
           /\ TopUp(l, n).limit = l.limit + n
           /\ Balanced(l) => Balanced(TopUp(l, n))
BY DEF TopUp, LineType, Balanced

LEMMA GiveBackKeeps ==
    ASSUME NEW l \in LineType, NEW n \in Nat
    PROVE  /\ GiveBack(l, n) \in LineType
           /\ GiveBack(l, n).limit = l.limit
           /\ Balanced(l) /\ n <= l.limit => Balanced(GiveBack(l, n))
BY DEF GiveBack, LineType, Balanced, Pos, Least

LEMMA RecoverKeeps ==
    ASSUME NEW l \in LineType, NEW d \in Nat
    PROVE  /\ Recover(l, d) \in LineType
           /\ Recover(l, d).limit = l.limit
           /\ Balanced(l) => Balanced(Recover(l, d))
           /\ Recovered(l, d) \in Nat
BY DEF Recover, Recovered, LineType, Balanced, Least

-----------------------------------------------------------------------------
(* Rows. *)

LEMMA RowFields ==
    ASSUME NEW r \in RowType
    PROVE  /\ r.status \in Status /\ r.pstatus \in ProviderStatus
           /\ r.ref \in BOOLEAN /\ r.retries \in 0..RetryMax
           /\ r.meta \in MetaType
           /\ r.meta.pending \in BOOLEAN /\ r.meta.debited \in Nat
           /\ r.meta.credit \in Nat /\ r.meta.repaid \in Nat
           /\ r.meta.refunded \in BOOLEAN
BY DEF RowType, MetaType

\* what is saved has each column from the row there is or from the new one
LEMMA SaveFields ==
    ASSUME NEW c \in RowType, NEW r \in RowType, NEW n \in RowType
    PROVE  /\ Save(c, r, n) \in RowType
           /\ SaveMeta(c, r, n) \in RowType
           /\ Save(c, r, n).meta \in {c.meta, n.meta}
           /\ SaveMeta(c, r, n).meta = n.meta
<1> DEFINE s == Save(c, r, n)
<1>1. /\ s.status \in {c.status, n.status} /\ s.pstatus \in {c.pstatus, n.pstatus}
      /\ s.ref \in {c.ref, n.ref} /\ s.retries \in {c.retries, n.retries}
      /\ s.meta \in {c.meta, n.meta}
  BY DEF Save, Column
<1>2. s \in RowType
  <2>1. s = [status |-> s.status, pstatus |-> s.pstatus, ref |-> s.ref,
             retries |-> s.retries, meta |-> s.meta]
    BY DEF Save
  <2> HIDE DEF s
  <2> QED
    BY <1>1, <2>1, RowFields DEF RowType
<1>3. SaveMeta(c, r, n) = [s EXCEPT !.meta = n.meta]
  BY DEF SaveMeta
<1> HIDE DEF s
<1>4. SaveMeta(c, r, n) \in RowType /\ SaveMeta(c, r, n).meta = n.meta
  BY <1>2, <1>3, RowFields DEF RowType
<1> QED
  BY <1>1, <1>2, <1>4 DEF s

LEMMA MarkFields ==
    ASSUME NEW r \in RowType, NEW status \in ProviderStatus, NEW ref \in BOOLEAN
    PROVE  /\ Mark(r, status, ref) \in RowType
           /\ Mark(r, status, ref).meta = r.meta
           /\ Mark(r, status, ref).status = r.status
<1> DEFINE k == [r EXCEPT !.pstatus = status]
<1>1. k \in RowType /\ k.meta = r.meta /\ k.ref = r.ref /\ k.status = r.status
  BY DEF RowType
<1>2. Mark(r, status, ref) = [k EXCEPT !.ref = k.ref \/ ref]
  BY DEF Mark
<1>3. k.ref \/ ref \in BOOLEAN
  BY <1>1, RowFields
<1> HIDE DEF k
<1> QED
  BY <1>1, <1>2, <1>3 DEF RowType

LEMMA CancelledFields ==
    ASSUME NEW m \in MetaType
    PROVE  Cancelled(m) \in MetaType /\ Cancelled(m).credit = 0
<1> DEFINE a == [m EXCEPT !.refunded = TRUE]
           b == [a EXCEPT !.credit = 0]
<1>1. a \in MetaType
  BY DEF MetaType
<1>2. Cancelled(m) = [b EXCEPT !.repaid = 0]
  BY DEF Cancelled
<1> HIDE DEF a
<1>3. b \in MetaType /\ b.credit = 0
  BY <1>1 DEF MetaType
<1> HIDE DEF b
<1> QED
  BY <1>2, <1>3 DEF MetaType

LEMMA AnsweredFields ==
    ASSUME NEW r \in RowType, NEW status \in ProviderStatus, NEW ref \in BOOLEAN
    PROVE  LET a == Answered(r, status, ref) IN
           /\ a \in RowType
           /\ a.meta.credit \in {r.meta.credit, 0}
           /\ a.meta.refunded => r.meta.refunded \/ status = "failed"
<1> DEFINE k == Mark(r, status, ref)
<1>1. k \in RowType /\ k.meta = r.meta
  BY MarkFields
<1>2. k.meta \in MetaType
  BY <1>1, RowFields
<1>3. CASE status = "success"
  <2>1. Answered(r, status, ref) = [k EXCEPT !.status = "succeeded"]
    BY <1>3 DEF Answered
  <2> HIDE DEF k
  <2> QED
    BY <1>1, <2>1 DEF RowType, Status
<1>4. CASE status = "failed"
  <2> DEFINE kf == [k EXCEPT !.status = "failed"]
  <2>1. Answered(r, status, ref) = [kf EXCEPT !.meta = Cancelled(kf.meta)]
    BY <1>4 DEF Answered
  <2> HIDE DEF k
  <2>2. kf \in RowType
    BY <1>1 DEF RowType, Status
  <2> HIDE DEF kf
  <2>3. Cancelled(kf.meta) \in MetaType /\ Cancelled(kf.meta).credit = 0
    BY <2>2, RowFields, CancelledFields
  <2> QED
    BY <1>4, <2>1, <2>2, <2>3 DEF RowType
<1>5. CASE status \notin {"success", "failed"}
  <2>1. Answered(r, status, ref) = k
    BY <1>5 DEF Answered
  <2> QED
    BY <1>1, <2>1
<1> QED
  BY <1>3, <1>4, <1>5

LEMMA RetriedFields ==
    ASSUME NEW r \in RowType, ExternalAssumption
    PROVE  Retried(r) \in RowType /\ Retried(r).meta = r.meta
<1>1. CASE r.retries < RetryMax
  <2> DEFINE k == [r EXCEPT !.pstatus = "retry"]
  <2>1. k \in RowType /\ k.retries = r.retries /\ k.meta = r.meta
    BY DEF RowType, ProviderStatus
  <2>2. Retried(r) = [k EXCEPT !.retries = k.retries + 1]
    BY <1>1 DEF Retried
  <2>3. k.retries + 1 \in 0..RetryMax
    BY <1>1, <2>1, RowFields DEF ExternalAssumption
  <2> HIDE DEF k
  <2> QED
    BY <2>1, <2>2, <2>3 DEF RowType
<1>2. CASE ~(r.retries < RetryMax)
  BY <1>2 DEF Retried, RowType, ProviderStatus
<1> QED
  BY <1>1, <1>2

LEMMA RepaidFields ==
    ASSUME NEW t \in Transfers, NEW n \in Nat, row[t] \in RowType
    PROVE  /\ Repaid(t, n) \in RowType
           /\ Repaid(t, n).meta.credit = row[t].meta.credit
           /\ Repaid(t, n).meta.refunded = row[t].meta.refunded
<1> DEFINE r == row[t]
           status == IF r.status \notin Settled THEN r.status
                     ELSE IF n = Outstanding(t) THEN "repaid" ELSE "partially_repaid"
           k == [r EXCEPT !.status = status]
           mt == [k.meta EXCEPT !.repaid = k.meta.repaid + n]
<1>1. status \in Status
  BY RowFields DEF Status
<1> HIDE DEF status
<1>2. k \in RowType /\ k.meta = r.meta
  BY <1>1 DEF RowType
<1> HIDE DEF k
<1>3. mt \in MetaType /\ mt.credit = r.meta.credit /\ mt.refunded = r.meta.refunded
  BY <1>2, RowFields DEF MetaType
<1> HIDE DEF mt
<1>4. [k EXCEPT !.meta = mt] \in RowType /\ [k EXCEPT !.meta = mt].meta = mt
  BY <1>2, <1>3 DEF RowType
<1>5. Repaid(t, n) = [k EXCEPT !.meta = mt]
  BY DEF Repaid, k, mt, status
<1> QED
  BY <1>3, <1>4, <1>5
-----------------------------------------------------------------------------
(* The inductive invariant, as operators on values so that they can be     *)
(* stated of this state and of the next.                                   *)

LinesOK(ln) == ln \in [Users -> LineType] /\ \A u \in Users : Balanced(ln[u])

ProviderOK(pv) ==
    pv \in [Transfers -> {"none", "accepted", "paid", "rejected"}]

\* the credit recorded for a transfer was drawn from the line of its owner, and
\* what is marked refunded had to be
Sound(r, t, ln, wr) ==
    /\ r.meta.credit <= ln[OwnerOf[t]].limit
    /\ r.meta.refunded => t \in wr

RowsOK(rw, ln, wr) ==
    rw \in [Transfers -> RowType] /\ \A t \in Transfers : Sound(rw[t], t, ln, wr)

HooksOK(hk, wr) ==
    /\ hk \subseteq [t : Transfers, status : ProviderStatus]
    /\ \A h \in hk : h.status = "failed" => h.t \in wr

Fits(q, ln, wr) ==
    q # None /\ q.op # "deposit" =>
        /\ Sound(q.snap, q.t, ln, wr)
        /\ q.op = "webhook" /\ q.arg = "failed" => q.t \in wr

SessOK(ss, ln, wr) ==
    /\ ss \in [Sessions -> Requests \union {None}]
    /\ \A s \in Sessions : Fits(ss[s], ln, wr)

\* no money went back without a warrant
BackOK(mv, wr) == \A t \in Transfers : mv[t].back > 0 => t \in wr

BooksTyped ==
    /\ wallet \in [Users -> Int] /\ bonus \in [Users -> Int]
    /\ used \in [Users -> Int] /\ till \in [Agents -> Int]
    /\ moves \in [Transfers -> [out : Nat, back : Nat]]
    /\ paidIn \in [Users -> Nat]
    /\ journal \in [Transfers -> [fund : Nat, refund : Nat]]
    /\ cash \in [Transfers -> Nat]
    /\ tasks \subseteq Routed /\ faults \in Nat

IInv ==
    /\ BooksTyped /\ LinesOK(line) /\ ProviderOK(provider)
    /\ Warranted \subseteq Transfers
    /\ BackOK(moves, Warranted)
    /\ RowsOK(row, line, Warranted)
    /\ HooksOK(hooks, Warranted)
    /\ SessOK(sess, line, Warranted)

LEMMA IInvImplies == IInv => TypeOK /\ CreditLineBalanced /\ RefundIsWarranted
<1> SUFFICES ASSUME IInv PROVE TypeOK /\ CreditLineBalanced /\ RefundIsWarranted
  OBVIOUS
<1>1. TypeOK
  BY DEF IInv, BooksTyped, LinesOK, ProviderOK, RowsOK, HooksOK, SessOK, TypeOK, Warranted
<1>2. CreditLineBalanced
  BY DEF IInv, LinesOK, Balanced, CreditLineBalanced
<1>3. RefundIsWarranted
  BY DEF IInv, RowsOK, Sound, BackOK, RefundIsWarranted
<1> QED
  BY <1>1, <1>2, <1>3

LEMMA InitIInv == ASSUME ExternalAssumption, Init PROVE IInv
<1> USE DEF ExternalAssumption, Init
<1>1. BooksTyped
  BY DEF BooksTyped
<1>2. /\ \A u \in Users : line[u] = [limit |-> Limit0[u], used |-> 0, avail |-> Limit0[u]]
      /\ line \in [Users -> LineType]
  BY DEF LineType
<1>3. LinesOK(line)
  BY <1>2 DEF LinesOK, Balanced
<1>4. ProviderOK(provider)
  BY DEF ProviderOK
<1>5. Blank \in RowType /\ Blank.meta.credit = 0 /\ Blank.meta.refunded = FALSE
  BY DEF Blank, RowType, MetaType, Status, ProviderStatus
<1>6. RowsOK(row, line, Warranted)
  BY <1>2, <1>5 DEF RowsOK, Sound
<1>7. HooksOK(hooks, Warranted)
  BY DEF HooksOK
<1>8. SessOK(sess, line, Warranted)
  BY DEF SessOK, Fits
<1>9. Warranted \subseteq Transfers /\ BackOK(moves, Warranted)
  BY DEF Warranted, BackOK
<1> QED
  BY <1>1, <1>3, <1>4, <1>6, <1>7, <1>8, <1>9 DEF IInv

\* What the two invariants need of a step: limits do not fall, a refusal is
\* final, a row that changes is sound, and no request is invented.
Forward(ln, ln2, wr, wr2) ==
    /\ \A u \in Users : ln[u].limit <= ln2[u].limit
    /\ wr \subseteq wr2

LEMMA SoundForward ==
    ASSUME ExternalAssumption, NEW ln, NEW ln2, NEW wr, NEW wr2,
           LinesOK(ln), LinesOK(ln2), Forward(ln, ln2, wr, wr2),
           NEW t \in Transfers, NEW r \in RowType, Sound(r, t, ln, wr)
    PROVE  Sound(r, t, ln2, wr2)
<1>1. OwnerOf[t] \in Users
  BY DEF ExternalAssumption
<1>2. ln[OwnerOf[t]].limit \in Nat /\ ln2[OwnerOf[t]].limit \in Nat
  BY <1>1 DEF LinesOK, LineType
<1>3. r.meta.credit \in Nat
  BY RowFields
<1>4. ln[OwnerOf[t]].limit <= ln2[OwnerOf[t]].limit
  BY <1>1 DEF Forward
<1>5. r.meta.credit <= ln[OwnerOf[t]].limit
  BY DEF Sound
<1>6. r.meta.credit <= ln2[OwnerOf[t]].limit
  BY <1>2, <1>3, <1>4, <1>5
<1> QED
  BY <1>6 DEF Sound, Forward

\* requests by their kind
LEMMA RequestFields ==
    ASSUME NEW q \in Requests
    PROVE  /\ q.op # "deposit" => q.t \in Transfers /\ q.snap \in RowType
           /\ q.op = "webhook" => q.arg \in ProviderStatus
           /\ q.op = "update" => q.arg \in Status
           /\ q.op = "close" => q.arg \in Agents
           /\ q.op = "deposit" => q.u \in Users /\ q.d \in Deposits
           /\ q.n \in Int
BY DEF Requests, RequestsOf, DepositRequests

LEMMA FitsForward ==
    ASSUME ExternalAssumption, NEW ln, NEW ln2, NEW wr, NEW wr2,
           LinesOK(ln), LinesOK(ln2), Forward(ln, ln2, wr, wr2),
           NEW q \in Requests \union {None}, Fits(q, ln, wr)
    PROVE  Fits(q, ln2, wr2)
<1>1. CASE q = None \/ q.op = "deposit"
  BY <1>1 DEF Fits
<1>2. CASE q # None /\ q.op # "deposit"
  <2>1. q.t \in Transfers /\ q.snap \in RowType
    BY <1>2, RequestFields
  <2>2. Sound(q.snap, q.t, ln2, wr2)
    BY <1>2, <2>1, SoundForward DEF Fits
  <2> QED
    BY <1>2, <2>1, <2>2 DEF Fits, Forward
<1> QED
  BY <1>1, <1>2

LEMMA StepKeepsInv ==
    ASSUME ExternalAssumption, IInv, BooksTyped', LinesOK(line'),
           ProviderOK(provider'), Forward(line, line', Warranted, Warranted'),
           HooksOK(hooks', Warranted'), Warranted' \subseteq Transfers,
           \A t \in Transfers : moves'[t].back = moves[t].back \/ t \in Warranted',
           row' \in [Transfers -> RowType],
           \A t \in Transfers :
               row'[t] = row[t] \/ Sound(row'[t], t, line', Warranted'),
           sess' \in [Sessions -> Requests \union {None}],
           \A s \in Sessions : sess'[s] = sess[s] \/ sess'[s] = None
    PROVE  IInv'
<1>1. RowsOK(row', line', Warranted')
  <2> SUFFICES ASSUME NEW t \in Transfers PROVE Sound(row'[t], t, line', Warranted')
    BY DEF RowsOK
  <2>1. row[t] \in RowType /\ Sound(row[t], t, line, Warranted)
    BY DEF IInv, RowsOK
  <2>2. Sound(row[t], t, line', Warranted')
    BY <2>1, SoundForward DEF IInv
  <2> QED
    BY <2>2
<1>2. SessOK(sess', line', Warranted')
  <2> SUFFICES ASSUME NEW s \in Sessions PROVE Fits(sess'[s], line', Warranted')
    BY DEF SessOK
  <2>1. sess[s] \in Requests \union {None} /\ Fits(sess[s], line, Warranted)
    BY DEF IInv, SessOK
  <2>2. Fits(sess[s], line', Warranted')
    BY <2>1, FitsForward DEF IInv
  <2>3. Fits(None, line', Warranted')
    BY DEF Fits
  <2> QED
    BY <2>2, <2>3
<1>3. BackOK(moves', Warranted')
  BY DEF IInv, BackOK, Forward
<1> QED
  BY <1>1, <1>2, <1>3 DEF IInv

\* a request that starts reads a row as it is
LEMMA BeginKeepsInv ==
    ASSUME ExternalAssumption, IInv, NEW s \in Sessions, NEW q \in Requests,
           Fits(q, line, Warranted), sess' = [sess EXCEPT ![s] = q],
           UNCHANGED <<row, wallet, line, Purses, Books, cash, World, tasks, faults>>
    PROVE  IInv'
<1>1. UNCHANGED <<row, line, provider, hooks, Warranted, wallet, bonus, used, till,
                  moves, paidIn, journal, cash, tasks, faults>>
  BY DEF Purses, Books, World, Warranted
<1>2. sess \in [Sessions -> Requests \union {None}]
  BY DEF IInv, SessOK
<1>3. /\ sess' \in [Sessions -> Requests \union {None}]
      /\ \A p \in Sessions : sess'[p] = IF p = s THEN q ELSE sess[p]
  BY <1>2
<1>4. \A p \in Sessions : Fits(sess[p], line, Warranted)
  BY DEF IInv, SessOK
<1>5. SessOK(sess', line', Warranted')
  BY <1>1, <1>3, <1>4 DEF SessOK
<1>6. BooksTyped'
  BY <1>1 DEF IInv, BooksTyped
<1> QED
  BY <1>1, <1>5, <1>6 DEF IInv

\* and a row as it is fits, whatever is asked, unless a refusal is reported
LEMMA SnapshotFits ==
    ASSUME IInv, NEW op, op # "deposit",
           NEW t \in Transfers, NEW arg, NEW n,
           op = "webhook" /\ arg = "failed" => t \in Warranted
    PROVE  Fits(Request(op, t, row[t], arg, n), line, Warranted)
<1> DEFINE q == Request(op, t, row[t], arg, n)
<1>1. q.op = op /\ q.t = t /\ q.snap = row[t] /\ q.arg = arg
  BY DEF Request
<1>2. Sound(row[t], t, line, Warranted)
  BY DEF IInv, RowsOK
<1> HIDE DEF q
<1>3. Fits(q, line, Warranted)
  BY <1>1, <1>2 DEF Fits
<1> QED
  BY <1>3 DEF q

LEMMA StartKeepsInv ==
    ASSUME ExternalAssumption, IInv, NEW s \in Sessions, StartRequest(s)
    PROVE  IInv'
<1>1. /\ \A t \in Transfers : row[t] \in RowType
      /\ \A u \in Users : used[u] \in Int /\ wallet[u] \in Int
      /\ \A a \in Agents : till[a] \in Int
      /\ \A t \in Transfers : OwnerOf[t] \in Users
  BY DEF IInv, RowsOK, BooksTyped, ExternalAssumption
<1>2. ASSUME NEW t \in Transfers, StartCreate(s, t)
      PROVE  IInv'
  <2> DEFINE q == Request("create", t, row[t], None, used[OwnerOf[t]])
  <2>1. q \in Requests
    BY <1>1 DEF Requests, RequestsOf, Request
  <2>2. Fits(q, line, Warranted)
    BY <1>1, SnapshotFits
  <2>3. sess' = [sess EXCEPT ![s] = q]
    BY <1>2 DEF StartCreate, Begin
  <2>4. UNCHANGED <<row, wallet, line, Purses, Books, cash, World, tasks, faults>>
    BY <1>2 DEF StartCreate
  <2> HIDE DEF q
  <2> QED
    BY <2>1, <2>2, <2>3, <2>4, BeginKeepsInv
<1>3. ASSUME NEW t \in Transfers, StartApprove(s, t)
      PROVE  IInv'
  <2> DEFINE q == Request("approve", t, row[t], None, 0)
  <2>1. q \in Requests
    BY <1>1 DEF Requests, RequestsOf, Request
  <2>2. Fits(q, line, Warranted)
    BY <1>1, SnapshotFits
  <2>3. sess' = [sess EXCEPT ![s] = q]
    BY <1>3 DEF StartApprove, Begin
  <2>4. UNCHANGED <<row, wallet, line, Purses, Books, cash, World, tasks, faults>>
    BY <1>3 DEF StartApprove
  <2> HIDE DEF q
  <2> QED
    BY <2>1, <2>2, <2>3, <2>4, BeginKeepsInv
<1>4. ASSUME NEW t \in Transfers, NEW a \in Agents, StartClose(s, t, a)
      PROVE  IInv'
  <2> DEFINE q == Request("close", t, row[t], a, till[a])
  <2>1. q \in Requests
    BY <1>1 DEF Requests, RequestsOf, Request
  <2>2. Fits(q, line, Warranted)
    BY <1>1, SnapshotFits
  <2>3. sess' = [sess EXCEPT ![s] = q]
    BY <1>4 DEF StartClose, Begin
  <2>4. UNCHANGED <<row, wallet, line, Purses, Books, cash, World, tasks, faults>>
    BY <1>4 DEF StartClose
  <2> HIDE DEF q
  <2> QED
    BY <2>1, <2>2, <2>3, <2>4, BeginKeepsInv
<1>5. ASSUME NEW t \in Transfers, NEW status \in {"succeeded", "failed"},
             StartUpdate(s, t, status)
      PROVE  IInv'
  <2> DEFINE q == Request("update", t, row[t], status, 0)
  <2>1. q \in Requests
    BY <1>1 DEF Requests, RequestsOf, Request, Status
  <2>2. Fits(q, line, Warranted)
    BY <1>1, SnapshotFits
  <2>3. sess' = [sess EXCEPT ![s] = q]
    BY <1>5 DEF StartUpdate, Begin
  <2>4. UNCHANGED <<row, wallet, line, Purses, Books, cash, World, tasks, faults>>
    BY <1>5 DEF StartUpdate
  <2> HIDE DEF q
  <2> QED
    BY <2>1, <2>2, <2>3, <2>4, BeginKeepsInv
<1>6. ASSUME NEW h \in hooks, StartWebhook(s, h)
      PROVE  IInv'
  <2> DEFINE q == Request("webhook", h.t, row[h.t], h.status, 0)
  <2>1. /\ h.t \in Transfers /\ h.status \in ProviderStatus
        /\ h.status = "failed" => h.t \in Warranted
    BY DEF IInv, HooksOK
  <2>2. q \in Requests
    BY <1>1, <2>1 DEF Requests, RequestsOf, Request
  <2>3. Fits(q, line, Warranted)
    BY <2>1, SnapshotFits
  <2>4. sess' = [sess EXCEPT ![s] = q]
    BY <1>6 DEF StartWebhook, Begin
  <2>5. UNCHANGED <<row, wallet, line, Purses, Books, cash, World, tasks, faults>>
    BY <1>6 DEF StartWebhook
  <2> HIDE DEF q
  <2> QED
    BY <2>2, <2>3, <2>4, <2>5, BeginKeepsInv
<1>7. ASSUME NEW u \in Users, NEW d \in Deposits, StartDeposit(s, u, d)
      PROVE  IInv'
  <2> DEFINE q == [op |-> "deposit", u |-> u, d |-> d, n |-> wallet[u]]
  <2>1. q \in Requests
    BY <1>1 DEF Requests, DepositRequests
  <2>2. Fits(q, line, Warranted)
    BY DEF Fits
  <2>3. sess' = [sess EXCEPT ![s] = q]
    BY <1>7 DEF StartDeposit, Begin
  <2>4. UNCHANGED <<row, wallet, line, Purses, Books, cash, World, tasks, faults>>
    BY <1>7 DEF StartDeposit
  <2> HIDE DEF q
  <2> QED
    BY <2>1, <2>2, <2>3, <2>4, BeginKeepsInv
<1> QED
  BY <1>2, <1>3, <1>4, <1>5, <1>6, <1>7 DEF StartRequest
-----------------------------------------------------------------------------
(* Money. *)

\* Forward, when refusals are not at stake
Grown(ln, ln2) == \A u \in Users : ln[u].limit <= ln2[u].limit

LEMMA GrownIsReflexive == ASSUME LinesOK(line), line' = line PROVE Grown(line, line')
BY DEF Grown, LinesOK, LineType

LEMMA LineReplaced ==
    ASSUME LinesOK(line), NEW u \in Users, NEW l \in LineType, Balanced(l),
           line[u].limit <= l.limit, line' = [line EXCEPT ![u] = l]
    PROVE  LinesOK(line') /\ Grown(line, line') /\ line'[u] = l
<1>1. /\ line' \in [Users -> LineType]
      /\ \A v \in Users : line'[v] = IF v = u THEN l ELSE line[v]
  BY DEF LinesOK
<1>2. \A v \in Users : line[v].limit \in Nat /\ Balanced(line[v])
  BY DEF LinesOK, LineType
<1>3. LinesOK(line')
  BY <1>1, <1>2 DEF LinesOK
<1>4. Grown(line, line')
  BY <1>1, <1>2 DEF Grown
<1> QED
  BY <1>1, <1>3, <1>4

LEMMA TakeFundsKeeps ==
    ASSUME ExternalAssumption, IInv, NEW t \in Transfers, NEW l \in LineType,
           Balanced(l), line[OwnerOf[t]].limit <= l.limit,
           NEW f, f = Terms(t, l), TakeFunds(t, f, l)
    PROVE  /\ f.debit \in Nat /\ f.credit \in Nat
           /\ f.credit <= line'[OwnerOf[t]].limit
           /\ LinesOK(line') /\ Grown(line, line')
           /\ wallet' \in [Users -> Int] /\ bonus' \in [Users -> Int]
           /\ moves' \in [Transfers -> [out : Nat, back : Nat]]
           /\ journal' \in [Transfers -> [fund : Nat, refund : Nat]]
           /\ \A x \in Transfers : moves'[x].back = moves[x].back
<1> DEFINE u == OwnerOf[t]
<1>1. u \in Users /\ Amount[t] \in Nat /\ wallet[u] \in Int
  BY DEF ExternalAssumption, IInv, BooksTyped
<1>2. l.avail \in Nat /\ l.limit \in Nat /\ l.used \in Nat
  BY DEF LineType
<1>3. (u \in Bif) \in BOOLEAN
  OBVIOUS
<1>4. /\ f.debit \in Nat /\ f.credit \in Nat /\ f.credit <= l.avail
  BY <1>1, <1>2, <1>3, FundingWithinCredit DEF Terms
<1>5. line' = [line EXCEPT ![u] = Draw(l, f.credit)]
  BY DEF TakeFunds
<1>6. /\ Draw(l, f.credit) \in LineType /\ Draw(l, f.credit).limit = l.limit
      /\ Balanced(Draw(l, f.credit))
  BY <1>4, DrawKeeps
<1>7. LinesOK(line') /\ Grown(line, line') /\ line'[u] = Draw(l, f.credit)
  BY <1>1, <1>5, <1>6, LineReplaced DEF IInv
<1>8. f.credit <= line'[u].limit
  BY <1>2, <1>4, <1>6, <1>7 DEF Balanced
<1>9. wallet' \in [Users -> Int] /\ bonus' \in [Users -> Int]
  BY <1>1, <1>4 DEF TakeFunds, IInv, BooksTyped
<1>10. moves' \in [Transfers -> [out : Nat, back : Nat]]
  <2>1. moves[t].out + f.debit \in Nat /\ moves[t] \in [out : Nat, back : Nat]
    BY <1>4 DEF IInv, BooksTyped
  <2>2. [moves[t] EXCEPT !.out = moves[t].out + f.debit] \in [out : Nat, back : Nat]
    BY <2>1
  <2>3. moves' = [moves EXCEPT ![t] = [moves[t] EXCEPT !.out = moves[t].out + f.debit]]
    BY DEF TakeFunds
  <2> QED
    BY <2>2, <2>3 DEF IInv, BooksTyped
<1>11. journal' \in [Transfers -> [fund : Nat, refund : Nat]]
  BY DEF TakeFunds, IInv, BooksTyped
<1>12. \A x \in Transfers : moves'[x].back = moves[x].back
  BY DEF TakeFunds, IInv, BooksTyped
<1> QED
  BY <1>4, <1>7, <1>8, <1>9, <1>10, <1>11, <1>12

MoneyOK ==
    /\ LinesOK(line') /\ Grown(line, line')
    /\ wallet' \in [Users -> Int]
    /\ moves' \in [Transfers -> [out : Nat, back : Nat]]
    /\ journal' \in [Transfers -> [fund : Nat, refund : Nat]]
    /\ \A t \in Transfers : moves'[t].back = moves[t].back \/ t \in Warranted'

LEMMA SameMoney == ASSUME IInv, UNCHANGED Money PROVE MoneyOK
<1>1. UNCHANGED <<wallet, line, moves, journal>>
  BY DEF Money
<1>2. Grown(line, line')
  BY <1>1, GrownIsReflexive DEF IInv
<1> QED
  BY <1>1, <1>2 DEF MoneyOK, IInv, BooksTyped

\* a refund, journaled or not, is of a row whose credit the line has lent
LEMMA GiveFundsBackKeeps ==
    ASSUME ExternalAssumption, IInv, NEW t \in Transfers, NEW r \in RowType,
           Sound(r, t, line, Warranted), GiveFundsBack(t, r.meta),
           t \in Warranted',
           journal' \in [Transfers -> [fund : Nat, refund : Nat]]
    PROVE  MoneyOK
<1> DEFINE u == OwnerOf[t]
           m == r.meta
<1>1. u \in Users /\ m.debited \in Nat /\ m.credit \in Nat /\ wallet[u] \in Int
  BY RowFields DEF ExternalAssumption, IInv, BooksTyped
<1>2. line[u] \in LineType /\ Balanced(line[u]) /\ line[u].limit \in Nat
  BY <1>1 DEF IInv, LinesOK, LineType
<1>3. m.credit <= line[u].limit
  BY DEF Sound
<1>4. line' = [line EXCEPT ![u] = GiveBack(line[u], m.credit)]
  BY DEF GiveFundsBack
<1>5. /\ GiveBack(line[u], m.credit) \in LineType
      /\ GiveBack(line[u], m.credit).limit = line[u].limit
      /\ Balanced(GiveBack(line[u], m.credit))
  BY <1>1, <1>2, <1>3, GiveBackKeeps
<1>6. LinesOK(line') /\ Grown(line, line')
  <2> DEFINE l == GiveBack(line[u], m.credit)
  <2>1. LinesOK(line) /\ u \in Users /\ l \in LineType /\ Balanced(l)
        /\ line[u].limit <= l.limit /\ line' = [line EXCEPT ![u] = l]
    BY <1>1, <1>2, <1>4, <1>5 DEF IInv
  <2> HIDE DEF l, u
  <2> QED
    BY <2>1, LineReplaced
<1>7. wallet' \in [Users -> Int]
  BY <1>1 DEF GiveFundsBack, IInv, BooksTyped
<1>8. moves' \in [Transfers -> [out : Nat, back : Nat]]
  <2> DEFINE n == moves[t].back + m.debited
  <2>1. n \in Nat /\ moves[t] \in [out : Nat, back : Nat]
    BY <1>1 DEF IInv, BooksTyped
  <2>2. moves' = [moves EXCEPT ![t] = [moves[t] EXCEPT !.back = n]]
    BY DEF GiveFundsBack
  <2> HIDE DEF n
  <2>3. [moves[t] EXCEPT !.back = n] \in [out : Nat, back : Nat]
    BY <2>1
  <2> QED
    BY <2>2, <2>3 DEF IInv, BooksTyped
<1>9. \A x \in Transfers : moves'[x].back = moves[x].back \/ x \in Warranted'
  BY DEF GiveFundsBack, IInv, BooksTyped
<1> QED
  BY <1>6, <1>7, <1>8, <1>9 DEF MoneyOK

LEMMA RefundKeeps ==
    ASSUME ExternalAssumption, IInv, NEW t \in Transfers, NEW r \in RowType,
           Sound(r, t, line, Warranted), NEW status, Refund(t, r, status),
           status = "failed" => t \in Warranted'
    PROVE  MoneyOK
<1>1. CASE status = "failed" /\ ~r.meta.refunded
  <2>1. GiveFundsBack(t, r.meta) /\ journal' = [journal EXCEPT ![t].refund = @ + 1]
    BY <1>1 DEF Refund
  <2>2. journal' \in [Transfers -> [fund : Nat, refund : Nat]]
    BY <2>1, SMTT(40) DEF IInv, BooksTyped
  <2> QED
    BY <1>1, <2>1, <2>2, GiveFundsBackKeeps
<1>2. CASE ~(status = "failed" /\ ~r.meta.refunded)
  BY <1>2, SameMoney DEF Refund
<1> QED
  BY <1>1, <1>2

-----------------------------------------------------------------------------
(* Answers of the provider. *)

WorldOK ==
    /\ ProviderOK(provider') /\ HooksOK(hooks', Warranted')
    /\ Warranted \subseteq Warranted' /\ Warranted' \subseteq Transfers

LEMMA SameWorld == ASSUME IInv, UNCHANGED World PROVE WorldOK
BY DEF World, WorldOK, IInv, Warranted

LEMMA ReachKeeps ==
    ASSUME IInv, NEW t \in Transfers, NEW p \in Received(t) \union {provider[t]},
           Reach(t, p), denied' \in {denied, denied \union {t}}
    PROVE  /\ WorldOK /\ p \in {"none", "accepted", "paid", "rejected"}
           /\ p = "rejected" \/ denied' # denied => t \in Warranted'
<1>1. provider \in [Transfers -> {"none", "accepted", "paid", "rejected"}]
  BY DEF IInv, ProviderOK
<1>2. p \in {"none", "accepted", "paid", "rejected"}
      /\ (provider[t] # "none" => p = provider[t])
  BY <1>1 DEF Received
<1>3. /\ ProviderOK(provider') /\ provider'[t] = p
      /\ \A x \in Transfers : provider[x] = "rejected" => provider'[x] = "rejected"
  BY <1>1, <1>2 DEF Reach, ProviderOK
<1>4. /\ Warranted \subseteq Warranted' /\ Warranted' \subseteq Transfers
      /\ p = "rejected" \/ denied' # denied => t \in Warranted'
  BY <1>3 DEF IInv, Warranted
<1>5. HooksOK(hooks', Warranted')
  <2>1. HooksOK(hooks, Warranted)
    BY DEF IInv
  <2>2. hooks' \subseteq hooks \union {[t |-> t, status |-> "sent"]}
    BY DEF Reach
  <2>3. [t |-> t, status |-> "sent"] \in [t : Transfers, status : ProviderStatus]
    BY DEF ProviderStatus
  <2> QED
    BY <1>4, <2>1, <2>2, <2>3 DEF HooksOK
<1> QED
  BY <1>2, <1>3, <1>5, <1>4 DEF WorldOK

LEMMA MayReachKeeps ==
    ASSUME IInv, NEW t \in Transfers, MayReach(t),
           denied' \in {denied, denied \union {t}}
    PROVE  WorldOK /\ (denied' # denied => t \in Warranted')
<1>1. PICK p \in Received(t) \union {provider[t]} : Reach(t, p)
  BY DEF MayReach
<1> QED
  BY <1>1, ReachKeeps

LEMMA SaysStatus ==
    ASSUME NEW p \in {"none", "accepted", "paid", "rejected"}, NEW status \in Says[p]
    PROVE  status \in ProviderStatus /\ (status = "failed" => p = "rejected")
BY DEF Says, ProviderStatus

\* a row answered for is sound: a refund is marked only for a refusal
LEMMA AnsweredIsSound ==
    ASSUME ExternalAssumption, IInv, MoneyOK, WorldOK, NEW t \in Transfers,
           NEW r \in RowType, Sound(r, t, line, Warranted),
           NEW status \in ProviderStatus, NEW ref \in BOOLEAN,
           status = "failed" => t \in Warranted'
    PROVE  /\ Answered(r, status, ref) \in RowType
           /\ Sound(Answered(r, status, ref), t, line', Warranted')
<1> DEFINE a == Answered(r, status, ref)
<1>1. /\ a \in RowType /\ a.meta.credit \in {r.meta.credit, 0}
      /\ a.meta.refunded => r.meta.refunded \/ status = "failed"
  BY AnsweredFields
<1> HIDE DEF a
<1>2. Sound(r, t, line', Warranted')
  BY SoundForward DEF IInv, MoneyOK, WorldOK, Forward, Grown
<1>3. OwnerOf[t] \in Users
  BY DEF ExternalAssumption
<1>4. line'[OwnerOf[t]].limit \in Nat
  BY <1>3 DEF MoneyOK, LinesOK, LineType
<1>5. a.meta.credit <= line'[OwnerOf[t]].limit
  BY <1>1, <1>2, <1>4 DEF Sound
<1>6. a.meta.refunded => t \in Warranted'
  BY <1>1, <1>2 DEF Sound
<1> QED
  BY <1>1, <1>5, <1>6 DEF Sound, a

\* a row whose metadata are those of a sound row is sound
LEMMA SameMetaSound ==
    ASSUME ExternalAssumption, IInv, MoneyOK, WorldOK, NEW t \in Transfers,
           NEW r \in RowType, Sound(r, t, line, Warranted),
           NEW n \in RowType, n.meta = r.meta
    PROVE  Sound(n, t, line', Warranted')
<1>1. Sound(r, t, line', Warranted')
  BY SoundForward DEF IInv, MoneyOK, WorldOK, Forward, Grown
<1> QED
  BY <1>1 DEF Sound

\* what a step must show, when requests are left alone
LEMMA WorkKeepsInv ==
    ASSUME ExternalAssumption, IInv, MoneyOK, WorldOK, BooksTyped',
           NEW t \in Transfers, NEW r \in RowType,
           Sound(r, t, line', Warranted'), Put(t, r),
           sess' \in [Sessions -> Requests \union {None}],
           \A s \in Sessions : sess'[s] = sess[s] \/ sess'[s] = None
    PROVE  IInv'
<1>1. row \in [Transfers -> RowType]
  BY DEF IInv, RowsOK
<1>2. /\ row' \in [Transfers -> RowType]
      /\ \A x \in Transfers : row'[x] = row[x] \/ Sound(row'[x], x, line', Warranted')
  BY <1>1 DEF Put
<1>3. Forward(line, line', Warranted, Warranted')
  BY DEF MoneyOK, WorldOK, Forward, Grown
<1> QED
  BY <1>2, <1>3, StepKeepsInv DEF MoneyOK, WorldOK
-----------------------------------------------------------------------------
(* Requests that commit. *)

\* what a request holds that is being served
LEMMA ServedFields ==
    ASSUME IInv, NEW s \in Sessions, NEW op, Serves(s, op)
    PROVE  /\ sess[s] \in Requests /\ sess[s].op = op
           /\ op # "deposit" => /\ sess[s].t \in Transfers
                                /\ sess[s].snap \in RowType
                                /\ Sound(sess[s].snap, sess[s].t, line, Warranted)
<1>1. sess[s] \in Requests \union {None} /\ sess[s] # None /\ sess[s].op = op
  BY DEF IInv, SessOK, Serves
<1>2. Fits(sess[s], line, Warranted)
  BY DEF IInv, SessOK
<1> QED
  BY <1>1, <1>2, RequestFields DEF Fits

LEMMA DoneKeepsSessions ==
    ASSUME IInv, NEW s \in Sessions, Done(s)
    PROVE  /\ sess' \in [Sessions -> Requests \union {None}]
           /\ \A q \in Sessions : sess'[q] = sess[q] \/ sess'[q] = None
<1>1. sess \in [Sessions -> Requests \union {None}]
  BY DEF IInv, SessOK
<1> QED
  BY <1>1 DEF Done

LEMMA BlankFields ==
    ASSUME ExternalAssumption
    PROVE  /\ Blank \in RowType /\ Blank.meta \in MetaType
           /\ Blank.meta.credit = 0 /\ Blank.meta.refunded = FALSE
BY DEF Blank, RowType, MetaType, Status, ProviderStatus, ExternalAssumption

LEMMA CreateFundedKeepsInv ==
    ASSUME ExternalAssumption, IInv, NEW s \in Sessions, NEW review \in BOOLEAN,
           NEW override \in BOOLEAN, CreateFunded(s, review, override)
    PROVE  IInv'
<1> DEFINE t == sess[s].t
           u == OwnerOf[t]
           f == Terms(t, line[u])
           status == IF review THEN "pending" ELSE "approved"
           meta == [[Blank.meta EXCEPT !.debited = f.debit] EXCEPT !.credit = f.credit]
           new == [[Blank EXCEPT !.status = status] EXCEPT !.meta = meta]
<1>1. t \in Transfers /\ sess[s].n \in Int
  BY ServedFields, RequestFields DEF CreateFunded
<1>2. u \in Users /\ Amount[t] \in Nat
  BY <1>1 DEF ExternalAssumption
<1>3. line[u] \in LineType /\ Balanced(line[u]) /\ line[u].limit <= line[u].limit
  BY <1>2 DEF IInv, LinesOK, LineType
<1>4. TakeFunds(t, f, line[u])
  BY DEF CreateFunded
<1> HIDE DEF f
<1>5. /\ f.debit \in Nat /\ f.credit \in Nat /\ f.credit <= line'[u].limit
      /\ LinesOK(line') /\ Grown(line, line')
      /\ wallet' \in [Users -> Int] /\ bonus' \in [Users -> Int]
      /\ moves' \in [Transfers -> [out : Nat, back : Nat]]
      /\ journal' \in [Transfers -> [fund : Nat, refund : Nat]]
      /\ \A x \in Transfers : moves'[x].back = moves[x].back
  BY <1>1, <1>3, <1>4, TakeFundsKeeps DEF f
<1>6. meta \in MetaType /\ meta.credit = f.credit /\ meta.refunded = FALSE
  BY <1>5, BlankFields DEF MetaType
<1> HIDE DEF meta
<1>7. new \in RowType /\ new.meta = meta
  <2> DEFINE b == [Blank EXCEPT !.status = status]
  <2>1. b \in RowType
    BY BlankFields DEF RowType, Status
  <2> HIDE DEF b
  <2>2. [b EXCEPT !.meta = meta] \in RowType /\ [b EXCEPT !.meta = meta].meta = meta
    BY <1>6, <2>1 DEF RowType
  <2> QED
    BY <2>2 DEF b
<1>8. Put(t, new)
  BY BlankFields DEF CreateFunded, RowType, f, meta
<1> HIDE DEF new, status
<1>9. Sound(new, t, line', Warranted')
  BY <1>5, <1>6, <1>7 DEF Sound
<1>10. MoneyOK
  BY <1>5 DEF MoneyOK
<1>11. WorldOK /\ Done(s)
  BY SameWorld DEF CreateFunded
<1>12. BooksTyped'
  <2>1. used' \in [Users -> Int]
    BY <1>1, <1>2, SMTT(40) DEF CreateFunded, IInv, BooksTyped
  <2>2. UNCHANGED <<till, paidIn, cash, faults>>
    BY DEF CreateFunded
  <2>3. tasks' \subseteq Routed
    BY DEF CreateFunded, Dispatchable, IInv, BooksTyped
  <2> QED
    BY <1>5, <2>1, <2>2, <2>3 DEF IInv, BooksTyped
<1> HIDE DEF t, u
<1> QED
  BY <1>1, <1>7, <1>8, <1>9, <1>10, <1>11, <1>12, DoneKeepsSessions, WorkKeepsInv

LEMMA CreateFromBonusKeepsInv ==
    ASSUME ExternalAssumption, IInv, NEW s \in Sessions, NEW review \in BOOLEAN,
           CreateFromBonus(s, review)
    PROVE  IInv'
<1> DEFINE t == sess[s].t
           u == OwnerOf[t]
           status == IF review THEN "pending" ELSE "approved"
           new == [Blank EXCEPT !.status = status]
<1>1. t \in Transfers /\ sess[s].n \in Int
  BY ServedFields, RequestFields DEF CreateFromBonus
<1>2. u \in Users /\ Amount[t] \in Nat
  BY <1>1 DEF ExternalAssumption
<1>3. new \in RowType /\ new.meta = Blank.meta
  BY BlankFields DEF RowType, Status
<1>4. UNCHANGED <<wallet, line, till, moves, paidIn, journal, cash, World, faults>>
  BY DEF CreateFromBonus, Books
<1>5. MoneyOK /\ WorldOK
  BY <1>4, SameMoney, SameWorld DEF Money
<1>6. Sound(new, t, line', Warranted')
  <2>1. line'[u].limit \in Nat
    BY <1>2, <1>5 DEF MoneyOK, LinesOK, LineType
  <2>2. new.meta.credit = 0 /\ new.meta.refunded = FALSE
    BY <1>3, BlankFields
  <2> HIDE DEF new
  <2>3. new.meta.credit <= line'[u].limit
    BY <2>1, <2>2
  <2> QED
    BY <2>2, <2>3 DEF Sound
<1>7. Put(t, new) /\ Done(s)
  BY DEF CreateFromBonus
<1>8. BooksTyped'
  <2>1. used' \in [Users -> Int]
    BY <1>1, <1>2 DEF CreateFromBonus, IInv, BooksTyped
  <2>2. bonus' \in [Users -> Int]
    BY <1>2 DEF CreateFromBonus, IInv, BooksTyped
  <2>3. tasks' \subseteq Routed
    BY DEF CreateFromBonus, Dispatchable, IInv, BooksTyped
  <2> QED
    BY <1>4, <2>1, <2>2, <2>3 DEF IInv, BooksTyped
<1> HIDE DEF t, new
<1> QED
  BY <1>1, <1>3, <1>5, <1>6, <1>7, <1>8, DoneKeepsSessions, WorkKeepsInv

LEMMA CreateUnfundedKeepsInv ==
    ASSUME ExternalAssumption, IInv, NEW s \in Sessions, CreateUnfunded(s)
    PROVE  IInv'
<1> DEFINE t == sess[s].t
           meta == [Blank.meta EXCEPT !.pending = TRUE]
           b == [Blank EXCEPT !.status = "pending"]
           new == [b EXCEPT !.meta = meta]
<1>1. t \in Transfers
  BY ServedFields DEF CreateUnfunded
<1>2. meta \in MetaType /\ meta.credit = 0 /\ meta.refunded = FALSE
  BY BlankFields DEF MetaType
<1>3. b \in RowType
  BY BlankFields DEF RowType, Status
<1>4. Put(t, new) /\ Done(s)
  BY BlankFields DEF CreateUnfunded, RowType
<1> HIDE DEF meta, b
<1>5. new \in RowType /\ new.meta = meta
  BY <1>2, <1>3 DEF RowType
<1>6. UNCHANGED <<wallet, line, bonus, used, till, moves, paidIn, journal, cash,
                  World, tasks, faults>>
  BY DEF CreateUnfunded, Purses, Books
<1>7. MoneyOK /\ WorldOK
  BY <1>6, SameMoney, SameWorld DEF Money
<1>8. Sound(new, t, line', Warranted')
  <2>1. OwnerOf[t] \in Users
    BY <1>1 DEF ExternalAssumption
  <2>2. line'[OwnerOf[t]].limit \in Nat
    BY <1>7, <2>1 DEF MoneyOK, LinesOK, LineType
  <2> QED
    BY <1>2, <1>5, <2>2 DEF Sound
<1>9. BooksTyped'
  BY <1>6 DEF IInv, BooksTyped
<1> HIDE DEF t, new
<1> QED
  BY <1>1, <1>4, <1>5, <1>7, <1>8, <1>9, DoneKeepsSessions, WorkKeepsInv
LEMMA ApproveKeepsInv ==
    ASSUME ExternalAssumption, IInv, NEW s \in Sessions, Approve(s)
    PROVE  IInv'
<1> DEFINE t == sess[s].t
           read == sess[s].snap
           u == OwnerOf[t]
           l == TopUp(line[u], Shortage(t))
           f == Terms(t, l)
           approved == [read EXCEPT !.status = "approved"]
<1>1. /\ t \in Transfers /\ read \in RowType /\ Sound(read, t, line, Warranted)
      /\ u \in Users /\ Amount[t] \in Nat
  BY ServedFields DEF Approve, ExternalAssumption
<1>2. row[t] \in RowType /\ Sound(row[t], t, line, Warranted)
  BY <1>1 DEF IInv, RowsOK
<1>3. approved \in RowType /\ approved.meta = read.meta
  BY <1>1 DEF RowType, Status
<1>4. WorldOK /\ UNCHANGED <<till, paidIn, cash, faults>>
  BY SameWorld DEF Approve
<1>5. tasks' \subseteq Routed
  BY DEF Approve, Dispatchable, IInv, BooksTyped
<1>6. Done(s)
  BY DEF Approve
<1>7. CASE read.meta.pending
  <2> DEFINE m1 == [approved.meta EXCEPT !.pending = FALSE]
             m2 == [m1 EXCEPT !.debited = f.debit]
             meta == [m2 EXCEPT !.credit = f.credit]
             new == [approved EXCEPT !.meta = meta]
  <2>1. Put(t, SaveMeta(row[t], read, new))
    BY <1>3, <1>7 DEF Approve, RowType
  <2>2. /\ TakeFunds(t, f, l) /\ used' = [used EXCEPT ![u] = @ + Amount[t]]
    BY <1>7 DEF Approve, FundAtApproval
  <2>3. Shortage(t) \in Nat
    <3>1. line[u].avail \in Int /\ wallet[u] \in Int
      BY <1>1 DEF IInv, LinesOK, LineType, BooksTyped
    <3>2. Affordable(t) \in Int
      BY <3>1 DEF Affordable, Capacity
    <3> QED
      BY <1>1, <3>2, PosIsNat DEF Shortage
  <2>4. line[u] \in LineType /\ Balanced(line[u]) /\ line[u].limit \in Nat
    BY <1>1 DEF IInv, LinesOK, LineType
  <2>5. l \in LineType /\ Balanced(l) /\ line[u].limit <= l.limit
    <3> DEFINE n == Shortage(t)
               k == line[u]
    <3>1. n \in Nat /\ k \in LineType /\ Balanced(k) /\ k.limit \in Nat
      BY <2>3, <2>4
    <3> HIDE DEF n, k
    <3>2. /\ TopUp(k, n) \in LineType /\ Balanced(TopUp(k, n))
          /\ TopUp(k, n).limit = k.limit + n
      BY <3>1, TopUpKeeps
    <3>3. k.limit <= TopUp(k, n).limit
      BY <3>1, <3>2
    <3> QED
      BY <3>2, <3>3 DEF n, k
  <2> HIDE DEF f, l
  <2>6. /\ f.debit \in Nat /\ f.credit \in Nat /\ f.credit <= line'[u].limit
        /\ LinesOK(line') /\ Grown(line, line')
        /\ wallet' \in [Users -> Int] /\ bonus' \in [Users -> Int]
        /\ moves' \in [Transfers -> [out : Nat, back : Nat]]
        /\ journal' \in [Transfers -> [fund : Nat, refund : Nat]]
        /\ \A x \in Transfers : moves'[x].back = moves[x].back
    BY <1>1, <2>2, <2>5, TakeFundsKeeps DEF f
  <2>7. m1 \in MetaType /\ m1.refunded = read.meta.refunded
    BY <1>1, <1>3, RowFields DEF MetaType
  <2> HIDE DEF m1
  <2>8. m2 \in MetaType /\ m2.refunded = read.meta.refunded
    BY <2>6, <2>7 DEF MetaType
  <2> HIDE DEF m2
  <2>9. meta \in MetaType /\ meta.refunded = read.meta.refunded /\ meta.credit = f.credit
    BY <2>6, <2>8 DEF MetaType
  <2> HIDE DEF meta, approved
  <2>10. new \in RowType /\ new.meta = meta
    BY <1>3, <2>9 DEF RowType
  <2> HIDE DEF new
  <2>11. /\ SaveMeta(row[t], read, new) \in RowType
         /\ SaveMeta(row[t], read, new).meta = meta
    BY <1>1, <1>2, <2>10, SaveFields
  <2>12. MoneyOK
    BY <2>6 DEF MoneyOK
  <2>13. Sound(SaveMeta(row[t], read, new), t, line', Warranted')
    <3>1. meta.refunded => t \in Warranted'
      BY <1>1, <1>4, <2>9 DEF Sound, WorldOK
    <3> QED
      BY <2>6, <2>9, <2>11, <3>1 DEF Sound
  <2>14. BooksTyped'
    <3>1. used' \in [Users -> Int]
      BY <1>1, <2>2 DEF IInv, BooksTyped
    <3> QED
      BY <1>4, <1>5, <2>6, <3>1 DEF IInv, BooksTyped
  <2> HIDE DEF t, u, read
  <2> QED
    BY <1>1, <1>4, <1>6, <2>1, <2>11, <2>12, <2>13, <2>14, DoneKeepsSessions, WorkKeepsInv
<1>8. CASE ~read.meta.pending
  <2> DEFINE saved == Save(row[t], read, approved)
  <2>1. UNCHANGED <<wallet, line, bonus, used, moves, journal>> /\ Put(t, saved)
    BY <1>8 DEF Approve
  <2> HIDE DEF approved
  <2>2. saved \in RowType /\ saved.meta \in {row[t].meta, read.meta}
    BY <1>1, <1>2, <1>3, SaveFields
  <2>3. MoneyOK
    BY <2>1, SameMoney DEF Money
  <2> HIDE DEF saved
  <2>4. Sound(saved, t, line', Warranted')
    BY <1>1, <1>2, <1>4, <2>2, <2>3, SameMetaSound
  <2>5. BooksTyped'
    BY <1>4, <1>5, <2>1 DEF IInv, BooksTyped
  <2> HIDE DEF t, u, read
  <2> QED
    BY <1>1, <1>4, <1>6, <2>1, <2>2, <2>3, <2>4, <2>5, DoneKeepsSessions, WorkKeepsInv
<1> QED
  BY <1>7, <1>8

LEMMA CloseKeepsInv ==
    ASSUME ExternalAssumption, IInv, NEW s \in Sessions, Close(s)
    PROVE  IInv'
<1> DEFINE t == sess[s].t
           read == sess[s].snap
           new == [read EXCEPT !.status = "completed"]
           saved == SaveMeta(row[t], read, new)
<1>1. /\ t \in Transfers /\ read \in RowType /\ Sound(read, t, line, Warranted)
      /\ sess[s].arg \in Agents /\ sess[s].n \in Int /\ Amount[t] \in Nat
  BY ServedFields, RequestFields DEF Close, ExternalAssumption
<1>2. row[t] \in RowType
  BY <1>1 DEF IInv, RowsOK
<1>3. new \in RowType /\ new.meta = read.meta
  BY <1>1 DEF RowType, Status
<1>4. Put(t, saved) /\ Done(s)
  BY DEF Close
<1> HIDE DEF new
<1>5. saved \in RowType /\ saved.meta = read.meta
  BY <1>1, <1>2, <1>3, SaveFields
<1>6. UNCHANGED <<wallet, line, bonus, used, moves, paidIn, journal, World, tasks, faults>>
  BY DEF Close, Books
<1>7. MoneyOK /\ WorldOK
  BY <1>6, SameMoney, SameWorld DEF Money
<1> HIDE DEF saved
<1>8. Sound(saved, t, line', Warranted')
  BY <1>1, <1>5, <1>7, SameMetaSound
<1>9. BooksTyped'
  <2>1. till' \in [Agents -> Int]
    BY <1>1 DEF Close, IInv, BooksTyped
  <2>2. cash' \in [Transfers -> Nat]
    BY <1>1 DEF Close, IInv, BooksTyped
  <2> QED
    BY <1>6, <2>1, <2>2 DEF IInv, BooksTyped
<1> HIDE DEF t, read
<1> QED
  BY <1>1, <1>4, <1>5, <1>7, <1>8, <1>9, DoneKeepsSessions, WorkKeepsInv

LEMMA UpdateKeepsInv ==
    ASSUME ExternalAssumption, IInv, NEW s \in Sessions, Update(s)
    PROVE  IInv'
<1> DEFINE t == sess[s].t
           read == sess[s].snap
           new == [read EXCEPT !.status = sess[s].arg]
           saved == SaveMeta(row[t], read, new)
<1>1. /\ t \in Transfers /\ read \in RowType /\ Sound(read, t, line, Warranted)
      /\ sess[s].arg \in Status
  BY ServedFields, RequestFields DEF Update
<1>2. row[t] \in RowType
  BY <1>1 DEF IInv, RowsOK
<1>3. new \in RowType /\ new.meta = read.meta
  BY <1>1 DEF RowType
<1>4. Put(t, saved) /\ Done(s)
  BY DEF Update
<1> HIDE DEF new
<1>5. saved \in RowType /\ saved.meta = read.meta
  BY <1>1, <1>2, <1>3, SaveFields
<1>6. UNCHANGED <<wallet, line, bonus, used, till, moves, paidIn, journal, cash, World,
                  tasks, faults>>
  BY DEF Update, Purses, Books
<1>7. MoneyOK /\ WorldOK
  BY <1>6, SameMoney, SameWorld DEF Money
<1> HIDE DEF saved
<1>8. Sound(saved, t, line', Warranted')
  BY <1>1, <1>5, <1>7, SameMetaSound
<1>9. BooksTyped'
  BY <1>6 DEF IInv, BooksTyped
<1> HIDE DEF t, read
<1> QED
  BY <1>1, <1>4, <1>5, <1>7, <1>8, <1>9, DoneKeepsSessions, WorkKeepsInv

LEMMA WebhookKeepsInv ==
    ASSUME ExternalAssumption, IInv, NEW s \in Sessions, Webhook(s)
    PROVE  IInv'
<1> DEFINE t == sess[s].t
           read == sess[s].snap
           new == Answered(read, sess[s].arg, TRUE)
<1>1. /\ t \in Transfers /\ read \in RowType /\ Sound(read, t, line, Warranted)
      /\ sess[s].arg \in ProviderStatus
  BY ServedFields, RequestFields DEF Webhook
<1>2. row[t] \in RowType /\ Sound(row[t], t, line, Warranted)
  BY <1>1 DEF IInv, RowsOK
<1>3. UNCHANGED <<bonus, used, till, paidIn, cash, World, tasks, faults>> /\ Done(s)
  BY DEF Webhook, Purses
<1>4. WorldOK
  BY <1>3, SameWorld
<1>5. sess[s].arg = "failed" => t \in Warranted'
  <2>1. Fits(sess[s], line, Warranted) /\ sess[s] # None /\ sess[s].op = "webhook"
    BY DEF IInv, SessOK, Webhook, Serves
  <2> QED
    BY <1>1, <1>4, <2>1 DEF Fits, WorldOK
<1>6. MoneyOK
  BY <1>1, <1>5, RefundKeeps DEF Webhook
<1>7. new \in RowType /\ Sound(new, t, line', Warranted')
  BY <1>1, <1>4, <1>5, <1>6, AnsweredIsSound
<1>8. BooksTyped'
  BY <1>3, <1>6 DEF MoneyOK, IInv, BooksTyped
<1> HIDE DEF new
<1>9. /\ SaveMeta(row[t], read, new) \in RowType /\ SaveMeta(row[t], read, new).meta = new.meta
      /\ Save(row[t], read, new) \in RowType
      /\ Save(row[t], read, new).meta \in {row[t].meta, new.meta}
  BY <1>1, <1>2, <1>7, SaveFields
<1>10. Sound(row[t], t, line', Warranted')
  BY <1>1, <1>2, <1>4, <1>6, SameMetaSound
<1>11. /\ Sound(SaveMeta(row[t], read, new), t, line', Warranted')
       /\ Sound(Save(row[t], read, new), t, line', Warranted')
  BY <1>7, <1>9, <1>10 DEF Sound
<1>12. Put(t, SaveMeta(row[t], read, new)) \/ Put(t, Save(row[t], read, new))
  BY DEF Webhook, new
<1> HIDE DEF t, read
<1> QED
  BY <1>1, <1>3, <1>4, <1>6, <1>8, <1>9, <1>11, <1>12, DoneKeepsSessions, WorkKeepsInv
LEMMA DepositKeepsInv ==
    ASSUME ExternalAssumption, IInv, NEW s \in Sessions, Deposit(s)
    PROVE  IInv'
<1> DEFINE u == sess[s].u
           d == sess[s].d
           n == Recovered(line[u], d)
<1>1. u \in Users /\ d \in Nat /\ sess[s].n \in Int
  BY ServedFields, RequestFields DEF Deposit, ExternalAssumption
<1>2. line[u] \in LineType /\ Balanced(line[u]) /\ line[u].limit \in Nat
  BY <1>1 DEF IInv, LinesOK, LineType
<1>3. /\ wallet' = [wallet EXCEPT ![u] = sess[s].n + d]
      /\ paidIn' = [paidIn EXCEPT ![u] = @ + d]
      /\ line' = [line EXCEPT ![u] = Recover(line[u], d)]
      /\ Done(s)
      /\ UNCHANGED <<bonus, used, till, moves, journal, cash, World, tasks, faults>>
  BY DEF Deposit, Purses
<1>4. /\ Recover(line[u], d) \in LineType /\ Balanced(Recover(line[u], d))
      /\ Recover(line[u], d).limit = line[u].limit
  BY <1>1, <1>2, RecoverKeeps
<1>5. LinesOK(line') /\ Grown(line, line')
  <2> DEFINE l == Recover(line[u], d)
  <2>1. LinesOK(line) /\ l \in LineType /\ Balanced(l) /\ line[u].limit <= l.limit
        /\ line' = [line EXCEPT ![u] = l]
    BY <1>2, <1>3, <1>4 DEF IInv
  <2> HIDE DEF l, u
  <2> QED
    BY <1>1, <2>1, LineReplaced
<1>6. wallet' \in [Users -> Int] /\ paidIn' \in [Users -> Nat]
  BY <1>1, <1>3 DEF IInv, BooksTyped
<1>7. MoneyOK /\ WorldOK
  BY <1>3, <1>5, <1>6, SameWorld DEF MoneyOK, IInv, BooksTyped
<1>8. BooksTyped'
  BY <1>3, <1>6 DEF IInv, BooksTyped
<1>9. row \in [Transfers -> RowType]
      /\ \A t \in Transfers : Sound(row[t], t, line, Warranted)
  BY DEF IInv, RowsOK
<1>10. PICK split \in Splits(u, n) :
          row' = [t \in Transfers |->
                    IF t \in {x \in Owned(u) : split[x] > 0} THEN Repaid(t, split[t])
                                                            ELSE row[t]]
  BY DEF Deposit
<1>11. \A t \in Owned(u) : t \in Transfers /\ split[t] \in Nat
  <2>1. split \in [Owned(u) -> 0..n]
    BY DEF Splits
  <2> QED
    BY <2>1 DEF Owned
<1>12. \A t \in Transfers :
          /\ row'[t] \in RowType
          /\ row'[t].meta.credit = row[t].meta.credit
          /\ row'[t].meta.refunded = row[t].meta.refunded
  BY <1>9, <1>10, <1>11, RepaidFields
<1>13. row' \in [Transfers -> RowType]
  BY <1>10, <1>12
<1>14. Forward(line, line', Warranted, Warranted')
  BY <1>7 DEF MoneyOK, WorldOK, Forward, Grown
<1>15. \A t \in Transfers : Sound(row'[t], t, line', Warranted')
  <2> SUFFICES ASSUME NEW t \in Transfers PROVE Sound(row'[t], t, line', Warranted')
    OBVIOUS
  <2>1. Sound(row[t], t, line', Warranted')
    BY <1>5, <1>9, <1>14, SoundForward DEF IInv
  <2> QED
    BY <1>12, <2>1 DEF Sound
<1> QED
  BY <1>3, <1>7, <1>8, <1>13, <1>14, <1>15, DoneKeepsSessions, StepKeepsInv
     DEF MoneyOK, WorldOK

\* steps that leave rows and money alone
LEMMA QuietKeepsInv ==
    ASSUME ExternalAssumption, IInv, WorldOK, BooksTyped', UNCHANGED <<row, line, moves>>,
           sess' \in [Sessions -> Requests \union {None}],
           \A s \in Sessions : sess'[s] = sess[s] \/ sess'[s] = None
    PROVE  IInv'
<1>1. Grown(line, line')
  BY GrownIsReflexive DEF IInv
<1>2. Forward(line, line', Warranted, Warranted')
  BY <1>1 DEF WorldOK, Forward, Grown
<1>3. row' \in [Transfers -> RowType] /\ \A t \in Transfers : row'[t] = row[t]
  BY DEF IInv, RowsOK
<1>4. LinesOK(line')
  BY DEF IInv
<1> QED
  BY <1>2, <1>3, <1>4, StepKeepsInv DEF WorldOK

LEMMA AbortKeepsInv ==
    ASSUME ExternalAssumption, IInv, NEW s \in Sessions, Abort(s)
    PROVE  IInv'
<1>1. Done(s) /\ UNCHANGED <<row, wallet, line, bonus, used, till, moves, paidIn,
                             journal, cash, World, tasks, faults>>
  BY DEF Abort, Purses, Books
<1>2. BooksTyped'
  BY <1>1 DEF IInv, BooksTyped
<1> QED
  BY <1>1, <1>2, SameWorld, DoneKeepsSessions, QuietKeepsInv

LEMMA RestartKeepsInv ==
    ASSUME ExternalAssumption, IInv, Restart
    PROVE  IInv'
<1>1. /\ UNCHANGED <<row, wallet, line, bonus, used, till, moves, paidIn, journal,
                      cash, World>>
      /\ tasks' = {} /\ faults' = faults + 1
      /\ sess' = [s \in Sessions |-> None]
  BY DEF Restart, Purses, Books
<1>2. BooksTyped'
  BY <1>1 DEF IInv, BooksTyped
<1> QED
  BY <1>1, <1>2, SameWorld, QuietKeepsInv

LEMMA DecideKeepsInv ==
    ASSUME ExternalAssumption, IInv, NEW t \in Transfers, Decide(t)
    PROVE  IInv'
<1>1. PICK p \in {"paid", "rejected"} :
          /\ provider' = [provider EXCEPT ![t] = p]
          /\ hooks' = hooks \union {Verdict(t, p)}
  BY DEF Decide
<1>2. provider[t] = "accepted" /\ ProviderOK(provider) /\ HooksOK(hooks, Warranted)
  BY DEF Decide, IInv
<1>3. /\ ProviderOK(provider') /\ (p = "rejected" => t \in Warranted')
      /\ Warranted \subseteq Warranted' /\ Warranted' \subseteq Transfers
  BY <1>1, <1>2 DEF Decide, ProviderOK, IInv, Warranted
<1>4. /\ Verdict(t, p) \in [t : Transfers, status : ProviderStatus]
      /\ Verdict(t, p).t = t /\ (Verdict(t, p).status = "failed" => p = "rejected")
  BY DEF Verdict, ProviderStatus
<1>5. HooksOK(hooks', Warranted')
  BY <1>1, <1>2, <1>3, <1>4 DEF HooksOK
<1>6. WorldOK
  BY <1>3, <1>5 DEF WorldOK
<1>7. UNCHANGED <<row, wallet, line, bonus, used, till, moves, paidIn, journal, cash,
                  tasks, sess, faults>>
  BY DEF Decide, Purses, Books
<1>8. BooksTyped' /\ sess' \in [Sessions -> Requests \union {None}]
  BY <1>7 DEF IInv, BooksTyped, SessOK
<1> QED
  BY <1>6, <1>7, <1>8, QuietKeepsInv

-----------------------------------------------------------------------------
(* Work on a transfer under the lock of its row. *)

\* one step of it, whoever takes it
Worked(t) ==
    /\ MoneyOK /\ WorldOK
    /\ row' = row \/ \E r \in RowType : Put(t, r) /\ Sound(r, t, line', Warranted')

LEMMA SendAnsweredWorks ==
    ASSUME ExternalAssumption, IInv, NEW t \in Transfers, SendAnswered(t)
    PROVE  Worked(t) /\ faults' = faults
<1>1. PICK p \in Received(t), ref \in BOOLEAN : \E status \in Says[p] :
          /\ Reach(t, p) /\ Put(t, Answered(row[t], status, ref))
          /\ Refund(t, row[t], status) /\ UNCHANGED <<denied, faults>>
  BY DEF SendAnswered
<1>2. PICK status \in Says[p] :
          /\ Reach(t, p) /\ Put(t, Answered(row[t], status, ref))
          /\ Refund(t, row[t], status) /\ UNCHANGED <<denied, faults>>
  BY <1>1
<1>3. row[t] \in RowType /\ Sound(row[t], t, line, Warranted)
  BY DEF IInv, RowsOK
<1>4. WorldOK /\ (p = "rejected" => t \in Warranted') /\ p \in {"none", "accepted", "paid", "rejected"}
  BY <1>2, ReachKeeps
<1>5. status \in ProviderStatus /\ (status = "failed" => t \in Warranted')
  BY <1>4, SaysStatus
<1>6. MoneyOK
  BY <1>2, <1>3, <1>5, RefundKeeps
<1>7. /\ Answered(row[t], status, ref) \in RowType
      /\ Sound(Answered(row[t], status, ref), t, line', Warranted')
  BY <1>3, <1>4, <1>5, <1>6, AnsweredIsSound
<1> QED
  BY <1>2, <1>4, <1>6, <1>7 DEF Worked

LEMMA SendTimesOutWorks ==
    ASSUME ExternalAssumption, IInv, NEW t \in Transfers, SendTimesOut(t)
    PROVE  Worked(t) /\ faults' = faults + 1
<1>2. WorldOK
  BY MayReachKeeps DEF SendTimesOut
<1>3. MoneyOK
  BY SameMoney DEF SendTimesOut
<1>4. row[t] \in RowType /\ Sound(row[t], t, line, Warranted)
  BY DEF IInv, RowsOK
<1>5. Retried(row[t]) \in RowType /\ Retried(row[t]).meta = row[t].meta
  BY <1>4, RetriedFields
<1>6. Sound(Retried(row[t]), t, line', Warranted')
  BY <1>2, <1>3, <1>4, <1>5, SameMetaSound
<1> QED
  BY <1>2, <1>3, <1>5, <1>6 DEF Worked, SendTimesOut

LEMMA SendRefusedWorks ==
    ASSUME ExternalAssumption, IInv, NEW t \in Transfers, SendRefused(t)
    PROVE  Worked(t) /\ faults' = faults
<1> DEFINE r == Answered(row[t], "failed", FALSE)
<1>1. WorldOK /\ t \in Warranted'
  BY MayReachKeeps DEF SendRefused, Denied, WorldOK, Warranted
<1>2. row[t] \in RowType /\ Sound(row[t], t, line, Warranted)
  BY DEF IInv, RowsOK
<1>3. MoneyOK
  BY <1>1, <1>2, RefundKeeps DEF SendRefused
<1>4. r \in RowType /\ Sound(r, t, line', Warranted')
  BY <1>1, <1>2, <1>3, AnsweredIsSound DEF ProviderStatus
<1> QED
  BY <1>1, <1>3, <1>4 DEF Worked, SendRefused

LEMMA SendWorks ==
    ASSUME ExternalAssumption, IInv, NEW t \in Transfers, Send(t)
    PROVE  Worked(t) /\ faults' \in Nat
<1>1. faults \in Nat
  BY DEF IInv, BooksTyped
<1> QED
  BY <1>1, SendAnsweredWorks, SendTimesOutWorks, SendRefusedWorks DEF Send

LEMMA HalfRefundWorks ==
    ASSUME ExternalAssumption, IInv, NEW t \in Transfers, NEW ref \in BOOLEAN,
           HalfRefund(t, ref), WorldOK, t \in Warranted'
    PROVE  Worked(t)
<1>1. row[t] \in RowType /\ Sound(row[t], t, line, Warranted)
  BY DEF IInv, RowsOK
<1>2. MoneyOK
  BY <1>1, GiveFundsBackKeeps DEF HalfRefund, IInv, BooksTyped
<1> DEFINE r == Mark(row[t], "manual_review", ref)
<1>3. r \in RowType /\ r.meta = row[t].meta
  BY <1>1, MarkFields DEF ProviderStatus
<1>4. Put(t, r)
  BY DEF HalfRefund
<1> HIDE DEF r
<1>5. Sound(r, t, line', Warranted')
  BY <1>1, <1>2, <1>3, SameMetaSound
<1> QED
  BY <1>2, <1>3, <1>4, <1>5 DEF Worked

LEMMA WorkedKeepsInv ==
    ASSUME ExternalAssumption, IInv, NEW t \in Transfers, Worked(t),
           UNCHANGED <<bonus, used, till, paidIn, cash, sess>>,
           tasks' \subseteq tasks, faults' \in Nat
    PROVE  IInv'
<1>1. MoneyOK /\ WorldOK
  BY DEF Worked
<1>2. BooksTyped'
  BY <1>1 DEF MoneyOK, IInv, BooksTyped
<1>3. sess' \in [Sessions -> Requests \union {None}]
      /\ \A s \in Sessions : sess'[s] = sess[s] \/ sess'[s] = None
  BY DEF IInv, SessOK
<1>4. CASE row' = row
  <2>1. Forward(line, line', Warranted, Warranted')
    BY <1>1 DEF MoneyOK, WorldOK, Forward, Grown
  <2>2. row' \in [Transfers -> RowType] /\ \A x \in Transfers : row'[x] = row[x]
    BY <1>4 DEF IInv, RowsOK
  <2> QED
    BY <1>1, <1>2, <1>3, <2>1, <2>2, StepKeepsInv DEF MoneyOK, WorldOK
<1>5. ASSUME NEW r \in RowType, Put(t, r), Sound(r, t, line', Warranted')
      PROVE  IInv'
  BY <1>1, <1>2, <1>3, <1>5, WorkKeepsInv
<1> QED
  BY <1>4, <1>5 DEF Worked

LEMMA DispatchKeepsInv ==
    ASSUME ExternalAssumption, IInv, NEW t \in Transfers, Dispatch(t)
    PROVE  IInv'
<1>1. tasks' \subseteq tasks /\ UNCHANGED <<bonus, used, till, paidIn, cash, sess>>
  BY DEF Dispatch, Purses
<1>2. faults \in Nat
  BY DEF IInv, BooksTyped
<1>3. CASE Send(t)
  BY <1>1, <1>3, SendWorks, WorkedKeepsInv
<1>4. CASE MayReach(t) /\ UNCHANGED <<row, Money, denied, faults>>
  <2>1. Worked(t)
    BY <1>4, MayReachKeeps, SameMoney DEF Worked
  <2> QED
    BY <1>1, <1>2, <1>4, <2>1, WorkedKeepsInv
<1>5. CASE UNCHANGED <<row, Money, World, faults>>
  <2>1. Worked(t)
    BY <1>5, SameMoney, SameWorld DEF Worked
  <2> QED
    BY <1>1, <1>2, <1>5, <2>1, WorkedKeepsInv
<1> QED
  BY <1>3, <1>4, <1>5 DEF Dispatch

LEMMA ResendRaisesWorks ==
    ASSUME ExternalAssumption, IInv, NEW t \in Transfers, ResendRaises(t)
    PROVE  Worked(t) /\ faults' = faults
<1>1. CASE /\ "rejected" \in Received(t) /\ Reach(t, "rejected") /\ UNCHANGED denied
           /\ \E ref \in BOOLEAN : HalfRefund(t, ref)
  <2>1. WorldOK /\ t \in Warranted'
    BY <1>1, ReachKeeps
  <2> QED
    BY <1>1, <2>1, HalfRefundWorks DEF ResendRaises
<1>2. CASE Denied(t) /\ HalfRefund(t, FALSE)
  <2>1. WorldOK /\ t \in Warranted'
    BY <1>2, MayReachKeeps DEF Denied, Warranted
  <2> QED
    BY <1>2, <2>1, HalfRefundWorks DEF ResendRaises
<1> QED
  BY <1>1, <1>2 DEF ResendRaises

LEMMA ResendKeepsInv ==
    ASSUME ExternalAssumption, IInv, NEW t \in Transfers, Resend(t)
    PROVE  IInv'
<1>1. UNCHANGED <<bonus, used, till, paidIn, cash, tasks, sess>>
  BY DEF Resend, Purses
<1>2. faults \in Nat
  BY DEF IInv, BooksTyped
<1>3. Worked(t) /\ faults' \in Nat
  BY <1>2, SendWorks, ResendRaisesWorks DEF Resend
<1> QED
  BY <1>1, <1>3, WorkedKeepsInv

LEMMA PollKeepsInv ==
    ASSUME ExternalAssumption, IInv, NEW t \in Transfers, Poll(t)
    PROVE  IInv'
<1>1. /\ UNCHANGED <<bonus, used, till, paidIn, cash, tasks, sess, faults, provider>>
      /\ UNCHANGED World
  BY DEF Poll, Purses, World
<1>2. faults \in Nat /\ WorldOK
  BY <1>1, SameWorld DEF IInv, BooksTyped
<1>3. row[t] \in RowType /\ Sound(row[t], t, line, Warranted)
  BY DEF IInv, RowsOK
<1>4. provider[t] \in {"none", "accepted", "paid", "rejected"}
  BY DEF IInv, ProviderOK
<1>5. ASSUME NEW status \in Says[provider[t]],
             Put(t, Answered(row[t], status, TRUE)), Refund(t, row[t], status)
      PROVE  Worked(t)
  <2>1. status \in ProviderStatus /\ (status = "failed" => t \in Warranted')
    BY <1>1, <1>4, SaysStatus DEF Warranted
  <2>2. MoneyOK
    BY <1>3, <1>5, <2>1, RefundKeeps
  <2>3. /\ Answered(row[t], status, TRUE) \in RowType
        /\ Sound(Answered(row[t], status, TRUE), t, line', Warranted')
    BY <1>2, <1>3, <2>1, <2>2, AnsweredIsSound
  <2> QED
    BY <1>2, <1>5, <2>2, <2>3 DEF Worked
<1>6. ASSUME NEW status \in Says[provider[t]], Raises(t, row[t], status),
             HalfRefund(t, TRUE)
      PROVE  Worked(t)
  <2>1. t \in Warranted'
    BY <1>1, <1>4, <1>6, SaysStatus DEF Raises, Warranted
  <2> QED
    BY <1>2, <1>6, <2>1, HalfRefundWorks
<1>7. Worked(t)
  BY <1>5, <1>6 DEF Poll
<1> QED
  BY <1>1, <1>2, <1>7, WorkedKeepsInv

LEMMA PollFailsKeepsInv ==
    ASSUME ExternalAssumption, IInv, NEW t \in Transfers, PollFails(t)
    PROVE  IInv'
<1>1. /\ UNCHANGED <<wallet, line, bonus, used, till, moves, paidIn, journal, cash,
                      tasks, sess, World>>
      /\ faults' = faults + 1
  BY DEF PollFails, Purses, Books
<1>2. faults' \in Nat /\ WorldOK /\ MoneyOK
  BY <1>1, SameWorld, SameMoney DEF IInv, BooksTyped, Money
<1>3. row[t] \in RowType /\ Sound(row[t], t, line, Warranted)
  BY DEF IInv, RowsOK
<1> DEFINE r == [row[t] EXCEPT !.pstatus = "manual_review"]
<1>4. r \in RowType /\ r.meta = row[t].meta
  BY <1>3 DEF RowType, ProviderStatus
<1>5. Retried(row[t]) \in RowType /\ Retried(row[t]).meta = row[t].meta
  BY <1>3, RetriedFields
<1>6. Put(t, Retried(row[t])) \/ Put(t, r)
  BY DEF PollFails
<1> HIDE DEF r
<1>7. Sound(r, t, line', Warranted') /\ Sound(Retried(row[t]), t, line', Warranted')
  BY <1>2, <1>3, <1>4, <1>5, SameMetaSound
<1>8. Worked(t)
  BY <1>2, <1>4, <1>5, <1>6, <1>7 DEF Worked
<1> QED
  BY <1>1, <1>2, <1>8, WorkedKeepsInv

-----------------------------------------------------------------------------
(* Theorems. *)

LEMMA StutterKeepsInv == ASSUME ExternalAssumption, IInv, UNCHANGED vars PROVE IInv'
<1>1. UNCHANGED <<row, wallet, line, bonus, used, till, moves, paidIn, journal, cash,
                  provider, hooks, Warranted, tasks, sess, faults>>
  BY DEF vars, Warranted
<1> QED
  BY <1>1 DEF IInv, BooksTyped

LEMMA NextKeepsInv == ASSUME ExternalAssumption, IInv, Next PROVE IInv'
<1>1. ASSUME NEW s \in Sessions, Commit(s)
      PROVE  IInv'
  BY <1>1, CreateFundedKeepsInv, CreateFromBonusKeepsInv, CreateUnfundedKeepsInv,
     ApproveKeepsInv, CloseKeepsInv, UpdateKeepsInv, WebhookKeepsInv, DepositKeepsInv
     DEF Commit, Create
<1>2. ASSUME NEW s \in Sessions, StartRequest(s) \/ Abort(s)
      PROVE  IInv'
  BY <1>2, StartKeepsInv, AbortKeepsInv
<1>3. ASSUME NEW t \in Transfers,
             Dispatch(t) \/ Resend(t) \/ Poll(t) \/ PollFails(t) \/ Decide(t)
      PROVE  IInv'
  BY <1>3, DispatchKeepsInv, ResendKeepsInv, PollKeepsInv, PollFailsKeepsInv,
     DecideKeepsInv
<1> QED
  BY <1>1, <1>2, <1>3, RestartKeepsInv DEF Next

\* The inductive invariant: types, balanced lines, sound rows and requests.
THEOREM InductiveInvariant == Spec => []IInv
<1>1. Init => IInv
  BY InitIInv, ExternalAssumption
<1>2. IInv /\ [Next]_vars => IInv'
  BY NextKeepsInv, StutterKeepsInv, ExternalAssumption
<1> QED
  BY <1>1, <1>2, PTL DEF Spec

\* Rows, balances, requests and webhooks stay within their types: no retry goes
\* beyond the limit of attempts, whatever overlaps.
THEOREM TypesHold == Spec => []TypeOK
<1>1. IInv => TypeOK
  BY IInvImplies
<1> QED
  BY <1>1, InductiveInvariant, PTL

\* Funding, top-ups, refunds that are repeated or overlap, and repayments leave
\* every credit line with what it lent and what it can lend equal to its limit.
THEOREM CreditLinesBalance == Spec => []CreditLineBalanced
<1>1. IInv => CreditLineBalanced
  BY IInvImplies
<1> QED
  BY <1>1, InductiveInvariant, PTL

\* No timeout, retry, late or repeated webhook or stale request gives money back, or
\* marks as refunded a transfer, that the provider has not refused and no request
\* got an error for that is not to be retried.
THEOREM RefundsAreWarranted == Spec => []RefundIsWarranted
<1>1. IInv => RefundIsWarranted
  BY IInvImplies
<1> QED
  BY <1>1, InductiveInvariant, PTL
-----------------------------------------------------------------------------
(* Sums.                                                                   *)

LEMMA OneTo ==
    ASSUME NEW k \in Nat
    PROVE  IsFiniteSet(1..k) /\ Cardinality(1..k) = k
<1>1. /\ IsFiniteSet(1..k)
      /\ Cardinality(1..k) = IF 1 > k THEN 0 ELSE k - 1 + 1
  BY FS_Interval
<1> QED
  BY <1>1

LEMMA Column1 ==
    ASSUME NEW x, NEW k \in Nat
    PROVE  IsFiniteSet({x} \X (1..k)) /\ Cardinality({x} \X (1..k)) = k
<1>1. IsFiniteSet({x}) /\ Cardinality({x}) = 1
  BY FS_Singleton
<1>2. /\ IsFiniteSet({x} \X (1..k))
      /\ Cardinality({x} \X (1..k)) = Cardinality({x}) * Cardinality(1..k)
  BY <1>1, OneTo, FS_Product, Zenon
<1> QED
  BY <1>1, <1>2, OneTo

\* the pairs that Total counts
Pairs(f, S) == UNION {{x} \X (1..f[x]) : x \in S}

LEMMA PairsOf ==
    ASSUME NEW f, NEW S
    PROVE  \A z : z \in Pairs(f, S) <=> \E x \in S : z \in {x} \X (1..f[x])
BY DEF Pairs

LEMMA PairsAreFinite ==
    ASSUME NEW S, IsFiniteSet(S), NEW f, \A x \in S : f[x] \in Nat
    PROVE  IsFiniteSet(Pairs(f, S)) /\ Total(f, S) \in Nat
<1> DEFINE C(x) == {x} \X (1..f[x])
           T == {C(x) : x \in S}
<1>1. IsFiniteSet(T)
  <2> DEFINE g == [x \in S |-> C(x)]
  <2>1. g \in Surjection(S, T)
    BY DEF Surjection
  <2> HIDE DEF g, T
  <2> QED
    BY <2>1, FS_Surjection
<1>2. \A c \in T : IsFiniteSet(c)
  <2>1. ASSUME NEW x \in S PROVE IsFiniteSet(C(x))
    BY Column1
  <2> HIDE DEF C
  <2> QED
    BY <2>1
<1>3. IsFiniteSet(UNION T)
  <2> HIDE DEF T
  <2> QED
    BY <1>1, <1>2, FS_UNION
<1> QED
  BY <1>3, FS_CardinalityType DEF Pairs, Total

LEMMA TotalOfNone ==
    ASSUME NEW f
    PROVE  Total(f, {}) = 0
<1>1. Pairs(f, {}) = {}
  BY DEF Pairs
<1> QED
  BY <1>1, FS_EmptySet DEF Pairs, Total

LEMMA TotalSame ==
    ASSUME NEW S, NEW f, NEW g, \A x \in S : f[x] = g[x]
    PROVE  Total(f, S) = Total(g, S)
<1>1. Pairs(f, S) = Pairs(g, S)
  BY PairsOf
<1> QED
  BY <1>1 DEF Pairs, Total

LEMMA TotalOfZeros ==
    ASSUME NEW f, NEW S, \A x \in S : f[x] = 0
    PROVE  Total(f, S) = 0
<1>1. Pairs(f, S) = {}
  BY DEF Pairs
<1> QED
  BY <1>1, FS_EmptySet DEF Pairs, Total

LEMMA TotalAdds ==
    ASSUME NEW S, IsFiniteSet(S), NEW x, x \notin S, NEW f,
           \A y \in S \union {x} : f[y] \in Nat
    PROVE  Total(f, S \union {x}) = Total(f, S) + f[x]
<1> DEFINE P == Pairs(f, S)
           N == {x} \X (1..f[x])
<1>1. /\ IsFiniteSet(P) /\ Cardinality(P) = Total(f, S) /\ Cardinality(P) \in Nat
  BY PairsAreFinite DEF Pairs, Total
<1>2. IsFiniteSet(N) /\ Cardinality(N) = f[x] /\ f[x] \in Nat
  BY Column1
<1>3. Pairs(f, S \union {x}) = P \union N
  BY DEF Pairs
<1>4. P \intersect N = {}
  BY DEF Pairs
<1>5. Cardinality(P \intersect N) = 0
  BY <1>4, FS_EmptySet
<1>6. Cardinality(P \union N) = Cardinality(P) + Cardinality(N) - Cardinality(P \intersect N)
  <2> HIDE DEF P, N
  <2> QED
    BY <1>1, <1>2, FS_Union
<1>7. Total(f, S \union {x}) = Cardinality(P \union N)
  BY <1>3 DEF Pairs, Total
<1> HIDE DEF P, N
<1> QED
  BY <1>1, <1>2, <1>5, <1>6, <1>7

\* one term grows by d
Bumped(f, g, x, d, T) ==
    \A y \in T : f[y] \in Nat /\ g[y] = IF y = x THEN f[y] + d ELSE f[y]

LEMMA TermGrows ==
    ASSUME NEW T, IsFiniteSet(T), NEW S, S \subseteq T, NEW x, x \in T, NEW d, d \in Nat,
           NEW f, NEW g, Bumped(f, g, x, d, T)
    PROVE  /\ x \in S => Total(g, S) = Total(f, S) + d
           /\ x \notin S => Total(g, S) = Total(f, S)
           /\ Total(f, S) \in Nat
<1>1. IsFiniteSet(S) /\ \A y \in S : f[y] \in Nat /\ g[y] \in Nat
  BY FS_Subset DEF Bumped
<1>2. Total(f, S) \in Nat
  BY <1>1, PairsAreFinite
<1>3. CASE x \notin S
  BY <1>2, <1>3, TotalSame DEF Bumped
<1>4. CASE x \in S
  <2> DEFINE R == S \ {x}
  <2>1. IsFiniteSet(R) /\ x \notin R /\ R \union {x} = S /\ R \subseteq S
    BY <1>1, <1>4, FS_Subset
  <2>2. \A y \in R : f[y] = g[y]
    BY DEF Bumped
  <2> HIDE DEF R
  <2>3. \A y \in R \union {x} : f[y] \in Nat /\ g[y] \in Nat
    BY <1>1, <2>1
  <2>4. /\ Total(f, R \union {x}) = Total(f, R) + f[x]
        /\ Total(g, R \union {x}) = Total(g, R) + g[x]
    BY <2>1, <2>3, TotalAdds
  <2>5. Total(f, R) = Total(g, R) /\ Total(f, R) \in Nat
    BY <1>1, <2>1, <2>2, TotalSame, PairsAreFinite
  <2>6. g[x] = f[x] + d /\ f[x] \in Nat
    BY <1>1 DEF Bumped
  <2> QED
    BY <1>4, <2>1, <2>4, <2>5, <2>6
<1> QED
  BY <1>3, <1>4

-----------------------------------------------------------------------------
(* Wallets and their history.                                              *)

Outs(m) == [t \in Transfers |-> m[t].out]
Backs(m) == [t \in Transfers |-> m[t].back]

Moves == [Transfers -> [out : Nat, back : Nat]]

LEMMA SumsAreOfMoves ==
    /\ Taken = Outs(moves) /\ Given = Backs(moves)
    /\ Taken' = Outs(moves') /\ Given' = Backs(moves')
BY DEF Taken, Given, Outs, Backs

LEMMA OwnedIsSubset == ASSUME NEW u PROVE Owned(u) \subseteq Transfers
BY DEF Owned

\* what one movement does to the sums
TakeMove(m, n, t, d) == n = [m EXCEPT ![t].out = @ + d]
GiveMove(m, n, t, d) == n = [m EXCEPT ![t].back = @ + d]

LEMMA OutMoves ==
    ASSUME NEW m \in Moves, NEW n, NEW t \in Transfers, NEW d \in Nat,
           TakeMove(m, n, t, d), NEW S, S \subseteq Transfers
    PROVE  /\ t \in S => Total(Outs(n), S) = Total(Outs(m), S) + d
           /\ t \notin S => Total(Outs(n), S) = Total(Outs(m), S)
           /\ Total(Backs(n), S) = Total(Backs(m), S)
           /\ Total(Outs(m), S) \in Nat /\ Total(Backs(m), S) \in Nat
<1>1. \A x \in Transfers :
         /\ m[x].out \in Nat /\ m[x].back \in Nat
         /\ n[x].out = IF x = t THEN m[x].out + d ELSE m[x].out
         /\ n[x].back = m[x].back
  BY DEF Moves, TakeMove
<1>2. /\ \A x \in Transfers : Outs(m)[x] = m[x].out /\ Outs(n)[x] = n[x].out
      /\ \A x \in Transfers : Backs(m)[x] = m[x].back /\ Backs(n)[x] = n[x].back
  BY DEF Outs, Backs
<1>3. Bumped(Outs(m), Outs(n), t, d, Transfers)
  BY <1>1, <1>2 DEF Bumped
<1>4. \A x \in S : Backs(m)[x] \in Nat /\ Backs(m)[x] = Backs(n)[x]
  BY <1>1, <1>2
<1>5. IsFiniteSet(Transfers) /\ IsFiniteSet(S)
  BY TransfersAreFinite, FS_Subset
<1>6. Total(Backs(n), S) = Total(Backs(m), S) /\ Total(Backs(m), S) \in Nat
  BY <1>4, <1>5, TotalSame, PairsAreFinite
<1> DEFINE f == Outs(m)
           g == Outs(n)
<1>7. Bumped(f, g, t, d, Transfers)
  BY <1>3
<1> HIDE DEF f, g
<1>8. /\ t \in S => Total(g, S) = Total(f, S) + d
      /\ t \notin S => Total(g, S) = Total(f, S)
      /\ Total(f, S) \in Nat
  BY <1>5, <1>7, TermGrows
<1> QED
  BY <1>6, <1>8 DEF f, g

LEMMA BackMoves ==
    ASSUME NEW m \in Moves, NEW n, NEW t \in Transfers, NEW d \in Nat,
           GiveMove(m, n, t, d), NEW S, S \subseteq Transfers
    PROVE  /\ t \in S => Total(Backs(n), S) = Total(Backs(m), S) + d
           /\ t \notin S => Total(Backs(n), S) = Total(Backs(m), S)
           /\ Total(Outs(n), S) = Total(Outs(m), S)
           /\ Total(Outs(m), S) \in Nat /\ Total(Backs(m), S) \in Nat
<1>1. \A x \in Transfers :
         /\ m[x].out \in Nat /\ m[x].back \in Nat
         /\ n[x].back = IF x = t THEN m[x].back + d ELSE m[x].back
         /\ n[x].out = m[x].out
  BY DEF Moves, GiveMove
<1>2. /\ \A x \in Transfers : Outs(m)[x] = m[x].out /\ Outs(n)[x] = n[x].out
      /\ \A x \in Transfers : Backs(m)[x] = m[x].back /\ Backs(n)[x] = n[x].back
  BY DEF Outs, Backs
<1>3. Bumped(Backs(m), Backs(n), t, d, Transfers)
  BY <1>1, <1>2 DEF Bumped
<1>4. \A x \in S : Outs(m)[x] \in Nat /\ Outs(m)[x] = Outs(n)[x]
  BY <1>1, <1>2
<1>5. IsFiniteSet(Transfers) /\ IsFiniteSet(S)
  BY TransfersAreFinite, FS_Subset
<1>6. Total(Outs(n), S) = Total(Outs(m), S) /\ Total(Outs(m), S) \in Nat
  BY <1>4, <1>5, TotalSame, PairsAreFinite
<1> DEFINE f == Backs(m)
           g == Backs(n)
<1>7. Bumped(f, g, t, d, Transfers)
  BY <1>3
<1> HIDE DEF f, g
<1>8. /\ t \in S => Total(g, S) = Total(f, S) + d
      /\ t \notin S => Total(g, S) = Total(f, S)
      /\ Total(f, S) \in Nat
  BY <1>5, <1>7, TermGrows
<1> QED
  BY <1>6, <1>8 DEF f, g

\* the three ways a step may touch a wallet other than by a deposit
Still == UNCHANGED <<wallet, moves, paidIn>>

Takes(t, d) ==
    /\ wallet' = [wallet EXCEPT ![OwnerOf[t]] = @ - d]
    /\ moves' = [moves EXCEPT ![t].out = @ + d]
    /\ paidIn' = paidIn

Gives(t, d) ==
    /\ wallet' = [wallet EXCEPT ![OwnerOf[t]] = @ + d]
    /\ moves' = [moves EXCEPT ![t].back = @ + d]
    /\ paidIn' = paidIn

LEMMA StillKeepsHistory ==
    ASSUME WalletMatchesHistory, Still PROVE WalletMatchesHistory'
BY DEF WalletMatchesHistory, Still, Taken, Given, Owned

LEMMA TakesKeepsHistory ==
    ASSUME ExternalAssumption, BooksTyped, WalletMatchesHistory,
           NEW t \in Transfers, NEW d \in Nat, Takes(t, d)
    PROVE  WalletMatchesHistory'
<1> DEFINE m == moves
           n == moves'
<1>1. /\ m \in Moves /\ TakeMove(m, n, t, d)
      /\ wallet \in [Users -> Int] /\ OwnerOf[t] \in Users
      /\ Start0 \in [Users -> Int]
      /\ wallet' = [wallet EXCEPT ![OwnerOf[t]] = @ - d] /\ paidIn' = paidIn
  BY DEF BooksTyped, Moves, ExternalAssumption, Takes, TakeMove
<1>2. Taken = Outs(m) /\ Given = Backs(m) /\ Taken' = Outs(n) /\ Given' = Backs(n)
  BY SumsAreOfMoves
<1> HIDE DEF m, n
<1>3. ASSUME NEW u \in Users, paidIn[u] = 0
      PROVE  wallet'[u] = Start0[u] + Total(Backs(n), Owned(u)) - Total(Outs(n), Owned(u))
  <2>1. wallet[u] = Start0[u] + Total(Backs(m), Owned(u)) - Total(Outs(m), Owned(u))
    BY <1>2, <1>3 DEF WalletMatchesHistory
  <2>2. t \in Owned(u) <=> OwnerOf[t] = u
    BY DEF Owned
  <2>3. Owned(u) \subseteq Transfers
    BY OwnedIsSubset
  <2>4. /\ t \in Owned(u) => Total(Outs(n), Owned(u)) = Total(Outs(m), Owned(u)) + d
        /\ t \notin Owned(u) => Total(Outs(n), Owned(u)) = Total(Outs(m), Owned(u))
        /\ Total(Backs(n), Owned(u)) = Total(Backs(m), Owned(u))
        /\ Total(Outs(m), Owned(u)) \in Nat /\ Total(Backs(m), Owned(u)) \in Nat
    BY <1>1, <2>3, OutMoves
  <2>5. wallet'[u] = IF OwnerOf[t] = u THEN wallet[u] - d ELSE wallet[u]
    BY <1>1
  <2>6. Start0[u] \in Int /\ wallet[u] \in Int
    BY <1>1
  <2> QED
    BY <2>1, <2>2, <2>4, <2>5, <2>6
<1>4. \A u \in Users : Owned(u)' = Owned(u)
  BY DEF Owned
<1> QED
  BY <1>1, <1>2, <1>3, <1>4 DEF WalletMatchesHistory

LEMMA GivesKeepsHistory ==
    ASSUME ExternalAssumption, BooksTyped, WalletMatchesHistory,
           NEW t \in Transfers, NEW d \in Nat, Gives(t, d)
    PROVE  WalletMatchesHistory'
<1> DEFINE m == moves
           n == moves'
<1>1. /\ m \in Moves /\ GiveMove(m, n, t, d)
      /\ wallet \in [Users -> Int] /\ OwnerOf[t] \in Users
      /\ Start0 \in [Users -> Int]
      /\ wallet' = [wallet EXCEPT ![OwnerOf[t]] = @ + d] /\ paidIn' = paidIn
  BY DEF BooksTyped, Moves, ExternalAssumption, Gives, GiveMove
<1>2. Taken = Outs(m) /\ Given = Backs(m) /\ Taken' = Outs(n) /\ Given' = Backs(n)
  BY SumsAreOfMoves
<1> HIDE DEF m, n
<1>3. ASSUME NEW u \in Users, paidIn[u] = 0
      PROVE  wallet'[u] = Start0[u] + Total(Backs(n), Owned(u)) - Total(Outs(n), Owned(u))
  <2>1. wallet[u] = Start0[u] + Total(Backs(m), Owned(u)) - Total(Outs(m), Owned(u))
    BY <1>2, <1>3 DEF WalletMatchesHistory
  <2>2. t \in Owned(u) <=> OwnerOf[t] = u
    BY DEF Owned
  <2>3. Owned(u) \subseteq Transfers
    BY OwnedIsSubset
  <2>4. /\ t \in Owned(u) => Total(Backs(n), Owned(u)) = Total(Backs(m), Owned(u)) + d
        /\ t \notin Owned(u) => Total(Backs(n), Owned(u)) = Total(Backs(m), Owned(u))
        /\ Total(Outs(n), Owned(u)) = Total(Outs(m), Owned(u))
        /\ Total(Outs(m), Owned(u)) \in Nat /\ Total(Backs(m), Owned(u)) \in Nat
    BY <1>1, <2>3, BackMoves
  <2>5. wallet'[u] = IF OwnerOf[t] = u THEN wallet[u] + d ELSE wallet[u]
    BY <1>1
  <2>6. Start0[u] \in Int /\ wallet[u] \in Int
    BY <1>1
  <2> QED
    BY <2>1, <2>2, <2>4, <2>5, <2>6
<1>4. \A u \in Users : Owned(u)' = Owned(u)
  BY DEF Owned
<1> QED
  BY <1>1, <1>2, <1>3, <1>4 DEF WalletMatchesHistory

MovesMoney ==
    \/ Still
    \/ \E t \in Transfers, d \in Nat : Takes(t, d) \/ Gives(t, d)

LEMMA MovesKeepsHistory ==
    ASSUME ExternalAssumption, IInv, WalletMatchesHistory, MovesMoney
    PROVE  WalletMatchesHistory'
<1>1. BooksTyped
  BY DEF IInv
<1> QED
  BY <1>1, StillKeepsHistory, TakesKeepsHistory, GivesKeepsHistory DEF MovesMoney

LEMMA TakeFundsMoves ==
    ASSUME NEW t \in Transfers, NEW f, f.debit \in Nat, NEW l, TakeFunds(t, f, l),
           paidIn' = paidIn
    PROVE  MovesMoney
BY DEF MovesMoney, TakeFunds, Takes

LEMMA GiveFundsBackMoves ==
    ASSUME NEW t \in Transfers, NEW r \in RowType, GiveFundsBack(t, r.meta),
           paidIn' = paidIn
    PROVE  MovesMoney
BY RowFields DEF MovesMoney, GiveFundsBack, Gives

LEMMA RefundMoves ==
    ASSUME NEW t \in Transfers, NEW r \in RowType, NEW status, Refund(t, r, status),
           paidIn' = paidIn
    PROVE  MovesMoney
<1>1. CASE GiveFundsBack(t, r.meta)
  BY <1>1, GiveFundsBackMoves
<1>2. CASE UNCHANGED Money
  BY <1>2 DEF Money, MovesMoney, Still
<1> QED
  BY <1>1, <1>2 DEF Refund

LEMMA CreateMoves ==
    ASSUME ExternalAssumption, IInv, NEW s \in Sessions, Create(s)
    PROVE  MovesMoney
<1>1. ASSUME NEW review \in BOOLEAN, NEW override \in BOOLEAN,
             CreateFunded(s, review, override)
      PROVE  MovesMoney
  <2> DEFINE t == sess[s].t
             u == OwnerOf[t]
             f == Terms(t, line[u])
  <2>1. t \in Transfers
    BY <1>1, ServedFields, SMTT(40) DEF CreateFunded
  <2>2. u \in Users
    BY <2>1 DEF ExternalAssumption
  <2>3. line[u] \in LineType /\ Balanced(line[u]) /\ line[u].limit <= line[u].limit
    BY <2>2 DEF IInv, LinesOK, LineType
  <2>4. TakeFunds(t, f, line[u]) /\ paidIn' = paidIn
    BY <1>1 DEF CreateFunded
  <2> HIDE DEF f
  <2>5. f.debit \in Nat
    BY <2>1, <2>3, <2>4, TakeFundsKeeps DEF f
  <2> QED
    BY <2>1, <2>4, <2>5, TakeFundsMoves
<1>2. ASSUME NEW review \in BOOLEAN, CreateFromBonus(s, review) PROVE MovesMoney
  BY <1>2 DEF CreateFromBonus, Books, MovesMoney, Still
<1>3. CASE CreateUnfunded(s)
  BY <1>3 DEF CreateUnfunded, Books, MovesMoney, Still
<1> QED
  BY <1>1, <1>2, <1>3 DEF Create

LEMMA ApproveMoves ==
    ASSUME ExternalAssumption, IInv, NEW s \in Sessions, Approve(s)
    PROVE  MovesMoney
<1> DEFINE t == sess[s].t
           u == OwnerOf[t]
           l == TopUp(line[u], Shortage(t))
           f == Terms(t, l)
<1>1. t \in Transfers /\ u \in Users /\ Amount[t] \in Nat
  BY ServedFields DEF Approve, ExternalAssumption
<1>2. paidIn' = paidIn
  BY DEF Approve
<1>3. CASE UNCHANGED <<wallet, line, bonus, used, moves, journal>>
  BY <1>2, <1>3 DEF MovesMoney, Still
<1>4. CASE FundAtApproval(t)
  <2>1. TakeFunds(t, f, l)
    BY <1>4 DEF FundAtApproval
  <2>2. line[u] \in LineType /\ wallet[u] \in Int
    BY <1>1 DEF IInv, LinesOK, BooksTyped
  <2>3. Affordable(t) \in Int
    BY <2>2 DEF Affordable, Capacity, LineType
  <2>4. Shortage(t) \in Nat
    BY <1>1, <2>3, PosIsNat DEF Shortage
  <2>5. l.avail \in Nat
    BY <2>2, <2>4 DEF TopUp, LineType
  <2>6. (u \in Bif) \in BOOLEAN
    OBVIOUS
  <2>7. f.debit \in Nat
    BY <1>1, <2>2, <2>5, <2>6, FundingWithinCredit DEF Terms
  <2> HIDE DEF f, l
  <2> QED
    BY <1>1, <1>2, <2>1, <2>7, TakeFundsMoves
<1> QED
  BY <1>3, <1>4 DEF Approve

LEMMA WebhookMoves ==
    ASSUME ExternalAssumption, IInv, NEW s \in Sessions, Webhook(s)
    PROVE  MovesMoney
<1>1. sess[s].t \in Transfers /\ sess[s].snap \in RowType
  BY ServedFields DEF Webhook
<1>2. Refund(sess[s].t, sess[s].snap, sess[s].arg) /\ paidIn' = paidIn
  BY DEF Webhook
<1> QED
  BY <1>1, <1>2, RefundMoves

\* a deposit adds to what the client paid in, and leaves the other wallets
LEMMA DepositKeepsHistory ==
    ASSUME ExternalAssumption, IInv, WalletMatchesHistory, NEW s \in Sessions, Deposit(s)
    PROVE  WalletMatchesHistory'
<1> DEFINE u == sess[s].u
           d == sess[s].d
<1>1. u \in Users /\ d \in Nat \ {0}
  <2>1. sess[s] \in Requests /\ sess[s].op = "deposit"
    BY ServedFields DEF Deposit
  <2>2. u \in Users /\ d \in Deposits
    BY <2>1, RequestFields
  <2> QED
    BY <2>2 DEF ExternalAssumption
<1>2. /\ wallet' = [wallet EXCEPT ![u] = sess[s].n + d]
      /\ paidIn' = [paidIn EXCEPT ![u] = @ + d] /\ moves' = moves
  BY DEF Deposit
<1>3. wallet \in [Users -> Int] /\ paidIn \in [Users -> Nat]
  BY DEF IInv, BooksTyped
<1> HIDE DEF u, d
<1>4. ASSUME NEW v \in Users, paidIn'[v] = 0
      PROVE  wallet'[v] = wallet[v] /\ paidIn[v] = 0
  <2>1. v # u
    BY <1>1, <1>2, <1>3, <1>4
  <2> QED
    BY <1>2, <1>3, <1>4, <2>1
<1>5. Taken' = Taken /\ Given' = Given /\ \A v \in Users : Owned(v)' = Owned(v)
  BY <1>2 DEF Taken, Given, Owned
<1> QED
  BY <1>4, <1>5 DEF WalletMatchesHistory

LEMMA RequestKeepsHistory ==
    ASSUME ExternalAssumption, IInv, WalletMatchesHistory, NEW s \in Sessions,
           StartRequest(s) \/ Commit(s) \/ Abort(s)
    PROVE  WalletMatchesHistory'
<1>1. CASE StartRequest(s) \/ Abort(s)
  <2>1. Still
    BY <1>1 DEF StartRequest, StartCreate, StartApprove, StartClose, StartUpdate,
                StartWebhook, StartDeposit, Abort, Books, Still
  <2> QED
    BY <2>1, StillKeepsHistory
<1>2. CASE Create(s) \/ Approve(s) \/ Webhook(s)
  BY <1>2, CreateMoves, ApproveMoves, WebhookMoves, MovesKeepsHistory
<1>3. CASE Close(s) \/ Update(s)
  <2>1. Still
    BY <1>3 DEF Close, Update, Books, Still
  <2> QED
    BY <2>1, StillKeepsHistory
<1>4. CASE Deposit(s)
  BY <1>4, DepositKeepsHistory
<1> QED
  BY <1>1, <1>2, <1>3, <1>4 DEF Commit

\* the background task and the worker, which answer under a lock
LEMMA WorkMoves ==
    ASSUME ExternalAssumption, IInv, NEW t \in Transfers,
           Dispatch(t) \/ Resend(t) \/ Poll(t) \/ PollFails(t) \/ Decide(t)
    PROVE  MovesMoney
<1>1. row[t] \in RowType
  BY DEF IInv, RowsOK
<1>2. paidIn' = paidIn
  BY DEF Dispatch, Resend, Poll, PollFails, Decide, Books
<1>3. ASSUME UNCHANGED Money PROVE MovesMoney
  BY <1>2, <1>3 DEF Money, MovesMoney, Still
<1>4. ASSUME NEW status, Refund(t, row[t], status) PROVE MovesMoney
  BY <1>1, <1>2, <1>4, RefundMoves
<1>5. ASSUME NEW ref, HalfRefund(t, ref) PROVE MovesMoney
  BY <1>1, <1>2, <1>5, GiveFundsBackMoves DEF HalfRefund
<1>6. ASSUME Send(t) PROVE MovesMoney
  BY <1>3, <1>4, <1>6 DEF Send, SendAnswered, SendTimesOut, SendRefused
<1>7. CASE Dispatch(t)
  BY <1>3, <1>6, <1>7 DEF Dispatch
<1>8. CASE Resend(t)
  BY <1>5, <1>6, <1>8 DEF Resend, ResendRaises
<1>9. CASE Poll(t)
  BY <1>4, <1>5, <1>9 DEF Poll
<1>10. CASE PollFails(t) \/ Decide(t)
  BY <1>3, <1>10 DEF PollFails, Decide, Books, Money
<1> QED
  BY <1>7, <1>8, <1>9, <1>10

LEMMA NextKeepsHistory ==
    ASSUME ExternalAssumption, IInv, WalletMatchesHistory, [Next]_vars
    PROVE  WalletMatchesHistory'
<1>1. CASE Restart \/ UNCHANGED vars
  <2>1. Still
    BY <1>1 DEF Restart, vars, Books, Still
  <2> QED
    BY <2>1, StillKeepsHistory
<1> QED
  BY <1>1, RequestKeepsHistory, WorkMoves, MovesKeepsHistory DEF Next

LEMMA InitHistory == ASSUME ExternalAssumption, Init PROVE WalletMatchesHistory
<1>1. ASSUME NEW u \in Users
      PROVE  Total(Taken, Owned(u)) = 0 /\ Total(Given, Owned(u)) = 0
  <2> DEFINE S == Owned(u)
             f == Taken
             g == Given
  <2>1. \A x \in S : f[x] = 0 /\ g[x] = 0
    BY DEF Init, Owned, Taken, Given
  <2> HIDE DEF S, f, g
  <2>2. Total(f, S) = 0
    BY <2>1, TotalOfZeros
  <2>3. Total(g, S) = 0
    BY <2>1, TotalOfZeros
  <2> QED
    BY <2>2, <2>3 DEF S, f, g
<1>2. wallet = Start0 /\ Start0 \in [Users -> Int]
  BY DEF Init, ExternalAssumption
<1> QED
  BY <1>1, <1>2 DEF WalletMatchesHistory

\* A wallet that got no cash deposit holds what the client had, less what his
\* transfers took and plus what refunds gave back, however often an approval, a
\* webhook or the worker took or gave it twice.
THEOREM WalletsMatchHistory == Spec => []WalletMatchesHistory
<1>1. Init => WalletMatchesHistory
  BY InitHistory, ExternalAssumption
<1>2. IInv /\ WalletMatchesHistory /\ [Next]_vars => WalletMatchesHistory'
  BY NextKeepsHistory, ExternalAssumption
<1> QED
  BY <1>1, <1>2, InductiveInvariant, PTL DEF Spec

-----------------------------------------------------------------------------
(* One piece of work at a time: Width = 1.                                 *)

Unsettled == {"pending", "approved"}

\* row r of transfer t with what was given back, journaled and handed out for it:
\* money moves once, the mark says whether it came back, and what came back
\* unmarked was of a transfer whose parts do not add up
Good(t, r, back, j, c) ==
    LET m == r.meta IN
    /\ r.status = "none" => r = Blank /\ j.fund = 0 /\ back = 0
    /\ m.pending => /\ j.fund = 0 /\ back = 0 /\ ~m.refunded
                    /\ m.debited = 0 /\ m.credit = 0 /\ m.repaid = 0
    /\ m.refunded => m.credit = 0 /\ m.repaid = 0
    /\ j.fund <= 1 /\ j.refund = (IF m.refunded THEN 1 ELSE 0)
    /\ c <= 1 /\ (r.status \in Unsettled \union {"none"} => c = 0)
    /\ back > 0 => m.refunded \/ ~Refundable(t, m)

\* what a request read is still so when it commits
Fresh(q) ==
    /\ q.op # "deposit" => q.snap = row[q.t]
    /\ q.op = "create" => q.snap.status = "none" /\ q.n = used[OwnerOf[q.t]]
    /\ q.op = "approve" => q.snap.status \in Unsettled
    /\ q.op = "close" => q.snap.status = "approved"
    /\ q.op = "update" => q.snap.status # "none" /\ q.arg \in {"succeeded", "failed"}
    /\ q.op = "webhook" => q.snap.status # "none"

\* the transfers that count against the daily limit
IsFunded(r) == r.status # "none" /\ ~r.meta.pending
Funded(u) == {t \in Owned(u) : IsFunded(row[t])}

AllGood == \A t \in Transfers : Good(t, row[t], moves[t].back, journal[t], cash[t])

Known ==
    /\ \A t \in Transfers : row[t].status = "none" => provider[t] = "none"
    /\ \A h \in hooks : row[h.t].status # "none"

OneByOne ==
    /\ \A s \in Busy, q \in Busy : s = q
    /\ \A s \in Busy : Fresh(sess[s])

Counted == \A u \in Users : used[u] = Total(Amount, Funded(u))

SerialInv == AllGood /\ Known /\ OneByOne /\ Counted /\ DebtIsTraced

NatPair == [fund : Nat, refund : Nat]

LEMMA GoodKept ==
    ASSUME NEW t, NEW r, NEW b, NEW j, NEW c, Good(t, r, b, j, c),
           NEW r2, r2.meta = r.meta, r.status # "none", r2.status # "none",
           r2.status \in Unsettled => r.status \in Unsettled
    PROVE  Good(t, r2, b, j, c)
BY DEF Good

LEMMA GoodClosed ==
    ASSUME NEW t, NEW r, NEW b, NEW j, NEW c \in Nat, Good(t, r, b, j, c),
           NEW r2, r2.meta = r.meta, r.status = "approved", r2.status = "completed"
    PROVE  Good(t, r2, b, j, c + 1)
<1>1. c = 0
  BY DEF Good, Unsettled
<1> QED
  BY <1>1 DEF Good, Unsettled

LEMMA GoodFunded ==
    ASSUME NEW t, NEW r, NEW b \in Nat, NEW j \in NatPair, NEW c, Good(t, r, b, j, c),
           r.status = "none" \/ (r.status \in Unsettled /\ r.meta.pending),
           NEW r2, r2.status \in Unsettled, ~r2.meta.pending, ~r2.meta.refunded,
           NEW j2, j2 = [j EXCEPT !.fund = @ + 1]
    PROVE  Good(t, r2, b, j2, c)
<1>1. ~r.meta.refunded
  BY DEF Good, Blank
<1>2. j.fund = 0 /\ b = 0 /\ j.refund = 0 /\ c = 0
  BY <1>1 DEF Good
<1>3. j2.fund = 1 /\ j2.refund = 0
  BY <1>2 DEF NatPair
<1> QED
  BY <1>2, <1>3 DEF Good, Unsettled

LEMMA GoodRefunded ==
    ASSUME ExternalAssumption, NEW t \in Transfers, NEW r \in RowType, NEW b,
           NEW j \in NatPair, NEW c, Good(t, r, b, j, c),
           r.status # "none", ~r.meta.refunded, Refundable(t, r.meta),
           NEW r2, r2.status = "failed", r2.meta = Cancelled(r.meta),
           NEW b2, NEW j2, j2 = [j EXCEPT !.refund = @ + 1]
    PROVE  Good(t, r2, b2, j2, c)
<1>1. Amount[t] \in Nat \ {0} /\ r.meta \in MetaType
  BY RowFields DEF ExternalAssumption
<1>2. ~r.meta.pending
  BY <1>1 DEF Good, Refundable
<1>3. /\ r2.meta.pending = r.meta.pending /\ r2.meta.refunded
      /\ r2.meta.credit = 0 /\ r2.meta.repaid = 0
  BY <1>1 DEF Cancelled, MetaType
<1>4. j2.fund = j.fund /\ j2.refund = 1
  BY DEF Good, NatPair
<1> QED
  BY <1>2, <1>3, <1>4 DEF Good, Unsettled

LEMMA GoodHalf ==
    ASSUME NEW t, NEW r \in RowType, NEW b \in Nat, NEW j, NEW c, Good(t, r, b, j, c),
           r.status # "none", ~r.meta.refunded, ~Refundable(t, r.meta),
           NEW r2, r2.status = r.status, r2.meta = r.meta
    PROVE  Good(t, r2, b + r.meta.debited, j, c)
BY DEF Good

LEMMA GoodRepaid ==
    ASSUME NEW t, NEW r \in RowType, NEW b, NEW j, NEW c, Good(t, r, b, j, c),
           r.meta.credit > 0,
           NEW r2, r2.status \in {r.status, "repaid", "partially_repaid"},
           r2.meta.pending = r.meta.pending, r2.meta.refunded = r.meta.refunded,
           r2.meta.credit = r.meta.credit, r2.meta.debited = r.meta.debited
    PROVE  Good(t, r2, b, j, c) /\ r.status # "none" /\ r2.status # "none"
<1>1. ~r.meta.pending /\ ~r.meta.refunded
  BY RowFields DEF Good
<1>2. r.status # "none"
  BY DEF Good, Blank
<1>3. Refundable(t, r2.meta) <=> Refundable(t, r.meta)
  BY DEF Refundable
<1> QED
  BY <1>1, <1>2, <1>3 DEF Good, Unsettled

LEMMA GoodAsked ==
    ASSUME NEW t, NEW b, NEW j, NEW c, Good(t, Blank, b, j, c),
           NEW r2, r2.status \in Unsettled, NEW p \in BOOLEAN,
           r2.meta = [Blank.meta EXCEPT !.pending = p]
    PROVE  Good(t, r2, b, j, c)
<1>1. /\ r2.meta.pending = p /\ r2.meta.refunded = FALSE /\ r2.meta.credit = 0
      /\ r2.meta.debited = 0 /\ r2.meta.repaid = 0
  BY DEF Blank
<1>2. j.fund = 0 /\ b = 0 /\ j.refund = 0 /\ c = 0
  BY DEF Good, Blank
<1> QED
  BY <1>1, <1>2 DEF Good, Unsettled

LEMMA NoneIsBusy ==
    ASSUME Width = 1, OneByOne, Room PROVE Busy = {}
<1> SUFFICES ASSUME NEW s \in Busy PROVE FALSE
  OBVIOUS
<1>1. Busy = {s}
  BY DEF OneByOne
<1>2. Cardinality(Busy) = 1
  BY <1>1, FS_Singleton
<1> QED
  BY <1>2 DEF Room

LEMMA DoneFrees ==
    ASSUME IInv, OneByOne, NEW s \in Sessions, sess[s] # None, Done(s)
    PROVE  Busy' = {}
<1>1. sess' = [sess EXCEPT ![s] = None] /\ sess \in [Sessions -> Requests \union {None}]
  BY DEF IInv, SessOK, Done
<1>2. \A q \in Sessions : sess[q] # None => q = s
  BY DEF OneByOne, Busy
<1> QED
  BY <1>1, <1>2 DEF Busy

LEMMA NoneIsOneByOne == ASSUME Busy' = {} PROVE OneByOne'
BY DEF OneByOne

\* what else is untouched when transfer t is worked on
Alone(t) ==
    /\ \A x \in Transfers \ {t} :
          moves'[x] = moves[x] /\ journal'[x] = journal[x] /\ cash'[x] = cash[x]
    /\ \A x \in Transfers : provider'[x] = provider[x] \/ x = t
    /\ \A h \in hooks' : h \in hooks \/ h.t = t

LEMMA OneStep ==
    ASSUME IInv, SerialInv, NEW t \in Transfers, NEW r2, Put(t, r2), r2.status # "none",
           Good(t, r2, moves'[t].back, journal'[t], cash'[t]), Alone(t),
           Busy' = {}, Counted', DebtIsTraced'
    PROVE  SerialInv'
<1>1. row \in [Transfers -> RowType] /\ \A h \in hooks : h.t \in Transfers
  BY DEF IInv, RowsOK, HooksOK
<1>2. \A x \in Transfers : row'[x] = IF x = t THEN r2 ELSE row[x]
  BY <1>1 DEF Put
<1>3. AllGood'
  BY <1>2 DEF AllGood, SerialInv, Alone
<1>4. Known'
  BY <1>1, <1>2 DEF Known, SerialInv, Alone
<1> QED
  BY <1>3, <1>4, NoneIsOneByOne DEF SerialInv

-----------------------------------------------------------------------------
(* The daily limit. *)

LEMMA CountedSame ==
    ASSUME Counted, used' = used,
           \A x \in Transfers : IsFunded(row'[x]) <=> IsFunded(row[x])
    PROVE  Counted'
<1>1. ASSUME NEW u \in Users PROVE Funded(u)' = Funded(u)
  BY DEF Funded, Owned
<1> QED
  BY <1>1 DEF Counted

LEMMA CountedJoins ==
    ASSUME ExternalAssumption, IInv, Counted, NEW t \in Transfers, NEW r2, Put(t, r2),
           ~IsFunded(row[t]), IsFunded(r2),
           used' = [used EXCEPT ![OwnerOf[t]] = used[OwnerOf[t]] + Amount[t]]
    PROVE  Counted'
<1>1. /\ row \in [Transfers -> RowType] /\ used \in [Users -> Int]
      /\ OwnerOf[t] \in Users /\ Amount \in [Transfers -> Nat \ {0}]
  BY DEF IInv, RowsOK, BooksTyped, ExternalAssumption
<1>2. \A x \in Transfers : row'[x] = IF x = t THEN r2 ELSE row[x]
  BY <1>1 DEF Put
<1>3. ASSUME NEW u \in Users PROVE used'[u] = Total(Amount, Funded(u)')
  <2>1. used[u] = Total(Amount, Funded(u))
    BY DEF Counted
  <2>2. CASE u # OwnerOf[t]
    <3>1. Funded(u)' = Funded(u)
      BY <1>2, <2>2 DEF Funded, Owned
    <3> QED
      BY <1>1, <2>1, <2>2, <3>1
  <2>3. CASE u = OwnerOf[t]
    <3> DEFINE S == Funded(u)
    <3>1. Funded(u)' = S \union {t}
      BY <1>2, <2>3 DEF Funded, Owned
    <3>2. t \notin S /\ S \subseteq Transfers
      BY DEF Funded, Owned
    <3>3. IsFiniteSet(S)
      BY <3>2, TransfersAreFinite, FS_Subset
    <3> HIDE DEF S
    <3>4. \A y \in S \union {t} : Amount[y] \in Nat
      BY <1>1, <3>2
    <3>5. Total(Amount, S \union {t}) = Total(Amount, S) + Amount[t]
      BY <3>2, <3>3, <3>4, TotalAdds
    <3>6. used'[u] = used[u] + Amount[t]
      BY <1>1, <2>3
    <3> QED
      BY <2>1, <3>1, <3>5, <3>6 DEF S
  <2> QED
    BY <2>2, <2>3
<1> QED
  BY <1>3 DEF Counted

-----------------------------------------------------------------------------
(* What credit lines are owed. *)

DebtOf(r) == Pos(r.meta.credit - r.meta.repaid)
DebtsOf(rw) == [t \in Transfers |-> DebtOf(rw[t])]

LEMMA DebtIsNat == ASSUME NEW r \in RowType PROVE DebtOf(r) \in Nat
BY RowFields DEF DebtOf, Pos

LEMMA DebtsAre == Debts = DebtsOf(row) /\ Debts' = DebtsOf(row')
BY DEF Debts, DebtsOf, DebtOf, Outstanding

Traced(ln, rw) == \A u \in Users : ln[u].used <= Total(DebtsOf(rw), Owned(u))

LEMMA TracedIs == /\ DebtIsTraced <=> Traced(line, row)
                  /\ DebtIsTraced' <=> Traced(line', row')
<1>1. \A u \in Users : Owned(u)' = Owned(u)
  BY DEF Owned
<1> QED
  BY <1>1, DebtsAre DEF DebtIsTraced, Traced

Rows == [Transfers -> RowType]
Lines == [Users -> LineType]

\* the terms of the sum
LEMMA DebtChanges ==
    ASSUME NEW rw \in Rows, NEW rw2 \in Rows, NEW t \in Transfers, NEW n \in Nat,
           \A x \in Transfers \ {t} : rw2[x] = rw[x],
           DebtOf(rw2[t]) = DebtOf(rw[t]) + n, NEW u
    PROVE  /\ OwnerOf[t] = u => Total(DebtsOf(rw2), Owned(u)) = Total(DebtsOf(rw), Owned(u)) + n
           /\ OwnerOf[t] # u => Total(DebtsOf(rw2), Owned(u)) = Total(DebtsOf(rw), Owned(u))
           /\ Total(DebtsOf(rw), Owned(u)) \in Nat
<1> DEFINE f == DebtsOf(rw)
           g == DebtsOf(rw2)
           S == Owned(u)
<1>1. \A x \in Transfers : f[x] = DebtOf(rw[x]) /\ g[x] = DebtOf(rw2[x])
  BY DEF DebtsOf
<1>2. \A x \in Transfers : f[x] \in Nat
  BY <1>1, DebtIsNat DEF Rows
<1>3. Bumped(f, g, t, n, Transfers)
  BY <1>1, <1>2 DEF Bumped
<1>4. S \subseteq Transfers /\ (t \in S <=> OwnerOf[t] = u)
  BY DEF Owned
<1> HIDE DEF f, g, S
<1>5. /\ t \in S => Total(g, S) = Total(f, S) + n
      /\ t \notin S => Total(g, S) = Total(f, S)
      /\ Total(f, S) \in Nat
  BY <1>3, <1>4, TransfersAreFinite, TermGrows
<1> QED
  BY <1>4, <1>5 DEF f, g, S

LEMMA TracedSame ==
    ASSUME NEW rw, NEW rw2, NEW ln \in Lines, NEW ln2 \in Lines, Traced(ln, rw),
           \A x \in Transfers : DebtOf(rw2[x]) = DebtOf(rw[x]),
           \A u \in Users : ln2[u].used <= ln[u].used,
           rw \in Rows
    PROVE  Traced(ln2, rw2)
<1>1. DebtsOf(rw2) = DebtsOf(rw)
  BY DEF DebtsOf
<1>2. ASSUME NEW u \in Users PROVE Total(DebtsOf(rw), Owned(u)) \in Nat
  <2>1. \A x \in Owned(u) : DebtsOf(rw)[x] \in Nat
    BY DebtIsNat DEF DebtsOf, Owned, Rows
  <2>2. IsFiniteSet(Owned(u))
    BY OwnedIsSubset, TransfersAreFinite, FS_Subset
  <2> QED
    BY <2>1, <2>2, PairsAreFinite
<1>3. \A u \in Users : ln2[u].used \in Nat /\ ln[u].used \in Nat
  BY DEF Lines, LineType
<1> QED
  BY <1>1, <1>2, <1>3 DEF Traced

UsedMore(ln, ln2, u, n) ==
    \A v \in Users : ln2[v].used = IF v = u THEN ln[v].used + n ELSE ln[v].used

LEMMA TracedTaken ==
    ASSUME NEW rw \in Rows, NEW rw2 \in Rows, NEW ln \in Lines, NEW ln2, Traced(ln, rw),
           NEW t \in Transfers, NEW n \in Nat,
           \A x \in Transfers \ {t} : rw2[x] = rw[x],
           DebtOf(rw[t]) = 0, DebtOf(rw2[t]) = n,
           UsedMore(ln, ln2, OwnerOf[t], n)
    PROVE  Traced(ln2, rw2)
<1> SUFFICES ASSUME NEW u \in Users
             PROVE  ln2[u].used <= Total(DebtsOf(rw2), Owned(u))
  BY DEF Traced
<1>1. DebtOf(rw2[t]) = DebtOf(rw[t]) + n
  OBVIOUS
<1>2. /\ OwnerOf[t] = u => Total(DebtsOf(rw2), Owned(u)) = Total(DebtsOf(rw), Owned(u)) + n
      /\ OwnerOf[t] # u => Total(DebtsOf(rw2), Owned(u)) = Total(DebtsOf(rw), Owned(u))
      /\ Total(DebtsOf(rw), Owned(u)) \in Nat
  BY <1>1, DebtChanges
<1>3. ln[u].used <= Total(DebtsOf(rw), Owned(u)) /\ ln[u].used \in Nat
  BY DEF Traced, Lines, LineType
<1>4. ln2[u].used = IF u = OwnerOf[t] THEN ln[u].used + n ELSE ln[u].used
  BY DEF UsedMore
<1> QED
  BY <1>2, <1>3, <1>4

UsedBack(ln, ln2, u, n) ==
    \A v \in Users : ln2[v].used = IF v = u THEN Pos(ln[v].used - n) ELSE ln[v].used

LEMMA TracedBack ==
    ASSUME NEW rw \in Rows, NEW rw2 \in Rows, NEW ln \in Lines, NEW ln2, Traced(ln, rw),
           NEW t \in Transfers, NEW n \in Nat,
           \A x \in Transfers \ {t} : rw2[x] = rw[x],
           DebtOf(rw[t]) <= n, DebtOf(rw2[t]) = 0,
           UsedBack(ln, ln2, OwnerOf[t], n)
    PROVE  Traced(ln2, rw2)
<1> SUFFICES ASSUME NEW u \in Users
             PROVE  ln2[u].used <= Total(DebtsOf(rw2), Owned(u))
  BY DEF Traced
<1> DEFINE d == DebtOf(rw[t])
<1>1. d \in Nat
  BY DebtIsNat DEF Rows
<1>2. DebtOf(rw[t]) = DebtOf(rw2[t]) + d
  BY <1>1
<1>3. \A x \in Transfers \ {t} : rw[x] = rw2[x]
  OBVIOUS
<1> HIDE DEF d
<1>4. /\ OwnerOf[t] = u => Total(DebtsOf(rw), Owned(u)) = Total(DebtsOf(rw2), Owned(u)) + d
      /\ OwnerOf[t] # u => Total(DebtsOf(rw), Owned(u)) = Total(DebtsOf(rw2), Owned(u))
      /\ Total(DebtsOf(rw2), Owned(u)) \in Nat
  BY <1>1, <1>2, <1>3, DebtChanges
<1>5. ln[u].used <= Total(DebtsOf(rw), Owned(u)) /\ ln[u].used \in Nat
  BY DEF Traced, Lines, LineType
<1>6. d <= n
  BY DEF d
<1>7. ln2[u].used = IF u = OwnerOf[t] THEN Pos(ln[u].used - n) ELSE ln[u].used
  BY DEF UsedBack
<1> QED
  BY <1>1, <1>4, <1>5, <1>6, <1>7 DEF Pos

\* a sum of two functions: the pairs of h above f are those of g, moved up
LEMMA TotalSum ==
    ASSUME NEW S, IsFiniteSet(S), NEW f, NEW g, NEW h,
           \A x \in S : f[x] \in Nat /\ g[x] \in Nat /\ h[x] = f[x] + g[x]
    PROVE  Total(h, S) = Total(f, S) + Total(g, S)
<1> DEFINE P == Pairs(f, S)
           G == Pairs(g, S)
           H == Pairs(h, S)
           D == H \ P
           up == [z \in G |-> <<z[1], f[z[1]] + z[2]>>]
<1>1. \A x \in S : h[x] \in Nat
  OBVIOUS
<1>2. /\ IsFiniteSet(P) /\ Cardinality(P) = Total(f, S) /\ Cardinality(P) \in Nat
      /\ IsFiniteSet(G) /\ Cardinality(G) = Total(g, S) /\ Cardinality(G) \in Nat
      /\ IsFiniteSet(H) /\ Cardinality(H) = Total(h, S)
  BY <1>1, PairsAreFinite DEF Pairs, Total
<1>3. /\ \A z : z \in P <=> \E x \in S : \E k \in Nat : z = <<x, k>> /\ 1 <= k /\ k <= f[x]
      /\ \A z : z \in G <=> \E x \in S : \E k \in Nat : z = <<x, k>> /\ 1 <= k /\ k <= g[x]
      /\ \A z : z \in H <=> \E x \in S : \E k \in Nat :
                                z = <<x, k>> /\ 1 <= k /\ k <= f[x] + g[x]
  BY DEF Pairs
<1> HIDE DEF P, G, H
<1>4. \A x \in S, k \in Nat :
         /\ <<x, k>> \in P <=> 1 <= k /\ k <= f[x]
         /\ <<x, k>> \in G <=> 1 <= k /\ k <= g[x]
         /\ <<x, k>> \in H <=> 1 <= k /\ k <= f[x] + g[x]
  BY <1>3
<1>5. P \subseteq H
  <2> SUFFICES ASSUME NEW z \in P PROVE z \in H
    OBVIOUS
  <2>1. PICK x \in S, k \in Nat : z = <<x, k>> /\ 1 <= k /\ k <= f[x]
    BY <1>3
  <2> QED
    BY <1>4, <2>1
<1>6. \A z \in G : up[z] \in D
  <2> SUFFICES ASSUME NEW z \in G PROVE up[z] \in D
    OBVIOUS
  <2>1. PICK x \in S, k \in Nat : z = <<x, k>> /\ 1 <= k /\ k <= g[x]
    BY <1>3
  <2>2. up[z] = <<x, f[x] + k>>
    BY <2>1
  <2>3. f[x] + k \in Nat /\ 1 <= f[x] + k /\ f[x] + k <= f[x] + g[x] /\ ~(f[x] + k <= f[x])
    BY <2>1
  <2> QED
    BY <1>4, <2>2, <2>3
<1>7. \A y, z \in G : up[y] = up[z] => y = z
  <2> SUFFICES ASSUME NEW y \in G, NEW z \in G, up[y] = up[z] PROVE y = z
    OBVIOUS
  <2>1. PICK x1 \in S, k1 \in Nat : y = <<x1, k1>>
    BY <1>3
  <2>2. PICK x2 \in S, k2 \in Nat : z = <<x2, k2>>
    BY <1>3
  <2>3. up[y] = <<x1, f[x1] + k1>> /\ up[z] = <<x2, f[x2] + k2>>
    BY <2>1, <2>2
  <2>4. x1 = x2 /\ f[x1] + k1 = f[x2] + k2
    BY <2>3
  <2> QED
    BY <2>1, <2>2, <2>4
<1>8. \A w \in D : \E z \in G : up[z] = w
  <2> SUFFICES ASSUME NEW w \in D PROVE \E z \in G : up[z] = w
    OBVIOUS
  <2>1. PICK x \in S, k \in Nat : w = <<x, k>> /\ 1 <= k /\ k <= f[x] + g[x]
    BY <1>3
  <2>2. k > f[x]
    BY <1>4, <2>1
  <2>3. PICK n \in Nat : n = k - f[x]
    BY <2>2
  <2>4. 1 <= n /\ n <= g[x] /\ f[x] + n = k
    BY <2>1, <2>2, <2>3
  <2>5. <<x, n>> \in G
    BY <1>4, <2>4
  <2> WITNESS <<x, n>> \in G
  <2> QED
    BY <2>1, <2>4, <2>5
<1>9. up \in Bijection(G, D)
  <2>1. up \in [G -> D] /\ DOMAIN up = G
    BY <1>6
  <2> HIDE DEF up, D
  <2>2. IsInjective(up)
    BY <1>7, <2>1 DEF IsInjective
  <2>3. up \in Injection(G, D)
    BY <2>1, <2>2 DEF Injection
  <2>4. up \in Surjection(G, D)
    BY <1>8, <2>1 DEF Surjection
  <2> QED
    BY <2>3, <2>4 DEF Bijection
<1>10. IsFiniteSet(D) /\ Cardinality(D) = Cardinality(G)
  <2> HIDE DEF up, D
  <2> QED
    BY <1>2, <1>9, FS_Bijection DEF ExistsBijection
<1>11. P \union D = H /\ P \intersect D = {}
  BY <1>5
<1>12. Cardinality(P \union D) = Cardinality(P) + Cardinality(D) - Cardinality(P \intersect D)
  <2> HIDE DEF D
  <2> QED
    BY <1>2, <1>10, FS_Union
<1>13. Cardinality(P \intersect D) = 0
  BY <1>11, FS_EmptySet
<1>14. Cardinality(H) = Cardinality(P) + Cardinality(G)
  <2> HIDE DEF D
  <2>1. Cardinality(H) = Cardinality(P \union D)
    BY <1>11
  <2> QED
    BY <1>2, <1>10, <1>12, <1>13, <2>1
<1> QED
  BY <1>2, <1>14

UsedLess(ln, ln2, u, n) ==
    \A v \in Users : ln2[v].used = IF v = u THEN ln[v].used - n ELSE ln[v].used

\* a repayment splits what it recovers over the transfers of one client
LEMMA TracedPaid ==
    ASSUME NEW rw \in Rows, NEW rw2 \in Rows, NEW ln \in Lines, NEW ln2, Traced(ln, rw),
           NEW u \in Users, NEW n \in Nat, NEW split,
           \A x \in Owned(u) : split[x] \in Nat /\ DebtOf(rw[x]) = DebtOf(rw2[x]) + split[x],
           \A x \in Transfers : x \notin Owned(u) => rw2[x] = rw[x],
           Total(split, Owned(u)) <= n,
           UsedLess(ln, ln2, u, n)
    PROVE  Traced(ln2, rw2)
<1> SUFFICES ASSUME NEW v \in Users
             PROVE  ln2[v].used <= Total(DebtsOf(rw2), Owned(v))
  BY DEF Traced
<1> DEFINE f == DebtsOf(rw)
           g == DebtsOf(rw2)
           S == Owned(v)
<1>1. S \subseteq Transfers /\ IsFiniteSet(S)
  BY OwnedIsSubset, TransfersAreFinite, FS_Subset
<1>2. \A x \in Transfers : f[x] = DebtOf(rw[x]) /\ g[x] = DebtOf(rw2[x])
  BY DEF DebtsOf
<1>3. \A x \in S : f[x] \in Nat /\ g[x] \in Nat
  BY <1>1, <1>2, DebtIsNat DEF Rows
<1>4. ln[v].used <= Total(f, S) /\ ln[v].used \in Nat
  BY DEF Traced, Lines, LineType
<1>7. ln2[v].used = IF v = u THEN ln[v].used - n ELSE ln[v].used
  BY DEF UsedLess
<1>5. CASE v # u
  <2>1. \A x \in S : f[x] = g[x]
    BY <1>1, <1>2, <1>5 DEF Owned
  <2> HIDE DEF f, g, S
  <2>2. Total(g, S) = Total(f, S)
    BY <2>1, TotalSame
  <2> QED
    BY <1>4, <1>5, <1>7, <2>2 DEF g, S
<1>6. CASE v = u
  <2>1. \A x \in S : g[x] \in Nat /\ split[x] \in Nat /\ f[x] = g[x] + split[x]
    BY <1>1, <1>2, <1>3, <1>6
  <2>2. Total(split, S) <= n
    BY <1>6
  <2> HIDE DEF f, g, S
  <2>3. Total(f, S) = Total(g, S) + Total(split, S)
    BY <1>1, <2>1, TotalSum
  <2>4. Total(g, S) \in Nat /\ Total(split, S) \in Nat
    BY <1>1, <2>1, PairsAreFinite
  <2>5. ln2[v].used = ln[v].used - n
    BY <1>6, <1>7
  <2> QED
    BY <1>4, <2>2, <2>3, <2>4, <2>5 DEF g, S
<1> QED
  BY <1>5, <1>6

-----------------------------------------------------------------------------
(* Steps of work on one transfer. *)

LEMMA SaveFresh ==
    ASSUME NEW r \in RowType, NEW n \in RowType
    PROVE  Save(r, r, n) = n /\ SaveMeta(r, r, n) = n
<1>1. Column(r.status, r.status, n.status) = n.status
      /\ Column(r.pstatus, r.pstatus, n.pstatus) = n.pstatus
      /\ Column(r.ref, r.ref, n.ref) = n.ref
      /\ Column(r.retries, r.retries, n.retries) = n.retries
      /\ Column(r.meta, r.meta, n.meta) = n.meta
  BY DEF Column
<1>2. n = [status |-> n.status, pstatus |-> n.pstatus, ref |-> n.ref,
           retries |-> n.retries, meta |-> n.meta]
  BY DEF RowType
<1>3. Save(r, r, n) = n
  BY <1>1, <1>2 DEF Save
<1>4. [n EXCEPT !.meta = n.meta] = n
  BY DEF RowType
<1> QED
  BY <1>3, <1>4 DEF SaveMeta

LEMMA AnsweredIs ==
    ASSUME NEW r \in RowType, NEW status \in ProviderStatus, NEW ref \in BOOLEAN
    PROVE  LET a == Answered(r, status, ref) IN
           /\ status = "failed" => a.status = "failed" /\ a.meta = Cancelled(r.meta)
           /\ status # "failed" => a.status \in {r.status, "succeeded"} /\ a.meta = r.meta
<1> DEFINE k == Mark(r, status, ref)
<1>1. k \in RowType /\ k.meta = r.meta
  BY MarkFields
<1>2. k.status = r.status
  BY DEF Mark, RowType
<1>3. CASE status = "success"
  <2>1. Answered(r, status, ref) = [k EXCEPT !.status = "succeeded"]
    BY <1>3 DEF Answered
  <2> HIDE DEF k
  <2> QED
    BY <1>1, <1>3, <2>1 DEF RowType
<1>4. CASE status = "failed"
  <2> DEFINE kf == [k EXCEPT !.status = "failed"]
  <2>1. Answered(r, status, ref) = [kf EXCEPT !.meta = Cancelled(kf.meta)]
    BY <1>4 DEF Answered
  <2> HIDE DEF k
  <2>2. kf \in RowType /\ kf.status = "failed" /\ kf.meta = r.meta
    BY <1>1 DEF RowType, Status
  <2> HIDE DEF kf
  <2> QED
    BY <1>4, <2>1, <2>2 DEF RowType
<1>5. CASE status \notin {"success", "failed"}
  <2>1. Answered(r, status, ref) = k
    BY <1>5 DEF Answered
  <2> QED
    BY <1>1, <1>2, <1>5, <2>1
<1> QED
  BY <1>3, <1>4, <1>5

\* what is marked refunded and owes nothing is not changed by a second refusal
LEMMA CancelledAgain ==
    ASSUME NEW m \in MetaType, m.refunded, m.credit = 0, m.repaid = 0
    PROVE  Cancelled(m) = m
<1> DEFINE a == [m EXCEPT !.refunded = TRUE]
           b == [a EXCEPT !.credit = 0]
<1>1. a = m
  BY DEF MetaType
<1>2. b = m
  BY <1>1 DEF MetaType
<1>3. [b EXCEPT !.repaid = 0] = m
  BY <1>2 DEF MetaType
<1> QED
  BY <1>3 DEF Cancelled

\* the other transfers in the provider's books
OnlyIn(t) ==
    /\ \A x \in Transfers : provider'[x] = provider[x] \/ x = t
    /\ \A h \in hooks' : h \in hooks \/ h.t = t

LEMMA SerialTypes ==
    ASSUME IInv
    PROVE  /\ row \in Rows /\ line \in Lines /\ used \in [Users -> Int]
           /\ moves \in Moves /\ journal \in [Transfers -> NatPair]
           /\ cash \in [Transfers -> Nat]
BY DEF IInv, RowsOK, LinesOK, BooksTyped, Rows, Lines, Moves, NatPair

LEMMA RowsNext == ASSUME IInv' PROVE row' \in Rows
BY DEF IInv, RowsOK, Rows

LEMMA KeptStep ==
    ASSUME IInv, IInv', SerialInv, NEW t \in Transfers, NEW r2, Put(t, r2),
           UNCHANGED <<line, moves, journal, cash, used>>, OnlyIn(t), Busy' = {},
           r2.meta = row[t].meta, row[t].status # "none", r2.status # "none",
           r2.status \in Unsettled => row[t].status \in Unsettled
    PROVE  SerialInv'
<1>1. row \in Rows /\ row' \in Rows /\ line \in Lines /\ line' = line
  BY SerialTypes, RowsNext
<1>2. \A x \in Transfers : row'[x] = IF x = t THEN r2 ELSE row[x]
  BY <1>1 DEF Put, Rows
<1>3. Good(t, row[t], moves[t].back, journal[t], cash[t])
  BY DEF SerialInv, AllGood
<1>4. Good(t, r2, moves[t].back, journal[t], cash[t])
  BY <1>3, GoodKept
<1>5. Good(t, r2, moves'[t].back, journal'[t], cash'[t])
  BY <1>4
<1>6. Alone(t)
  BY DEF Alone, OnlyIn
<1>7. Counted'
  BY <1>2, CountedSame DEF SerialInv, IsFunded
<1>8. \A x \in Transfers : DebtOf(row'[x]) = DebtOf(row[x])
  BY <1>2 DEF DebtOf
<1>9. Traced(line', row')
  <2>1. Traced(line, row)
    BY TracedIs DEF SerialInv
  <2>2. \A u \in Users : line'[u].used <= line[u].used
    BY <1>1 DEF Lines, LineType
  <2>3. line' \in Lines
    BY <1>1
  <2> QED
    BY <1>1, <1>8, <2>1, <2>2, <2>3, TracedSame
<1>10. DebtIsTraced'
  BY <1>9, TracedIs
<1> QED
  BY <1>5, <1>6, <1>7, <1>10, OneStep

\* the line of the owner after a refund
LEMMA GiveBackUsed ==
    ASSUME ExternalAssumption, IInv, NEW t \in Transfers, NEW m, GiveFundsBack(t, m)
    PROVE  /\ \A u \in Users : line'[u].used =
                 IF u = OwnerOf[t] THEN Pos(line[u].used - m.credit) ELSE line[u].used
           /\ moves'[t].back = moves[t].back + m.debited
           /\ \A x \in Transfers \ {t} : moves'[x] = moves[x]
<1>1. line \in [Users -> LineType] /\ moves \in Moves /\ OwnerOf[t] \in Users
  BY SerialTypes DEF Lines, ExternalAssumption
<1>2. line' = [line EXCEPT ![OwnerOf[t]] = GiveBack(line[OwnerOf[t]], m.credit)]
  BY DEF GiveFundsBack
<1>3. GiveBack(line[OwnerOf[t]], m.credit).used = Pos(line[OwnerOf[t]].used - m.credit)
  BY DEF GiveBack
<1>4. moves' = [moves EXCEPT ![t].back = @ + m.debited]
  BY DEF GiveFundsBack
<1>5. \A u \in Users :
         line'[u] = IF u = OwnerOf[t] THEN GiveBack(line[u], m.credit) ELSE line[u]
  BY <1>1, <1>2
<1> QED
  BY <1>1, <1>3, <1>4, <1>5 DEF Moves

LEMMA RefundStep ==
    ASSUME ExternalAssumption, IInv, IInv', SerialInv, NEW t \in Transfers, NEW r2,
           Put(t, r2), GiveFundsBack(t, row[t].meta),
           journal' = [journal EXCEPT ![t].refund = @ + 1],
           UNCHANGED <<cash, used>>, OnlyIn(t), Busy' = {},
           r2.status = "failed", r2.meta = Cancelled(row[t].meta),
           row[t].status # "none", ~row[t].meta.refunded, Refundable(t, row[t].meta)
    PROVE  SerialInv'
<1> DEFINE r == row[t]
<1>1. /\ row \in Rows /\ row' \in Rows /\ line \in Lines /\ journal \in [Transfers -> NatPair]
      /\ r \in RowType /\ r.meta \in MetaType /\ journal[t] \in NatPair
  <2>1. row \in Rows /\ row' \in Rows /\ line \in Lines /\ journal \in [Transfers -> NatPair]
    BY SerialTypes, RowsNext
  <2>2. r \in RowType
    BY <2>1 DEF Rows
  <2> QED
    BY <2>1, <2>2, RowFields
<1>2. \A x \in Transfers : row'[x] = IF x = t THEN r2 ELSE row[x]
  BY <1>1 DEF Put, Rows
<1>3. Good(t, r, moves[t].back, journal[t], cash[t])
  BY DEF SerialInv, AllGood
<1>4. journal'[t] = [journal[t] EXCEPT !.refund = @ + 1]
      /\ \A x \in Transfers \ {t} : journal'[x] = journal[x]
  BY <1>1
<1>5. Good(t, r2, moves'[t].back, journal'[t], cash'[t])
  BY <1>1, <1>3, <1>4, GoodRefunded
<1>6. Alone(t)
  BY <1>4, GiveBackUsed DEF Alone, OnlyIn
<1>7. /\ r2.meta.pending = r.meta.pending /\ r2.meta.credit = 0 /\ r2.meta.repaid = 0
  BY <1>1 DEF Cancelled, MetaType
<1>8. Counted'
  BY <1>2, <1>7, CountedSame DEF SerialInv, IsFunded
<1>9. Traced(line', row')
  <2>1. Traced(line, row)
    BY TracedIs DEF SerialInv
  <2>2. DebtOf(row[t]) <= r.meta.credit /\ DebtOf(row'[t]) = 0 /\ r.meta.credit \in Nat
    BY <1>1, <1>2, <1>7, RowFields DEF DebtOf, Pos
  <2>3. PICK n \in Nat : n = r.meta.credit
    BY <2>2
  <2>4. UsedBack(line, line', OwnerOf[t], n)
    BY <2>3, GiveBackUsed DEF UsedBack
  <2>5. DebtOf(row[t]) <= n /\ DebtOf(row'[t]) = 0
        /\ \A x \in Transfers \ {t} : row'[x] = row[x]
    BY <1>2, <2>2, <2>3
  <2>6. row \in Rows /\ row' \in Rows /\ line \in Lines
    BY <1>1
  <2> HIDE DEF r
  <2> QED
    BY <2>1, <2>4, <2>5, <2>6, TracedBack
<1>10. DebtIsTraced'
  BY <1>9, TracedIs
<1> QED
  BY <1>5, <1>6, <1>8, <1>10, OneStep

LEMMA HalfStep ==
    ASSUME ExternalAssumption, IInv, IInv', SerialInv, NEW t \in Transfers,
           NEW ref \in BOOLEAN, HalfRefund(t, ref), Raises(t, row[t], "failed"),
           row[t].status # "none",
           UNCHANGED <<cash, used>>, OnlyIn(t), Busy' = {}
    PROVE  SerialInv'
<1> DEFINE r == row[t]
           r2 == Mark(row[t], "manual_review", ref)
<1>1. Put(t, r2) /\ GiveFundsBack(t, r.meta) /\ journal' = journal
  BY DEF HalfRefund
<1>2. row \in Rows /\ row' \in Rows /\ line \in Lines /\ moves \in Moves
  BY SerialTypes, RowsNext
<1>3. r \in RowType
  BY <1>2 DEF Rows
<1>4. r2.meta = r.meta /\ r2.status = r.status
  BY <1>3, MarkFields DEF ProviderStatus
<1>5. ~r.meta.refunded /\ ~Refundable(t, r.meta)
  BY DEF Raises
<1> HIDE DEF r2
<1>6. \A x \in Transfers : row'[x] = IF x = t THEN r2 ELSE row[x]
  BY <1>1, <1>2 DEF Put, Rows
<1>7. Good(t, r, moves[t].back, journal[t], cash[t])
  BY DEF SerialInv, AllGood
<1>8. moves[t].back \in Nat
  BY <1>2 DEF Moves
<1>9. Good(t, r2, moves[t].back + r.meta.debited, journal[t], cash[t])
  BY <1>3, <1>4, <1>5, <1>7, <1>8, GoodHalf
<1>10. Good(t, r2, moves'[t].back, journal'[t], cash'[t])
  BY <1>1, <1>9, GiveBackUsed
<1>11. Alone(t)
  BY <1>1, GiveBackUsed DEF Alone, OnlyIn
<1>12. Counted'
  BY <1>4, <1>6, CountedSame DEF SerialInv, IsFunded
<1>13. \A x \in Transfers : DebtOf(row'[x]) = DebtOf(row[x])
  BY <1>4, <1>6 DEF DebtOf
<1>14. \A u \in Users : line'[u].used <= line[u].used
  <2>1. \A u \in Users : line[u].used \in Nat
    BY <1>2 DEF Lines, LineType
  <2>2. r.meta.credit \in Nat
    BY <1>3, RowFields
  <2>3. \A u \in Users : line'[u].used =
           IF u = OwnerOf[t] THEN Pos(line[u].used - r.meta.credit) ELSE line[u].used
    BY <1>1, GiveBackUsed
  <2> QED
    BY <2>1, <2>2, <2>3 DEF Pos
<1>15. line' \in Lines
  BY DEF IInv, LinesOK, Lines
<1>16. Traced(line, row)
  BY TracedIs DEF SerialInv
<1>17. Traced(line', row')
  BY <1>2, <1>13, <1>14, <1>15, <1>16, TracedSame
<1>18. DebtIsTraced'
  BY <1>17, TracedIs
<1> QED
  BY <1>1, <1>4, <1>10, <1>11, <1>12, <1>18, OneStep

\* an answer, whoever receives it
LEMMA AnswerStep ==
    ASSUME ExternalAssumption, IInv, IInv', SerialInv, NEW t \in Transfers,
           NEW status \in ProviderStatus, NEW ref \in BOOLEAN,
           Put(t, Answered(row[t], status, ref)), Refund(t, row[t], status),
           ~Raises(t, row[t], status), row[t].status # "none",
           UNCHANGED <<cash, used>>, OnlyIn(t), Busy' = {}
    PROVE  SerialInv'
<1> DEFINE r == row[t]
           a == Answered(r, status, ref)
<1>1. r \in RowType /\ r.meta \in MetaType
  BY SerialTypes, RowFields DEF Rows
<1>2. /\ status = "failed" => a.status = "failed" /\ a.meta = Cancelled(r.meta)
      /\ status # "failed" => a.status \in {r.status, "succeeded"} /\ a.meta = r.meta
  BY <1>1, AnsweredIs
<1>3. Put(t, a)
  OBVIOUS
<1> HIDE DEF a
<1>4. CASE status = "failed" /\ ~r.meta.refunded
  <2>1. /\ GiveFundsBack(t, r.meta) /\ journal' = [journal EXCEPT ![t].refund = @ + 1]
        /\ Refundable(t, r.meta)
    BY <1>4 DEF Refund, Raises
  <2> QED
    BY <1>2, <1>3, <1>4, <2>1, RefundStep
<1>5. CASE ~(status = "failed" /\ ~r.meta.refunded)
  <2>1. UNCHANGED <<line, moves, journal>>
    BY <1>5 DEF Refund, Money
  <2>2. a.meta = r.meta
    <3>1. CASE status = "failed"
      <4>1. r.meta.refunded /\ r.meta.credit = 0 /\ r.meta.repaid = 0
        BY <1>5, <3>1 DEF SerialInv, AllGood, Good
      <4> QED
        BY <1>1, <1>2, <3>1, <4>1, CancelledAgain
    <3> QED
      BY <1>2, <3>1
  <2>3. a.status # "none" /\ (a.status \in Unsettled => r.status \in Unsettled)
    BY <1>2 DEF Unsettled
  <2> QED
    BY <1>3, <2>1, <2>2, <2>3, KeptStep
<1> QED
  BY <1>4, <1>5

-----------------------------------------------------------------------------
(* The background task and the worker. *)

LEMMA ReachIsOnly == ASSUME NEW t, NEW p, Reach(t, p), ProviderOK(provider) PROVE OnlyIn(t)
<1>1. \A x \in Transfers : provider'[x] = provider[x] \/ x = t
  BY DEF Reach, ProviderOK
<1> QED
  BY <1>1 DEF Reach, OnlyIn

LEMMA RetriedIs ==
    ASSUME ExternalAssumption, NEW r \in RowType
    PROVE  Retried(r).meta = r.meta /\ Retried(r).status = r.status
<1>1. Retried(r).status = r.status
  BY DEF Retried, RowType
<1> QED
  BY <1>1, RetriedFields

LEMMA SendStep ==
    ASSUME ExternalAssumption, IInv, IInv', SerialInv, NEW t \in Transfers,
           Send(t), row[t].status # "none",
           UNCHANGED <<cash, used>>, Busy' = {}
    PROVE  SerialInv'
<1>1. ProviderOK(provider)
  BY DEF IInv
<1>2. CASE SendAnswered(t)
  <2>1. PICK p \in Received(t), ref \in BOOLEAN : \E status \in Says[p] :
            /\ Reach(t, p) /\ ~Raises(t, row[t], status)
            /\ Put(t, Answered(row[t], status, ref)) /\ Refund(t, row[t], status)
    BY <1>2 DEF SendAnswered
  <2>2. PICK status \in Says[p] :
            /\ Reach(t, p) /\ ~Raises(t, row[t], status)
            /\ Put(t, Answered(row[t], status, ref)) /\ Refund(t, row[t], status)
    BY <2>1
  <2>3. OnlyIn(t)
    BY <1>1, <2>2, ReachIsOnly
  <2>4. p \in {"none", "accepted", "paid", "rejected"}
    BY <1>1 DEF Received, ProviderOK
  <2>5. status \in ProviderStatus
    BY <2>4 DEF Says, ProviderStatus
  <2> QED
    BY <2>2, <2>3, <2>5, AnswerStep
<1>3. CASE SendTimesOut(t)
  <2>1. Put(t, Retried(row[t])) /\ UNCHANGED <<line, moves, journal>>
    BY <1>3 DEF SendTimesOut, Money
  <2>2. OnlyIn(t)
    BY <1>1, <1>3, ReachIsOnly DEF SendTimesOut, MayReach
  <2>3. row[t] \in RowType
    BY SerialTypes DEF Rows
  <2>4. Retried(row[t]).meta = row[t].meta /\ Retried(row[t]).status = row[t].status
    BY <2>3, RetriedIs
  <2> QED
    BY <2>1, <2>2, <2>4, KeptStep
<1>4. CASE SendRefused(t)
  <2>1. OnlyIn(t)
    BY <1>1, <1>4, ReachIsOnly DEF SendRefused, Denied, MayReach
  <2> QED
    BY <1>4, <2>1, AnswerStep DEF SendRefused, ProviderStatus
<1> QED
  BY <1>2, <1>3, <1>4 DEF Send

LEMMA SameRowsStep ==
    ASSUME SerialInv, UNCHANGED <<row, line, moves, journal, cash, used>>, Known', OneByOne'
    PROVE  SerialInv'
<1>1. AllGood'
  BY DEF AllGood, SerialInv
<1>2. Counted'
  <2>1. \A u \in Users : Funded(u)' = Funded(u)
    BY DEF Funded, Owned, IsFunded
  <2> QED
    BY <2>1 DEF Counted, SerialInv
<1>3. DebtIsTraced'
  BY TracedIs DEF SerialInv
<1> QED
  BY <1>1, <1>2, <1>3 DEF SerialInv

LEMMA StillBusy == ASSUME Busy = {}, sess' = sess PROVE Busy' = {}
BY DEF Busy

LEMMA WorkStep ==
    ASSUME ExternalAssumption, Width = 1, IInv, IInv', SerialInv, NEW t \in Transfers,
           Dispatch(t) \/ Resend(t) \/ Poll(t) \/ PollFails(t)
    PROVE  SerialInv'
<1>1. /\ Busy' = {} /\ UNCHANGED <<cash, used>>
  <2>1. Room /\ sess' = sess /\ UNCHANGED <<cash, used>>
    BY DEF Dispatch, Resend, Poll, PollFails, Purses
  <2>2. Busy = {}
    BY <2>1, NoneIsBusy DEF SerialInv
  <2> QED
    BY <2>1, <2>2, StillBusy
<1>2. /\ row \in Rows /\ row[t] \in RowType /\ ProviderOK(provider)
  BY SerialTypes DEF Rows, IInv
<1>3. CASE Dispatch(t)
  <2>1. CASE row[t].status = "approved" /\ Send(t)
    BY <1>1, <2>1, SendStep
  <2>2. CASE /\ row[t].status = "approved" /\ MayReach(t)
             /\ UNCHANGED <<row, Money, denied, faults>>
    <3>1. OnlyIn(t) /\ UNCHANGED <<line, moves, journal>>
      BY <1>2, <2>2, ReachIsOnly DEF MayReach, Money
    <3>2. Put(t, row[t])
      BY <1>2, <2>2 DEF Put, Rows
    <3> QED
      BY <1>1, <2>2, <3>1, <3>2, KeptStep
  <2>3. CASE UNCHANGED <<row, Money, World, faults>>
    <3>1. Known'
      BY <2>3 DEF SerialInv, Known, World
    <3>2. UNCHANGED <<row, line, moves, journal>>
      BY <2>3 DEF Money
    <3> QED
      BY <1>1, <3>1, <3>2, NoneIsOneByOne, SameRowsStep
  <2> QED
    BY <1>3, <2>1, <2>2, <2>3 DEF Dispatch
<1>4. CASE Resend(t)
  <2>1. row[t].status = "approved"
    BY <1>4 DEF Resend
  <2>2. CASE Send(t)
    BY <1>1, <2>1, <2>2, SendStep
  <2>3. CASE ResendRaises(t)
    <3>1. OnlyIn(t) /\ Raises(t, row[t], "failed")
      BY <1>2, <2>3, ReachIsOnly DEF ResendRaises, Denied, MayReach
    <3>2. PICK ref \in BOOLEAN : HalfRefund(t, ref)
      BY <2>3 DEF ResendRaises
    <3> QED
      BY <1>1, <2>1, <3>1, <3>2, HalfStep
  <2> QED
    BY <1>4, <2>2, <2>3 DEF Resend
<1>5. ASSUME Polled(t) PROVE row[t].status # "none"
  <2>1. Good(t, row[t], moves[t].back, journal[t], cash[t])
    BY DEF SerialInv, AllGood
  <2> QED
    BY <1>5, <2>1 DEF Polled, Good, Blank
<1>6. CASE Poll(t)
  <2>1. /\ Polled(t) /\ OnlyIn(t)
    BY <1>6 DEF Poll, World, OnlyIn
  <2>2. PICK status \in Says[provider[t]] :
           \/ /\ ~Raises(t, row[t], status)
              /\ Put(t, Answered(row[t], status, TRUE))
              /\ Refund(t, row[t], status)
           \/ Raises(t, row[t], status) /\ HalfRefund(t, TRUE)
    BY <1>6 DEF Poll
  <2>3. provider[t] \in {"none", "accepted", "paid", "rejected"}
    BY <1>2 DEF ProviderOK
  <2>4. status \in ProviderStatus
    BY <2>3 DEF Says, ProviderStatus
  <2>5. CASE Raises(t, row[t], status) /\ HalfRefund(t, TRUE)
    <3>1. Raises(t, row[t], "failed")
      BY <2>5 DEF Raises
    <3> QED
      BY <1>1, <1>5, <2>1, <2>5, <3>1, HalfStep
  <2> QED
    BY <1>1, <1>5, <2>1, <2>2, <2>4, <2>5, AnswerStep
<1>7. CASE PollFails(t)
  <2>1. Polled(t) /\ OnlyIn(t) /\ UNCHANGED <<line, moves, journal>>
    BY <1>7 DEF PollFails, World, OnlyIn, Books
  <2> DEFINE r2 == [row[t] EXCEPT !.pstatus = "manual_review"]
  <2>2. r2.meta = row[t].meta /\ r2.status = row[t].status
    BY <1>2 DEF RowType
  <2>3. Retried(row[t]).meta = row[t].meta /\ Retried(row[t]).status = row[t].status
    BY <1>2, RetriedIs
  <2>4. Put(t, Retried(row[t])) \/ Put(t, r2)
    BY <1>7 DEF PollFails
  <2> HIDE DEF r2
  <2> QED
    BY <1>1, <1>5, <2>1, <2>2, <2>3, <2>4, KeptStep
<1> QED
  BY <1>3, <1>4, <1>6, <1>7

-----------------------------------------------------------------------------
(* Requests. *)

\* what a request that commits knows
LEMMA CommitFacts ==
    ASSUME IInv, SerialInv, NEW s \in Sessions, NEW op, op # "deposit", Serves(s, op), Done(s)
    PROVE  /\ Busy' = {} /\ sess[s].t \in Transfers /\ Fresh(sess[s])
           /\ sess[s].op = op /\ sess[s].snap = row[sess[s].t]
           /\ row[sess[s].t] \in RowType
           /\ Good(sess[s].t, row[sess[s].t], moves[sess[s].t].back,
                   journal[sess[s].t], cash[sess[s].t])
<1>1. sess[s] # None /\ sess[s].op = op /\ s \in Busy
  BY DEF Serves, Busy
<1>2. sess[s].t \in Transfers
  BY ServedFields
<1>3. Fresh(sess[s])
  BY <1>1 DEF SerialInv, OneByOne
<1>4. Busy' = {}
  BY <1>1, DoneFrees DEF SerialInv
<1>5. row[sess[s].t] \in RowType
  BY <1>2, SerialTypes DEF Rows
<1>6. Good(sess[s].t, row[sess[s].t], moves[sess[s].t].back,
           journal[sess[s].t], cash[sess[s].t])
  BY <1>2 DEF SerialInv, AllGood
<1>7. sess[s].snap = row[sess[s].t]
  BY <1>1, <1>3 DEF Fresh
<1> QED
  BY <1>1, <1>2, <1>3, <1>4, <1>5, <1>6, <1>7

LEMMA UpdateStep ==
    ASSUME ExternalAssumption, IInv, IInv', SerialInv, NEW s \in Sessions, Update(s)
    PROVE  SerialInv'
<1> DEFINE t == sess[s].t
           n == [row[t] EXCEPT !.status = sess[s].arg]
<1>1. Serves(s, "update") /\ Done(s)
  BY DEF Update
<1>2. /\ Busy' = {} /\ t \in Transfers /\ Fresh(sess[s]) /\ sess[s].op = "update"
      /\ sess[s].snap = row[t] /\ row[t] \in RowType
  BY <1>1, CommitFacts
<1>3. row[t].status # "none" /\ sess[s].arg \in {"succeeded", "failed"}
  BY <1>2 DEF Fresh
<1>4. n \in RowType /\ n.meta = row[t].meta /\ n.status = sess[s].arg
  BY <1>2, <1>3 DEF RowType, Status
<1>5. Put(t, SaveMeta(row[t], row[t], n))
  BY <1>2 DEF Update
<1>6. Put(t, n)
  BY <1>2, <1>4, <1>5, SaveFresh
<1>7. UNCHANGED <<line, moves, journal, cash, used>> /\ OnlyIn(t)
  BY DEF Update, Books, Purses, World, OnlyIn
<1> HIDE DEF n, t
<1> QED
  BY <1>2, <1>3, <1>4, <1>6, <1>7, KeptStep DEF Unsettled

LEMMA WebhookStep ==
    ASSUME ExternalAssumption, IInv, IInv', SerialInv, NEW s \in Sessions, Webhook(s)
    PROVE  SerialInv'
<1> DEFINE t == sess[s].t
           status == sess[s].arg
           a == Answered(row[t], status, TRUE)
<1>1. Serves(s, "webhook") /\ Done(s)
  BY DEF Webhook
<1>2. /\ Busy' = {} /\ t \in Transfers /\ Fresh(sess[s]) /\ sess[s].op = "webhook"
      /\ sess[s].snap = row[t] /\ row[t] \in RowType
  BY <1>1, CommitFacts
<1>3. row[t].status # "none"
  BY <1>2 DEF Fresh
<1>4. status \in ProviderStatus
  BY <1>1, <1>2, ServedFields, RequestFields
<1>5. a \in RowType
  BY <1>2, <1>4, AnsweredFields
<1>6. /\ ~Raises(t, row[t], status) /\ Refund(t, row[t], status)
      /\ Put(t, SaveMeta(row[t], row[t], a)) \/ Put(t, Save(row[t], row[t], a))
  BY <1>2 DEF Webhook
<1> HIDE DEF a
<1>7. Put(t, a)
  BY <1>2, <1>5, <1>6, SaveFresh
<1>8. UNCHANGED <<cash, used>> /\ OnlyIn(t)
  BY DEF Webhook, Purses, World, OnlyIn
<1> QED
  BY <1>2, <1>3, <1>4, <1>6, <1>7, <1>8, AnswerStep DEF a

LEMMA CloseStep ==
    ASSUME ExternalAssumption, IInv, IInv', SerialInv, NEW s \in Sessions, Close(s)
    PROVE  SerialInv'
<1> DEFINE t == sess[s].t
           n == [row[t] EXCEPT !.status = "completed"]
<1>1. Serves(s, "close") /\ Done(s)
  BY DEF Close
<1>2. /\ Busy' = {} /\ t \in Transfers /\ Fresh(sess[s]) /\ sess[s].op = "close"
      /\ sess[s].snap = row[t] /\ row[t] \in RowType
      /\ Good(t, row[t], moves[t].back, journal[t], cash[t])
  BY <1>1, CommitFacts
<1>3. row[t].status = "approved"
  BY <1>2 DEF Fresh
<1>4. n \in RowType /\ n.meta = row[t].meta /\ n.status = "completed"
  BY <1>2 DEF RowType, Status
<1>5. Put(t, SaveMeta(row[t], row[t], n))
  BY <1>2 DEF Close
<1>6. Put(t, n)
  BY <1>2, <1>4, <1>5, SaveFresh
<1>7. /\ UNCHANGED <<line, moves, journal, used>> /\ OnlyIn(t)
      /\ cash' = [cash EXCEPT ![t] = @ + 1]
  BY DEF Close, Books, World, OnlyIn
<1>8. row \in Rows /\ row' \in Rows /\ line \in Lines /\ cash \in [Transfers -> Nat]
  BY SerialTypes, RowsNext
<1> HIDE DEF n, t
<1>9. \A x \in Transfers : row'[x] = IF x = t THEN n ELSE row[x]
  BY <1>6, <1>8 DEF Put, Rows
<1>10. Good(t, n, moves[t].back, journal[t], cash[t] + 1)
  BY <1>2, <1>3, <1>4, <1>8, GoodClosed
<1>11. Good(t, n, moves'[t].back, journal'[t], cash'[t])
  BY <1>2, <1>7, <1>8, <1>10
<1>12. Alone(t)
  BY <1>7, <1>8 DEF Alone, OnlyIn
<1>13. Counted'
  BY <1>3, <1>4, <1>7, <1>9, CountedSame DEF SerialInv, IsFunded
<1>14. Traced(line', row')
  <2>1. Traced(line, row)
    BY TracedIs DEF SerialInv
  <2>2. \A x \in Transfers : DebtOf(row'[x]) = DebtOf(row[x])
    BY <1>4, <1>9 DEF DebtOf
  <2>3. line' \in Lines /\ \A u \in Users : line'[u].used <= line[u].used
    BY <1>7, <1>8 DEF Lines, LineType
  <2> QED
    BY <1>8, <2>1, <2>2, <2>3, TracedSame
<1>15. DebtIsTraced'
  BY <1>14, TracedIs
<1> QED
  BY <1>2, <1>4, <1>6, <1>11, <1>12, <1>13, <1>15, OneStep

\* a transfer is funded, at its creation or at its approval
LEMMA FundedStep ==
    ASSUME ExternalAssumption, IInv, IInv', SerialInv, NEW t \in Transfers, NEW l, NEW f,
           NEW r2, Put(t, r2), TakeFunds(t, f, l), f.credit \in Nat,
           l.used = line[OwnerOf[t]].used,
           used' = [used EXCEPT ![OwnerOf[t]] = used[OwnerOf[t]] + Amount[t]],
           row[t].status = "none" \/ (row[t].status \in Unsettled /\ row[t].meta.pending),
           r2.status \in Unsettled, ~r2.meta.pending, ~r2.meta.refunded,
           r2.meta.credit = f.credit, r2.meta.repaid = 0,
           cash' = cash, OnlyIn(t), Busy' = {}
    PROVE  SerialInv'
<1>1. /\ row \in Rows /\ row' \in Rows /\ line \in Lines /\ moves \in Moves
      /\ journal \in [Transfers -> NatPair] /\ OwnerOf[t] \in Users
  BY SerialTypes, RowsNext DEF ExternalAssumption
<1>2. \A x \in Transfers : row'[x] = IF x = t THEN r2 ELSE row[x]
  BY <1>1 DEF Put, Rows
<1>3. Good(t, row[t], moves[t].back, journal[t], cash[t])
  BY DEF SerialInv, AllGood
<1>4. moves[t].back \in Nat /\ journal[t] \in NatPair
  BY <1>1 DEF Moves
<1>5. /\ journal' = [journal EXCEPT ![t].fund = @ + 1]
      /\ moves' = [moves EXCEPT ![t].out = @ + f.debit]
      /\ line' = [line EXCEPT ![OwnerOf[t]] = Draw(l, f.credit)]
  BY DEF TakeFunds
<1>6. journal'[t] = [journal[t] EXCEPT !.fund = @ + 1] /\ moves'[t].back = moves[t].back
  BY <1>1, <1>5 DEF Moves
<1>7. Good(t, r2, moves[t].back, journal'[t], cash[t])
  BY <1>3, <1>4, <1>6, GoodFunded
<1>8. Good(t, r2, moves'[t].back, journal'[t], cash'[t])
  BY <1>6, <1>7
<1>9. Alone(t)
  BY <1>1, <1>5 DEF Alone, OnlyIn, Moves
<1>10. Counted'
  <2>1. ~IsFunded(row[t]) /\ IsFunded(r2)
    BY DEF IsFunded, Unsettled
  <2> QED
    BY <2>1, CountedJoins DEF SerialInv
<1>11. Traced(line', row')
  <2>1. Traced(line, row)
    BY TracedIs DEF SerialInv
  <2>2. row[t].meta.credit = 0 /\ row[t].meta.repaid = 0
    BY <1>3 DEF Good, Blank
  <2>3. DebtOf(row[t]) = 0
    BY <2>2 DEF DebtOf, Pos
  <2>4. DebtOf(row'[t]) = f.credit
    BY <1>2 DEF DebtOf, Pos
  <2>5. Draw(l, f.credit).used = line[OwnerOf[t]].used + f.credit
    BY DEF Draw
  <2>6. UsedMore(line, line', OwnerOf[t], f.credit)
    BY <1>1, <1>5, <2>5 DEF UsedMore, Lines
  <2>7. PICK n \in Nat : n = f.credit
    OBVIOUS
  <2>8. UsedMore(line, line', OwnerOf[t], n) /\ DebtOf(row'[t]) = n
    BY <2>4, <2>6, <2>7
  <2>9. \A x \in Transfers \ {t} : row'[x] = row[x]
    BY <1>2
  <2> QED
    BY <1>1, <2>1, <2>3, <2>8, <2>9, TracedTaken
<1>12. DebtIsTraced'
  BY <1>11, TracedIs
<1>13. r2.status # "none"
  BY DEF Unsettled
<1> QED
  BY <1>8, <1>9, <1>10, <1>12, <1>13, OneStep

LEMMA CreateFundedStep ==
    ASSUME ExternalAssumption, IInv, IInv', SerialInv, NEW s \in Sessions,
           NEW review \in BOOLEAN, NEW override \in BOOLEAN,
           CreateFunded(s, review, override)
    PROVE  SerialInv'
<1> DEFINE t == sess[s].t
           u == OwnerOf[t]
           f == Terms(t, line[u])
           status == IF review THEN "pending" ELSE "approved"
           meta == [[Blank.meta EXCEPT !.debited = f.debit] EXCEPT !.credit = f.credit]
           new == [[Blank EXCEPT !.status = status] EXCEPT !.meta = meta]
<1>1. Serves(s, "create") /\ Done(s)
  BY DEF CreateFunded
<1>2. /\ Busy' = {} /\ t \in Transfers /\ Fresh(sess[s]) /\ sess[s].op = "create"
      /\ sess[s].snap = row[t]
  BY <1>1, CommitFacts
<1>3. row[t].status = "none" /\ sess[s].n = used[u]
  BY <1>2 DEF Fresh
<1>4. u \in Users
  BY <1>2 DEF ExternalAssumption
<1>5. line[u] \in LineType /\ Balanced(line[u]) /\ line[u].limit <= line[u].limit
  BY <1>4 DEF IInv, LinesOK, LineType
<1>6. /\ TakeFunds(t, f, line[u]) /\ cash' = cash /\ OnlyIn(t)
      /\ used' = [used EXCEPT ![u] = used[u] + Amount[t]]
  BY <1>3 DEF CreateFunded, World, OnlyIn
<1>7. Put(t, new)
  BY BlankFields DEF CreateFunded, RowType, f, meta
<1> HIDE DEF f
<1>8. f.debit \in Nat /\ f.credit \in Nat
  BY <1>2, <1>5, <1>6, TakeFundsKeeps DEF f
<1>9. meta.credit = f.credit /\ meta.refunded = FALSE /\ meta.pending = FALSE
      /\ meta.repaid = 0
  BY DEF Blank
<1> HIDE DEF meta
<1>10. new.meta = meta /\ new.status = status
  BY DEF Blank
<1>11. status \in Unsettled
  BY DEF Unsettled
<1> HIDE DEF new, status, t, u
<1>12. ~new.meta.pending /\ ~new.meta.refunded /\ new.meta.credit = f.credit
       /\ new.meta.repaid = 0 /\ new.status \in Unsettled
  BY <1>9, <1>10, <1>11
<1> QED
  BY <1>2, <1>3, <1>6, <1>7, <1>8, <1>12, FundedStep DEF u

\* a transfer is asked for, and nothing moves
LEMMA AskedStep ==
    ASSUME ExternalAssumption, IInv, IInv', SerialInv, NEW t \in Transfers, NEW r2,
           Put(t, r2), row[t].status = "none", r2.status \in Unsettled,
           NEW p \in BOOLEAN, r2.meta = [Blank.meta EXCEPT !.pending = p],
           UNCHANGED <<line, moves, journal, cash>>, OnlyIn(t), Busy' = {}, Counted'
    PROVE  SerialInv'
<1>1. /\ row \in Rows /\ row' \in Rows /\ line \in Lines
  BY SerialTypes, RowsNext
<1>2. \A x \in Transfers : row'[x] = IF x = t THEN r2 ELSE row[x]
  BY <1>1 DEF Put, Rows
<1>3. Good(t, row[t], moves[t].back, journal[t], cash[t])
  BY DEF SerialInv, AllGood
<1>4. row[t] = Blank
  BY <1>3 DEF Good
<1>5. Good(t, r2, moves[t].back, journal[t], cash[t])
  BY <1>3, <1>4, GoodAsked
<1>6. Good(t, r2, moves'[t].back, journal'[t], cash'[t])
  BY <1>5
<1>7. Alone(t)
  BY DEF Alone, OnlyIn
<1>8. Traced(line', row')
  <2>1. Traced(line, row)
    BY TracedIs DEF SerialInv
  <2>2. r2.meta.credit = Blank.meta.credit /\ r2.meta.repaid = Blank.meta.repaid
    BY DEF Blank
  <2>3. \A x \in Transfers : DebtOf(row'[x]) = DebtOf(row[x])
    BY <1>2, <1>4, <2>2 DEF DebtOf
  <2>4. line' \in Lines /\ \A u \in Users : line'[u].used <= line[u].used
    BY <1>1 DEF Lines, LineType
  <2> QED
    BY <1>1, <2>1, <2>3, <2>4, TracedSame
<1>9. DebtIsTraced'
  BY <1>8, TracedIs
<1>10. r2.status # "none"
  BY DEF Unsettled
<1> QED
  BY <1>6, <1>7, <1>9, <1>10, OneStep

LEMMA CreateStep ==
    ASSUME ExternalAssumption, IInv, IInv', SerialInv, NEW s \in Sessions, Create(s)
    PROVE  SerialInv'
<1> DEFINE t == sess[s].t
           u == OwnerOf[t]
<1>1. Serves(s, "create") /\ Done(s)
  BY DEF Create, CreateFunded, CreateFromBonus, CreateUnfunded
<1>2. /\ Busy' = {} /\ t \in Transfers /\ Fresh(sess[s]) /\ sess[s].op = "create"
      /\ sess[s].snap = row[t]
  BY <1>1, CommitFacts
<1>3. row[t].status = "none" /\ sess[s].n = used[u] /\ ~IsFunded(row[t])
  BY <1>2 DEF Fresh, IsFunded
<1>4. ASSUME NEW review \in BOOLEAN, CreateFromBonus(s, review) PROVE SerialInv'
  <2> DEFINE status == IF review THEN "pending" ELSE "approved"
             new == [Blank EXCEPT !.status = status]
  <2>1. /\ Put(t, new) /\ UNCHANGED <<line, moves, journal, cash>> /\ OnlyIn(t)
        /\ used' = [used EXCEPT ![u] = used[u] + Amount[t]]
    BY <1>3, <1>4 DEF CreateFromBonus, Books, World, OnlyIn
  <2>2. new.status \in Unsettled /\ new.meta = Blank.meta
    BY DEF Blank, Unsettled
  <2>3. Blank.meta = [Blank.meta EXCEPT !.pending = FALSE] /\ Blank.meta.pending = FALSE
    <3>1. Blank.meta.pending = FALSE
      BY DEF Blank
    <3>2. Blank.meta \in MetaType
      BY BlankFields
    <3> QED
      BY <3>1, <3>2 DEF MetaType
  <2> HIDE DEF new, t, u
  <2>4. IsFunded(new)
    BY <2>2, <2>3 DEF IsFunded, Unsettled
  <2>5. Counted'
    BY <1>2, <1>3, <2>1, <2>4, CountedJoins DEF SerialInv, u
  <2>6. new.meta = [Blank.meta EXCEPT !.pending = FALSE]
    BY <2>2, <2>3
  <2> QED
    BY <1>2, <1>3, <2>1, <2>2, <2>5, <2>6, AskedStep
<1>5. CASE CreateUnfunded(s)
  <2> DEFINE meta == [Blank.meta EXCEPT !.pending = TRUE]
             new == [[Blank EXCEPT !.status = "pending"] EXCEPT !.meta = meta]
  <2>1. /\ Put(t, new) /\ UNCHANGED <<line, moves, journal, cash>> /\ OnlyIn(t)
        /\ used' = used
    BY <1>5, BlankFields DEF CreateUnfunded, Purses, Books, World, OnlyIn, RowType
  <2>2. new.status \in Unsettled /\ new.meta = meta
    BY DEF Blank, Unsettled
  <2>3. meta.pending
    BY DEF Blank
  <2> HIDE DEF new
  <2>4. ~IsFunded(new)
    BY <2>2, <2>3 DEF IsFunded
  <2>5. row \in Rows
    BY SerialTypes
  <2> HIDE DEF t
  <2>6. \A x \in Transfers : row'[x] = IF x = t THEN new ELSE row[x]
    BY <2>1, <2>5 DEF Put, Rows
  <2>7. Counted'
    BY <1>3, <2>1, <2>4, <2>6, CountedSame DEF SerialInv
  <2> QED
    BY <1>2, <1>3, <2>1, <2>2, <2>7, AskedStep
<1> QED
  BY <1>4, <1>5, CreateFundedStep DEF Create

LEMMA ApproveStep ==
    ASSUME ExternalAssumption, IInv, IInv', SerialInv, NEW s \in Sessions, Approve(s)
    PROVE  SerialInv'
<1> DEFINE t == sess[s].t
           read == sess[s].snap
           u == OwnerOf[t]
           l == TopUp(line[u], Shortage(t))
           f == Terms(t, l)
           approved == [read EXCEPT !.status = "approved"]
<1>1. Serves(s, "approve") /\ Done(s)
  BY DEF Approve
<1>2. /\ Busy' = {} /\ t \in Transfers /\ Fresh(sess[s]) /\ sess[s].op = "approve"
      /\ read = row[t] /\ read \in RowType
      /\ Good(t, row[t], moves[t].back, journal[t], cash[t])
  BY <1>1, CommitFacts
<1>3. row[t].status \in Unsettled /\ row[t].status # "none"
  BY <1>2 DEF Fresh, Unsettled
<1>4. approved \in RowType /\ approved.meta = read.meta /\ approved.status = "approved"
  BY <1>2 DEF RowType, Status
<1>5. cash' = cash /\ OnlyIn(t)
  BY DEF Approve, World, OnlyIn
<1>6. CASE read.meta.pending
  <2> DEFINE m1 == [approved.meta EXCEPT !.pending = FALSE]
             m2 == [m1 EXCEPT !.debited = f.debit]
             meta == [m2 EXCEPT !.credit = f.credit]
             new == [approved EXCEPT !.meta = meta]
  <2>1. Put(t, SaveMeta(row[t], read, new))
    BY <1>4, <1>6 DEF Approve, RowType
  <2>2. /\ TakeFunds(t, f, l) /\ used' = [used EXCEPT ![u] = used[u] + Amount[t]]
    BY <1>6 DEF Approve, FundAtApproval
  <2>3. l.used = line[u].used
    BY DEF TopUp
  <2>4. u \in Users /\ Amount[t] \in Nat
    BY <1>2 DEF ExternalAssumption
  <2>5. line[u] \in LineType /\ wallet[u] \in Int
    BY <2>4 DEF IInv, LinesOK, BooksTyped
  <2>6. Affordable(t) \in Int
    BY <2>5 DEF Affordable, Capacity, LineType
  <2>7. Shortage(t) \in Nat
    BY <2>4, <2>6, PosIsNat DEF Shortage
  <2>8. l.avail \in Nat
    BY <2>5, <2>7 DEF TopUp, LineType
  <2>9. (u \in Bif) \in BOOLEAN
    OBVIOUS
  <2>10. f.debit \in Nat /\ f.credit \in Nat
    BY <2>4, <2>5, <2>8, <2>9, FundingWithinCredit DEF Terms
  <2> HIDE DEF f, l
  <2>11. row[t].meta.refunded = FALSE /\ row[t].meta.repaid = 0 /\ row[t].meta \in MetaType
    BY <1>2, <1>6, RowFields DEF Good
  <2>12. m1 \in MetaType /\ ~m1.refunded /\ m1.repaid = 0 /\ ~m1.pending
    BY <1>2, <1>4, <2>11 DEF MetaType
  <2> HIDE DEF m1
  <2>13. m2 \in MetaType /\ ~m2.refunded /\ m2.repaid = 0 /\ ~m2.pending
    BY <2>10, <2>12 DEF MetaType
  <2> HIDE DEF m2
  <2>14. /\ meta \in MetaType /\ ~meta.refunded /\ meta.repaid = 0 /\ ~meta.pending
         /\ meta.credit = f.credit
    BY <2>10, <2>13 DEF MetaType
  <2> HIDE DEF meta, approved
  <2>15. new \in RowType /\ new.meta = meta /\ new.status = "approved"
    BY <1>4, <2>14 DEF RowType
  <2> HIDE DEF new
  <2>16. Put(t, new)
    BY <1>2, <2>1, <2>15, SaveFresh
  <2>17. /\ new.status \in Unsettled /\ ~new.meta.pending /\ ~new.meta.refunded
         /\ new.meta.credit = f.credit /\ new.meta.repaid = 0
    BY <2>14, <2>15 DEF Unsettled
  <2> HIDE DEF t, read
  <2> QED
    BY <1>2, <1>3, <1>5, <1>6, <2>2, <2>3, <2>10, <2>16, <2>17, FundedStep
<1>7. CASE ~read.meta.pending
  <2>1. UNCHANGED <<line, moves, journal, used>> /\ Put(t, Save(row[t], read, approved))
    BY <1>7 DEF Approve
  <2> HIDE DEF approved
  <2>2. Put(t, approved)
    BY <1>2, <1>4, <2>1, SaveFresh
  <2> QED
    BY <1>2, <1>3, <1>4, <1>5, <2>1, <2>2, KeptStep
<1> QED
  BY <1>6, <1>7

LEMMA RepaidIs ==
    ASSUME NEW t \in Transfers, NEW n \in Nat, row[t] \in RowType
    PROVE  LET q == Repaid(t, n) IN
           /\ q.status \in {row[t].status, "repaid", "partially_repaid"}
           /\ q.meta.pending = row[t].meta.pending /\ q.meta.refunded = row[t].meta.refunded
           /\ q.meta.credit = row[t].meta.credit /\ q.meta.debited = row[t].meta.debited
           /\ q.meta.repaid = row[t].meta.repaid + n
<1> DEFINE r == row[t]
           status == IF r.status \notin Settled THEN r.status
                     ELSE IF n = Outstanding(t) THEN "repaid" ELSE "partially_repaid"
           k == [r EXCEPT !.status = status]
           mt == [k.meta EXCEPT !.repaid = k.meta.repaid + n]
<1>1. status \in {r.status, "repaid", "partially_repaid"}
  OBVIOUS
<1> HIDE DEF status
<1>2. k.meta = r.meta /\ k.status = status /\ k.meta \in MetaType
  BY RowFields DEF RowType
<1>3. Repaid(t, n) = [k EXCEPT !.meta = mt]
  BY DEF Repaid, k, mt, status
<1>4. DOMAIN k = {"status", "pstatus", "ref", "retries", "meta"}
  BY DEF RowType
<1> HIDE DEF k
<1>5. /\ mt.pending = r.meta.pending /\ mt.refunded = r.meta.refunded
      /\ mt.credit = r.meta.credit /\ mt.debited = r.meta.debited
      /\ mt.repaid = r.meta.repaid + n
  BY <1>2 DEF MetaType
<1> HIDE DEF mt
<1>6. [k EXCEPT !.meta = mt].meta = mt /\ [k EXCEPT !.meta = mt].status = k.status
  BY <1>4
<1> QED
  BY <1>1, <1>2, <1>3, <1>5, <1>6

\* what a repayment takes off the line it takes off the transfers
LEMMA DepositStep ==
    ASSUME ExternalAssumption, IInv, IInv', SerialInv, NEW s \in Sessions, Deposit(s)
    PROVE  SerialInv'
<1> DEFINE u == sess[s].u
           d == sess[s].d
           n == Recovered(line[u], d)
<1>1. sess[s] # None /\ s \in Busy /\ Done(s)
  BY DEF Deposit, Serves, Busy
<1>2. Busy' = {}
  BY <1>1, DoneFrees DEF SerialInv
<1>3. u \in Users /\ d \in Nat
  BY ServedFields, RequestFields DEF Deposit, ExternalAssumption
<1>4. row \in Rows /\ row' \in Rows /\ line \in Lines
  BY SerialTypes, RowsNext
<1>5. n \in Nat
  BY <1>3, <1>4, RecoverKeeps DEF Lines
<1>6. /\ line' = [line EXCEPT ![u] = Recover(line[u], d)]
      /\ UNCHANGED <<moves, journal, cash, used, provider, hooks>>
  BY DEF Deposit, Purses, World
<1>7. PICK split \in Splits(u, n) :
          row' = [t \in Transfers |->
                    IF t \in {x \in Owned(u) : split[x] > 0} THEN Repaid(t, split[t])
                                                            ELSE row[t]]
  BY DEF Deposit
<1> HIDE DEF n
<1>8. /\ \A x \in Owned(u) : split[x] \in Nat /\ split[x] <= Outstanding(x)
      /\ Total(split, Owned(u)) = Least(n, Total(Debts, Owned(u)))
  BY <1>5 DEF Splits, Exhausts
<1>9. \A x \in Transfers :
         row'[x] = IF x \in Owned(u) /\ split[x] > 0 THEN Repaid(x, split[x]) ELSE row[x]
  BY <1>7
<1>10. ASSUME NEW x \in Transfers
       PROVE  /\ Good(x, row'[x], moves[x].back, journal[x], cash[x])
              /\ IsFunded(row'[x]) <=> IsFunded(row[x])
              /\ row'[x].status = "none" => row[x].status = "none"
              /\ row[x].status = "none" => row'[x].status = "none"
              /\ x \in Owned(u) => DebtOf(row[x]) = DebtOf(row'[x]) + split[x]
              /\ x \notin Owned(u) => row'[x] = row[x]
  <2>1. Good(x, row[x], moves[x].back, journal[x], cash[x])
    BY DEF SerialInv, AllGood
  <2>2. row[x] \in RowType /\ DebtOf(row[x]) \in Nat
    BY <1>4, DebtIsNat DEF Rows
  <2>3. CASE ~(x \in Owned(u) /\ split[x] > 0)
    <3>1. row'[x] = row[x]
      BY <1>9, <2>3
    <3>2. x \in Owned(u) => split[x] = 0
      BY <1>8, <2>3
    <3> QED
      BY <2>1, <2>2, <3>1, <3>2
  <2>4. CASE x \in Owned(u) /\ split[x] > 0
    <3> DEFINE q == Repaid(x, split[x])
               r == row[x]
    <3>1. row'[x] = q /\ split[x] \in Nat /\ split[x] <= Outstanding(x)
      BY <1>8, <1>9, <2>4
    <3>2. /\ q.status \in {r.status, "repaid", "partially_repaid"}
          /\ q.meta.pending = r.meta.pending /\ q.meta.refunded = r.meta.refunded
          /\ q.meta.credit = r.meta.credit /\ q.meta.debited = r.meta.debited
          /\ q.meta.repaid = r.meta.repaid + split[x]
      BY <2>2, <3>1, RepaidIs
    <3>3. Outstanding(x) = DebtOf(r)
      BY DEF Outstanding, DebtOf
    <3>4. r.meta.credit \in Nat /\ r.meta.repaid \in Nat
      BY <2>2, RowFields
    <3>5. r.meta.credit > 0 /\ r.meta.credit - r.meta.repaid >= split[x]
      BY <2>4, <3>1, <3>3, <3>4 DEF DebtOf, Pos
    <3> HIDE DEF q
    <3>6. Good(x, q, moves[x].back, journal[x], cash[x]) /\ r.status # "none" /\ q.status # "none"
      BY <2>1, <2>2, <3>2, <3>5, GoodRepaid
    <3>7. IsFunded(q) <=> IsFunded(r)
      BY <3>2, <3>6 DEF IsFunded
    <3>8. DebtOf(r) = DebtOf(q) + split[x]
      BY <2>4, <3>1, <3>2, <3>4, <3>5 DEF DebtOf, Pos
    <3> QED
      BY <2>4, <3>1, <3>6, <3>7, <3>8
  <2> QED
    BY <2>3, <2>4
<1>11. AllGood'
  BY <1>6, <1>10 DEF AllGood
<1>12. Known'
  <2>1. \A h \in hooks : h.t \in Transfers
    BY DEF IInv, HooksOK
  <2> QED
    BY <1>6, <1>10, <2>1 DEF Known, SerialInv
<1>13. Counted'
  BY <1>6, <1>10, CountedSame DEF SerialInv
<1>14. Traced(line', row')
  <2>1. Traced(line, row)
    BY TracedIs DEF SerialInv
  <2>2. Total(Debts, Owned(u)) \in Nat
    <3>1. \A x \in Owned(u) : Debts[x] \in Nat
      BY <1>4, DebtIsNat DEF Debts, Outstanding, DebtOf, Owned, Rows
    <3>2. IsFiniteSet(Owned(u))
      BY OwnedIsSubset, TransfersAreFinite, FS_Subset
    <3> QED
      BY <3>1, <3>2, PairsAreFinite
  <2>3. Total(split, Owned(u)) <= n
    BY <1>5, <1>8, <2>2, LeastIsNat
  <2>4. Recover(line[u], d).used = line[u].used - n
    BY DEF Recover, n
  <2>5. UsedLess(line, line', u, n)
    BY <1>3, <1>4, <1>6, <2>4 DEF UsedLess, Lines
  <2>6. \A x \in Owned(u) : split[x] \in Nat /\ DebtOf(row[x]) = DebtOf(row'[x]) + split[x]
    BY <1>8, <1>10 DEF Owned
  <2>7. \A x \in Transfers : x \notin Owned(u) => row'[x] = row[x]
    BY <1>10
  <2> HIDE DEF u
  <2> QED
    BY <1>3, <1>4, <1>5, <2>1, <2>3, <2>5, <2>6, <2>7, TracedPaid
<1>15. DebtIsTraced'
  BY <1>14, TracedIs
<1> QED
  BY <1>2, <1>11, <1>12, <1>13, <1>15, NoneIsOneByOne DEF SerialInv

\* a request that starts when none runs is the only one, and has read what is there
LEMMA BeginStep ==
    ASSUME Width = 1, IInv, SerialInv, NEW s \in Sessions, NEW q, Begin(s, q), Fresh(q),
           UNCHANGED <<row, wallet, line, Purses, Books, cash, World, tasks, faults>>
    PROVE  SerialInv'
<1>1. Busy = {} /\ sess' = [sess EXCEPT ![s] = q]
  BY NoneIsBusy DEF Begin, SerialInv
<1>2. sess \in [Sessions -> Requests \union {None}]
  BY DEF IInv, SessOK
<1>3. \A p \in Sessions : sess'[p] # None => p = s
  BY <1>1, <1>2 DEF Busy
<1>4. sess'[s] = q
  BY <1>1, <1>2
<1>5. UNCHANGED <<row, line, moves, journal, cash, used, provider, hooks>>
  BY DEF Purses, Books, World
<1>6. Fresh(sess[s])'
  BY <1>4, <1>5 DEF Fresh
<1>7. OneByOne'
  BY <1>3, <1>6 DEF OneByOne, Busy
<1>8. Known'
  BY <1>5 DEF Known, SerialInv
<1> QED
  BY <1>5, <1>7, <1>8, SameRowsStep

LEMMA StartStep ==
    ASSUME Width = 1, IInv, SerialInv, NEW s \in Sessions, StartRequest(s)
    PROVE  SerialInv'
<1>1. row \in Rows /\ Known
  BY SerialTypes DEF SerialInv
<1>2. ASSUME NEW t \in Transfers, StartCreate(s, t)
      PROVE  SerialInv'
  <2> DEFINE q == Request("create", t, row[t], None, used[OwnerOf[t]])
  <2>1. Begin(s, q) /\ row[t].status = "none"
    BY <1>2 DEF StartCreate
  <2>2. Fresh(q)
    BY <2>1 DEF Fresh, Request
  <2>3. UNCHANGED <<row, wallet, line, Purses, Books, cash, World, tasks, faults>>
    BY <1>2 DEF StartCreate
  <2> HIDE DEF q
  <2> QED
    BY <2>1, <2>2, <2>3, BeginStep
<1>3. ASSUME NEW t \in Transfers, StartApprove(s, t)
      PROVE  SerialInv'
  <2> DEFINE q == Request("approve", t, row[t], None, 0)
  <2>1. Begin(s, q) /\ row[t].status # "none" /\ CanMove(row[t].status, "approved")
    BY <1>3 DEF StartApprove
  <2>2. row[t].status \in Unsettled
    BY <1>1, <2>1 DEF CanMove, Allowed, Unsettled, Rows, RowType, Status
  <2>3. Fresh(q)
    BY <2>2 DEF Fresh, Request
  <2>4. UNCHANGED <<row, wallet, line, Purses, Books, cash, World, tasks, faults>>
    BY <1>3 DEF StartApprove
  <2> HIDE DEF q
  <2> QED
    BY <2>1, <2>3, <2>4, BeginStep
<1>4. ASSUME NEW t \in Transfers, NEW a \in Agents, StartClose(s, t, a)
      PROVE  SerialInv'
  <2> DEFINE q == Request("close", t, row[t], a, till[a])
  <2>1. Begin(s, q) /\ row[t].status = "approved"
    BY <1>4 DEF StartClose
  <2>2. Fresh(q)
    BY <2>1 DEF Fresh, Request
  <2>3. UNCHANGED <<row, wallet, line, Purses, Books, cash, World, tasks, faults>>
    BY <1>4 DEF StartClose
  <2> HIDE DEF q
  <2> QED
    BY <2>1, <2>2, <2>3, BeginStep
<1>5. ASSUME NEW t \in Transfers, NEW status \in {"succeeded", "failed"},
             StartUpdate(s, t, status)
      PROVE  SerialInv'
  <2> DEFINE q == Request("update", t, row[t], status, 0)
  <2>1. Begin(s, q) /\ row[t].status # "none"
    BY <1>5 DEF StartUpdate
  <2>2. Fresh(q)
    BY <2>1 DEF Fresh, Request
  <2>3. UNCHANGED <<row, wallet, line, Purses, Books, cash, World, tasks, faults>>
    BY <1>5 DEF StartUpdate
  <2> HIDE DEF q
  <2> QED
    BY <2>1, <2>2, <2>3, BeginStep
<1>6. ASSUME NEW h \in hooks, StartWebhook(s, h)
      PROVE  SerialInv'
  <2> DEFINE q == Request("webhook", h.t, row[h.t], h.status, 0)
  <2>1. Begin(s, q) /\ row[h.t].status # "none"
    BY <1>1, <1>6 DEF StartWebhook, Known
  <2>2. Fresh(q)
    BY <2>1 DEF Fresh, Request
  <2>3. UNCHANGED <<row, wallet, line, Purses, Books, cash, World, tasks, faults>>
    BY <1>6 DEF StartWebhook
  <2> HIDE DEF q
  <2> QED
    BY <2>1, <2>2, <2>3, BeginStep
<1>7. ASSUME NEW u \in Users, NEW d \in Deposits, StartDeposit(s, u, d)
      PROVE  SerialInv'
  <2> DEFINE q == [op |-> "deposit", u |-> u, d |-> d, n |-> wallet[u]]
  <2>1. Begin(s, q)
    BY <1>7 DEF StartDeposit
  <2>2. Fresh(q)
    BY DEF Fresh
  <2>3. UNCHANGED <<row, wallet, line, Purses, Books, cash, World, tasks, faults>>
    BY <1>7 DEF StartDeposit
  <2> HIDE DEF q
  <2> QED
    BY <2>1, <2>2, <2>3, BeginStep
<1> QED
  BY <1>2, <1>3, <1>4, <1>5, <1>6, <1>7 DEF StartRequest

LEMMA AbortStep ==
    ASSUME IInv, SerialInv, NEW s \in Sessions, Abort(s)
    PROVE  SerialInv'
<1>1. Busy' = {}
  BY DoneFrees DEF Abort, SerialInv
<1>2. UNCHANGED <<row, line, moves, journal, cash, used, provider, hooks>>
  BY DEF Abort, Purses, Books, World
<1>3. Known'
  BY <1>2 DEF Known, SerialInv
<1> QED
  BY <1>1, <1>2, <1>3, NoneIsOneByOne, SameRowsStep

LEMMA RestartStep ==
    ASSUME SerialInv, Restart
    PROVE  SerialInv'
<1>1. Busy' = {}
  BY DEF Restart, Busy
<1>2. UNCHANGED <<row, line, moves, journal, cash, used, provider, hooks>>
  BY DEF Restart, Purses, Books, World
<1>3. Known'
  BY <1>2 DEF Known, SerialInv
<1> QED
  BY <1>1, <1>2, <1>3, NoneIsOneByOne, SameRowsStep

\* the requests and what they read are as they were
LEMMA SameSessions ==
    ASSUME OneByOne, UNCHANGED <<sess, row, used>> PROVE OneByOne'
<1>1. Busy' = Busy
  BY DEF Busy
<1>2. \A s \in Busy : Fresh(sess[s])'
  BY DEF OneByOne, Fresh
<1> QED
  BY <1>1, <1>2 DEF OneByOne

\* the provider decides on transfers that it accepted, which exist
LEMMA DecideStep ==
    ASSUME IInv, SerialInv, NEW t \in Transfers, Decide(t)
    PROVE  SerialInv'
<1>1. PICK p \in {"paid", "rejected"} :
          /\ provider' = [provider EXCEPT ![t] = p]
          /\ hooks' = hooks \union {Verdict(t, p)}
  BY DEF Decide
<1>2. UNCHANGED <<row, line, moves, journal, cash, used, sess>>
  BY DEF Decide, Purses, Books
<1>3. provider[t] = "accepted" /\ provider \in [Transfers -> {"none", "accepted", "paid", "rejected"}]
  BY DEF Decide, IInv, ProviderOK
<1>4. row[t].status # "none" /\ Known
  BY <1>3 DEF Known, SerialInv
<1>5. Verdict(t, p).t = t
  BY DEF Verdict
<1>6. Known'
  BY <1>1, <1>2, <1>3, <1>4, <1>5 DEF Known
<1>7. OneByOne'
  BY <1>2, SameSessions DEF SerialInv
<1> QED
  BY <1>2, <1>6, <1>7, SameRowsStep

LEMMA StutterStep == ASSUME SerialInv, UNCHANGED vars PROVE SerialInv'
<1>1. UNCHANGED <<row, line, moves, journal, cash, used, sess, provider, hooks>>
  BY DEF vars
<1>2. Known'
  BY <1>1 DEF Known, SerialInv
<1> QED
  BY <1>1, <1>2, SameSessions, SameRowsStep DEF SerialInv

LEMMA NextKeepsSerial ==
    ASSUME ExternalAssumption, Width = 1, IInv, IInv', SerialInv, Next
    PROVE  SerialInv'
<1>1. ASSUME NEW s \in Sessions, Commit(s)
      PROVE  SerialInv'
  BY <1>1, CreateStep, ApproveStep, CloseStep, UpdateStep, WebhookStep, DepositStep DEF Commit
<1>2. ASSUME NEW s \in Sessions, StartRequest(s) \/ Abort(s)
      PROVE  SerialInv'
  BY <1>2, StartStep, AbortStep
<1>3. ASSUME NEW t \in Transfers,
             Dispatch(t) \/ Resend(t) \/ Poll(t) \/ PollFails(t) \/ Decide(t)
      PROVE  SerialInv'
  BY <1>3, WorkStep, DecideStep
<1> QED
  BY <1>1, <1>2, <1>3, RestartStep DEF Next

LEMMA InitSerial == ASSUME ExternalAssumption, Init PROVE SerialInv
<1>1. \A t \in Transfers : row[t] = Blank /\ moves[t].back = 0 /\ cash[t] = 0
                           /\ journal[t].fund = 0 /\ journal[t].refund = 0
                           /\ provider[t] = "none"
  BY DEF Init
<1>2. /\ Blank.status = "none" /\ Blank.meta.pending = FALSE /\ Blank.meta.refunded = FALSE
      /\ Blank.meta.credit = 0 /\ Blank.meta.repaid = 0
  BY DEF Blank
<1>3. AllGood
  BY <1>1, <1>2 DEF AllGood, Good
<1>4. Known
  BY <1>1 DEF Known, Init
<1>5. OneByOne
  BY DEF OneByOne, Busy, Init
<1>6. ASSUME NEW u \in Users PROVE used[u] = Total(Amount, Funded(u))
  <2>1. Funded(u) = {}
    BY <1>1, <1>2 DEF Funded, IsFunded, Owned
  <2>2. used[u] = 0
    BY DEF Init
  <2> QED
    BY <2>1, <2>2, TotalOfNone
<1>7. ASSUME NEW u \in Users PROVE line[u].used <= Total(Debts, Owned(u))
  <2> DEFINE S == Owned(u)
             f == Debts
  <2>1. \A x \in S : f[x] = 0
    BY <1>1, <1>2 DEF Debts, Outstanding, Owned, Pos
  <2>2. line[u].used = 0
    BY DEF Init
  <2> HIDE DEF S, f
  <2>3. Total(f, S) = 0
    BY <2>1, TotalOfZeros
  <2> QED
    BY <2>2, <2>3 DEF S, f
<1> QED
  BY <1>3, <1>4, <1>5, <1>6, <1>7 DEF SerialInv, Counted, DebtIsTraced

\* The inductive invariant of requests and worker turns that do not overlap: what
\* each transfer's row, journals, payouts and refunds tell of each other, what the
\* counters and lines owe to the rows, and that no request works on what is stale.
THEOREM SerialInvariance == (Width = 1) => (Spec => []SerialInv)
<1>1. Init => SerialInv
  BY InitSerial, ExternalAssumption
<1>2. Width = 1 /\ IInv /\ IInv' /\ SerialInv /\ [Next]_vars => SerialInv'
  BY NextKeepsSerial, StutterStep, ExternalAssumption
<1>3. SUFFICES ASSUME Width = 1 PROVE Spec => []SerialInv
  OBVIOUS
<1>4. IInv /\ IInv' /\ SerialInv /\ [Next]_vars => SerialInv'
  BY <1>2, <1>3
<1> QED
  BY <1>1, <1>4, InductiveInvariant, PTL DEF Spec

\* Served one at a time, requests fund a transfer once, refund it in the ledger
\* once, hand out its cash once and count it once against the daily limit.
THEOREM MovedOnceSerially == (Width = 1) => (Spec => []MovedOnce)
<1>1. SerialInv => MovedOnce
  <2> SUFFICES ASSUME SerialInv PROVE MovedOnce
    OBVIOUS
  <2>1. ASSUME NEW t \in Transfers
        PROVE  journal[t].fund <= 1 /\ journal[t].refund <= 1 /\ cash[t] <= 1
    <3>1. Good(t, row[t], moves[t].back, journal[t], cash[t])
      BY DEF SerialInv, AllGood
    <3> QED
      BY <3>1 DEF Good
  <2> QED
    BY <2>1 DEF MovedOnce, SerialInv, Counted, Funded, IsFunded
<1> QED
  BY <1>1, SerialInvariance, PTL

\* Served one at a time, no refund reaches a wallet without a journal, unless the
\* recorded parts of the transfer do not add up to its amount.
THEOREM RefundsAreJournaled == (Width = 1) => (Spec => []RefundIsJournaled)
<1>1. SerialInv => RefundIsJournaled
  <2> SUFFICES ASSUME SerialInv, NEW t \in Transfers, moves[t].back > 0,
                      Refundable(t, row[t].meta)
               PROVE  journal[t].refund > 0
    BY DEF RefundIsJournaled
  <2>1. Good(t, row[t], moves[t].back, journal[t], cash[t])
    BY DEF SerialInv, AllGood
  <2> QED
    BY <2>1 DEF Good
<1> QED
  BY <1>1, SerialInvariance, PTL

\* Served one at a time, no client owes his line more than his transfers show as
\* outstanding, through top-ups, refunds, repeated half refunds and deposits.
THEOREM DebtsAreTraced == (Width = 1) => (Spec => []DebtIsTraced)
<1>1. SerialInv => DebtIsTraced
  BY DEF SerialInv
<1> QED
  BY <1>1, SerialInvariance, PTL
=============================================================================
