----------------------- MODULE EscrowSettlementProofs -----------------------
(***************************************************************************)
(* Proofs about EscrowSettlement, for every set of orders, agents,         *)
(* sessions and assignment ids, and every daily limit.                     *)
(***************************************************************************)
EXTENDS EscrowSettlement, FiniteSetTheorems, TLAPS

(***************************************************************************)
(* The table of handlers.                                                  *)
(***************************************************************************)

LEMMA RefundSources ==
    /\ {t \in Status : Valid(t, "REFUND_PENDING")}
         = {"FUNDED", "SWAPPED", "PAYOUT_PENDING", "REFUND_PENDING"}
    /\ {t \in Status : Valid(t, "REFUNDED")} = {"REFUND_PENDING", "REFUNDED"}
BY DEF Valid, Allowed, Status

LEMMA HandlerFields ==
    ASSUME NEW h \in Handlers
    PROVE  /\ h.orders \subseteq Orders
           /\ h.from \subseteq Status
           /\ h.to \in Status
           /\ h.event \in Events \union {NoEvent}
BY SettlementAssumption DEF Handlers, Handler, MarkPaid, ConfirmFiatIn, ConfirmCryptoRelease,
       MarkPayoutPending, ConfirmPaidOut, RequestRefund, ConfirmRefund, SimulateSwap,
       SandboxFund, SandboxSwap, SandboxPayout, AutoTransitions,
       Status, Events

\* a handler of real orders starts from a status that only a funded order has
LEMMA RealSources ==
    ASSUME NEW h \in Handlers, NEW o \in h.orders, o \notin Sandbox, NEW t \in h.from
    PROVE  t \notin {"CREATED", "CANCELLED", "PAID_OUT"}
BY RefundSources
   DEF Handlers, Handler, MarkPaid, ConfirmFiatIn, ConfirmCryptoRelease,
       MarkPayoutPending, ConfirmPaidOut, RequestRefund, ConfirmRefund, SimulateSwap,
       SandboxFund, SandboxSwap, SandboxPayout, AutoTransitions

(***************************************************************************)
(* Type correctness.                                                       *)
(***************************************************************************)

LEMMA IdleType == Idle \in SessionType
BY DEF Idle, SessionType, Points

LEMMA SessionUpdates ==
    ASSUME NEW r \in SessionType, NEW l \in Points
    PROVE  /\ [r EXCEPT !.at = l] \in SessionType
           /\ \A a \in Agents : [r EXCEPT !.at = l, !.agent = a] \in SessionType
           /\ \A i \in Ids : [r EXCEPT !.at = l, !.id = i] \in SessionType
           /\ \A o \in Orders : [r EXCEPT !.at = l, !.order = o] \in SessionType
           /\ \A o \in Orders, i \in Ids :
                 [r EXCEPT !.at = l, !.order = o, !.id = i] \in SessionType
           /\ \A o \in Orders, h \in Handlers, t \in Status :
                 [r EXCEPT !.at = l, !.order = o, !.job = h, !.seen = t] \in SessionType
BY DEF SessionType

LEMMA TypeInit == Init => TypeOK
BY IdleType DEF Init, TypeOK, Status

LEMMA FlushType ==
    ASSUME TypeOK, SessionsKnow, NEW p \in Sessions, Flush(p),
           sess[p].at \in {"check", "post", "write"}
    PROVE  /\ status' \in [Orders -> Status]
           /\ payouts' \in [Orders -> Nat]
           /\ sess' \in [Sessions -> SessionType]
<1>1. sess[p] \in SessionType /\ sess[p].job \in Handlers
  BY DEF TypeOK, SessionsKnow, Fits
<1>2. sess[p].job.to \in Status
  BY <1>1, HandlerFields
<1>3. status' \in [Orders -> Status]
  <2>1. [status EXCEPT ![sess[p].order] = sess[p].job.to] \in [Orders -> Status]
    BY <1>2 DEF TypeOK
  <2> QED BY <2>1 DEF Flush, TypeOK
<1>5. payouts' \in [Orders -> Nat]
  <2>1. sess[p].order \in Orders
    BY DEF SessionsKnow, Fits
  <2>2. [payouts EXCEPT ![sess[p].order] = @ + 1] \in [Orders -> Nat]
    BY <2>1 DEF TypeOK
  <2> QED BY <2>2 DEF Flush, TypeOK
<1>4. sess' \in [Sessions -> SessionType]
  <2>1. CASE After(sess[p].job) = "idle"
    BY <2>1, IdleType DEF Flush, Finish, TypeOK
  <2>2. CASE After(sess[p].job) # "idle"
    <3>1. After(sess[p].job) = "assign"
      BY <2>2 DEF After
    <3>2. sess' = [sess EXCEPT ![p].at = "assign"]
      BY <2>2, <3>1 DEF Flush, Goto
    <3>3. [sess[p] EXCEPT !.at = "assign"] \in SessionType
      BY <1>1, SessionUpdates DEF Points
    <3> QED BY <3>2, <3>3 DEF TypeOK
  <2> QED BY <2>1, <2>2
<1> QED BY <1>3, <1>4, <1>5

LEMMA TypeStep == TypeOK /\ SessionsKnow /\ SessionsTraced /\ [Next]_vars => TypeOK'
<1> SUFFICES ASSUME TypeOK, SessionsKnow, SessionsTraced, [Next]_vars PROVE TypeOK'
  OBVIOUS
<1>1. ASSUME NEW p \in Sessions, NEW o \in Orders, NEW h \in Handlers, Start(p, o, h) PROVE TypeOK'
  <2>1. h.to \in Status /\ status[o] \in Status
    BY HandlerFields DEF TypeOK
  <2>2. \A l \in Points :
          [Idle EXCEPT !.at = l, !.order = o, !.job = h, !.seen = status[o]] \in SessionType
    BY <2>1, IdleType, SessionUpdates
  <2> QED BY <1>1, <2>2 DEF Start, TypeOK, Points
<1>2. ASSUME NEW p \in Sessions, NEW o \in Orders, Deposit(p, o) PROVE TypeOK'
  <2>1. book' \in [Orders -> Seq(Events)]
    <3>1. <<"FUND">> \in Seq(Events)
      BY DEF Events
    <3> QED BY <1>2, <3>1 DEF Deposit, TypeOK
  <2>2. sess' \in [Sessions -> SessionType]
    <3>1. [Idle EXCEPT !.at = "assign", !.order = o] \in SessionType
      BY IdleType, SessionUpdates DEF Points
    <3> QED BY <1>2, <3>1 DEF Deposit, TypeOK
  <2>3. status' \in [Orders -> Status]
    BY <1>2 DEF Deposit, TypeOK, Status
  <2> QED BY <1>2, <2>1, <2>2, <2>3 DEF Deposit, TypeOK
<1>3. ASSUME NEW p \in Sessions, NEW o \in Orders, Initiate(p, o) PROVE TypeOK'
  BY <1>3, IdleType, SessionUpdates DEF Initiate, TypeOK, Points
<1>4. ASSUME NEW p \in Sessions, NEW i \in Ids, ReadConfirm(p, i) PROVE TypeOK'
  <2>1. rows[i].order \in Orders
    BY <1>4 DEF ReadConfirm, TypeOK, AssignmentType
  <2>2. [Idle EXCEPT !.at = "pay", !.order = rows[i].order, !.id = i] \in SessionType
    BY <2>1, IdleType, SessionUpdates DEF Points
  <2>3. sess' \in [Sessions -> SessionType]
    BY <1>4, <2>2 DEF ReadConfirm, TypeOK
  <2> QED BY <1>4, <2>3 DEF ReadConfirm, TypeOK
<1>5. ASSUME NEW p \in Sessions, CheckJournal(p) PROVE TypeOK'
  BY <1>5, SessionUpdates DEF CheckJournal, Goto, TypeOK, Points
<1>6. ASSUME NEW p \in Sessions, PostJournal(p) PROVE TypeOK'
  <2>1. sess[p].order \in Orders /\ sess[p].job.event \in Events
    BY <1>6 DEF PostJournal, At, SessionsKnow, Fits
  <2>2. book' \in [Orders -> Seq(Events)]
    BY <1>6, <2>1 DEF PostJournal, TypeOK
  <2> QED BY <1>6, <2>2, FlushType DEF PostJournal, At, TypeOK
<1>7. ASSUME NEW p \in Sessions, Write(p) PROVE TypeOK'
  BY <1>7, FlushType DEF Write, At, TypeOK
<1>8. ASSUME NEW p \in Sessions, ReadAssignment(p) PROVE TypeOK'
  BY <1>8, IdleType, SessionUpdates DEF ReadAssignment, TypeOK, Points
<1>9. ASSUME NEW p \in Sessions, Reuse(p) PROVE TypeOK'
  BY <1>9, IdleType DEF Reuse, MakePending, Finish, TypeOK, Status
<1>10. ASSUME NEW p \in Sessions, PickAgent(p) PROVE TypeOK'
  <2>1. \A a \in Eligible : [sess[p] EXCEPT !.at = "reserve", !.agent = a] \in SessionType
    BY SessionUpdates DEF Eligible, TypeOK, Points
  <2> QED BY <1>10, <2>1, IdleType DEF PickAgent, Finish, TypeOK
<1>11. ASSUME NEW p \in Sessions, Reserve(p) PROVE TypeOK'
  <2>1. [order |-> sess[p].order, agent |-> sess[p].agent] \in Reservation
    BY <1>11 DEF Reserve, At, SessionsKnow, Fits, Reservation
  <2>2. \A i \in Ids : [sess[p] EXCEPT !.at = "book", !.id = i] \in SessionType
    BY SessionUpdates DEF TypeOK, Points
  <2>3. PICK i \in Ids :
          /\ reserve' = [reserve EXCEPT ![i] =
                           [order |-> sess[p].order, agent |-> sess[p].agent]]
          /\ sess' = [sess EXCEPT ![p] = [@ EXCEPT !.at = "book", !.id = i]]
    BY <1>11 DEF Reserve
  <2>4. sess' \in [Sessions -> SessionType]
    BY <2>2, <2>3 DEF TypeOK
  <2>5. reserve' \in [Ids -> Reservation \union {None}]
    BY <2>1, <2>3 DEF TypeOK
  <2> QED BY <1>11, <2>4, <2>5 DEF Reserve, TypeOK
<1>12. ASSUME NEW p \in Sessions, UpdateAgent(p) PROVE TypeOK'
  BY <1>12, SessionUpdates DEF UpdateAgent, Goto, TypeOK, Points
<1>13. ASSUME NEW p \in Sessions, CommitAssignment(p) PROVE TypeOK'
  <2>1. /\ sess[p].order \in Orders /\ sess[p].agent \in Agents
        /\ sess[p].id \in Ids
    BY <1>13 DEF CommitAssignment, At, SessionsKnow, Fits
  <2>2. rows' \in [Ids -> AssignmentType \union {None}]
    BY <1>13, <2>1 DEF CommitAssignment, TypeOK, AssignmentType
  <2>3. status' \in [Orders -> Status]
    BY <1>13 DEF CommitAssignment, MakePending, TypeOK, Status
  <2>4. used' \in [Agents -> Nat]
    BY <1>13, <2>1 DEF CommitAssignment, TypeOK
  <2>5. sess' \in [Sessions -> SessionType]
    BY <1>13, IdleType DEF CommitAssignment, Finish, TypeOK
  <2> QED BY <1>13, <2>2, <2>3, <2>4, <2>5 DEF CommitAssignment, TypeOK
<1>14. ASSUME NEW p \in Sessions, Pay(p) PROVE TypeOK'
  <2>1. sess[p].id \in Ids /\ rows[sess[p].id] \in AssignmentType
    BY <1>14 DEF Pay, At, SessionsKnow, Fits, SessionsTraced, TypeOK
  <2>2. rows' \in [Ids -> AssignmentType \union {None}]
    BY <1>14, <2>1 DEF Pay, TypeOK, AssignmentType
  <2>3. sess' \in [Sessions -> SessionType]
    BY <1>14, SessionUpdates DEF Pay, Goto, TypeOK, Points
  <2> QED BY <1>14, <2>1, <2>2, <2>3 DEF Pay, TypeOK
<1>15. ASSUME NEW p \in Sessions, Settle(p) PROVE TypeOK'
  BY <1>15, IdleType DEF Settle, Finish, TypeOK, Status
<1>16. ASSUME NEW p \in Sessions, Fail(p) PROVE TypeOK'
  BY <1>16, IdleType DEF Fail, Finish, TypeOK
<1>u. CASE UNCHANGED vars
  BY <1>u DEF vars, TypeOK
<1> QED
  BY <1>1, <1>2, <1>3, <1>4, <1>5, <1>6, <1>7, <1>8,
     <1>9, <1>10, <1>11, <1>12, <1>13, <1>14, <1>15, <1>16,
     <1>u DEF Next, Continue, Assign

(***************************************************************************)
(* The inductive invariant, part by part.                                  *)
(***************************************************************************)

LEMMA CountInit == Init => UsedIsAssigned /\ BookedWithinLimit
<1> SUFFICES ASSUME Init PROVE UsedIsAssigned /\ BookedWithinLimit
  OBVIOUS
<1>1. \A a \in Agents : AssignedTo(a) = {} /\ used[a] = 0
  BY DEF Init, AssignedTo
<1>2. \A a \in Agents : Booking(a) = {}
  BY DEF Init, Booking, Idle
<1>3. IsFiniteSet({}) /\ Cardinality({}) = 0
  BY FS_EmptySet
<1>4. Cardinality(Sessions) \in Nat
  BY SettlementAssumption, FS_CardinalityType
<1>5. UsedIsAssigned
  BY <1>1, <1>3 DEF UsedIsAssigned
<1>6. BookedWithinLimit
  BY <1>1, <1>2, <1>3, <1>4, SettlementAssumption DEF BookedWithinLimit
<1> QED BY <1>5, <1>6

LEMMA InvInit == Init => SettlementInv
<1> SUFFICES ASSUME Init PROVE SettlementInv
  OBVIOUS
<1>1. \A p \in Sessions : sess[p].at = "idle"
  BY DEF Init, Idle
<1>2. SessionsKnow /\ SessionsOwnIds /\ SessionsTraced
  BY <1>1 DEF SessionsKnow, Fits, SessionsOwnIds, SessionsTraced
<1>3. LedgerMatchesRows
  BY DEF Init, LedgerMatchesRows
<1>4. MoneyIsTraced
  BY DEF Init, MoneyIsTraced, Traced
<1> QED BY <1>2, <1>3, <1>4, CountInit DEF SettlementInv

\* where a commit of a handler leaves its session
LEMMA FlushSession ==
    ASSUME TypeOK, NEW p \in Sessions, Flush(p)
    PROVE  /\ sess'[p] = Idle \/ sess'[p] = [sess[p] EXCEPT !.at = "assign"]
           /\ \A q \in Sessions : q # p => sess'[q] = sess[q]
BY DEF Flush, Finish, Goto, After, TypeOK


LEMMA FitsIdle == Fits(Idle)
BY DEF Fits, Idle

LEMMA FitsMoved ==
    ASSUME NEW r \in SessionType, Fits(r), r.at # "idle"
    PROVE  /\ \A l \in {"assign", "reuse", "pick"} : Fits([r EXCEPT !.at = l])
           /\ r.at = "check" => /\ Fits([r EXCEPT !.at = "post"])
                                /\ Fits([r EXCEPT !.at = "write"])
           /\ \A a \in Agents : Fits([r EXCEPT !.at = "reserve", !.agent = a])
           /\ r.at = "reserve" =>
                 \A i \in Ids : Fits([r EXCEPT !.at = "book", !.id = i])
           /\ r.at = "book" => Fits([r EXCEPT !.at = "commit"])
           /\ r.at = "pay" => Fits([r EXCEPT !.at = "settle"])
BY DEF Fits, SessionType

LEMMA KnowStep == TypeOK /\ SessionsKnow /\ [Next]_vars => SessionsKnow'
<1> SUFFICES ASSUME TypeOK, SessionsKnow, [Next]_vars PROVE SessionsKnow'
  OBVIOUS
<1> USE DEF TypeOK, SessionsKnow, At, Goto, Finish
<1>1. ASSUME NEW p \in Sessions, NEW o \in Orders, NEW h \in Handlers, Start(p, o, h) PROVE SessionsKnow'
  <2>1. Fits(sess'[p])
    BY <1>1, HandlerFields DEF Start, Fits, Idle, NoEvent
  <2>2. \A q \in Sessions : q # p => sess'[q] = sess[q]
    BY <1>1 DEF Start
  <2> QED BY <2>1, <2>2
<1>2. ASSUME NEW p \in Sessions, NEW o \in Orders, Deposit(p, o) PROVE SessionsKnow'
  <2>1. sess'[p] = sess[p] \/ sess'[p] = [Idle EXCEPT !.at = "assign", !.order = o]
    BY <1>2 DEF Deposit
  <2>2. Fits([Idle EXCEPT !.at = "assign", !.order = o])
    BY DEF Fits, Idle
  <2>3. \A q \in Sessions : q # p => sess'[q] = sess[q]
    BY <1>2 DEF Deposit
  <2> QED BY <2>1, <2>2, <2>3
<1>3. ASSUME NEW p \in Sessions, NEW o \in Orders, Initiate(p, o) PROVE SessionsKnow'
  <2>1. Fits(sess'[p])
    BY <1>3 DEF Initiate, Fits, Idle
  <2>2. \A q \in Sessions : q # p => sess'[q] = sess[q]
    BY <1>3 DEF Initiate
  <2> QED BY <2>1, <2>2
<1>4. ASSUME NEW p \in Sessions, NEW i \in Ids, ReadConfirm(p, i) PROVE SessionsKnow'
  <2>1. rows[i].order \in Orders
    BY <1>4 DEF ReadConfirm, AssignmentType
  <2>2. Fits(sess'[p])
    BY <1>4, <2>1 DEF ReadConfirm, Fits, Idle
  <2>3. \A q \in Sessions : q # p => sess'[q] = sess[q]
    BY <1>4 DEF ReadConfirm
  <2> QED BY <2>2, <2>3
<1>5. ASSUME NEW p \in Sessions, CheckJournal(p) PROVE SessionsKnow'
  <2>1. Fits(sess'[p])
    BY <1>5, FitsIdle, FitsMoved DEF CheckJournal
  <2>2. \A q \in Sessions : q # p => sess'[q] = sess[q]
    BY <1>5 DEF CheckJournal
  <2> QED BY <2>1, <2>2
<1>6. ASSUME NEW p \in Sessions, PostJournal(p) PROVE SessionsKnow'
  <2>1. Fits(sess'[p])
    <3>1. sess[p].at # "idle"
      BY <1>6 DEF PostJournal
    <3>2. Fits([sess[p] EXCEPT !.at = "assign"])
      BY <3>1, FitsMoved
    <3> QED BY <1>6, <3>2, FlushSession, FitsIdle DEF PostJournal
  <2>2. \A q \in Sessions : q # p => sess'[q] = sess[q]
    BY <1>6, FlushSession DEF PostJournal
  <2> QED BY <2>1, <2>2
<1>7. ASSUME NEW p \in Sessions, Write(p) PROVE SessionsKnow'
  <2>1. Fits(sess'[p])
    <3>1. sess[p].at # "idle"
      BY <1>7 DEF Write
    <3>2. Fits([sess[p] EXCEPT !.at = "assign"])
      BY <3>1, FitsMoved
    <3> QED BY <1>7, <3>2, FlushSession, FitsIdle DEF Write
  <2>2. \A q \in Sessions : q # p => sess'[q] = sess[q]
    BY <1>7, FlushSession DEF Write
  <2> QED BY <2>1, <2>2
<1>8. ASSUME NEW p \in Sessions, ReadAssignment(p) PROVE SessionsKnow'
  <2>1. Fits(sess'[p])
    BY <1>8, FitsIdle, FitsMoved DEF ReadAssignment
  <2>2. \A q \in Sessions : q # p => sess'[q] = sess[q]
    BY <1>8 DEF ReadAssignment
  <2> QED BY <2>1, <2>2
<1>9. ASSUME NEW p \in Sessions, Reuse(p) PROVE SessionsKnow'
  <2>1. Fits(sess'[p])
    BY <1>9, FitsIdle, FitsMoved DEF Reuse
  <2>2. \A q \in Sessions : q # p => sess'[q] = sess[q]
    BY <1>9 DEF Reuse
  <2> QED BY <2>1, <2>2
<1>10. ASSUME NEW p \in Sessions, PickAgent(p) PROVE SessionsKnow'
  <2>1. Fits(sess'[p])
    <3>1. sess[p].at # "idle"
      BY <1>10 DEF PickAgent
    <3>2. \A a \in Agents : Fits([sess[p] EXCEPT !.at = "reserve", !.agent = a])
      BY <3>1, FitsMoved
    <3> QED BY <1>10, <3>2, FitsIdle DEF PickAgent, Eligible
  <2>2. \A q \in Sessions : q # p => sess'[q] = sess[q]
    BY <1>10 DEF PickAgent
  <2> QED BY <2>1, <2>2
<1>11. ASSUME NEW p \in Sessions, Reserve(p) PROVE SessionsKnow'
  <2>1. Fits(sess'[p])
    <3>1. sess[p].at = "reserve"
      BY <1>11 DEF Reserve
    <3>2. \A i \in Ids : Fits([sess[p] EXCEPT !.at = "book", !.id = i])
      BY <3>1, FitsMoved
    <3> QED BY <1>11, <3>2 DEF Reserve
  <2>2. \A q \in Sessions : q # p => sess'[q] = sess[q]
    BY <1>11 DEF Reserve
  <2> QED BY <2>1, <2>2
<1>12. ASSUME NEW p \in Sessions, UpdateAgent(p) PROVE SessionsKnow'
  <2>1. Fits(sess'[p])
    BY <1>12, FitsIdle, FitsMoved DEF UpdateAgent
  <2>2. \A q \in Sessions : q # p => sess'[q] = sess[q]
    BY <1>12 DEF UpdateAgent
  <2> QED BY <2>1, <2>2
<1>13. ASSUME NEW p \in Sessions, CommitAssignment(p) PROVE SessionsKnow'
  <2>1. Fits(sess'[p])
    BY <1>13, FitsIdle, FitsMoved DEF CommitAssignment
  <2>2. \A q \in Sessions : q # p => sess'[q] = sess[q]
    BY <1>13 DEF CommitAssignment
  <2> QED BY <2>1, <2>2
<1>14. ASSUME NEW p \in Sessions, Pay(p) PROVE SessionsKnow'
  <2>1. Fits(sess'[p])
    BY <1>14, FitsIdle, FitsMoved DEF Pay
  <2>2. \A q \in Sessions : q # p => sess'[q] = sess[q]
    BY <1>14 DEF Pay
  <2> QED BY <2>1, <2>2
<1>15. ASSUME NEW p \in Sessions, Settle(p) PROVE SessionsKnow'
  <2>1. Fits(sess'[p])
    BY <1>15, FitsIdle, FitsMoved DEF Settle
  <2>2. \A q \in Sessions : q # p => sess'[q] = sess[q]
    BY <1>15 DEF Settle
  <2> QED BY <2>1, <2>2
<1>16. ASSUME NEW p \in Sessions, Fail(p) PROVE SessionsKnow'
  <2>1. Fits(sess'[p])
    BY <1>16, FitsIdle, FitsMoved DEF Fail
  <2>2. \A q \in Sessions : q # p => sess'[q] = sess[q]
    BY <1>16 DEF Fail
  <2> QED BY <2>1, <2>2
<1>u. CASE UNCHANGED vars
  BY <1>u DEF vars
<1> QED
  BY <1>1, <1>2, <1>3, <1>4, <1>5, <1>6, <1>7, <1>8,
     <1>9, <1>10, <1>11, <1>12, <1>13, <1>14, <1>15, <1>16,
     <1>u DEF Next, Continue, Assign

LEMMA OwnStep == TypeOK /\ SessionsKnow /\ SessionsOwnIds /\ LedgerMatchesRows /\ SessionsTraced /\ [Next]_vars => SessionsOwnIds'
<1> SUFFICES ASSUME TypeOK, SessionsKnow, SessionsOwnIds, LedgerMatchesRows, SessionsTraced, [Next]_vars PROVE SessionsOwnIds'
  OBVIOUS
<1> USE DEF TypeOK, SessionType, SessionsOwnIds, At, Goto, Finish, Idle
<1>1. ASSUME NEW p \in Sessions, NEW o \in Orders, NEW h \in Handlers, Start(p, o, h) PROVE SessionsOwnIds'
  BY <1>1 DEF Start
<1>2. ASSUME NEW p \in Sessions, NEW o \in Orders, Deposit(p, o) PROVE SessionsOwnIds'
  <2>1. sess'[p] = sess[p] \/ sess'[p].at = "assign"
    <3>1. \/ sess' = sess
          \/ sess' = [sess EXCEPT ![p] = [Idle EXCEPT !.at = "assign", !.order = o]]
      BY <1>2 DEF Deposit
    <3>2. [Idle EXCEPT !.at = "assign", !.order = o].at = "assign"
      BY DEF Idle
    <3> HIDE DEF Idle, SessionsOwnIds, SessionType
    <3> QED BY <3>1, <3>2
  <2>2. \A q \in Sessions : q # p => sess'[q] = sess[q]
    BY <1>2 DEF Deposit
  <2>3. \A q \in Sessions : sess'[q].at \in {"book", "commit"} => sess'[q] = sess[q]
    BY <2>1, <2>2
  <2>4. reserve' = reserve /\ rows' = rows
    BY <1>2 DEF Deposit
  <2> QED BY <2>3, <2>4
<1>3. ASSUME NEW p \in Sessions, NEW o \in Orders, Initiate(p, o) PROVE SessionsOwnIds'
  BY <1>3 DEF Initiate
<1>4. ASSUME NEW p \in Sessions, NEW i \in Ids, ReadConfirm(p, i) PROVE SessionsOwnIds'
  BY <1>4 DEF ReadConfirm
<1>5. ASSUME NEW p \in Sessions, CheckJournal(p) PROVE SessionsOwnIds'
  BY <1>5 DEF CheckJournal
<1>6. ASSUME NEW p \in Sessions, PostJournal(p) PROVE SessionsOwnIds'
  <2>1. sess'[p] = Idle \/ sess'[p] = [sess[p] EXCEPT !.at = "assign"]
    BY <1>6, FlushSession DEF PostJournal
  <2>2. \A q \in Sessions : q # p => sess'[q] = sess[q]
    BY <1>6, FlushSession DEF PostJournal
  <2>3. sess'[p].at \notin {"book", "commit"}
    BY <2>1
  <2>4. UNCHANGED <<reserve, rows>>
    BY <1>6 DEF PostJournal
  <2> QED BY <2>2, <2>3, <2>4
<1>7. ASSUME NEW p \in Sessions, Write(p) PROVE SessionsOwnIds'
  <2>1. sess'[p] = Idle \/ sess'[p] = [sess[p] EXCEPT !.at = "assign"]
    BY <1>7, FlushSession DEF Write
  <2>2. \A q \in Sessions : q # p => sess'[q] = sess[q]
    BY <1>7, FlushSession DEF Write
  <2>3. sess'[p].at \notin {"book", "commit"}
    BY <2>1
  <2>4. UNCHANGED <<reserve, rows>>
    BY <1>7 DEF Write
  <2> QED BY <2>2, <2>3, <2>4
<1>8. ASSUME NEW p \in Sessions, ReadAssignment(p) PROVE SessionsOwnIds'
  BY <1>8 DEF ReadAssignment
<1>9. ASSUME NEW p \in Sessions, Reuse(p) PROVE SessionsOwnIds'
  BY <1>9 DEF Reuse
<1>10. ASSUME NEW p \in Sessions, PickAgent(p) PROVE SessionsOwnIds'
  <2>1. \/ sess'[p] = Idle
        \/ \E a \in Agents : sess'[p] = [sess[p] EXCEPT !.at = "reserve", !.agent = a]
    BY <1>10 DEF PickAgent, Eligible
  <2>2. \A q \in Sessions : q # p => sess'[q] = sess[q]
    BY <1>10 DEF PickAgent
  <2>3. sess'[p].at \notin {"book", "commit"}
    <3>1. CASE sess'[p] = Idle
      BY <3>1
    <3>2. ASSUME NEW a \in Agents, sess'[p] = [sess[p] EXCEPT !.at = "reserve", !.agent = a]
          PROVE  sess'[p].at = "reserve"
      BY <3>2
    <3> QED BY <2>1, <3>1, <3>2
  <2>4. UNCHANGED <<reserve, rows>>
    BY <1>10 DEF PickAgent
  <2> QED BY <2>2, <2>3, <2>4
<1>11. ASSUME NEW p \in Sessions, Reserve(p) PROVE SessionsOwnIds'
  <2>1. PICK i \in Ids :
          /\ reserve[i] = None
          /\ reserve' = [reserve EXCEPT ![i] =
                           [order |-> sess[p].order, agent |-> sess[p].agent]]
          /\ sess' = [sess EXCEPT ![p] = [@ EXCEPT !.at = "book", !.id = i]]
    BY <1>11 DEF Reserve
  <2>2. rows[i] = None
    <3>1. [order |-> rows[i].order, agent |-> rows[i].agent] \in Reservation
          \/ rows[i] = None
      BY DEF Reservation, AssignmentType
    <3> QED BY <2>1, <3>1, NoneAssumption DEF LedgerMatchesRows
  <2>3. \A q \in Sessions : sess[q].at \in {"book", "commit"} => sess[q].id # i
    <3> SUFFICES ASSUME NEW q \in Sessions, sess[q].at \in {"book", "commit"},
                        sess[q].id = i
                 PROVE  FALSE
      OBVIOUS
    <3>1. [order |-> sess[q].order, agent |-> sess[q].agent] \in Reservation
      BY DEF Reservation, SessionsKnow, Fits
    <3> QED BY <2>1, <3>1, NoneAssumption
  <2>4. /\ sess'[p].at = "book" /\ sess'[p].id = i
        /\ sess'[p].order = sess[p].order /\ sess'[p].agent = sess[p].agent
    BY <2>1
  <2>5. \A q \in Sessions : q # p => sess'[q] = sess[q]
    BY <2>1
  <2>6. /\ reserve'[i] = [order |-> sess[p].order, agent |-> sess[p].agent]
        /\ \A j \in Ids : j # i => reserve'[j] = reserve[j]
    BY <2>1
  <2>7. \A q \in Sessions : sess[q].at \in {"book", "commit"} => sess[q].id \in Ids
    BY DEF SessionsKnow, Fits
  <2>8. UNCHANGED rows
    BY <1>11 DEF Reserve
  <2>9. ASSUME NEW q \in Sessions, sess'[q].at \in {"book", "commit"}
        PROVE  /\ reserve'[sess'[q].id]
                    = [order |-> sess'[q].order, agent |-> sess'[q].agent]
               /\ rows'[sess'[q].id] = None
    <3>1. CASE q = p
      BY <3>1, <2>2, <2>4, <2>6, <2>8
    <3>2. CASE q # p
      BY <3>2, <2>9, <2>3, <2>5, <2>6, <2>7, <2>8
    <3> QED BY <3>1, <3>2
  <2>10. ASSUME NEW q \in Sessions, NEW r \in Sessions,
                sess'[q].at \in {"book", "commit"}, sess'[r].at \in {"book", "commit"},
                sess'[q].id = sess'[r].id
         PROVE  q = r
    <3>1. CASE q # p /\ r # p
      BY <3>1, <2>10, <2>5
    <3>2. CASE q = p /\ r # p
      BY <3>2, <2>10, <2>3, <2>4, <2>5
    <3>3. CASE q # p /\ r = p
      BY <3>3, <2>10, <2>3, <2>4, <2>5
    <3> QED BY <3>1, <3>2, <3>3
  <2> QED BY <2>9, <2>10
<1>12. ASSUME NEW p \in Sessions, UpdateAgent(p) PROVE SessionsOwnIds'
  BY <1>12 DEF UpdateAgent
<1>13. ASSUME NEW p \in Sessions, CommitAssignment(p) PROVE SessionsOwnIds'
  BY <1>13 DEF CommitAssignment, SessionsKnow, Fits
<1>14. ASSUME NEW p \in Sessions, Pay(p) PROVE SessionsOwnIds'
  BY <1>14 DEF Pay, SessionsKnow, Fits, SessionsTraced
<1>15. ASSUME NEW p \in Sessions, Settle(p) PROVE SessionsOwnIds'
  BY <1>15 DEF Settle
<1>16. ASSUME NEW p \in Sessions, Fail(p) PROVE SessionsOwnIds'
  BY <1>16 DEF Fail
<1>u. CASE UNCHANGED vars
  BY <1>u DEF vars
<1> QED
  BY <1>1, <1>2, <1>3, <1>4, <1>5, <1>6, <1>7, <1>8,
     <1>9, <1>10, <1>11, <1>12, <1>13, <1>14, <1>15, <1>16,
     <1>u DEF Next, Continue, Assign

LEMMA LedgerStep == TypeOK /\ SessionsKnow /\ SessionsOwnIds /\ LedgerMatchesRows /\ SessionsTraced /\ [Next]_vars => LedgerMatchesRows'
<1> SUFFICES ASSUME TypeOK, SessionsKnow, SessionsOwnIds, LedgerMatchesRows, SessionsTraced, [Next]_vars PROVE LedgerMatchesRows'
  OBVIOUS
<1> USE DEF TypeOK, LedgerMatchesRows
<1>1. ASSUME NEW p \in Sessions, NEW o \in Orders, NEW h \in Handlers, Start(p, o, h) PROVE LedgerMatchesRows'
  BY <1>1 DEF Start
<1>2. ASSUME NEW p \in Sessions, NEW o \in Orders, Deposit(p, o) PROVE LedgerMatchesRows'
  BY <1>2 DEF Deposit
<1>3. ASSUME NEW p \in Sessions, NEW o \in Orders, Initiate(p, o) PROVE LedgerMatchesRows'
  BY <1>3 DEF Initiate
<1>4. ASSUME NEW p \in Sessions, NEW i \in Ids, ReadConfirm(p, i) PROVE LedgerMatchesRows'
  BY <1>4 DEF ReadConfirm
<1>5. ASSUME NEW p \in Sessions, CheckJournal(p) PROVE LedgerMatchesRows'
  BY <1>5 DEF CheckJournal
<1>6. ASSUME NEW p \in Sessions, PostJournal(p) PROVE LedgerMatchesRows'
  BY <1>6 DEF PostJournal
<1>7. ASSUME NEW p \in Sessions, Write(p) PROVE LedgerMatchesRows'
  BY <1>7 DEF Write
<1>8. ASSUME NEW p \in Sessions, ReadAssignment(p) PROVE LedgerMatchesRows'
  BY <1>8 DEF ReadAssignment
<1>9. ASSUME NEW p \in Sessions, Reuse(p) PROVE LedgerMatchesRows'
  BY <1>9 DEF Reuse
<1>10. ASSUME NEW p \in Sessions, PickAgent(p) PROVE LedgerMatchesRows'
  BY <1>10 DEF PickAgent
<1>11. ASSUME NEW p \in Sessions, Reserve(p) PROVE LedgerMatchesRows'
  <2>1. PICK i \in Ids :
          /\ reserve[i] = None
          /\ reserve' = [reserve EXCEPT ![i] =
                           [order |-> sess[p].order, agent |-> sess[p].agent]]
    BY <1>11 DEF Reserve
  <2>2. rows[i] = None
    <3>1. [order |-> rows[i].order, agent |-> rows[i].agent] \in Reservation
          \/ rows[i] = None
      BY DEF Reservation, AssignmentType
    <3> QED BY <2>1, <3>1, NoneAssumption
  <2> QED BY <1>11, <2>1, <2>2 DEF Reserve
<1>12. ASSUME NEW p \in Sessions, UpdateAgent(p) PROVE LedgerMatchesRows'
  BY <1>12 DEF UpdateAgent
<1>13. ASSUME NEW p \in Sessions, CommitAssignment(p) PROVE LedgerMatchesRows'
  <2>1. /\ sess[p].id \in Ids /\ rows[sess[p].id] = None
        /\ reserve[sess[p].id] = [order |-> sess[p].order, agent |-> sess[p].agent]
    BY <1>13 DEF CommitAssignment, At, SessionsKnow, Fits, SessionsOwnIds
  <2>2. rows'[sess[p].id] = [order |-> sess[p].order, agent |-> sess[p].agent,
                             state |-> "ASSIGNED"]
    BY <1>13, <2>1 DEF CommitAssignment
  <2>3. \A i \in Ids : i # sess[p].id => rows'[i] = rows[i]
    BY <1>13 DEF CommitAssignment
  <2> QED BY <1>13, <2>1, <2>2, <2>3 DEF CommitAssignment
<1>14. ASSUME NEW p \in Sessions, Pay(p) PROVE LedgerMatchesRows'
  <2>1. /\ sess[p].id \in Ids /\ rows[sess[p].id] # None
        /\ rows[sess[p].id] \in AssignmentType
    BY <1>14 DEF Pay, At, SessionsKnow, Fits, SessionsTraced
  <2>2. /\ rows'[sess[p].id] = [rows[sess[p].id] EXCEPT !.state = "CONFIRMED"]
        /\ outs'[sess[p].id] = outs[sess[p].id] + 1
        /\ \A i \in Ids : i # sess[p].id => rows'[i] = rows[i] /\ outs'[i] = outs[i]
    BY <1>14, <2>1 DEF Pay
  <2>3. [rows[sess[p].id] EXCEPT !.state = "CONFIRMED"] \in AssignmentType
    BY <2>1 DEF AssignmentType
  <2>4. rows'[sess[p].id] # None
    <3>1. None \notin AssignmentType
      BY NoneAssumption
    <3> HIDE DEF AssignmentType
    <3> QED BY <2>2, <2>3, <3>1
  <2>5. /\ rows'[sess[p].id].order = rows[sess[p].id].order
        /\ rows'[sess[p].id].agent = rows[sess[p].id].agent
        /\ rows'[sess[p].id].state = "CONFIRMED"
    BY <2>1, <2>2 DEF AssignmentType
  <2> QED BY <1>14, <2>1, <2>2, <2>4, <2>5 DEF Pay
<1>15. ASSUME NEW p \in Sessions, Settle(p) PROVE LedgerMatchesRows'
  BY <1>15 DEF Settle
<1>16. ASSUME NEW p \in Sessions, Fail(p) PROVE LedgerMatchesRows'
  BY <1>16 DEF Fail
<1>u. CASE UNCHANGED vars
  BY <1>u DEF vars
<1> QED
  BY <1>1, <1>2, <1>3, <1>4, <1>5, <1>6, <1>7, <1>8,
     <1>9, <1>10, <1>11, <1>12, <1>13, <1>14, <1>15, <1>16,
     <1>u DEF Next, Continue, Assign

\* the ledger and the assignments only grow
LEMMA AppendNonEmpty ==
    ASSUME NEW S, NEW s \in Seq(S), NEW e \in S
    PROVE  Append(s, e) # <<>>
<1>1. Len(Append(s, e)) = Len(s) + 1 /\ Len(s) \in Nat
  OBVIOUS
<1>2. Len(<<>>) = 0
  OBVIOUS
<1> QED BY <1>1, <1>2

Grows ==
    /\ \A o \in Orders : book[o] # <<>> => book'[o] # <<>>
    /\ \A i \in Ids : rows[i] # None =>
          rows'[i] # None /\ rows'[i].order = rows[i].order
    /\ \A i \in Ids : outs[i] > 0 => outs'[i] > 0

LEMMA GrowStep == TypeOK /\ SessionsKnow /\ SessionsOwnIds /\ SessionsTraced /\ [Next]_vars => Grows
<1> SUFFICES ASSUME TypeOK, SessionsKnow, SessionsOwnIds, SessionsTraced, [Next]_vars PROVE Grows
  OBVIOUS
<1> USE DEF TypeOK, Grows
<1>1. ASSUME NEW p \in Sessions, NEW o \in Orders, NEW h \in Handlers, Start(p, o, h) PROVE Grows
  BY <1>1 DEF Start
<1>2. ASSUME NEW p \in Sessions, NEW o \in Orders, Deposit(p, o) PROVE Grows
  <2>1. \A n \in Orders : book[n] # <<>> => book'[n] = book[n]
    BY <1>2 DEF Deposit
  <2> QED BY <1>2, <2>1 DEF Deposit
<1>3. ASSUME NEW p \in Sessions, NEW o \in Orders, Initiate(p, o) PROVE Grows
  BY <1>3 DEF Initiate
<1>4. ASSUME NEW p \in Sessions, NEW i \in Ids, ReadConfirm(p, i) PROVE Grows
  BY <1>4 DEF ReadConfirm
<1>5. ASSUME NEW p \in Sessions, CheckJournal(p) PROVE Grows
  BY <1>5 DEF CheckJournal
<1>6. ASSUME NEW p \in Sessions, PostJournal(p) PROVE Grows
  <2>1. sess[p].order \in Orders /\ book[sess[p].order] \in Seq(Events)
        /\ sess[p].job.event \in Events
    BY <1>6 DEF PostJournal, At, SessionsKnow, Fits
  <2>2. Append(book[sess[p].order], sess[p].job.event) # <<>>
    BY <2>1, AppendNonEmpty
  <2>3. \A o \in Orders : book[o] # <<>> => book'[o] # <<>>
    BY <1>6, <2>1, <2>2 DEF PostJournal
  <2> QED BY <1>6, <2>3 DEF PostJournal
<1>7. ASSUME NEW p \in Sessions, Write(p) PROVE Grows
  BY <1>7 DEF Write
<1>8. ASSUME NEW p \in Sessions, ReadAssignment(p) PROVE Grows
  BY <1>8 DEF ReadAssignment
<1>9. ASSUME NEW p \in Sessions, Reuse(p) PROVE Grows
  BY <1>9 DEF Reuse
<1>10. ASSUME NEW p \in Sessions, PickAgent(p) PROVE Grows
  BY <1>10 DEF PickAgent
<1>11. ASSUME NEW p \in Sessions, Reserve(p) PROVE Grows
  BY <1>11 DEF Reserve
<1>12. ASSUME NEW p \in Sessions, UpdateAgent(p) PROVE Grows
  BY <1>12 DEF UpdateAgent
<1>13. ASSUME NEW p \in Sessions, CommitAssignment(p) PROVE Grows
  <2>1. sess[p].id \in Ids /\ rows[sess[p].id] = None
    BY <1>13 DEF CommitAssignment, At, SessionsKnow, Fits, SessionsOwnIds
  <2>2. \A i \in Ids : i # sess[p].id => rows'[i] = rows[i]
    BY <1>13 DEF CommitAssignment
  <2> QED BY <1>13, <2>1, <2>2 DEF CommitAssignment
<1>14. ASSUME NEW p \in Sessions, Pay(p) PROVE Grows
  <2>1. /\ sess[p].id \in Ids /\ rows[sess[p].id] # None
        /\ rows[sess[p].id] \in AssignmentType
    BY <1>14 DEF Pay, At, SessionsKnow, Fits, SessionsTraced
  <2>2. /\ rows'[sess[p].id] = [rows[sess[p].id] EXCEPT !.state = "CONFIRMED"]
        /\ outs'[sess[p].id] = outs[sess[p].id] + 1
        /\ \A i \in Ids : i # sess[p].id => rows'[i] = rows[i] /\ outs'[i] = outs[i]
    BY <1>14, <2>1 DEF Pay
  <2>3. [rows[sess[p].id] EXCEPT !.state = "CONFIRMED"] \in AssignmentType
    BY <2>1 DEF AssignmentType
  <2>4. rows'[sess[p].id] # None
    <3>1. None \notin AssignmentType
      BY NoneAssumption
    <3> QED BY <2>2, <2>3, <3>1
  <2>5. rows'[sess[p].id].order = rows[sess[p].id].order
    BY <2>1, <2>2 DEF AssignmentType
  <2> QED BY <1>14, <2>2, <2>4, <2>5 DEF Pay
<1>15. ASSUME NEW p \in Sessions, Settle(p) PROVE Grows
  BY <1>15 DEF Settle
<1>16. ASSUME NEW p \in Sessions, Fail(p) PROVE Grows
  BY <1>16 DEF Fail
<1>u. CASE UNCHANGED vars
  BY <1>u DEF vars
<1> QED
  BY <1>1, <1>2, <1>3, <1>4, <1>5, <1>6, <1>7, <1>8,
     <1>9, <1>10, <1>11, <1>12, <1>13, <1>14, <1>15, <1>16,
     <1>u DEF Next, Continue, Assign

LEMMA MoneyStep == TypeOK /\ SessionsKnow /\ SessionsOwnIds /\ MoneyIsTraced /\ SessionsTraced /\ [Next]_vars => MoneyIsTraced'
<1> SUFFICES ASSUME TypeOK, SessionsKnow, SessionsOwnIds, MoneyIsTraced, SessionsTraced, [Next]_vars PROVE MoneyIsTraced'
  OBVIOUS
<1>g. Grows
  BY GrowStep
<1>b. \A o \in Orders : book[o] # <<>> => book'[o] # <<>>
  BY <1>g DEF Grows
<1>a. \A o \in Orders : PaidByAgent(o) => PaidByAgent(o)'
  BY <1>g DEF Grows, PaidByAgent, RowsOf
<1>m. MoneyIsTraced' <=> \A o \in Orders \ Sandbox : Traced(o)'
  BY DEF MoneyIsTraced
<1>k. ASSUME NEW o \in Orders \ Sandbox, status'[o] = status[o]
      PROVE  Traced(o)'
  <2>1. Traced(o)
    BY DEF MoneyIsTraced
  <2> QED BY <2>1, <1>k, <1>a, <1>b DEF Traced
<1>c. ASSUME NEW o \in Orders \ Sandbox, book[o] # <<>> PROVE Traced(o)'
  BY <1>b, <1>c DEF Traced
<1>1. ASSUME NEW p \in Sessions, NEW o \in Orders, NEW h \in Handlers, Start(p, o, h) PROVE MoneyIsTraced'
  <2>1. \A n \in Orders : status'[n] = status[n]
    BY <1>1 DEF Start
  <2> QED BY <2>1, <1>k, <1>m
<1>2. ASSUME NEW p \in Sessions, NEW o \in Orders, Deposit(p, o) PROVE MoneyIsTraced'
  <2>1. \/ status'[o] = "CANCELLED"
        \/ status'[o] = "FUNDED" /\ book'[o] # <<>>
    <3>1. <<"FUND">> # <<>>
      OBVIOUS
    <3> QED BY <1>2, <3>1 DEF Deposit, TypeOK
  <2>2. \A n \in Orders : n # o => status'[n] = status[n]
    BY <1>2 DEF Deposit, TypeOK
  <2>3. o \notin Sandbox => Traced(o)'
    BY <2>1 DEF Traced
  <2> QED BY <2>2, <2>3, <1>k, <1>m
<1>3. ASSUME NEW p \in Sessions, NEW o \in Orders, Initiate(p, o) PROVE MoneyIsTraced'
  <2>1. \A n \in Orders : status'[n] = status[n]
    BY <1>3 DEF Initiate
  <2> QED BY <2>1, <1>k, <1>m
<1>4. ASSUME NEW p \in Sessions, NEW i \in Ids, ReadConfirm(p, i) PROVE MoneyIsTraced'
  <2>1. \A o \in Orders : status'[o] = status[o]
    BY <1>4 DEF ReadConfirm
  <2> QED BY <2>1, <1>k, <1>m
<1>5. ASSUME NEW p \in Sessions, CheckJournal(p) PROVE MoneyIsTraced'
  <2>1. \A o \in Orders : status'[o] = status[o]
    BY <1>5 DEF CheckJournal
  <2> QED BY <2>1, <1>k, <1>m
<1>6. ASSUME NEW p \in Sessions, PostJournal(p) PROVE MoneyIsTraced'
  <2>1. sess[p].order \in Orders /\ sess[p].at \in {"check", "post", "write"}
    BY <1>6 DEF PostJournal, At, SessionsKnow, Fits
  <2>2. sess[p].order \notin Sandbox => book[sess[p].order] # <<>>
    BY <2>1 DEF SessionsTraced
  <2>3. \A o \in Orders : o # sess[p].order => status'[o] = status[o]
    BY <1>6, <2>1 DEF PostJournal, Flush
  <2> QED BY <2>1, <2>2, <2>3, <1>k, <1>c, <1>m
<1>7. ASSUME NEW p \in Sessions, Write(p) PROVE MoneyIsTraced'
  <2>1. sess[p].order \in Orders /\ sess[p].at \in {"check", "post", "write"}
    BY <1>7 DEF Write, At, SessionsKnow, Fits
  <2>2. sess[p].order \notin Sandbox => book[sess[p].order] # <<>>
    BY <2>1 DEF SessionsTraced
  <2>3. \A o \in Orders : o # sess[p].order => status'[o] = status[o]
    BY <1>7, <2>1 DEF Write, Flush
  <2> QED BY <2>1, <2>2, <2>3, <1>k, <1>c, <1>m
<1>8. ASSUME NEW p \in Sessions, ReadAssignment(p) PROVE MoneyIsTraced'
  <2>1. \A o \in Orders : status'[o] = status[o]
    BY <1>8 DEF ReadAssignment
  <2> QED BY <2>1, <1>k, <1>m
<1>9. ASSUME NEW p \in Sessions, Reuse(p) PROVE MoneyIsTraced'
  <2>1. \A o \in Orders : status'[o] = status[o] \/ status[o] = "SWAPPED"
    BY <1>9 DEF Reuse, MakePending
  <2>2. \A o \in Orders \ Sandbox : status[o] = "SWAPPED" => book[o] # <<>>
    BY DEF MoneyIsTraced, Traced
  <2> QED BY <2>1, <2>2, <1>k, <1>c, <1>m
<1>10. ASSUME NEW p \in Sessions, PickAgent(p) PROVE MoneyIsTraced'
  <2>1. \A o \in Orders : status'[o] = status[o]
    BY <1>10 DEF PickAgent
  <2> QED BY <2>1, <1>k, <1>m
<1>11. ASSUME NEW p \in Sessions, Reserve(p) PROVE MoneyIsTraced'
  <2>1. \A o \in Orders : status'[o] = status[o]
    BY <1>11 DEF Reserve
  <2> QED BY <2>1, <1>k, <1>m
<1>12. ASSUME NEW p \in Sessions, UpdateAgent(p) PROVE MoneyIsTraced'
  <2>1. \A o \in Orders : status'[o] = status[o]
    BY <1>12 DEF UpdateAgent
  <2> QED BY <2>1, <1>k, <1>m
<1>13. ASSUME NEW p \in Sessions, CommitAssignment(p) PROVE MoneyIsTraced'
  <2>1. \A o \in Orders : status'[o] = status[o] \/ status[o] = "SWAPPED"
    BY <1>13 DEF CommitAssignment, MakePending
  <2>2. \A o \in Orders \ Sandbox : status[o] = "SWAPPED" => book[o] # <<>>
    BY DEF MoneyIsTraced, Traced
  <2> QED BY <2>1, <2>2, <1>k, <1>c, <1>m
<1>14. ASSUME NEW p \in Sessions, Pay(p) PROVE MoneyIsTraced'
  <2>1. \A o \in Orders : status'[o] = status[o]
    BY <1>14 DEF Pay
  <2> QED BY <2>1, <1>k, <1>m
<1>15. ASSUME NEW p \in Sessions, Settle(p) PROVE MoneyIsTraced'
  <2>1. PICK o \in Orders : o = sess[p].order
    BY <1>15 DEF Settle, At, SessionsKnow, Fits
  <2>2. /\ sess[p].id \in Ids
        /\ rows[sess[p].id] # None /\ rows[sess[p].id].order = o
        /\ outs[sess[p].id] > 0
    BY <1>15, <2>1 DEF Settle, At, SessionsKnow, Fits, SessionsTraced
  <2>3. PaidByAgent(o)
    BY <2>2 DEF PaidByAgent, RowsOf
  <2>4. status'[o] = "PAID_OUT" /\ \A u \in Orders : u # o => status'[u] = status[u]
    BY <1>15, <2>1 DEF Settle, TypeOK
  <2>5. PaidByAgent(o)'
    BY <2>3, <1>a
  <2>6. Traced(o)'
    BY <2>4, <2>5 DEF Traced
  <2> QED BY <2>4, <2>6, <1>k, <1>m
<1>16. ASSUME NEW p \in Sessions, Fail(p) PROVE MoneyIsTraced'
  <2>1. \A o \in Orders : status'[o] = status[o]
    BY <1>16 DEF Fail
  <2> QED BY <2>1, <1>k, <1>m
<1>u. CASE UNCHANGED vars
  <2>1. \A o \in Orders : status'[o] = status[o]
    BY <1>u DEF vars
  <2> QED BY <2>1, <1>k, <1>m
<1> QED
  BY <1>1, <1>2, <1>3, <1>4, <1>5, <1>6, <1>7, <1>8,
     <1>9, <1>10, <1>11, <1>12, <1>13, <1>14, <1>15, <1>16,
     <1>u DEF Next, Continue, Assign

LEMMA TraceStep == TypeOK /\ SessionsKnow /\ SessionsOwnIds /\ LedgerMatchesRows /\ MoneyIsTraced /\ SessionsTraced /\ [Next]_vars => SessionsTraced'
<1> SUFFICES ASSUME TypeOK, SessionsKnow, SessionsOwnIds, LedgerMatchesRows, MoneyIsTraced, SessionsTraced, [Next]_vars PROVE SessionsTraced'
  OBVIOUS
<1>g. Grows
  BY GrowStep
<1> DEFINE Holds(r) ==
      /\ r.at \in {"check", "post", "write"} /\ r.order \notin Sandbox
         => book[r.order] # <<>>
      /\ r.at \in {"pay", "settle"} => rows[r.id] # None /\ rows[r.id].order = r.order
      /\ r.at = "settle" => outs[r.id] > 0
<1>s. SessionsTraced' <=> \A q \in Sessions : Holds(sess[q])'
  BY DEF SessionsTraced
<1>h. \A q \in Sessions : sess'[q] = sess[q] => Holds(sess[q])'
  BY <1>g DEF Grows, SessionsTraced, SessionsKnow, Fits
<1>o. ASSUME NEW p \in Sessions, \A q \in Sessions : q # p => sess'[q] = sess[q],
             sess'[p].at \notin {"check", "post", "write", "pay", "settle"}
      PROVE  SessionsTraced'
  BY <1>o, <1>h, <1>s
<1>1. ASSUME NEW p \in Sessions, NEW o \in Orders, NEW h \in Handlers, Start(p, o, h) PROVE SessionsTraced'
  <2>1. \A q \in Sessions : q # p => sess'[q] = sess[q]
    BY <1>1 DEF Start, Goto, Finish
  <2>2. sess'[p].order = o /\ sess'[p].at \in {"write", "check"}
    BY <1>1 DEF Start, Idle, TypeOK
  <2>3. o \in Orders \ Sandbox => book[o] # <<>>
    <3>1. status[o] \in h.from
      BY <1>1 DEF Start
    <3> SUFFICES ASSUME o \in Orders \ Sandbox PROVE book[o] # <<>>
      OBVIOUS
    <3>2. o \in h.orders
      BY <1>1 DEF Start
    <3>3. status[o] \notin {"CREATED", "CANCELLED", "PAID_OUT"}
      BY <3>1, <3>2, RealSources
    <3>4. Traced(o)
      BY DEF MoneyIsTraced
    <3> QED BY <3>3, <3>4 DEF Traced
  <2>4. UNCHANGED book
    BY <1>1 DEF Start
  <2> QED BY <2>1, <2>2, <2>3, <2>4, <1>h, <1>s
<1>2. ASSUME NEW p \in Sessions, NEW o \in Orders, Deposit(p, o) PROVE SessionsTraced'
  <2>1. sess' = sess \/ sess' = [sess EXCEPT ![p] = [Idle EXCEPT !.at = "assign", !.order = o]]
    BY <1>2 DEF Deposit
  <2>2. CASE sess' = sess
    BY <2>2, <1>h, <1>s
  <2>3. CASE sess' = [sess EXCEPT ![p] = [Idle EXCEPT !.at = "assign", !.order = o]]
    <3>1. \A q \in Sessions : q # p => sess'[q] = sess[q]
      BY <2>3
    <3>2. sess'[p].at = "assign"
      BY <2>3 DEF Idle, TypeOK
    <3> QED BY <3>1, <3>2, <1>o
  <2> QED BY <2>1, <2>2, <2>3
<1>3. ASSUME NEW p \in Sessions, NEW o \in Orders, Initiate(p, o) PROVE SessionsTraced'
  <2>1. \A q \in Sessions : q # p => sess'[q] = sess[q]
    BY <1>3 DEF Initiate, Goto, Finish
  <2>2. sess'[p].at \notin {"check", "post", "write", "pay", "settle"}
    BY <1>3 DEF Initiate, At, Goto, Finish, Idle, TypeOK, SessionType
  <2> QED BY <2>1, <2>2, <1>o
<1>4. ASSUME NEW p \in Sessions, NEW i \in Ids, ReadConfirm(p, i) PROVE SessionsTraced'
  <2>1. \A q \in Sessions : q # p => sess'[q] = sess[q]
    BY <1>4 DEF ReadConfirm, Goto, Finish
  <2>2. /\ sess'[p].at = "pay" /\ sess'[p].id = i
        /\ sess'[p].order = rows[i].order
    BY <1>4 DEF ReadConfirm, Idle, TypeOK
  <2>3. UNCHANGED rows /\ rows[i] # None
    BY <1>4 DEF ReadConfirm
  <2> QED BY <2>1, <2>2, <2>3, <1>h, <1>s
<1>5. ASSUME NEW p \in Sessions, CheckJournal(p) PROVE SessionsTraced'
  <2>1. \A q \in Sessions : q # p => sess'[q] = sess[q]
    BY <1>5 DEF CheckJournal, Goto, Finish
  <2>2. /\ sess'[p].at \in {"post", "write"} /\ sess'[p].order = sess[p].order
        /\ sess[p].at = "check"
    BY <1>5 DEF CheckJournal, At, Goto, TypeOK, SessionType
  <2>3. UNCHANGED book
    BY <1>5 DEF CheckJournal
  <2> QED BY <2>1, <2>2, <2>3, <1>h, <1>s DEF SessionsTraced
<1>6. ASSUME NEW p \in Sessions, PostJournal(p) PROVE SessionsTraced'
  <2>1. \A q \in Sessions : q # p => sess'[q] = sess[q]
    BY <1>6, FlushSession DEF PostJournal
  <2>2. sess'[p].at \in {"idle", "assign"}
    <3>1. sess'[p] = Idle \/ sess'[p] = [sess[p] EXCEPT !.at = "assign"]
      BY <1>6, FlushSession DEF PostJournal
    <3>2. sess[p] \in SessionType
      BY DEF TypeOK
    <3>3. [sess[p] EXCEPT !.at = "assign"].at = "assign"
      BY <3>2 DEF SessionType
    <3>4. Idle.at = "idle"
      BY DEF Idle
    <3>5. CASE sess'[p] = Idle
      BY <3>4, <3>5
    <3>6. CASE sess'[p] = [sess[p] EXCEPT !.at = "assign"]
      BY <3>3, <3>6
    <3> QED BY <3>1, <3>5, <3>6
  <2> QED BY <2>1, <2>2, <1>o
<1>7. ASSUME NEW p \in Sessions, Write(p) PROVE SessionsTraced'
  <2>1. \A q \in Sessions : q # p => sess'[q] = sess[q]
    BY <1>7, FlushSession DEF Write
  <2>2. sess'[p].at \in {"idle", "assign"}
    <3>1. sess'[p] = Idle \/ sess'[p] = [sess[p] EXCEPT !.at = "assign"]
      BY <1>7, FlushSession DEF Write
    <3>2. sess[p] \in SessionType
      BY DEF TypeOK
    <3>3. [sess[p] EXCEPT !.at = "assign"].at = "assign"
      BY <3>2 DEF SessionType
    <3>4. Idle.at = "idle"
      BY DEF Idle
    <3>5. CASE sess'[p] = Idle
      BY <3>4, <3>5
    <3>6. CASE sess'[p] = [sess[p] EXCEPT !.at = "assign"]
      BY <3>3, <3>6
    <3> QED BY <3>1, <3>5, <3>6
  <2> QED BY <2>1, <2>2, <1>o
<1>8. ASSUME NEW p \in Sessions, ReadAssignment(p) PROVE SessionsTraced'
  <2>1. \A q \in Sessions : q # p => sess'[q] = sess[q]
    BY <1>8 DEF ReadAssignment
  <2>2. sess'[p].at \in {"idle", "pick", "reuse"}
    BY <1>8 DEF ReadAssignment, Idle, TypeOK, SessionType
  <2> QED BY <2>1, <2>2, <1>o
<1>9. ASSUME NEW p \in Sessions, Reuse(p) PROVE SessionsTraced'
  <2>1. \A q \in Sessions : q # p => sess'[q] = sess[q]
    BY <1>9 DEF Reuse, Goto, Finish
  <2>2. sess'[p].at \notin {"check", "post", "write", "pay", "settle"}
    BY <1>9 DEF Reuse, At, Goto, Finish, Idle, TypeOK, SessionType
  <2> QED BY <2>1, <2>2, <1>o
<1>10. ASSUME NEW p \in Sessions, PickAgent(p) PROVE SessionsTraced'
  <2>1. \A q \in Sessions : q # p => sess'[q] = sess[q]
    <3>1. CASE Finish(p)
      BY <3>1 DEF Finish
    <3>2. ASSUME NEW a \in Agents,
                 sess' = [sess EXCEPT ![p] = [@ EXCEPT !.at = "reserve", !.agent = a]]
          PROVE  \A q \in Sessions : q # p => sess'[q] = sess[q]
      BY <3>2
    <3> QED BY <1>10, <3>1, <3>2 DEF PickAgent, Eligible
  <2>2. sess'[p].at \in {"idle", "reserve"}
    <3>1. CASE Finish(p)
      BY <3>1 DEF Finish, Idle, TypeOK
    <3>2. ASSUME NEW a \in Agents,
                 sess' = [sess EXCEPT ![p] = [@ EXCEPT !.at = "reserve", !.agent = a]]
          PROVE  sess'[p].at = "reserve"
      BY <3>2 DEF TypeOK, SessionType
    <3> QED BY <1>10, <3>1, <3>2 DEF PickAgent, Eligible
  <2> QED BY <2>1, <2>2, <1>o
<1>11. ASSUME NEW p \in Sessions, Reserve(p) PROVE SessionsTraced'
  <2>1. \A q \in Sessions : q # p => sess'[q] = sess[q]
    BY <1>11 DEF Reserve, Goto, Finish
  <2>2. sess'[p].at \notin {"check", "post", "write", "pay", "settle"}
    BY <1>11 DEF Reserve, At, Goto, Finish, Idle, TypeOK, SessionType
  <2> QED BY <2>1, <2>2, <1>o
<1>12. ASSUME NEW p \in Sessions, UpdateAgent(p) PROVE SessionsTraced'
  <2>1. \A q \in Sessions : q # p => sess'[q] = sess[q]
    BY <1>12 DEF UpdateAgent, Goto, Finish
  <2>2. sess'[p].at \notin {"check", "post", "write", "pay", "settle"}
    BY <1>12 DEF UpdateAgent, At, Goto, Finish, Idle, TypeOK, SessionType
  <2> QED BY <2>1, <2>2, <1>o
<1>13. ASSUME NEW p \in Sessions, CommitAssignment(p) PROVE SessionsTraced'
  <2>1. \A q \in Sessions : q # p => sess'[q] = sess[q]
    BY <1>13 DEF CommitAssignment, Goto, Finish
  <2>2. sess'[p].at \notin {"check", "post", "write", "pay", "settle"}
    BY <1>13 DEF CommitAssignment, At, Goto, Finish, Idle, TypeOK, SessionType
  <2> QED BY <2>1, <2>2, <1>o
<1>14. ASSUME NEW p \in Sessions, Pay(p) PROVE SessionsTraced'
  <2>1. \A q \in Sessions : q # p => sess'[q] = sess[q]
    BY <1>14 DEF Pay, Goto, Finish
  <2>2. /\ sess'[p].at = "settle" /\ sess'[p].order = sess[p].order
        /\ sess'[p].id = sess[p].id /\ sess[p].at = "pay" /\ sess[p].id \in Ids
    BY <1>14 DEF Pay, At, Goto, TypeOK, SessionType, SessionsKnow, Fits
  <2>3. outs'[sess[p].id] > 0
    BY <1>14, <2>2 DEF Pay, TypeOK
  <2>4. /\ rows[sess[p].id] # None /\ rows[sess[p].id].order = sess[p].order
    BY <2>2 DEF SessionsTraced
  <2>5. /\ rows'[sess[p].id] # None /\ rows'[sess[p].id].order = sess[p].order
    BY <2>2, <2>4, <1>g DEF Grows
  <2> QED BY <2>1, <2>2, <2>3, <2>5, <1>h, <1>s
<1>15. ASSUME NEW p \in Sessions, Settle(p) PROVE SessionsTraced'
  <2>1. \A q \in Sessions : q # p => sess'[q] = sess[q]
    BY <1>15 DEF Settle, Goto, Finish
  <2>2. sess'[p].at \notin {"check", "post", "write", "pay", "settle"}
    BY <1>15 DEF Settle, At, Goto, Finish, Idle, TypeOK, SessionType
  <2> QED BY <2>1, <2>2, <1>o
<1>16. ASSUME NEW p \in Sessions, Fail(p) PROVE SessionsTraced'
  <2>1. \A q \in Sessions : q # p => sess'[q] = sess[q]
    BY <1>16 DEF Fail, Goto, Finish
  <2>2. sess'[p].at \notin {"check", "post", "write", "pay", "settle"}
    BY <1>16 DEF Fail, At, Goto, Finish, Idle, TypeOK, SessionType
  <2> QED BY <2>1, <2>2, <1>o
<1>u. CASE UNCHANGED vars
  <2>1. \A q \in Sessions : sess'[q] = sess[q]
    BY <1>u DEF vars
  <2> QED BY <2>1, <1>h, <1>s
<1> QED
  BY <1>1, <1>2, <1>3, <1>4, <1>5, <1>6, <1>7, <1>8,
     <1>9, <1>10, <1>11, <1>12, <1>13, <1>14, <1>15, <1>16,
     <1>u DEF Next, Continue, Assign

(***************************************************************************)
(* The counter of an agent and its limit.                                  *)
(***************************************************************************)

\* the rows and the counters are written only by CommitAssignment and Pay
LEMMA CountKept ==
    ASSUME UsedIsAssigned, used' = used, \A a \in Agents : AssignedTo(a)' = AssignedTo(a)
    PROVE  UsedIsAssigned'
BY DEF UsedIsAssigned

LEMMA RowsKept ==
    ASSUME UsedIsAssigned, used' = used, rows' = rows
    PROVE  UsedIsAssigned'
BY CountKept DEF AssignedTo

LEMMA CommitFields ==
    ASSUME TypeOK, SessionsKnow, SessionsOwnIds, NEW p \in Sessions, CommitAssignment(p)
    PROVE  /\ sess[p].id \in Ids /\ sess[p].agent \in Agents
           /\ rows[sess[p].id] = None
           /\ rows'[sess[p].id] # None
           /\ rows'[sess[p].id].agent = sess[p].agent
           /\ \A i \in Ids : i # sess[p].id => rows'[i] = rows[i]
           /\ used'[sess[p].agent] = used[sess[p].agent] + 1
           /\ \A a \in Agents : a # sess[p].agent => used'[a] = used[a]
<1>1. /\ sess[p].id \in Ids /\ sess[p].agent \in Agents /\ sess[p].order \in Orders
      /\ rows[sess[p].id] = None
  BY DEF CommitAssignment, At, SessionsKnow, Fits, SessionsOwnIds
<1> DEFINE row == [order |-> sess[p].order, agent |-> sess[p].agent, state |-> "ASSIGNED"]
<1>2. row \in AssignmentType
  BY <1>1 DEF AssignmentType
<1>3. row # None
  BY <1>2, NoneAssumption
<1>4. row.agent = sess[p].agent
  OBVIOUS
<1>5. rows' = [rows EXCEPT ![sess[p].id] = row]
  BY DEF CommitAssignment
<1>6. used' = [used EXCEPT ![sess[p].agent] = @ + 1]
  BY DEF CommitAssignment
<1> HIDE DEF row
<1> QED BY <1>1, <1>3, <1>4, <1>5, <1>6 DEF TypeOK

LEMMA PayRows ==
    ASSUME TypeOK, SessionsKnow, SessionsTraced, NEW p \in Sessions, Pay(p)
    PROVE  \A a : AssignedTo(a)' = AssignedTo(a)
<1>1. /\ sess[p].id \in Ids /\ rows[sess[p].id] # None
      /\ rows[sess[p].id] \in AssignmentType
  BY DEF Pay, At, SessionsKnow, Fits, SessionsTraced, TypeOK
<1>2. /\ rows'[sess[p].id] = [rows[sess[p].id] EXCEPT !.state = "CONFIRMED"]
      /\ \A i \in Ids : i # sess[p].id => rows'[i] = rows[i]
  BY <1>1 DEF Pay, TypeOK
<1>3. [rows[sess[p].id] EXCEPT !.state = "CONFIRMED"] \in AssignmentType
  BY <1>1 DEF AssignmentType
<1>4. rows'[sess[p].id] # None
  BY <1>2, <1>3, NoneAssumption
<1>5. rows'[sess[p].id].agent = rows[sess[p].id].agent
  BY <1>1, <1>2 DEF AssignmentType
<1>6. ASSUME NEW a, NEW i \in Ids
      PROVE  rows'[i] # None /\ rows'[i].agent = a <=> rows[i] # None /\ rows[i].agent = a
  BY <1>1, <1>2, <1>4, <1>5
<1> QED BY <1>6 DEF AssignedTo

LEMMA CountStep ==
    TypeOK /\ SettlementInv /\ [Next]_vars => UsedIsAssigned'
<1> SUFFICES ASSUME TypeOK, SettlementInv, [Next]_vars PROVE UsedIsAssigned'
  OBVIOUS
<1>i. /\ SessionsKnow /\ SessionsOwnIds /\ SessionsTraced /\ UsedIsAssigned
  BY DEF SettlementInv
<1>1. ASSUME NEW p \in Sessions, CommitAssignment(p) PROVE UsedIsAssigned'
  <2>0. PICK i \in Ids, b \in Agents : i = sess[p].id /\ b = sess[p].agent
    BY <1>1, <1>i, CommitFields
  <2>1. /\ i \in Ids /\ b \in Agents /\ rows[i] = None
        /\ rows'[i] # None /\ rows'[i].agent = b
        /\ \A j \in Ids : j # i => rows'[j] = rows[j]
        /\ used'[b] = used[b] + 1
        /\ \A a \in Agents : a # b => used'[a] = used[a]
    BY <1>1, <1>i, <2>0, CommitFields
  <2>2. AssignedTo(b)' = AssignedTo(b) \union {i} /\ i \notin AssignedTo(b)
    BY <2>1 DEF AssignedTo
  <2>3. \A a \in Agents : a # b => AssignedTo(a)' = AssignedTo(a)
    BY <2>1 DEF AssignedTo
  <2>4. /\ IsFiniteSet(AssignedTo(b) \union {i})
        /\ Cardinality(AssignedTo(b) \union {i}) = Cardinality(AssignedTo(b)) + 1
    BY <2>1, <2>2, <1>i, FS_AddElement DEF UsedIsAssigned
  <2>5. IsFiniteSet(AssignedTo(b)') /\ used'[b] = Cardinality(AssignedTo(b)')
    BY <2>1, <2>2, <2>4, <1>i DEF UsedIsAssigned
  <2>6. \A a \in Agents : a # b =>
          IsFiniteSet(AssignedTo(a)') /\ used'[a] = Cardinality(AssignedTo(a)')
    BY <2>1, <2>3, <1>i DEF UsedIsAssigned
  <2> QED BY <2>5, <2>6 DEF UsedIsAssigned
<1>2. ASSUME NEW p \in Sessions, Pay(p) PROVE UsedIsAssigned'
  BY <1>2, <1>i, PayRows, CountKept DEF Pay
<1>3. CASE UNCHANGED <<rows, used>>
  BY <1>3, <1>i, RowsKept
<1> QED
  BY <1>1, <1>2, <1>3
     DEF Next, Continue, Assign, Start, Deposit, Initiate, ReadConfirm, CheckJournal,
         PostJournal, Write, ReadAssignment, Reuse, PickAgent, Reserve, UpdateAgent,
         Settle, Fail, vars

\* a step that picks no agent and counts nothing takes sessions off the booking
LEMMA FewerBookings ==
    ASSUME TypeOK, BookedWithinLimit, used' = used,
           \A a \in Agents : Booking(a)' \subseteq Booking(a)
    PROVE  BookedWithinLimit'
<1> SUFFICES ASSUME Limit > 0, NEW a \in Agents
             PROVE  used'[a] + Cardinality(Booking(a)') <= Limit + Cardinality(Sessions) - 1
  BY DEF BookedWithinLimit
<1>1. IsFiniteSet(Booking(a))
  BY SettlementAssumption, FS_Subset DEF Booking
<1>2. /\ IsFiniteSet(Booking(a)') /\ Cardinality(Booking(a)') <= Cardinality(Booking(a))
  BY <1>1, FS_Subset
<1>3. /\ Cardinality(Booking(a)) \in Nat /\ Cardinality(Booking(a)') \in Nat
      /\ Cardinality(Sessions) \in Nat
  BY <1>1, <1>2, SettlementAssumption, FS_CardinalityType
<1>4. used[a] + Cardinality(Booking(a)) <= Limit + Cardinality(Sessions) - 1
  BY DEF BookedWithinLimit
<1>5. used[a] \in Nat
  BY DEF TypeOK
<1> QED BY <1>2, <1>3, <1>4, <1>5, SettlementAssumption

\* ... which is so when one session moves, to no point of the booking it was not at
LEMMA OneMoves ==
    ASSUME TypeOK, BookedWithinLimit, used' = used, NEW p \in Sessions,
           \A q \in Sessions : q # p => sess'[q] = sess[q],
           sess'[p].at \in {"reserve", "book", "commit"} =>
              /\ sess[p].at \in {"reserve", "book", "commit"}
              /\ sess'[p].agent = sess[p].agent
    PROVE  BookedWithinLimit'
<1>1. \A a \in Agents : Booking(a)' \subseteq Booking(a)
  BY DEF Booking
<1> QED BY <1>1, FewerBookings

LEMMA LimitStep ==
    TypeOK /\ SettlementInv /\ [Next]_vars => BookedWithinLimit'
<1> SUFFICES ASSUME TypeOK, SettlementInv, [Next]_vars PROVE BookedWithinLimit'
  OBVIOUS
<1>i. /\ SessionsKnow /\ SessionsOwnIds /\ SessionsTraced /\ BookedWithinLimit
  BY DEF SettlementInv
<1>f. IsFiniteSet(Sessions) /\ Cardinality(Sessions) \in Nat
  BY SettlementAssumption, FS_CardinalityType
<1>1. ASSUME NEW p \in Sessions,
             \/ \E o \in Orders, h \in Handlers : Start(p, o, h)
             \/ \E o \in Orders : Deposit(p, o) \/ Initiate(p, o)
             \/ \E i \in Ids : ReadConfirm(p, i)
      PROVE  BookedWithinLimit'
  <2>1. \A q \in Sessions : q # p => sess'[q] = sess[q]
    BY <1>1 DEF Start, Deposit, Initiate, ReadConfirm, TypeOK
  <2>2. sess'[p] = sess[p] \/ sess'[p].at \notin {"reserve", "book", "commit"}
    <3>1. \A o \in Orders, h \in Handlers : Start(p, o, h) => sess'[p].at \in {"write", "check"}
      BY DEF Start, Idle, TypeOK
    <3>2. ASSUME NEW o \in Orders, Deposit(p, o)
          PROVE  sess'[p] = sess[p] \/ sess'[p].at = "assign"
      <4>1. sess' = sess \/ sess' = [sess EXCEPT ![p] = [Idle EXCEPT !.at = "assign", !.order = o]]
        BY <3>2 DEF Deposit
      <4>2. [Idle EXCEPT !.at = "assign", !.order = o].at = "assign"
        BY DEF Idle
      <4>3. sess \in [Sessions -> SessionType]
        BY DEF TypeOK
      <4> QED BY <4>1, <4>2, <4>3
    <3>3. \A o \in Orders : Initiate(p, o) => sess'[p].at = "assign"
      BY DEF Initiate, Idle, TypeOK
    <3>4. \A i \in Ids : ReadConfirm(p, i) => sess'[p].at = "pay"
      BY DEF ReadConfirm, Idle, TypeOK
    <3> QED BY <1>1, <3>1, <3>2, <3>3, <3>4
  <2>3. used' = used
    BY <1>1 DEF Start, Deposit, Initiate, ReadConfirm
  <2> QED BY <2>1, <2>2, <2>3, <1>i, OneMoves
<1>2. ASSUME NEW p \in Sessions, CheckJournal(p) \/ ReadAssignment(p) \/ Reuse(p)
                                 \/ Settle(p) \/ Fail(p) \/ Pay(p)
      PROVE  BookedWithinLimit'
  <2>1. \A q \in Sessions : q # p => sess'[q] = sess[q]
    BY <1>2 DEF CheckJournal, ReadAssignment, Reuse, Settle, Fail, Pay, Goto, Finish, TypeOK
  <2>2. sess'[p].at \notin {"reserve", "book", "commit"}
    <3>1. Idle.at = "idle"
      BY DEF Idle
    <3>2. sess[p] \in SessionType
      BY DEF TypeOK
    <3>3. \A l \in Points : [sess[p] EXCEPT !.at = l].at = l
      BY <3>2 DEF SessionType
    <3>4. \/ sess'[p] = Idle
          \/ \E l \in {"post", "write", "pick", "reuse", "settle"} :
                sess'[p] = [sess[p] EXCEPT !.at = l]
      BY <1>2 DEF CheckJournal, ReadAssignment, Reuse, Settle, Fail, Pay, Goto, Finish, TypeOK
    <3>5. {"post", "write", "pick", "reuse", "settle"} \subseteq Points
      BY DEF Points
    <3> QED BY <3>1, <3>3, <3>4, <3>5
  <2>3. used' = used
    BY <1>2 DEF CheckJournal, ReadAssignment, Reuse, Settle, Fail, Pay
  <2> QED BY <2>1, <2>2, <2>3, <1>i, OneMoves
<1>3. ASSUME NEW p \in Sessions, PostJournal(p) \/ Write(p) PROVE BookedWithinLimit'
  <2>1. /\ sess'[p] = Idle \/ sess'[p] = [sess[p] EXCEPT !.at = "assign"]
        /\ \A q \in Sessions : q # p => sess'[q] = sess[q]
    BY <1>3, FlushSession DEF PostJournal, Write
  <2>2. sess'[p].at \notin {"reserve", "book", "commit"}
    BY <2>1 DEF Idle, TypeOK, SessionType
  <2>3. used' = used
    BY <1>3 DEF PostJournal, Write
  <2> QED BY <2>1, <2>2, <2>3, <1>i, OneMoves
<1>4. ASSUME NEW p \in Sessions, PickAgent(p) PROVE BookedWithinLimit'
  <2>1. CASE Finish(p)
    <3>1. /\ sess'[p] = Idle
          /\ \A q \in Sessions : q # p => sess'[q] = sess[q]
      BY <2>1 DEF Finish, TypeOK
    <3>2. used' = used
      BY <1>4 DEF PickAgent
    <3>3. sess'[p].at \notin {"reserve", "book", "commit"}
      BY <3>1 DEF Idle
    <3> QED BY <3>1, <3>2, <3>3, <1>i, OneMoves
  <2>2. ASSUME NEW b \in Eligible,
               sess' = [sess EXCEPT ![p] = [@ EXCEPT !.at = "reserve", !.agent = b]]
        PROVE  BookedWithinLimit'
    <3> SUFFICES ASSUME Limit > 0, NEW a \in Agents
                 PROVE  used'[a] + Cardinality(Booking(a)')
                          <= Limit + Cardinality(Sessions) - 1
      BY DEF BookedWithinLimit
    <3>1. used' = used /\ used[a] \in Nat /\ Limit \in Nat
      BY <1>4, SettlementAssumption DEF PickAgent, TypeOK
    <3>2. /\ IsFiniteSet(Booking(a)) /\ Cardinality(Booking(a)) \in Nat
          /\ IsFiniteSet(Booking(a)') /\ Cardinality(Booking(a)') \in Nat
          /\ Cardinality(Booking(a)') <= Cardinality(Sessions)
      <4>1. Booking(a) \subseteq Sessions /\ Booking(a)' \subseteq Sessions
        BY DEF Booking
      <4> QED BY <4>1, <1>f, FS_Subset, FS_CardinalityType
    <3>3. CASE a = b
      <4>1. used[a] + 1 <= Limit
        BY <3>3, SettlementAssumption DEF Eligible
      <4> QED BY <4>1, <3>1, <3>2, <1>f
    <3>4. CASE a # b
      <4>1. sess'[p].agent = b /\ \A q \in Sessions : q # p => sess'[q] = sess[q]
        BY <2>2 DEF TypeOK, SessionType
      <4>2. Booking(a)' \subseteq Booking(a)
        BY <4>1, <3>4 DEF Booking
      <4>3. Cardinality(Booking(a)') <= Cardinality(Booking(a))
        BY <4>2, <3>2, FS_Subset
      <4>4. used[a] + Cardinality(Booking(a)) <= Limit + Cardinality(Sessions) - 1
        BY <1>i DEF BookedWithinLimit
      <4> QED BY <4>3, <4>4, <3>1, <3>2, <1>f
    <3> QED BY <3>3, <3>4
  <2> QED BY <1>4, <2>1, <2>2 DEF PickAgent
<1>5. ASSUME NEW p \in Sessions, Reserve(p) \/ UpdateAgent(p) PROVE BookedWithinLimit'
  <2>1. /\ sess[p].at \in {"reserve", "book", "commit"}
        /\ \A q \in Sessions : q # p => sess'[q] = sess[q]
        /\ used' = used
    BY <1>5 DEF Reserve, UpdateAgent, At, Goto, TypeOK
  <2>2. sess'[p].agent = sess[p].agent
    BY <1>5, ZenonT(60) DEF Reserve, UpdateAgent, Goto, TypeOK, SessionType
  <2> QED BY <2>1, <2>2, <1>i, OneMoves
<1>6. ASSUME NEW p \in Sessions, CommitAssignment(p) PROVE BookedWithinLimit'
  <2>0. PICK b \in Agents : b = sess[p].agent
    BY <1>6, <1>i, CommitFields
  <2>1. /\ b \in Agents
        /\ used'[b] = used[b] + 1
        /\ \A a \in Agents : a # b => used'[a] = used[a]
    BY <1>6, <1>i, <2>0, CommitFields
  <2>2. /\ sess[p].at = "commit" /\ sess'[p] = Idle
        /\ \A q \in Sessions : q # p => sess'[q] = sess[q]
    BY <1>6 DEF CommitAssignment, At, Finish, TypeOK
  <2>3. sess'[p].at = "idle"
    BY <2>2 DEF Idle
  <2> SUFFICES ASSUME Limit > 0, NEW a \in Agents
               PROVE  used'[a] + Cardinality(Booking(a)')
                        <= Limit + Cardinality(Sessions) - 1
    BY DEF BookedWithinLimit
  <2>4. used[a] \in Nat /\ Limit \in Nat
    BY SettlementAssumption DEF TypeOK
  <2>5. IsFiniteSet(Booking(a)) /\ Cardinality(Booking(a)) \in Nat
    <3>1. Booking(a) \subseteq Sessions
      BY DEF Booking
    <3> QED BY <3>1, <1>f, FS_Subset, FS_CardinalityType
  <2>6. used[a] + Cardinality(Booking(a)) <= Limit + Cardinality(Sessions) - 1
    BY <1>i DEF BookedWithinLimit
  <2>7. CASE a = b
    <3>1. p \in Booking(a) /\ Booking(a)' = Booking(a) \ {p}
      BY <2>0, <2>2, <2>3, <2>7 DEF Booking
    <3>2. Cardinality(Booking(a)') = Cardinality(Booking(a)) - 1
      BY <3>1, <2>5, FS_RemoveElement
    <3> QED BY <3>2, <2>1, <2>4, <2>5, <2>6, <2>7, <1>f
  <2>8. CASE a # b
    <3>1. Booking(a)' = Booking(a)
      BY <2>0, <2>2, <2>3, <2>8 DEF Booking
    <3> QED BY <3>1, <2>1, <2>6, <2>8
  <2> QED BY <2>7, <2>8
<1>7. CASE UNCHANGED vars
  <2>1. UNCHANGED <<sess, used>>
    BY <1>7 DEF vars
  <2> QED BY <2>1, <1>i, FewerBookings DEF Booking
<1> QED
  BY <1>1, <1>2, <1>3, <1>4, <1>5, <1>6, <1>7 DEF Next, Continue, Assign

(***************************************************************************)
(* One request at a time.                                                  *)
(***************************************************************************)

\* no handler starts from PAID_OUT, and the backoffice leads there
LEMMA PaidOutIsLast ==
    ASSUME NEW h \in Handlers
    PROVE  /\ "PAID_OUT" \notin h.from
           /\ h.name = "paid_out" => h.to = "PAID_OUT"
BY RefundSources
   DEF Handlers, Handler, MarkPaid, ConfirmFiatIn, ConfirmCryptoRelease,
       MarkPayoutPending, ConfirmPaidOut, RequestRefund, ConfirmRefund, SimulateSwap,
       SandboxFund, SandboxSwap, SandboxPayout, AutoTransitions

LEMMA SerialInit == Init => SerialInv
<1> SUFFICES ASSUME Init PROVE SerialInv
  OBVIOUS
<1>1. \A p \in Sessions : sess[p].at = "idle"
  BY DEF Init, Idle
<1> QED BY <1>1 DEF Init, SerialInv, OneRowPerOrder, ReadIsCurrent, PaidIsFinal, ConfirmedIsSettled

\* where a handler commits, in a serial run
LEMMA SerialFlush ==
    ASSUME TypeOK, SettlementInv, ReadIsCurrent, NEW p \in Sessions, PostJournal(p) \/ Write(p)
    PROVE  /\ sess[p].order \in Orders /\ sess[p].job \in Handlers
           /\ status[sess[p].order] # "PAID_OUT"
           /\ status'[sess[p].order] = sess[p].job.to
           /\ \A o \in Orders : o # sess[p].order =>
                 status'[o] = status[o] /\ payouts'[o] = payouts[o]
           /\ payouts'[sess[p].order] = IF sess[p].job.name = "paid_out"
                                        THEN payouts[sess[p].order] + 1
                                        ELSE payouts[sess[p].order]
           /\ sess'[p].at \in {"idle", "assign"}
           /\ \A q \in Sessions : q # p => sess'[q] = sess[q]
           /\ UNCHANGED <<rows, outs>>
<1>1. /\ sess[p].at \in {"post", "write"} /\ Flush(p) /\ UNCHANGED <<rows, outs>>
  BY DEF PostJournal, Write, At
<1>2. /\ sess[p].order \in Orders /\ sess[p].job \in Handlers
      /\ sess[p].seen \in sess[p].job.from
      /\ status[sess[p].order] = sess[p].seen
  BY <1>1 DEF SettlementInv, SessionsKnow, Fits, ReadIsCurrent
<1>3. status[sess[p].order] # "PAID_OUT"
  BY <1>2, PaidOutIsLast
<1>4. /\ status'[sess[p].order] = sess[p].job.to
      /\ \A o \in Orders : o # sess[p].order =>
           status'[o] = status[o] /\ payouts'[o] = payouts[o]
      /\ payouts'[sess[p].order] = IF sess[p].job.name = "paid_out"
                                   THEN payouts[sess[p].order] + 1
                                   ELSE payouts[sess[p].order]
  BY <1>1, <1>2 DEF Flush, TypeOK
<1>5. /\ sess'[p] = Idle \/ sess'[p] = [sess[p] EXCEPT !.at = "assign"]
      /\ \A q \in Sessions : q # p => sess'[q] = sess[q]
  BY <1>1, FlushSession
<1>6. sess'[p].at \in {"idle", "assign"}
  BY <1>5 DEF Idle, TypeOK, SessionType
<1> QED BY <1>1, <1>2, <1>3, <1>4, <1>5, <1>6

\* a paid order stays paid
LEMMA PaidStays ==
    ASSUME TypeOK, SettlementInv, ReadIsCurrent, [Next]_vars,
           NEW o \in Orders, status[o] = "PAID_OUT"
    PROVE  status'[o] = "PAID_OUT"
<1>1. ASSUME NEW p \in Sessions, PostJournal(p) \/ Write(p) PROVE status'[o] = "PAID_OUT"
  <2>1. o # sess[p].order
    BY <1>1, SerialFlush
  <2> QED BY <1>1, <2>1, SerialFlush
<1>2. ASSUME NEW p \in Sessions, NEW n \in Orders, Deposit(p, n) PROVE status'[o] = "PAID_OUT"
  BY <1>2 DEF Deposit, TypeOK
<1>3. ASSUME NEW p \in Sessions, Reuse(p) \/ CommitAssignment(p) \/ Settle(p)
      PROVE  status'[o] = "PAID_OUT"
  BY <1>3 DEF Reuse, CommitAssignment, Settle, MakePending, TypeOK
<1>4. CASE UNCHANGED status
  BY <1>4
<1> QED
  BY <1>1, <1>2, <1>3, <1>4
     DEF Next, Continue, Assign, Start, Initiate, ReadConfirm, CheckJournal,
         ReadAssignment, PickAgent, Reserve, UpdateAgent, Pay, Fail, vars

\* what the agent of an assignment and its confirmation do to the tables
LEMMA RowsOfKept ==
    ASSUME \A i \in Ids : /\ rows'[i] # None <=> rows[i] # None
                          /\ rows[i] # None => rows'[i].order = rows[i].order
    PROVE  /\ OneRowPerOrder => OneRowPerOrder'
           /\ \A o : RowsOf(o)' = RowsOf(o)
BY DEF OneRowPerOrder, RowsOf

LEMMA PayFields ==
    ASSUME TypeOK, SessionsKnow, SessionsTraced, NEW p \in Sessions, Pay(p)
    PROVE  /\ sess[p].at = "pay" /\ sess[p].id \in Ids /\ rows[sess[p].id] # None
           /\ \A i \in Ids : /\ rows'[i] # None <=> rows[i] # None
                             /\ rows[i] # None => rows'[i].order = rows[i].order
           /\ \A i \in Ids : i # sess[p].id => rows'[i] = rows[i] /\ outs'[i] = outs[i]
           /\ outs'[sess[p].id] = outs[sess[p].id] + 1
           /\ sess'[p].at = "settle" /\ sess'[p].id = sess[p].id
           /\ \A q \in Sessions : q # p => sess'[q] = sess[q]
           /\ status' = status /\ payouts' = payouts
<1>1. /\ sess[p].at = "pay" /\ sess[p].id \in Ids /\ rows[sess[p].id] # None
      /\ rows[sess[p].id] \in AssignmentType
  BY DEF Pay, At, SessionsKnow, Fits, SessionsTraced, TypeOK
<1>2. /\ rows'[sess[p].id] = [rows[sess[p].id] EXCEPT !.state = "CONFIRMED"]
      /\ outs'[sess[p].id] = outs[sess[p].id] + 1
      /\ \A i \in Ids : i # sess[p].id => rows'[i] = rows[i] /\ outs'[i] = outs[i]
  BY <1>1 DEF Pay, TypeOK
<1>3. [rows[sess[p].id] EXCEPT !.state = "CONFIRMED"] \in AssignmentType
  BY <1>1 DEF AssignmentType
<1>4. rows'[sess[p].id] # None
  BY <1>2, <1>3, NoneAssumption
<1>5. rows'[sess[p].id].order = rows[sess[p].id].order
  BY <1>1, <1>2 DEF AssignmentType
<1>6. /\ sess'[p].at = "settle" /\ sess'[p].id = sess[p].id
      /\ \A q \in Sessions : q # p => sess'[q] = sess[q]
      /\ status' = status /\ payouts' = payouts
  BY DEF Pay, Goto, TypeOK, SessionType
<1> QED BY <1>1, <1>2, <1>4, <1>5, <1>6

LEMMA RowStep ==
    TypeOK /\ SettlementInv /\ SerialInv /\ [Next]_vars => OneRowPerOrder'
<1> SUFFICES ASSUME TypeOK, SettlementInv, OneRowPerOrder, ReadIsCurrent, [Next]_vars
             PROVE  OneRowPerOrder'
  BY DEF SerialInv
<1>i. SessionsKnow /\ SessionsOwnIds /\ SessionsTraced
  BY DEF SettlementInv
<1>1. ASSUME NEW p \in Sessions, CommitAssignment(p) PROVE OneRowPerOrder'
  <2>1. PICK n \in Ids : n = sess[p].id
    BY <1>1, <1>i, CommitFields
  <2>2. RowsOf(sess[p].order) = {} /\ sess[p].order \in Orders
    BY <1>1, <1>i DEF CommitAssignment, At, ReadIsCurrent, SessionsKnow, Fits
  <2>3. rows' = [rows EXCEPT ![n] = [order |-> sess[p].order, agent |-> sess[p].agent,
                                     state |-> "ASSIGNED"]]
    BY <1>1, <2>1 DEF CommitAssignment
  <2>4. /\ rows'[n].order = sess[p].order
        /\ \A i \in Ids : i # n => rows'[i] = rows[i]
    BY <2>3 DEF TypeOK
  <2>5. \A i \in Ids : rows[i] # None => rows[i].order # sess[p].order
    BY <2>2 DEF RowsOf
  <2> QED BY <2>4, <2>5 DEF OneRowPerOrder
<1>2. ASSUME NEW p \in Sessions, Pay(p) PROVE OneRowPerOrder'
  BY <1>2, <1>i, PayFields, RowsOfKept
<1>3. CASE UNCHANGED rows
  BY <1>3 DEF OneRowPerOrder
<1> QED
  BY <1>1, <1>2, <1>3
     DEF Next, Continue, Assign, Start, Deposit, Initiate, ReadConfirm, CheckJournal,
         PostJournal, Write, ReadAssignment, Reuse, PickAgent, Reserve, UpdateAgent,
         Settle, Fail, vars

\* a session that holds nothing another could make stale
LEMMA NothingRead ==
    ASSUME Serial, NEW p \in Sessions, sess'[p].at \in {"idle", "assign", "reuse", "settle"}
    PROVE  ReadIsCurrent'
BY DEF Serial, ReadIsCurrent

\* a session on its way to a first assignment
LEMMA PickedHasNoRow ==
    ASSUME Serial, NEW p \in Sessions,
           sess'[p].at \in {"pick", "reserve", "book", "commit"},
           sess'[p].order = sess[p].order, rows' = rows, RowsOf(sess[p].order) = {}
    PROVE  ReadIsCurrent'
<1>1. PICK o : o = sess[p].order
  OBVIOUS
<1>2. RowsOf(o)' = {}
  BY <1>1 DEF RowsOf
<1>3. \A q \in Sessions : q = p
  BY DEF Serial
<1> QED BY <1>1, <1>2, <1>3 DEF ReadIsCurrent, RowsOf

LEMMA CurrentStep ==
    Serial /\ TypeOK /\ SettlementInv /\ SerialInv /\ [Next]_vars => ReadIsCurrent'
<1> SUFFICES ASSUME Serial, TypeOK, SettlementInv, ReadIsCurrent, [Next]_vars
             PROVE  ReadIsCurrent'
  BY DEF SerialInv
<1>i. SessionsKnow /\ SessionsOwnIds /\ SessionsTraced
  BY DEF SettlementInv
<1>o. ASSUME NEW p \in Sessions PROVE \A q \in Sessions : q = p
  BY DEF Serial
<1>1. ASSUME NEW p \in Sessions, NEW o \in Orders, NEW h \in Handlers, Start(p, o, h)
      PROVE  ReadIsCurrent'
  <2>1. /\ sess'[p].at \in {"check", "write"}
        /\ sess'[p].order = o /\ sess'[p].seen = status[o] /\ status' = status
    BY <1>1 DEF Start, TypeOK, Idle
  <2> QED BY <2>1, <1>o DEF ReadIsCurrent
<1>2. ASSUME NEW p \in Sessions, NEW o \in Orders, Deposit(p, o) PROVE ReadIsCurrent'
  <2>1. sess'[p].at \in {"idle", "assign"}
    BY <1>2 DEF Deposit, At, TypeOK, Idle
  <2> QED BY <2>1, NothingRead
<1>3. ASSUME NEW p \in Sessions, NEW o \in Orders, Initiate(p, o) PROVE ReadIsCurrent'
  <2>1. sess'[p].at = "assign"
    BY <1>3 DEF Initiate, TypeOK, Idle
  <2> QED BY <2>1, NothingRead
<1>4. ASSUME NEW p \in Sessions, NEW i \in Ids, ReadConfirm(p, i) PROVE ReadIsCurrent'
  <2>1. sess'[p].at = "pay" /\ sess'[p].id = i /\ rows' = rows /\ rows[i].state = "ASSIGNED"
    BY <1>4 DEF ReadConfirm, TypeOK, Idle
  <2> QED BY <2>1, <1>o DEF ReadIsCurrent
<1>5. ASSUME NEW p \in Sessions, CheckJournal(p) PROVE ReadIsCurrent'
  <2>1. /\ sess[p].at = "check" /\ sess'[p].at \in {"post", "write"}
        /\ sess'[p].order = sess[p].order /\ sess'[p].seen = sess[p].seen
        /\ status' = status
    BY <1>5 DEF CheckJournal, At, Goto, TypeOK, SessionType
  <2> QED BY <2>1, <1>o DEF ReadIsCurrent
<1>6. ASSUME NEW p \in Sessions, PostJournal(p) \/ Write(p) PROVE ReadIsCurrent'
  BY <1>6, SerialFlush, NothingRead
<1>8. ASSUME NEW p \in Sessions, ReadAssignment(p) PROVE ReadIsCurrent'
  <2>1. \/ sess'[p].at \in {"idle", "reuse"}
        \/ /\ sess'[p].at = "pick" /\ sess'[p].order = sess[p].order
           /\ RowsOf(sess[p].order) = {}
    BY <1>8 DEF ReadAssignment, TypeOK, SessionType, Idle
  <2>2. rows' = rows
    BY <1>8 DEF ReadAssignment
  <2>3. CASE sess'[p].at \in {"idle", "reuse"}
    BY <2>3, NothingRead
  <2>4. CASE /\ sess'[p].at = "pick" /\ sess'[p].order = sess[p].order
             /\ RowsOf(sess[p].order) = {}
    BY <2>2, <2>4, PickedHasNoRow
  <2> QED BY <2>1, <2>3, <2>4
<1>9. ASSUME NEW p \in Sessions, Reuse(p) \/ CommitAssignment(p) \/ Settle(p) \/ Fail(p)
      PROVE  ReadIsCurrent'
  <2>1. sess'[p].at = "idle"
    BY <1>9 DEF Reuse, CommitAssignment, Settle, Fail, Finish, TypeOK, Idle
  <2> QED BY <2>1, NothingRead
<1>10. ASSUME NEW p \in Sessions, PickAgent(p) \/ Reserve(p) \/ UpdateAgent(p)
       PROVE  ReadIsCurrent'
  <2>1. /\ sess[p].at \in {"pick", "reserve", "book"}
        /\ rows' = rows
    BY <1>10 DEF PickAgent, Reserve, UpdateAgent, At
  <2>2. \/ sess'[p].at = "idle"
        \/ /\ sess'[p].at \in {"reserve", "book", "commit"}
           /\ sess'[p].order = sess[p].order
    <3>1. PickAgent(p) => \/ sess'[p].at = "idle"
                          \/ sess'[p].at = "reserve" /\ sess'[p].order = sess[p].order
      <4>1. Finish(p) => sess'[p].at = "idle"
        BY DEF Finish, Idle, TypeOK
      <4>2. ASSUME NEW a \in Eligible,
                   sess' = [sess EXCEPT ![p] = [@ EXCEPT !.at = "reserve", !.agent = a]]
            PROVE  sess'[p].at = "reserve" /\ sess'[p].order = sess[p].order
        BY <4>2 DEF TypeOK, SessionType
      <4> QED BY <4>1, <4>2 DEF PickAgent
    <3>2. Reserve(p) => sess'[p].at = "book" /\ sess'[p].order = sess[p].order
      BY DEF Reserve, TypeOK, SessionType
    <3>3. UpdateAgent(p) => sess'[p].at = "commit" /\ sess'[p].order = sess[p].order
      BY DEF UpdateAgent, Goto, TypeOK, SessionType
    <3> QED BY <1>10, <3>1, <3>2, <3>3
  <2>3. RowsOf(sess[p].order) = {}
    BY <2>1 DEF ReadIsCurrent
  <2>4. CASE sess'[p].at = "idle"
    BY <2>4, NothingRead
  <2>5. CASE /\ sess'[p].at \in {"reserve", "book", "commit"}
             /\ sess'[p].order = sess[p].order
    BY <2>1, <2>3, <2>5, PickedHasNoRow
  <2> QED BY <2>2, <2>4, <2>5
<1>11. ASSUME NEW p \in Sessions, Pay(p) PROVE ReadIsCurrent'
  BY <1>11, <1>i, PayFields, NothingRead
<1>u. CASE UNCHANGED vars
  BY <1>u DEF vars, ReadIsCurrent, RowsOf
<1> QED
  BY <1>1, <1>2, <1>3, <1>4, <1>5, <1>6, <1>8, <1>9, <1>10, <1>11, <1>u
     DEF Next, Continue, Assign

LEMMA FinalStep ==
    TypeOK /\ SettlementInv /\ SerialInv /\ [Next]_vars => PaidIsFinal'
<1> SUFFICES ASSUME TypeOK, SettlementInv, ReadIsCurrent, PaidIsFinal, [Next]_vars,
                    NEW o \in Orders
             PROVE  payouts'[o] = 0 \/ (payouts'[o] = 1 /\ status'[o] = "PAID_OUT")
  BY DEF SerialInv, PaidIsFinal
<1>1. CASE payouts'[o] = payouts[o]
  BY <1>1, PaidStays DEF PaidIsFinal
<1>2. ASSUME NEW p \in Sessions, PostJournal(p) \/ Write(p), payouts'[o] # payouts[o]
      PROVE  payouts'[o] = 1 /\ status'[o] = "PAID_OUT"
  <2>1. o = sess[p].order /\ sess[p].job \in Handlers /\ sess[p].job.name = "paid_out"
    BY <1>2, SerialFlush
  <2>2. status[o] # "PAID_OUT" /\ status'[o] = "PAID_OUT" /\ payouts'[o] = payouts[o] + 1
    BY <1>2, <2>1, SerialFlush, PaidOutIsLast
  <2> QED BY <2>2 DEF PaidIsFinal
<1>3. CASE UNCHANGED payouts
  BY <1>3, <1>1
<1> QED
  BY <1>1, <1>2, <1>3
     DEF Next, Continue, Assign, Start, Deposit, Initiate, ReadConfirm, CheckJournal,
         ReadAssignment, Reuse, PickAgent, Reserve, UpdateAgent, CommitAssignment,
         Pay, Settle, Fail, vars

LEMMA SettledStep ==
    Serial /\ TypeOK /\ SettlementInv /\ SerialInv /\ [Next]_vars => ConfirmedIsSettled'
<1> SUFFICES ASSUME Serial, TypeOK, SettlementInv, ReadIsCurrent, ConfirmedIsSettled,
                    [Next]_vars, NEW i \in Ids
             PROVE  /\ outs'[i] <= 1
                    /\ rows'[i] # None /\ rows'[i].state = "CONFIRMED" =>
                          \/ status'[rows'[i].order] = "PAID_OUT"
                          \/ \E p \in Sessions : sess'[p].at = "settle" /\ sess'[p].id = i
  BY DEF SerialInv, ConfirmedIsSettled, At
<1>i. SessionsKnow /\ SessionsOwnIds /\ SessionsTraced /\ LedgerMatchesRows
  BY DEF SettlementInv
<1>t. rows[i] # None => rows[i].order \in Orders
  BY DEF TypeOK, AssignmentType
<1>c. /\ outs[i] <= 1
      /\ rows[i] # None /\ rows[i].state = "CONFIRMED" =>
            \/ status[rows[i].order] = "PAID_OUT"
            \/ \E p \in Sessions : sess[p].at = "settle" /\ sess[p].id = i
  BY DEF ConfirmedIsSettled, At
<1>1. ASSUME NEW p \in Sessions, sess[p].at # "settle", UNCHANGED <<rows, outs>>
      PROVE  /\ outs'[i] <= 1
             /\ rows'[i] # None /\ rows'[i].state = "CONFIRMED" =>
                   status'[rows'[i].order] = "PAID_OUT"
  <2>1. \A q \in Sessions : sess[q].at # "settle"
    BY <1>1 DEF Serial
  <2> QED BY <1>1, <1>c, <1>t, <2>1, PaidStays
<1>2. ASSUME NEW p \in Sessions, CommitAssignment(p)
      PROVE  /\ outs'[i] <= 1
             /\ rows'[i] # None /\ rows'[i].state = "CONFIRMED" =>
                   status'[rows'[i].order] = "PAID_OUT"
  <2>1. /\ sess[p].at = "commit" /\ outs' = outs
        /\ rows' = [rows EXCEPT ![sess[p].id] =
                      [order |-> sess[p].order, agent |-> sess[p].agent,
                       state |-> "ASSIGNED"]]
    BY <1>2 DEF CommitAssignment, At
  <2>2. \A q \in Sessions : sess[q].at # "settle"
    BY <2>1 DEF Serial
  <2>3. CASE i = sess[p].id
    BY <2>1, <2>3, <1>c DEF TypeOK
  <2>4. CASE i # sess[p].id
    <3>1. rows'[i] = rows[i]
      BY <2>1, <2>4 DEF TypeOK
    <3> QED BY <3>1, <2>1, <2>2, <1>c, <1>t, PaidStays
  <2> QED BY <2>3, <2>4
<1>3. ASSUME NEW p \in Sessions, Pay(p)
      PROVE  /\ outs'[i] <= 1
             /\ rows'[i] # None /\ rows'[i].state = "CONFIRMED" =>
                   \/ status'[rows'[i].order] = "PAID_OUT"
                   \/ \E q \in Sessions : sess'[q].at = "settle" /\ sess'[q].id = i
  <2>1. sess[p].at = "pay" /\ sess'[p].at = "settle" /\ sess'[p].id = sess[p].id
    BY <1>3, <1>i, PayFields
  <2>2. CASE i = sess[p].id
    <3>1. rows[i].state = "ASSIGNED"
      BY <2>1, <2>2 DEF ReadIsCurrent
    <3>2. outs[i] = 0
      BY <3>1, <1>i DEF LedgerMatchesRows, TypeOK
    <3>3. outs'[i] = outs[i] + 1
      BY <1>3, <1>i, <2>2, PayFields
    <3> QED BY <2>1, <2>2, <3>2, <3>3
  <2>3. CASE i # sess[p].id
    <3>1. rows'[i] = rows[i] /\ outs'[i] = outs[i] /\ status' = status
      BY <1>3, <1>i, <2>3, PayFields
    <3>2. \A q \in Sessions : sess[q].at # "settle"
      BY <2>1 DEF Serial
    <3> QED BY <3>1, <3>2, <1>c
  <2> QED BY <2>2, <2>3
<1>4. ASSUME NEW p \in Sessions, Settle(p)
      PROVE  /\ outs'[i] <= 1
             /\ rows'[i] # None /\ rows'[i].state = "CONFIRMED" =>
                   status'[rows'[i].order] = "PAID_OUT"
  <2>1. /\ sess[p].at = "settle" /\ sess[p].order \in Orders
        /\ status'[sess[p].order] = "PAID_OUT"
        /\ UNCHANGED <<rows, outs>>
    BY <1>4, <1>i DEF Settle, At, SessionsKnow, Fits, TypeOK
  <2>2. rows[sess[p].id].order = sess[p].order
    BY <2>1, <1>i DEF SessionsTraced
  <2>3. \A q \in Sessions : q = p
    BY DEF Serial
  <2> QED BY <2>1, <2>2, <2>3, <1>c, <1>t, PaidStays
<1>5. ASSUME NEW p \in Sessions, Fail(p) PROVE FALSE
  BY <1>5, SettlementAssumption DEF Fail, Serial, TypeOK
<1>6. CASE UNCHANGED vars
  BY <1>6, <1>c DEF vars
<1>7. ASSUME NEW p \in Sessions, PostJournal(p) \/ Write(p)
      PROVE  sess[p].at # "settle" /\ UNCHANGED <<rows, outs>>
  BY <1>7 DEF PostJournal, Write, At
<1>8. ASSUME NEW p \in Sessions,
             \/ \E o \in Orders, h \in Handlers : Start(p, o, h)
             \/ \E o \in Orders : Deposit(p, o) \/ Initiate(p, o)
             \/ \E n \in Ids : ReadConfirm(p, n)
             \/ CheckJournal(p) \/ ReadAssignment(p) \/ Reuse(p) \/ PickAgent(p)
             \/ Reserve(p) \/ UpdateAgent(p)
      PROVE  sess[p].at # "settle" /\ UNCHANGED <<rows, outs>>
  BY <1>8 DEF Start, Deposit, Initiate, ReadConfirm, CheckJournal, ReadAssignment, Reuse,
              PickAgent, Reserve, UpdateAgent, At
<1> QED
  BY <1>1, <1>2, <1>3, <1>4, <1>5, <1>6, <1>7, <1>8 DEF Next, Continue, Assign

(***************************************************************************)
(* The theorems.                                                           *)
(***************************************************************************)

\* The inductive invariant holds throughout every behaviour: what a session
\* has read stays consistent with the tables until it commits.
THEOREM Invariance == Spec => [](TypeOK /\ SettlementInv)
<1>1. Init => TypeOK /\ SettlementInv
  BY TypeInit, InvInit
<1>2. TypeOK /\ SettlementInv /\ [Next]_vars => (TypeOK /\ SettlementInv)'
  <2> SUFFICES ASSUME TypeOK, SettlementInv, [Next]_vars
               PROVE  TypeOK' /\ SettlementInv'
    OBVIOUS
  <2>1. /\ SessionsKnow /\ SessionsOwnIds /\ LedgerMatchesRows
        /\ MoneyIsTraced /\ SessionsTraced
    BY DEF SettlementInv
  <2>2. TypeOK'
    BY <2>1, TypeStep
  <2>3. SessionsKnow'
    BY <2>1, KnowStep
  <2>4. SessionsOwnIds'
    BY <2>1, OwnStep
  <2>5. LedgerMatchesRows'
    BY <2>1, LedgerStep
  <2>6. MoneyIsTraced' /\ SessionsTraced'
    BY <2>1, MoneyStep, TraceStep
  <2>7. UsedIsAssigned' /\ BookedWithinLimit'
    BY CountStep, LimitStep
  <2> QED BY <2>2, <2>3, <2>4, <2>5, <2>6, <2>7 DEF SettlementInv
<1> QED BY <1>1, <1>2, PTL DEF Spec

\* The variables keep their types.
THEOREM TypeCorrect == Spec => []TypeOK
BY Invariance, PTL

\* The sessions' knowledge, the ledger and the tables agree in every state.
THEOREM SettlementConsistent == Spec => []SettlementInv
BY Invariance, PTL

\* Every assignment has its reservation and every payment by an agent its
\* confirmed assignment, whatever session dies between which commits.
THEOREM AssignmentsAreReserved == Spec => []LedgerMatchesRows
<1>1. SettlementInv => LedgerMatchesRows
  BY DEF SettlementInv
<1> QED BY Invariance, <1>1, PTL

\* A real order that is refunded, or on its way to a payout, was funded; one
\* that is PAID_OUT was funded or paid by an agent.
THEOREM MoneyTraced == Spec => []MoneyIsTraced
<1>1. SettlementInv => MoneyIsTraced
  BY DEF SettlementInv
<1> QED BY Invariance, <1>1, PTL
\* What an agent has used of its limit is what is assigned to it, and exceeds the
\* limit by less than one payout per other session.
THEOREM OvershootIsBounded == Spec => []OvershootBounded
<1>1. TypeOK /\ SettlementInv => OvershootBounded
  <2> SUFFICES ASSUME TypeOK, UsedIsAssigned, BookedWithinLimit, NEW a \in Agents, Limit > 0
               PROVE  used[a] <= Limit + Cardinality(Sessions) - 1
    BY DEF SettlementInv, OvershootBounded, UsedIsAssigned
  <2>1. Booking(a) \subseteq Sessions
    BY DEF Booking
  <2>2. Cardinality(Booking(a)) \in Nat /\ Cardinality(Sessions) \in Nat
    BY <2>1, SettlementAssumption, FS_Subset, FS_CardinalityType
  <2>3. used[a] + Cardinality(Booking(a)) <= Limit + Cardinality(Sessions) - 1
    BY DEF BookedWithinLimit
  <2>4. used[a] \in Nat /\ Limit \in Nat
    BY SettlementAssumption DEF TypeOK
  <2> QED BY <2>2, <2>3, <2>4
<1> QED BY Invariance, <1>1, PTL

\* The invariant of a serial run.
LEMMA SerialInvariance == Serial => (Spec => []SerialInv)
<1>1. Serial /\ TypeOK /\ SettlementInv /\ SerialInv /\ [Next]_vars => SerialInv'
  BY RowStep, CurrentStep, FinalStep, SettledStep DEF SerialInv
<1>2. SUFFICES ASSUME Serial PROVE Spec => []SerialInv
  OBVIOUS
<1>3. TypeOK /\ SettlementInv /\ SerialInv /\ [Next]_vars => SerialInv'
  BY <1>1, <1>2
<1> QED BY SerialInit, Invariance, <1>3, PTL DEF Spec

\* One request at a time, an order is assigned once, its assignment is paid once, the
\* backoffice confirms its payout once, and what the agent confirmed reaches the order.
THEOREM OutOnceSerially == Serial => (Spec => []OutOnce)
<1>1. TypeOK /\ SerialInv => OutOnce
  <2> SUFFICES ASSUME TypeOK, SerialInv PROVE OutOnce
    OBVIOUS
  <2>1. ASSUME NEW o \in Orders PROVE Cardinality(RowsOf(o)) <= 1
    <3>1. \A i, j \in RowsOf(o) : i = j
      BY DEF SerialInv, OneRowPerOrder, RowsOf
    <3>2. RowsOf(o) = {} \/ \E i : RowsOf(o) = {i}
      BY <3>1
    <3>3. Cardinality({}) = 0 /\ \A i : Cardinality({i}) = 1
      BY FS_EmptySet, FS_Singleton
    <3> QED BY <3>2, <3>3
  <2>2. \A o \in Orders : payouts[o] <= 1
    BY DEF SerialInv, PaidIsFinal
  <2>3. \A i \in Ids : outs[i] <= 1
    BY DEF SerialInv, ConfirmedIsSettled
  <2>4. (\A p \in Sessions : At(p, "idle")) =>
          \A i \in Ids : rows[i] # None /\ rows[i].state = "CONFIRMED"
                           => status[rows[i].order] = "PAID_OUT"
    BY DEF SerialInv, ConfirmedIsSettled, At
  <2> QED BY <2>1, <2>2, <2>3, <2>4 DEF OutOnce
<1> QED BY Invariance, SerialInvariance, <1>1, PTL

=============================================================================
