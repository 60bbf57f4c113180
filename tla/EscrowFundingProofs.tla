------------------------- MODULE EscrowFundingProofs -------------------------
(***************************************************************************)
(* Proofs about EscrowFunding, for every set of orders, transfers,         *)
(* sessions and retry ids.                                                 *)
(***************************************************************************)
EXTENDS EscrowFunding, TLAPS

(***************************************************************************)
(* Type correctness.                                                       *)
(***************************************************************************)

LEMMA EmptyBufType == EmptyBuf \in BufType
BY DEF EmptyBuf, BufType, Keep

LEMMA RowUpdates ==
    /\ \A row \in RowType : [row EXCEPT !.state = "deleted"] \in RowType
    /\ \A row \in RowType : [row EXCEPT !.attempts = @ + 1] \in RowType
BY DEF RowType

LEMMA BufUpdates ==
    ASSUME NEW b \in BufType
    PROVE  /\ \A x \in Transfers : [b EXCEPT !.deps = @ \union {x}] \in BufType
           /\ \A x \in Transfers : [b EXCEPT !.credits = @ \union {x}] \in BufType
           /\ \A o \in Orders : [b EXCEPT !.locks = @ \union {o}] \in BufType
           /\ \A r \in RetryIds : [b EXCEPT !.done = @ \union {r}] \in BufType
           /\ \A r \in RetryIds : [b EXCEPT !.bumped = @ \union {r}] \in BufType
           /\ \A o \in Orders, s \in Status : [b EXCEPT !.writes[o] = s] \in BufType
BY DEF BufType

LEMMA CounterUpdates ==
    /\ \A f \in FaultType : /\ [f EXCEPT !.soft = @ + 1] \in FaultType
                           /\ [f EXCEPT !.db = @ + 1] \in FaultType
    /\ \A w \in WorkerType, b \in BOOLEAN :
          [w EXCEPT !.batch = {}, !.wedged = b] \in WorkerType
    /\ \A w \in WorkerType, r \in RetryIds :
          [w EXCEPT !.row = r, !.batch = @ \ {r}] \in WorkerType
    /\ \A w \in WorkerType, R \in SUBSET RetryIds :
          [w EXCEPT !.batch = R] \in WorkerType
<1>1. \A f \in FaultType : /\ [f EXCEPT !.soft = @ + 1] \in FaultType
                         /\ [f EXCEPT !.db = @ + 1] \in FaultType
  BY DEF FaultType
<1>2. \A w \in WorkerType, b \in BOOLEAN :
          [w EXCEPT !.batch = {}, !.wedged = b] \in WorkerType
  BY DEF WorkerType
<1>3. \A w \in WorkerType, r \in RetryIds :
          [w EXCEPT !.row = r, !.batch = @ \ {r}] \in WorkerType
  BY DEF WorkerType
<1>4. \A w \in WorkerType, R \in SUBSET RetryIds :
          [w EXCEPT !.batch = R] \in WorkerType
  BY DEF WorkerType
<1> QED BY <1>1, <1>2, <1>3, <1>4

LEMMA PayloadInType == \A x \in Transfers, c \in BOOLEAN : Payload(x, c) \in PayloadType
BY DEF Payload, PayloadType, NoIndex

LEMMA CommitType ==
    ASSUME TypeOK, NEW p \in Procs, Commit(p)
    PROVE  /\ status' \in [Orders -> Status]
           /\ deposits' \in SUBSET Transfers
           /\ credits' \in [Transfers -> Nat]
           /\ retry' \in [RetryIds -> FreeRow \union RowType]
           /\ buf' \in [Procs -> BufType]
<1>1. buf[p] \in BufType
  BY DEF TypeOK
<1>2. status' \in [Orders -> Status]
  BY <1>1 DEF Keep, Commit, TypeOK, BufType
<1>3. deposits' \in SUBSET Transfers
  BY <1>1 DEF Commit, TypeOK, BufType
<1>4. credits' \in [Transfers -> Nat]
  BY <1>1 DEF Commit, TypeOK
<1>5. retry' \in [RetryIds -> FreeRow \union RowType]
  <2>1. ASSUME NEW r \in RetryIds, retry[r].state = "queued"
        PROVE  retry[r] \in RowType
    BY <2>1 DEF FreeRow, TypeOK
  <2>2. ASSUME NEW r \in RetryIds
        PROVE  \/ retry'[r] = retry[r]
               \/ /\ retry[r].state = "queued"
                  /\ \/ retry'[r] = [retry[r] EXCEPT !.state = "deleted"]
                     \/ retry'[r] = [retry[r] EXCEPT !.attempts = @ + 1]
    BY DEF Commit
  <2>3. ASSUME NEW r \in RetryIds PROVE retry'[r] \in FreeRow \union RowType
    <3>1. CASE retry'[r] = retry[r]
      BY <3>1 DEF TypeOK
    <3>2. CASE /\ retry[r].state = "queued"
               /\ retry'[r] = [retry[r] EXCEPT !.state = "deleted"]
      BY <3>2, <2>1, RowUpdates
    <3>3. CASE /\ retry[r].state = "queued"
               /\ retry'[r] = [retry[r] EXCEPT !.attempts = @ + 1]
      BY <3>3, <2>1, RowUpdates
    <3> QED BY <2>2, <3>1, <3>2, <3>3
  <2>4. retry' = [r \in RetryIds |-> retry'[r]]
    BY DEF Commit
  <2> QED BY <2>3, <2>4
<1>6. buf' \in [Procs -> BufType]
  BY EmptyBufType DEF Commit, TypeOK
<1> QED BY <1>2, <1>3, <1>4, <1>5, <1>6

LEMMA TypeInit == Init => TypeOK
<1> SUFFICES ASSUME Init PROVE TypeOK
  OBVIOUS
<1>1. buf \in [Procs -> BufType]
  BY EmptyBufType DEF Init
<1>2. msg \in [Procs -> PayloadType]
  BY PayloadInType DEF Init
<1>3. retry \in [RetryIds -> FreeRow \union RowType]
  BY DEF Init, FreeRow
<1>4. status \in [Orders -> Status] /\ pc \in [Procs -> PCs]
  BY DEF Init, Status, PCs
<1>5. worker \in WorkerType /\ faults \in FaultType
  BY DEF Init, WorkerType, FaultType
<1> QED BY <1>1, <1>2, <1>3, <1>4, <1>5 DEF Init, TypeOK

LEMMA TypeStep == TypeOK /\ ControlOK /\ [Next]_vars => TypeOK'
<1> SUFFICES ASSUME TypeOK, ControlOK, [Next]_vars PROVE TypeOK'
  OBVIOUS
<1> USE FundingAssumption DEF Goto
<1>a. ASSUME NEW p \in Procs
      PROVE  msg[p].xfer \in Transfers /\ buf[p] \in BufType
  BY DEF TypeOK, PayloadType
<1>1. ASSUME NEW w \in Web, NEW x \in Transfers, NEW c \in BOOLEAN, NEW i \in BOOLEAN,
             Receive(w, x, c, i)
      PROVE  TypeOK'
  BY <1>1, PayloadInType DEF Receive, TypeOK, PCs, Procs
<1>2. ASSUME NEW w \in Web, Respond(w) PROVE TypeOK'
  <2>1. w \in Procs
    BY DEF Procs
  <2> QED BY <1>2, <2>1, CommitType DEF Respond, TypeOK, PCs
<1>3. ASSUME NEW w \in Web, Drop(w) PROVE TypeOK'
  BY <1>3, EmptyBufType, CounterUpdates DEF Drop, Rollback, TypeOK, PCs, Procs
<1>4. ASSUME NEW w \in Web, NEW r \in RetryIds, QueueRetry(w, r) PROVE TypeOK'
  BY <1>4, EmptyBufType, CounterUpdates DEF QueueRetry, TypeOK, PCs, Procs, RowType
<1>5. ASSUME NEW l \in logs, NEW r \in RetryIds, ManualRetry(l, r) PROVE TypeOK'
  BY <1>5 DEF ManualRetry, TypeOK, RowType
<1>6. ASSUME NEW p \in Procs, Process(p) PROVE TypeOK'
  <2>1. CASE ReadOrder(p)
    BY <2>1 DEF ReadOrder, TypeOK, PCs
  <2>2. CASE InsertDeposit(p)
    <3>1. buf' \in [Procs -> BufType]
      BY <2>2, <1>a, BufUpdates DEF InsertDeposit, TypeOK
    <3>2. pc' \in [Procs -> PCs]
      BY <2>2 DEF InsertDeposit, TypeOK, PCs
    <3> QED BY <2>2, <3>1, <3>2 DEF InsertDeposit, TypeOK
  <2>3. CASE DuplicateDeposit(p)
    BY <2>3, EmptyBufType DEF DuplicateDeposit, Rollback, TypeOK, PCs
  <2>4. CASE LockOrder(p)
    <3>1. buf' \in [Procs -> BufType]
      BY <2>4, <1>a, BufUpdates DEF LockOrder, TypeOK, ControlOK
    <3>2. pc' \in [Procs -> PCs]
      BY <2>4 DEF LockOrder, TypeOK, PCs
    <3> QED BY <2>4, <3>1, <3>2 DEF LockOrder, TypeOK
  <2>5. ASSUME NEW d \in {"BLOCK", "REVIEW", "ACCEPT"}, Decide(p, d) PROVE TypeOK'
    <3>1. /\ [buf[p] EXCEPT !.writes[Order(p)] = "CANCELLED"] \in BufType
          /\ [buf[p] EXCEPT !.writes[Order(p)] = "FUNDED"] \in BufType
      BY <2>5, <1>a, BufUpdates DEF Decide, ControlOK, Status
    <3>2. buf' \in [Procs -> BufType]
      <4>1. CASE d = "BLOCK"
        BY <2>5, <4>1, <3>1 DEF Decide, TypeOK
      <4>2. CASE d = "REVIEW"
        BY <2>5, <4>2 DEF Decide, TypeOK
      <4>3. CASE d = "ACCEPT"
        BY <2>5, <4>3, <3>1 DEF Decide, TypeOK
      <4> QED BY <4>1, <4>2, <4>3
    <3>3. pc' \in [Procs -> PCs]
      BY <2>5 DEF Decide, TypeOK, PCs
    <3> QED BY <2>5, <3>2, <3>3 DEF Decide, TypeOK
  <2>6. CASE CheckJournal(p)
    BY <2>6 DEF CheckJournal, TypeOK, PCs
  <2>7. CASE PostJournal(p)
    <3>1. journals' \in [Orders -> Nat]
      BY <2>7 DEF PostJournal, TypeOK, ControlOK
    <3> QED BY <2>7, <3>1, CommitType DEF PostJournal, TypeOK, PCs
  <2>8. CASE CreditUser(p)
    <3>1. buf' \in [Procs -> BufType]
      BY <2>8, <1>a, BufUpdates DEF CreditUser, TypeOK
    <3> QED BY <2>8, <3>1 DEF CreditUser, TypeOK, PCs
  <2>9. CASE CommitDeposit(p)
    BY <2>9, CommitType DEF CommitDeposit, TypeOK, PCs
  <2> QED BY <1>6, <2>1, <2>2, <2>3, <2>4, <2>5, <2>6, <2>7, <2>8, <2>9 DEF Process
<1>7. CASE Batch
  <2>0. Worker \in Procs
    BY DEF Procs
  <2>1. CASE StartBatch
    BY <2>1, CounterUpdates DEF StartBatch, Due, TypeOK, PCs
  <2>2. CASE NextRow
    <3>1. PICK r \in worker.batch :
            /\ worker' = [worker EXCEPT !.row = r, !.batch = @ \ {r}]
            /\ msg' = [msg EXCEPT ![Worker] = retry[r].load]
      BY <2>2 DEF NextRow
    <3>2. r \in RetryIds /\ retry[r] \in RowType
      BY <3>1 DEF TypeOK, ControlOK, FreeRow, WorkerType
    <3>3. retry[r].load \in PayloadType
      BY <3>2 DEF RowType
    <3>4. worker' \in WorkerType
      BY <3>1, <3>2, CounterUpdates DEF TypeOK
    <3> QED BY <2>2, <3>1, <3>3, <3>4 DEF NextRow, TypeOK, PCs
  <2>3. CASE RowDone
    <3>1. worker.row \in RetryIds
      BY <2>3 DEF RowDone, ControlOK
    <3>2. buf' \in [Procs -> BufType]
      BY <2>3, <2>0, <1>a, <3>1, BufUpdates DEF RowDone, TypeOK
    <3>3. msg[Worker] \in PayloadType
      BY <2>0 DEF TypeOK
    <3> QED BY <2>3, <3>2, <3>3 DEF RowDone, TypeOK, PCs
  <2>4. CASE RowFails
    <3> DEFINE kept == IF pc[Worker] \in {"check", "post"} THEN EmptyBuf ELSE buf[Worker]
    <3>1. worker.row \in RetryIds
      BY <2>4 DEF RowFails, ControlOK, Unknown
    <3>2. kept \in BufType
      BY <2>0, <1>a, EmptyBufType
    <3>3. [kept EXCEPT !.bumped = @ \union {worker.row}] \in BufType
      <4> HIDE DEF kept
      <4> QED BY <3>1, <3>2, BufUpdates
    <3>4. buf' = [buf EXCEPT ![Worker] = [kept EXCEPT !.bumped = @ \union {worker.row}]]
      BY <2>4 DEF RowFails
    <3>5. buf' \in [Procs -> BufType]
      <4> HIDE DEF kept
      <4> QED BY <3>3, <3>4 DEF TypeOK
    <3> QED BY <2>4, <3>5, CounterUpdates DEF RowFails, TypeOK, PCs
  <2>5. CASE EndBatch
    BY <2>5, <2>0, CommitType DEF EndBatch, TypeOK, PCs
  <2> QED BY <1>7, <2>1, <2>2, <2>3, <2>4, <2>5 DEF Batch
<1>8. CASE SqlError
  <2>1. worker' \in WorkerType /\ faults' \in FaultType
    BY <1>8, CounterUpdates DEF SqlError, TypeOK
  <2>2. buf' \in [Procs -> BufType] /\ pc' \in [Procs -> PCs]
    BY <1>8, EmptyBufType DEF SqlError, Rollback, TypeOK, PCs
  <2> QED BY <1>8, <2>1, <2>2 DEF SqlError, Rollback, TypeOK
<1>9. CASE Restart
  <2>1. worker' \in WorkerType /\ faults' \in FaultType
    BY <1>9, CounterUpdates DEF Restart, TypeOK
  <2>2. buf' \in [Procs -> BufType] /\ pc' \in [Procs -> PCs]
    BY <1>9, EmptyBufType DEF Restart, PCs
  <2> QED BY <1>9, <2>1, <2>2 DEF Restart, TypeOK
<1>10. CASE UNCHANGED vars
  BY <1>10 DEF vars, TypeOK
<1> QED BY <1>1, <1>2, <1>3, <1>4, <1>5, <1>6, <1>7, <1>8, <1>9, <1>10 DEF Next

(* The control state of every session stays consistent with its data. *)
LEMMA ControlStep == TypeOK /\ ControlOK /\ [Next]_vars => ControlOK'
<1> SUFFICES ASSUME TypeOK, ControlOK, [Next]_vars PROVE ControlOK'
  OBVIOUS
<1> USE FundingAssumption DEF Goto, Order, Tx,
       ControlOK, TypeOK, WorkerType, PayloadType
<1>0. Web \subseteq Procs /\ Worker \in Procs
  BY DEF Procs
<1>1. ASSUME NEW w \in Web, NEW x \in Transfers, NEW c \in BOOLEAN, NEW i \in BOOLEAN,
             Receive(w, x, c, i)
      PROVE  ControlOK'
  BY <1>1, <1>0 DEF Receive, Payload
<1>2. ASSUME NEW w \in Web, Respond(w) PROVE ControlOK'
  BY <1>2, <1>0 DEF Respond, Commit, EmptyBuf
<1>3. ASSUME NEW w \in Web, Drop(w) PROVE ControlOK'
  BY <1>3, <1>0 DEF Drop, Rollback, EmptyBuf
<1>4. ASSUME NEW w \in Web, NEW r \in RetryIds, QueueRetry(w, r) PROVE ControlOK'
  BY <1>4, <1>0 DEF QueueRetry, EmptyBuf
<1>5. ASSUME NEW l \in logs, NEW r \in RetryIds, ManualRetry(l, r) PROVE ControlOK'
  BY <1>5 DEF ManualRetry
<1>6. ASSUME NEW p \in Procs, Process(p) PROVE ControlOK'
  <2>1. CASE ReadOrder(p)
    BY <2>1 DEF ReadOrder
  <2>2. CASE InsertDeposit(p)
    BY <2>2 DEF InsertDeposit
  <2>3. CASE DuplicateDeposit(p)
    BY <2>3 DEF DuplicateDeposit, Rollback, EmptyBuf
  <2>4. CASE LockOrder(p)
    BY <2>4 DEF LockOrder
  <2>5. ASSUME NEW d \in {"BLOCK", "REVIEW", "ACCEPT"}, Decide(p, d) PROVE ControlOK'
    BY <2>5 DEF Decide
  <2>6. CASE CheckJournal(p)
    BY <2>6 DEF CheckJournal
  <2>7. CASE PostJournal(p)
    BY <2>7 DEF PostJournal, Commit, EmptyBuf
  <2>8. CASE CreditUser(p)
    BY <2>8 DEF CreditUser
  <2>9. CASE CommitDeposit(p)
    BY <2>9 DEF CommitDeposit, Commit, EmptyBuf
  <2> QED BY <1>6, <2>1, <2>2, <2>3, <2>4, <2>5, <2>6, <2>7, <2>8, <2>9 DEF Process
<1>7. CASE Batch
  <2>1. CASE StartBatch
    BY <2>1, <1>0 DEF StartBatch, Due
  <2>2. CASE NextRow
    BY <2>2, <1>0 DEF NextRow
  <2>3. CASE RowDone
    BY <2>3, <1>0 DEF RowDone
  <2>4. CASE RowFails
    BY <2>4, <1>0 DEF RowFails, EmptyBuf, Unknown
  <2>5. CASE EndBatch
    BY <2>5, <1>0 DEF EndBatch, Commit, EmptyBuf
  <2> QED BY <1>7, <2>1, <2>2, <2>3, <2>4, <2>5 DEF Batch
<1>8. CASE SqlError
  BY <1>8, <1>0 DEF SqlError, Rollback, EmptyBuf
<1>9. CASE Restart
  <2>1. worker'.batch = {}
    BY <1>9 DEF Restart, TypeOK, WorkerType
  <2>2. \A p \in Procs : pc'[p] = "idle"
    BY <1>9 DEF Restart
  <2> QED BY <2>1, <2>2, <1>0 DEF ControlOK
<1>10. CASE UNCHANGED vars
  BY <1>10 DEF vars
<1> HIDE DEF Goto, Order, Tx, ControlOK, TypeOK, WorkerType, PayloadType
<1> QED BY <1>1, <1>2, <1>3, <1>4, <1>5, <1>6, <1>7, <1>8, <1>9, <1>10 DEF Next

(* One row lock per order: the journal is posted once. *)
LEMMA LockStep == TypeOK /\ ControlOK /\ LockInv /\ [Next]_vars => LockInv'
<1> SUFFICES ASSUME TypeOK, ControlOK, LockInv, [Next]_vars PROVE LockInv'
  OBVIOUS
<1> USE FundingAssumption DEF Goto, Order, Tx,
       LockInv, OneJournalPerOrder, TypeOK, ControlOK, BufType, 
       Blocked, Waits
<1>0. Web \subseteq Procs /\ Worker \in Procs
  BY DEF Procs
<1>1. ASSUME NEW w \in Web, NEW x \in Transfers, NEW c \in BOOLEAN, NEW i \in BOOLEAN,
             Receive(w, x, c, i)
      PROVE  LockInv'
  BY <1>1, <1>0 DEF Receive, Payload
<1>2. ASSUME NEW w \in Web, Respond(w) PROVE LockInv'
  BY <1>2, <1>0 DEF Respond, Commit, EmptyBuf
<1>3. ASSUME NEW w \in Web, Drop(w) PROVE LockInv'
  BY <1>3, <1>0 DEF Drop, Rollback, EmptyBuf
<1>4. ASSUME NEW w \in Web, NEW r \in RetryIds, QueueRetry(w, r) PROVE LockInv'
  BY <1>4, <1>0 DEF QueueRetry, EmptyBuf
<1>5. ASSUME NEW l \in logs, NEW r \in RetryIds, ManualRetry(l, r) PROVE LockInv'
  BY <1>5 DEF ManualRetry
<1>6. ASSUME NEW p \in Procs, Process(p) PROVE LockInv'
  <2>1. CASE ReadOrder(p)
    BY <2>1 DEF ReadOrder
  <2>2. CASE InsertDeposit(p)
    BY <2>2 DEF InsertDeposit
  <2>3. CASE DuplicateDeposit(p)
    BY <2>3 DEF DuplicateDeposit, Rollback, EmptyBuf
  <2>4. CASE LockOrder(p)
    BY <2>4 DEF LockOrder
  <2>5. ASSUME NEW d \in {"BLOCK", "REVIEW", "ACCEPT"}, Decide(p, d) PROVE LockInv'
    BY <2>5 DEF Decide
  <2>6. CASE CheckJournal(p)
    BY <2>6 DEF CheckJournal
  <2>7. CASE PostJournal(p)
    BY <2>7 DEF PostJournal, Commit, EmptyBuf
  <2>8. CASE CreditUser(p)
    BY <2>8 DEF CreditUser
  <2>9. CASE CommitDeposit(p)
    BY <2>9 DEF CommitDeposit, Commit, EmptyBuf
  <2> QED BY <1>6, <2>1, <2>2, <2>3, <2>4, <2>5, <2>6, <2>7, <2>8, <2>9 DEF Process
<1>7. CASE Batch
  <2>1. CASE StartBatch
    BY <2>1, <1>0 DEF StartBatch, Due
  <2>2. CASE NextRow
    BY <2>2, <1>0 DEF NextRow
  <2>3. CASE RowDone
    BY <2>3, <1>0 DEF RowDone
  <2>4. CASE RowFails
    BY <2>4, <1>0 DEF RowFails, EmptyBuf, Unknown
  <2>5. CASE EndBatch
    BY <2>5, <1>0 DEF EndBatch, Commit, EmptyBuf
  <2> QED BY <1>7, <2>1, <2>2, <2>3, <2>4, <2>5 DEF Batch
<1>8. CASE SqlError
  BY <1>8, <1>0 DEF SqlError, Rollback, EmptyBuf
<1>9. CASE Restart
  BY <1>9 DEF Restart, EmptyBuf
<1>10. CASE UNCHANGED vars
  BY <1>10 DEF vars
<1> HIDE DEF Goto, Order, Tx, LockInv, OneJournalPerOrder, TypeOK, ControlOK,
       BufType, Blocked, Waits
<1> QED BY <1>1, <1>2, <1>3, <1>4, <1>5, <1>6, <1>7, <1>8, <1>9, <1>10 DEF Next

(* A commit that leaves the journals alone, of a session that posted already,   *)
(* publishes no FUNDED status and no credit ahead of its journal.              *)
LEMMA CommitJournal ==
    ASSUME TypeOK, JournalInv, NEW p \in Procs, NEW l \in {"idle", "respond"},
           Commit(p), Goto(p, l), pc[p] \notin {"check", "post"},
           journals' = journals, msg' = msg
    PROVE  JournalInv'
<1>1. \A o \in Orders : buf[p].writes[o] = "FUNDED" => journals[o] > 0
  BY DEF JournalInv
<1>2. \A o \in Orders : status'[o] = "FUNDED" => journals[o] > 0
  BY <1>1 DEF Commit, JournalInv, FundedIsJournaled
<1>3. \A x \in Transfers : credits'[x] > 0 => OrderOf[x] \in Orders /\ journals[OrderOf[x]] > 0
  BY DEF Commit, JournalInv
<1>4. /\ buf'[p] = EmptyBuf /\ pc'[p] = l
      /\ \A q \in Procs : q # p => buf'[q] = buf[q] /\ pc'[q] = pc[q]
  BY DEF Commit, Goto, TypeOK
<1>5. /\ \A o \in Orders : EmptyBuf.writes[o] # "FUNDED"
      /\ EmptyBuf.credits = {}
  BY DEF EmptyBuf, Keep
<1>6. \A q \in Procs : pc'[q] = "credit" => journals[Order(q)] > 0
  BY <1>4 DEF JournalInv
<1>7. \A q \in Procs : \A o \in Orders : buf'[q].writes[o] = "FUNDED" =>
          \/ journals[o] > 0
          \/ pc'[q] \in {"check", "post"} /\ Order(q) = o
  BY <1>4, <1>5 DEF JournalInv
<1>8. \A q \in Procs : \A x \in buf'[q].credits :
          OrderOf[x] \in Orders /\ journals[OrderOf[x]] > 0
  BY <1>4, <1>5 DEF JournalInv
<1> QED BY <1>2, <1>3, <1>6, <1>7, <1>8 DEF JournalInv, FundedIsJournaled, Order

(* Nothing is FUNDED or credited ahead of the journal. *)
LEMMA JournalStep == TypeOK /\ ControlOK /\ JournalInv /\ [Next]_vars => JournalInv'
<1> SUFFICES ASSUME TypeOK, ControlOK, JournalInv, [Next]_vars PROVE JournalInv'
  OBVIOUS
<1> USE FundingAssumption DEF Goto, Order, Tx,
       JournalInv, FundedIsJournaled, TypeOK, ControlOK, BufType, 
       PayloadType, Keep
<1>0. Web \subseteq Procs /\ Worker \in Procs
  BY DEF Procs
<1>1. ASSUME NEW w \in Web, NEW x \in Transfers, NEW c \in BOOLEAN, NEW i \in BOOLEAN,
             Receive(w, x, c, i)
      PROVE  JournalInv'
  BY <1>1, <1>0 DEF Receive, Payload
<1>2. ASSUME NEW w \in Web, Respond(w) PROVE JournalInv'
  <2>1. /\ w \in Procs /\ pc[w] \notin {"check", "post"}
        /\ Commit(w) /\ journals' = journals /\ msg' = msg
    BY <1>2, <1>0 DEF Respond
  <2>2. pc' = [pc EXCEPT ![w] = "idle"]
    BY <1>2 DEF Respond
  <2> HIDE DEF Goto, JournalInv, TypeOK
  <2>3. Goto(w, "idle")
    BY <2>2 DEF Goto
  <2> QED BY <2>1, <2>3, CommitJournal
<1>3. ASSUME NEW w \in Web, Drop(w) PROVE JournalInv'
  BY <1>3, <1>0 DEF Drop, Rollback, EmptyBuf
<1>4. ASSUME NEW w \in Web, NEW r \in RetryIds, QueueRetry(w, r) PROVE JournalInv'
  BY <1>4, <1>0 DEF QueueRetry, EmptyBuf
<1>5. ASSUME NEW l \in logs, NEW r \in RetryIds, ManualRetry(l, r) PROVE JournalInv'
  BY <1>5 DEF ManualRetry
<1>6. ASSUME NEW p \in Procs, Process(p) PROVE JournalInv'
  <2>1. CASE ReadOrder(p)
    BY <2>1 DEF ReadOrder
  <2>2. CASE InsertDeposit(p)
    BY <2>2 DEF InsertDeposit
  <2>3. CASE DuplicateDeposit(p)
    BY <2>3 DEF DuplicateDeposit, Rollback, EmptyBuf
  <2>4. CASE LockOrder(p)
    BY <2>4 DEF LockOrder
  <2>5. ASSUME NEW d \in {"BLOCK", "REVIEW", "ACCEPT"}, Decide(p, d) PROVE JournalInv'
    BY <2>5 DEF Decide
  <2>6. CASE CheckJournal(p)
    BY <2>6 DEF CheckJournal
  <2>7. CASE PostJournal(p)
    BY <2>7 DEF PostJournal, Commit, EmptyBuf
  <2>8. CASE CreditUser(p)
    BY <2>8 DEF CreditUser
  <2>9. CASE CommitDeposit(p)
    <3>1. /\ pc[p] \notin {"check", "post"}
          /\ Commit(p) /\ journals' = journals /\ msg' = msg
      BY <2>9 DEF CommitDeposit
    <3>2. pc' = [pc EXCEPT ![p] = "respond"]
      BY <2>9 DEF CommitDeposit
    <3> HIDE DEF Goto, JournalInv, TypeOK
    <3>3. Goto(p, "respond")
      BY <3>2 DEF Goto
    <3> QED BY <3>1, <3>3, CommitJournal
  <2> QED BY <1>6, <2>1, <2>2, <2>3, <2>4, <2>5, <2>6, <2>7, <2>8, <2>9 DEF Process
<1>7. CASE Batch
  <2>1. CASE StartBatch
    BY <2>1, <1>0 DEF StartBatch, Due
  <2>2. CASE NextRow
    BY <2>2, <1>0 DEF NextRow
  <2>3. CASE RowDone
    BY <2>3, <1>0 DEF RowDone
  <2>4. CASE RowFails
    BY <2>4, <1>0 DEF RowFails, EmptyBuf, Unknown
  <2>5. CASE EndBatch
    <3>1. \A o \in Orders : buf[Worker].writes[o] = "FUNDED" => journals[o] > 0
      BY <2>5, <1>0 DEF EndBatch, JournalInv
    <3>2. FundedIsJournaled'
      BY <2>5, <3>1 DEF EndBatch, Commit, JournalInv, FundedIsJournaled, Keep
    <3>3. /\ pc' = [pc EXCEPT ![Worker] = "idle"] /\ journals' = journals /\ msg' = msg
          /\ buf' = [buf EXCEPT ![Worker] = EmptyBuf]
      BY <2>5 DEF EndBatch, Commit
    <3>4. \A x \in Transfers : credits'[x] > 0 => OrderOf[x] \in Orders /\ journals'[OrderOf[x]] > 0
      BY <2>5, <1>0 DEF EndBatch, Commit, JournalInv, TypeOK
    <3> QED BY <3>2, <3>3, <3>4, <1>0 DEF EmptyBuf, Keep, JournalInv, TypeOK
  <2> QED BY <1>7, <2>1, <2>2, <2>3, <2>4, <2>5 DEF Batch
<1>8. CASE SqlError
  BY <1>8, <1>0 DEF SqlError, Rollback, EmptyBuf
<1>9. CASE Restart
  BY <1>9 DEF Restart, EmptyBuf
<1>10. CASE UNCHANGED vars
  BY <1>10 DEF vars
<1> HIDE DEF Goto, Order, Tx, JournalInv, FundedIsJournaled, TypeOK,
       ControlOK, BufType, PayloadType, Keep
<1> QED BY <1>1, <1>2, <1>3, <1>4, <1>5, <1>6, <1>7, <1>8, <1>9, <1>10 DEF Next

(* A transaction hash has one owner at any time. *)
LEMMA DepositStep == TypeOK /\ ControlOK /\ DepositInv /\ [Next]_vars => DepositInv'
<1> SUFFICES ASSUME TypeOK, ControlOK, DepositInv, [Next]_vars PROVE DepositInv'
  OBVIOUS
<1> USE FundingAssumption DEF Goto, Order, Tx,
       DepositInv, TypeOK, BufType, PayloadType, Blocked, Waits
<1>0. Web \subseteq Procs /\ Worker \in Procs
  BY DEF Procs
<1>1. ASSUME NEW w \in Web, NEW x \in Transfers, NEW c \in BOOLEAN, NEW i \in BOOLEAN,
             Receive(w, x, c, i)
      PROVE  DepositInv'
  BY <1>1, <1>0 DEF Receive, Payload
<1>2. ASSUME NEW w \in Web, Respond(w) PROVE DepositInv'
  BY <1>2, <1>0 DEF Respond, Commit, EmptyBuf
<1>3. ASSUME NEW w \in Web, Drop(w) PROVE DepositInv'
  BY <1>3, <1>0 DEF Drop, Rollback, EmptyBuf
<1>4. ASSUME NEW w \in Web, NEW r \in RetryIds, QueueRetry(w, r) PROVE DepositInv'
  BY <1>4, <1>0 DEF QueueRetry, EmptyBuf
<1>5. ASSUME NEW l \in logs, NEW r \in RetryIds, ManualRetry(l, r) PROVE DepositInv'
  BY <1>5 DEF ManualRetry
<1>6. ASSUME NEW p \in Procs, Process(p) PROVE DepositInv'
  <2>1. CASE ReadOrder(p)
    BY <2>1 DEF ReadOrder
  <2>2. CASE InsertDeposit(p)
    BY <2>2 DEF InsertDeposit
  <2>3. CASE DuplicateDeposit(p)
    BY <2>3 DEF DuplicateDeposit, Rollback, EmptyBuf
  <2>4. CASE LockOrder(p)
    BY <2>4 DEF LockOrder
  <2>5. ASSUME NEW d \in {"BLOCK", "REVIEW", "ACCEPT"}, Decide(p, d) PROVE DepositInv'
    BY <2>5 DEF Decide
  <2>6. CASE CheckJournal(p)
    BY <2>6 DEF CheckJournal
  <2>7. CASE PostJournal(p)
    BY <2>7 DEF PostJournal, Commit, EmptyBuf
  <2>8. CASE CreditUser(p)
    BY <2>8 DEF CreditUser
  <2>9. CASE CommitDeposit(p)
    BY <2>9 DEF CommitDeposit, Commit, EmptyBuf
  <2> QED BY <1>6, <2>1, <2>2, <2>3, <2>4, <2>5, <2>6, <2>7, <2>8, <2>9 DEF Process
<1>7. CASE Batch
  <2>1. CASE StartBatch
    BY <2>1, <1>0 DEF StartBatch, Due
  <2>2. CASE NextRow
    BY <2>2, <1>0 DEF NextRow
  <2>3. CASE RowDone
    BY <2>3, <1>0 DEF RowDone
  <2>4. CASE RowFails
    BY <2>4, <1>0 DEF RowFails, EmptyBuf, Unknown
  <2>5. CASE EndBatch
    BY <2>5, <1>0 DEF EndBatch, Commit, EmptyBuf
  <2> QED BY <1>7, <2>1, <2>2, <2>3, <2>4, <2>5 DEF Batch
<1>8. CASE SqlError
  BY <1>8, <1>0 DEF SqlError, Rollback, EmptyBuf
<1>9. CASE Restart
  BY <1>9 DEF Restart, EmptyBuf
<1>10. CASE UNCHANGED vars
  BY <1>10 DEF vars
<1> HIDE DEF Goto, Order, Tx, DepositInv, TypeOK, BufType, PayloadType,
       Blocked, Waits
<1> QED BY <1>1, <1>2, <1>3, <1>4, <1>5, <1>6, <1>7, <1>8, <1>9, <1>10 DEF Next

(* A transfer has one session that may credit it. *)
LEMMA CreditStep == TypeOK /\ ControlOK /\ DepositInv /\ CreditInv /\ [Next]_vars => CreditInv'
<1> SUFFICES ASSUME TypeOK, ControlOK, DepositInv, CreditInv, [Next]_vars PROVE CreditInv'
  OBVIOUS
<1> USE FundingAssumption DEF Goto, Order, Tx,
       CreditInv, DepositInv, OneCreditPerTransfer, Crediting, 
       TypeOK, BufType, PayloadType, Blocked, Waits
<1>0. Web \subseteq Procs /\ Worker \in Procs
  BY DEF Procs
<1>1. ASSUME NEW w \in Web, NEW x \in Transfers, NEW c \in BOOLEAN, NEW i \in BOOLEAN,
             Receive(w, x, c, i)
      PROVE  CreditInv'
  BY <1>1, <1>0 DEF Receive, Payload
<1>2. ASSUME NEW w \in Web, Respond(w) PROVE CreditInv'
  BY <1>2, <1>0 DEF Respond, Commit, EmptyBuf
<1>3. ASSUME NEW w \in Web, Drop(w) PROVE CreditInv'
  BY <1>3, <1>0 DEF Drop, Rollback, EmptyBuf
<1>4. ASSUME NEW w \in Web, NEW r \in RetryIds, QueueRetry(w, r) PROVE CreditInv'
  BY <1>4, <1>0 DEF QueueRetry, EmptyBuf
<1>5. ASSUME NEW l \in logs, NEW r \in RetryIds, ManualRetry(l, r) PROVE CreditInv'
  BY <1>5 DEF ManualRetry
<1>6. ASSUME NEW p \in Procs, Process(p) PROVE CreditInv'
  <2>1. CASE ReadOrder(p)
    BY <2>1 DEF ReadOrder
  <2>2. CASE InsertDeposit(p)
    BY <2>2 DEF InsertDeposit
  <2>3. CASE DuplicateDeposit(p)
    BY <2>3 DEF DuplicateDeposit, Rollback, EmptyBuf
  <2>4. CASE LockOrder(p)
    BY <2>4 DEF LockOrder
  <2>5. ASSUME NEW d \in {"BLOCK", "REVIEW", "ACCEPT"}, Decide(p, d) PROVE CreditInv'
    BY <2>5 DEF Decide
  <2>6. CASE CheckJournal(p)
    BY <2>6 DEF CheckJournal
  <2>7. CASE PostJournal(p)
    BY <2>7 DEF PostJournal, Commit, EmptyBuf
  <2>8. CASE CreditUser(p)
    BY <2>8 DEF CreditUser
  <2>9. CASE CommitDeposit(p)
    BY <2>9 DEF CommitDeposit, Commit, EmptyBuf
  <2> QED BY <1>6, <2>1, <2>2, <2>3, <2>4, <2>5, <2>6, <2>7, <2>8, <2>9 DEF Process
<1>7. CASE Batch
  <2>1. CASE StartBatch
    BY <2>1, <1>0 DEF StartBatch, Due
  <2>2. CASE NextRow
    BY <2>2, <1>0 DEF NextRow
  <2>3. CASE RowDone
    BY <2>3, <1>0 DEF RowDone
  <2>4. CASE RowFails
    BY <2>4, <1>0 DEF RowFails, EmptyBuf, Unknown
  <2>5. CASE EndBatch
    BY <2>5, <1>0 DEF EndBatch, Commit, EmptyBuf
  <2> QED BY <1>7, <2>1, <2>2, <2>3, <2>4, <2>5 DEF Batch
<1>8. CASE SqlError
  BY <1>8, <1>0 DEF SqlError, Rollback, EmptyBuf
<1>9. CASE Restart
  BY <1>9 DEF Restart, EmptyBuf
<1>10. CASE UNCHANGED vars
  BY <1>10 DEF vars
<1> HIDE DEF Goto, Order, Tx, CreditInv, DepositInv, OneCreditPerTransfer,
       Crediting, TypeOK, BufType, PayloadType, Blocked, Waits
<1> QED BY <1>1, <1>2, <1>3, <1>4, <1>5, <1>6, <1>7, <1>8, <1>9, <1>10 DEF Next

(***************************************************************************)
(* The theorems.                                                           *)
(***************************************************************************)

LEMMA InvInit == Init => TypeOK /\ FundingInv
<1> SUFFICES ASSUME Init PROVE FundingInv
  BY TypeInit
<1> USE FundingAssumption DEF Init, EmptyBuf
<1>1. ControlOK
  BY DEF ControlOK, Procs
<1>2. LockInv
  BY DEF LockInv, OneJournalPerOrder
<1>3. JournalInv
  BY DEF JournalInv, FundedIsJournaled, Keep
<1>4. DepositInv
  BY DEF DepositInv
<1>5. CreditInv
  BY DEF CreditInv, OneCreditPerTransfer, Crediting
<1> QED BY <1>1, <1>2, <1>3, <1>4, <1>5 DEF FundingInv

\* The state variables keep their types and the inductive invariant holds in
\* every reachable state of the funding of orders.
THEOREM Invariance == Spec => [](TypeOK /\ FundingInv)
<1>1. Init => TypeOK /\ FundingInv
  BY InvInit
<1>2. TypeOK /\ FundingInv /\ [Next]_vars => (TypeOK /\ FundingInv)'
  BY TypeStep, ControlStep, LockStep, JournalStep, DepositStep, CreditStep DEF FundingInv
<1> QED BY <1>1, <1>2, PTL DEF Spec

\* Type correctness of the webhook, worker and database state.
THEOREM TypeCorrect == Spec => []TypeOK
BY Invariance, PTL

\* post_journal never gives an order a second funding journal.
THEOREM JournalOnce == Spec => []OneJournalPerOrder
<1>1. FundingInv => OneJournalPerOrder
  BY DEF FundingInv, LockInv
<1> QED BY <1>1, Invariance, PTL

\* However a transfer is delivered, retried or replayed, it credits once.
THEOREM CreditOnce == Spec => []OneCreditPerTransfer
<1>1. FundingInv => OneCreditPerTransfer
  BY DEF FundingInv, CreditInv
<1> QED BY <1>1, Invariance, PTL

\* A credit always has its deposit row and its order's journal behind it.
THEOREM CreditBacked == Spec => []CreditIsBacked
<1>1. FundingInv => CreditIsBacked
  BY DEF FundingInv, CreditInv, JournalInv, CreditIsBacked
<1> QED BY <1>1, Invariance, PTL

\* An order is never FUNDED before its deposit is in the ledger.
THEOREM FundedJournaled == Spec => []FundedIsJournaled
<1>1. FundingInv => FundedIsJournaled
  BY DEF FundingInv, JournalInv
<1> QED BY <1>1, Invariance, PTL

(***************************************************************************)
(* Refinement: every commit is a step of the deposit ledger.               *)
(***************************************************************************)

LEMMA CommitRefines ==
    ASSUME TypeOK, FundingInv, NEW p \in Procs, Commit(p)
    PROVE  Ledger!Next
<1> DEFINE R == buf[p].deps
           C == buf[p].credits
<1>0. R \in SUBSET Transfers /\ C \in SUBSET Transfers
  BY DEF TypeOK, BufType
<1>1. R \intersect deposits = {} /\ Ledger!Fresh(R)
  BY DEF FundingInv, DepositInv, Ledger!Fresh
<1>2. C \subseteq deposits \union R /\ \A x \in C : credits[x] = 0
  BY DEF FundingInv, CreditInv
<1>3. deposits' = deposits \union R
  BY DEF Commit
<1>4. credits' = [x \in Transfers |-> IF x \in C THEN 1 ELSE credits[x]]
  BY <1>0, <1>2 DEF Commit
<1>5. Ledger!Advance(R, C)
  BY <1>1, <1>2, <1>3, <1>4 DEF Ledger!Advance
<1> QED BY <1>0, <1>5 DEF Ledger!Next

\* Whatever sessions, retries and crashes do, the books of one transfer move
\* as the deposit ledger says.
THEOREM LedgerImplemented == Spec => LedgerRefined
<1>1. Init => Ledger!Init
  BY DEF Init, Ledger!Init
<1>2. TypeOK /\ FundingInv /\ [Next]_vars => [Ledger!Next]_<<deposits, credits>>
  <2> SUFFICES ASSUME TypeOK, FundingInv, [Next]_vars
               PROVE  Ledger!Next \/ UNCHANGED <<deposits, credits>>
    OBVIOUS
  <2>0. Web \subseteq Procs /\ Worker \in Procs
    BY DEF Procs
  <2>1. ASSUME NEW p \in Procs, Process(p)
        PROVE  Ledger!Next \/ UNCHANGED <<deposits, credits>>
    BY <2>1, CommitRefines
       DEF Process, ReadOrder, InsertDeposit, DuplicateDeposit, Rollback, LockOrder,
           Decide, CheckJournal, PostJournal, CreditUser, CommitDeposit
  <2>2. ASSUME NEW w \in Web, Respond(w)
        PROVE  Ledger!Next \/ UNCHANGED <<deposits, credits>>
    BY <2>0, <2>2, CommitRefines DEF Respond
  <2>3. CASE Batch
    BY <2>0, <2>3, CommitRefines DEF Batch, StartBatch, NextRow, RowDone, RowFails, EndBatch
  <2> QED BY <2>1, <2>2, <2>3
       DEF Next, vars, Receive, Drop, Rollback, QueueRetry, ManualRetry, SqlError, Restart
<1> QED BY <1>1, <1>2, Invariance, PTL DEF Spec, LedgerRefined, Ledger!Spec

(***************************************************************************)
(* As long as nothing failed, a FUNDED order is credited.                  *)
(***************************************************************************)

(* Exceptions and restarts are only ever counted up. *)
LEMMA StaysCalm ==
    ASSUME TypeOK, [Next]_vars, faults'.soft = 0
    PROVE  faults.soft = 0 /\ ~Restart
<1>0. faults \in FaultType
  BY DEF TypeOK
<1>1. /\ faults' # [faults EXCEPT !.soft = @ + 1]
      /\ [faults EXCEPT !.db = @ + 1].soft = faults.soft
  BY <1>0 DEF FaultType
<1>2. ASSUME NEW p \in Procs, Process(p) PROVE faults' = faults
  BY <1>2 DEF Process, ReadOrder, InsertDeposit, DuplicateDeposit, LockOrder, Decide,
       CheckJournal, PostJournal, CreditUser, CommitDeposit
<1>3. ASSUME NEW w \in Web, Respond(w) \/ Drop(w) PROVE faults' = faults
  BY <1>1, <1>3 DEF Respond, Drop
<1>4. ASSUME NEW w \in Web, NEW r \in RetryIds, QueueRetry(w, r) PROVE faults' = faults
  BY <1>1, <1>4 DEF QueueRetry
<1>5. ASSUME Batch PROVE faults' = faults
  BY <1>1, <1>5 DEF Batch, StartBatch, NextRow, RowDone, RowFails, EndBatch
<1>6. ASSUME SqlError PROVE faults.soft = 0
  BY <1>1, <1>6 DEF SqlError
<1>7. ~Restart
  BY <1>1 DEF Restart
<1> QED BY <1>1, <1>2, <1>3, <1>4, <1>5, <1>6, <1>7
       DEF Next, vars, Receive, ManualRetry

(* A session waits for a deposit row only before it has locks, and for a lock only *)
(* before it has any: there is no wait cycle.                                      *)
LEMMA NoDeadlock == BuffersClean => \A p \in Procs : ~Deadlocked(p)
<1> SUFFICES ASSUME BuffersClean, NEW p \in Procs, NEW q \in Procs, Waits(p, q), Waits(q, p)
             PROVE  FALSE
  BY DEF Deadlocked
<1>1. CASE pc[p] = "lock" /\ Order(p) \in buf[q].locks
  BY <1>1 DEF BuffersClean, Waits
<1>2. CASE pc[p] = "insert" /\ \E d \in buf[q].deps : TxOf[d] = Tx(p)
  BY <1>2 DEF BuffersClean, Waits
<1> QED BY <1>1, <1>2 DEF Waits

(* What has been handled stays handled. *)
LEMMA StaysHandled ==
    ASSUME TypeOK, BuffersClean, [Next]_vars, NEW x
    PROVE  (Handled(x) => Handled(x)') /\ (Recorded(x) => Recorded(x)')
<1>0. Web \subseteq Procs /\ Worker \in Procs
  BY DEF Procs
<1>1. ASSUME NEW p \in Procs, Commit(p)
      PROVE  (Handled(x) => Handled(x)') /\ (Recorded(x) => Recorded(x)')
  <2>1. deposits \subseteq deposits'
    BY <1>1 DEF Commit
  <2>2. \A o \in Orders : status[o] # "CREATED" => status'[o] # "CREATED"
    BY <1>1 DEF Commit, BuffersClean
  <2> QED BY <2>1, <2>2 DEF Handled, Recorded
<1>2. ASSUME NEW p \in Procs, Process(p) PROVE Commit(p) \/ UNCHANGED <<status, deposits>>
  BY <1>2 DEF Process, ReadOrder, InsertDeposit, DuplicateDeposit, Rollback, LockOrder,
       Decide, CheckJournal, PostJournal, CreditUser, CommitDeposit
<1>3. ASSUME NEW w \in Web, Respond(w) \/ Drop(w)
      PROVE  Commit(w) \/ UNCHANGED <<status, deposits>>
  BY <1>3 DEF Respond, Drop, Rollback
<1>4. ASSUME Batch PROVE Commit(Worker) \/ UNCHANGED <<status, deposits>>
  BY <1>0, <1>4 DEF Batch, StartBatch, NextRow, RowDone, RowFails, EndBatch
<1>5. ASSUME NEW w \in Web, NEW r \in RetryIds, QueueRetry(w, r)
      PROVE  UNCHANGED <<status, deposits>>
  BY <1>5 DEF QueueRetry
<1>6. ASSUME SqlError \/ Restart PROVE UNCHANGED <<status, deposits>>
  BY <1>6 DEF SqlError, Rollback, Restart
<1>7. (\E p \in Procs : Commit(p)) \/ UNCHANGED <<status, deposits>>
  BY <1>0, <1>2, <1>3, <1>4, <1>5, <1>6 DEF Next, vars, Receive, ManualRetry
<1> QED BY <1>1, <1>7 DEF Handled, Recorded

LEMMA CleanStep ==
    ASSUME TypeOK, ControlOK, BuffersClean, RetriesHandled, [Next]_vars, faults'.soft = 0
    PROVE  BuffersClean'
<1> USE FundingAssumption DEF Goto, Order, BuffersClean, TypeOK, BufType, PayloadType
<1>0. Web \subseteq Procs /\ Worker \in Procs
  BY DEF Procs
<1>1. ASSUME NEW w \in Web, NEW x \in Transfers, NEW c \in BOOLEAN, NEW i \in BOOLEAN,
             Receive(w, x, c, i)
      PROVE  BuffersClean'
  BY <1>1, <1>0 DEF Receive, Payload
<1>2. ASSUME NEW w \in Web, Respond(w) PROVE BuffersClean'
  BY <1>2, <1>0 DEF Respond, Commit, EmptyBuf
<1>3. ASSUME NEW w \in Web, Drop(w) PROVE BuffersClean'
  BY <1>3, <1>0 DEF Drop, Rollback, EmptyBuf
<1>4. ASSUME NEW w \in Web, NEW r \in RetryIds, QueueRetry(w, r) PROVE BuffersClean'
  BY <1>4, <1>0 DEF QueueRetry, EmptyBuf
<1>5. ASSUME NEW l \in logs, NEW r \in RetryIds, ManualRetry(l, r) PROVE BuffersClean'
  BY <1>5 DEF ManualRetry
<1>6. ASSUME NEW p \in Procs, Process(p) PROVE BuffersClean'
  <2>1. CASE ReadOrder(p)
    BY <2>1 DEF ReadOrder
  <2>2. CASE InsertDeposit(p)
    BY <2>2 DEF InsertDeposit
  <2>3. CASE DuplicateDeposit(p)
    BY <2>3 DEF DuplicateDeposit, Rollback, EmptyBuf
  <2>4. CASE LockOrder(p)
    BY <2>4 DEF LockOrder
  <2>5. ASSUME NEW d \in {"BLOCK", "REVIEW", "ACCEPT"}, Decide(p, d) PROVE BuffersClean'
    BY <2>5 DEF Decide
  <2>6. CASE CheckJournal(p)
    BY <2>6 DEF CheckJournal
  <2>7. CASE PostJournal(p)
    BY <2>7 DEF PostJournal, Commit, EmptyBuf
  <2>8. CASE CreditUser(p)
    BY <2>8 DEF CreditUser
  <2>9. CASE CommitDeposit(p)
    BY <2>9 DEF CommitDeposit, Commit, EmptyBuf
  <2> QED BY <1>6, <2>1, <2>2, <2>3, <2>4, <2>5, <2>6, <2>7, <2>8, <2>9 DEF Process
<1>7. CASE Batch
  <2>1. CASE StartBatch
    BY <2>1, <1>0 DEF StartBatch
  <2>2. CASE NextRow
    BY <2>2, <1>0 DEF NextRow
  <2>3. CASE RowDone
    BY <2>3, <1>0 DEF RowDone
  <2>4. CASE RowFails
    <3>1. pc[Worker] \in {"read", "respond"}
      BY <2>4 DEF RowFails, Unknown, RetriesHandled
    <3> QED BY <2>4, <1>0, <3>1 DEF RowFails
  <2>5. CASE EndBatch
    BY <2>5, <1>0 DEF EndBatch, Commit, EmptyBuf
  <2> QED BY <1>7, <2>1, <2>2, <2>3, <2>4, <2>5 DEF Batch
<1>8. CASE SqlError
  BY <1>8, <1>0 DEF SqlError, Rollback, EmptyBuf
<1>9. ~Restart
  BY StaysCalm
<1>10. CASE UNCHANGED vars
  BY <1>10 DEF vars
<1> HIDE DEF Goto, Order, BuffersClean, TypeOK, BufType, PayloadType
<1> QED BY <1>1, <1>2, <1>3, <1>4, <1>5, <1>6, <1>7, <1>8, <1>9, <1>10 DEF Next

LEMMA HandledStep ==
    ASSUME TypeOK, FundingInv, BuffersClean, RetriesHandled, [Next]_vars, faults'.soft = 0
    PROVE  RetriesHandled'
<1>0. /\ Web \subseteq Procs /\ Worker \in Procs /\ Worker \notin Web
      /\ \A p \in Procs : ~Deadlocked(p)
      /\ faults.soft = 0 /\ faults.soft + 1 # 0 /\ ~Restart
  BY FundingAssumption, NoDeadlock, StaysCalm DEF Procs
<1>1. \A x : (Handled(x) => Handled(x)') /\ (Recorded(x) => Recorded(x)')
  BY StaysHandled
<1>2. \A x : /\ \A l \in logs : l.xfer = x => Handled(x)'
             /\ \A r \in RetryIds : retry[r].state # "free" /\ retry[r].load.xfer = x
                                    => Handled(x)'
             /\ \A p \in Procs : pc[p] = "respond" /\ msg[p].xfer = x => Handled(x)'
             /\ pc[Worker] = "read" /\ msg[Worker].xfer = x => Handled(x)'
             /\ pc[Worker] = "insert" /\ msg[Worker].xfer = x => Recorded(x)'
  BY <1>1 DEF RetriesHandled
<1> USE FundingAssumption DEF Goto, Order, Tx, RetriesHandled, Handled, Recorded, TypeOK,
        PayloadType, BufType
<1>3. ASSUME NEW w \in Web, NEW x \in Transfers, NEW c \in BOOLEAN, NEW i \in BOOLEAN,
             Receive(w, x, c, i)
      PROVE  RetriesHandled'
  BY <1>3, <1>0 DEF Receive, Payload
<1>4. ASSUME NEW w \in Web, Respond(w) PROVE RetriesHandled'
  <2>1. \A r \in RetryIds : /\ retry'[r].state # "free" => retry[r].state # "free"
                            /\ retry'[r].load = retry[r].load
    BY <1>4 DEF Respond, Commit, RowType, FreeRow
  <2>6. \A l \in logs' : Handled(l.xfer)'
    BY <1>4, <1>0, <1>2 DEF Respond
  <2>7. \A r \in RetryIds : retry'[r].state # "free" => Handled(retry[r].load.xfer)'
    BY <1>4, <1>2, <2>1 DEF Respond
  <2>8. \A q \in Procs : pc'[q] = "respond" => Handled(msg[q].xfer)'
    BY <1>4, <1>0, <1>2 DEF Respond
  <2> QED BY <1>4, <1>0, <1>2, <2>6, <2>7, <2>8 DEF Respond
<1>5. ASSUME NEW w \in Web, Drop(w) PROVE RetriesHandled'
  BY <1>5, <1>0, <1>2 DEF Drop, Rollback
<1>6. ASSUME NEW w \in Web, NEW r \in RetryIds, QueueRetry(w, r) PROVE RetriesHandled'
  <2>1. OrderOf[msg[w].xfer] \notin Orders
    BY <1>6, <1>0 DEF QueueRetry, Unknown, FaultType
  <2> QED BY <1>6, <1>0, <1>2, <2>1 DEF QueueRetry
<1>7. ASSUME NEW l \in logs, NEW r \in RetryIds, ManualRetry(l, r) PROVE RetriesHandled'
  BY <1>7, <1>0, <1>2 DEF ManualRetry
<1>8. ASSUME NEW p \in Procs, Process(p) PROVE RetriesHandled'
  <2>1. CASE ReadOrder(p)
    <3>1. Order(p) \in Orders /\ pc[p] = "read"
      BY <2>1 DEF ReadOrder
    <3>2. Seen(p, Order(p)) = status[Order(p)]
      <4> HIDE DEF TypeOK, RetriesHandled, Order
      <4> QED BY <3>1 DEF Seen, BuffersClean
    <3> QED BY <2>1, <1>0, <1>2, <3>1, <3>2 DEF ReadOrder
  <2>2. CASE InsertDeposit(p)
    BY <2>2, <1>0, <1>2 DEF InsertDeposit
  <2>3. CASE DuplicateDeposit(p)
    <3>1. Recorded(msg[p].xfer)
      BY <2>3 DEF DuplicateDeposit, BuffersClean
    <3> QED BY <2>3, <1>0, <1>2, <3>1 DEF DuplicateDeposit, Rollback
  <2>4. CASE LockOrder(p)
    BY <2>4, <1>0, <1>2 DEF LockOrder
  <2>5. ASSUME NEW d \in {"BLOCK", "REVIEW", "ACCEPT"}, Decide(p, d) PROVE RetriesHandled'
    BY <2>5, <1>0, <1>2 DEF Decide
  <2>6. CASE CheckJournal(p)
    BY <2>6, <1>0, <1>2 DEF CheckJournal
  <2>7. CASE PostJournal(p)
    <3>1. \A r \in RetryIds : /\ retry'[r].state # "free" => retry[r].state # "free"
                              /\ retry'[r].load = retry[r].load
      BY <2>7 DEF PostJournal, Commit, RowType, FreeRow
    <3>6. \A l \in logs' : Handled(l.xfer)'
      BY <2>7, <1>0, <1>2 DEF PostJournal
    <3>7. \A r \in RetryIds : retry'[r].state # "free" => Handled(retry[r].load.xfer)'
      BY <2>7, <1>2, <3>1 DEF PostJournal
    <3>8. \A q \in Procs : pc'[q] = "respond" => Handled(msg[q].xfer)'
      BY <2>7, <1>0, <1>2, ZenonT(60) DEF PostJournal
    <3> QED BY <2>7, <1>0, <1>2, <3>6, <3>7, <3>8 DEF PostJournal
  <2>8. CASE CreditUser(p)
    BY <2>8, <1>0, <1>2 DEF CreditUser
  <2>9. CASE CommitDeposit(p)
    <3>1. \A r \in RetryIds : /\ retry'[r].state # "free" => retry[r].state # "free"
                              /\ retry'[r].load = retry[r].load
      BY <2>9 DEF CommitDeposit, Commit, RowType, FreeRow
    <3>2. msg[p].xfer \in deposits'
      BY <2>9 DEF CommitDeposit, Commit, FundingInv, DepositInv
    <3>6. \A l \in logs' : Handled(l.xfer)'
      BY <2>9, <1>0, <1>2, <3>2 DEF CommitDeposit
    <3>7. \A r \in RetryIds : retry'[r].state # "free" => Handled(retry[r].load.xfer)'
      BY <2>9, <1>2, <3>1, <3>2 DEF CommitDeposit
    <3>8. \A q \in Procs : pc'[q] = "respond" => Handled(msg[q].xfer)'
      BY <2>9, <1>0, <1>2, <3>2 DEF CommitDeposit
    <3> QED BY <2>9, <1>0, <1>2, <3>6, <3>7, <3>8 DEF CommitDeposit
  <2> QED BY <1>8, <2>1, <2>2, <2>3, <2>4, <2>5, <2>6, <2>7, <2>8, <2>9 DEF Process
<1>9. CASE Batch
  <2>1. CASE StartBatch
    BY <2>1, <1>0, <1>2 DEF StartBatch
  <2>2. CASE NextRow
    <3>1. PICK r \in worker.batch : msg' = [msg EXCEPT ![Worker] = retry[r].load]
      BY <2>2 DEF NextRow
    <3>2. r \in RetryIds /\ retry[r].state # "free"
      BY <3>1 DEF FundingInv, ControlOK, WorkerType
    <3> QED BY <2>2, <1>0, <1>2, <3>1, <3>2 DEF NextRow
  <2>3. CASE RowDone
    BY <2>3, <1>0, <1>2 DEF RowDone
  <2>4. CASE RowFails
    BY <2>4, <1>0, <1>2 DEF RowFails
  <2>5. CASE EndBatch
    <3>1. \A r \in RetryIds : /\ retry'[r].state # "free" => retry[r].state # "free"
                              /\ retry'[r].load = retry[r].load
      BY <2>5 DEF EndBatch, Commit, RowType, FreeRow
    <3> QED BY <2>5, <1>0, <1>2, <3>1, ZenonT(60) DEF EndBatch
  <2> QED BY <1>9, <2>1, <2>2, <2>3, <2>4, <2>5 DEF Batch
<1>10. CASE SqlError
  BY <1>10, <1>0, <1>2 DEF SqlError, Rollback
<1>11. CASE UNCHANGED vars
  BY <1>11 DEF vars
<1> HIDE DEF Goto, Order, Tx, RetriesHandled, Handled, Recorded, TypeOK, PayloadType, BufType
<1> QED BY <1>0, <1>3, <1>4, <1>5, <1>6, <1>7, <1>8, <1>9, <1>10, <1>11 DEF Next

(* A step of p leaves what the other sessions are about to credit alone. *)
LEMMA DueElsewhere ==
    ASSUME TypeOK, CreditsDue, NEW p \in Procs,
           \A q \in Procs \ {p} : pc'[q] = pc[q] /\ msg'[q] = msg[q] /\ buf'[q] = buf[q],
           UNCHANGED <<status, credits>>,
           \A o \in Orders : ~Crediter(p, o),
           pc'[p] # "commit" \/ \A o \in Orders : buf'[p].writes[o] # "FUNDED"
    PROVE  CreditsDue'
<1>1. \A o \in Orders : \A q \in Procs : Crediter(q, o) => Crediter(q, o)'
  BY DEF Crediter, Order, PendingCredit
<1>2. \A o \in Orders : CreditsOf(o)' = CreditsOf(o)
  BY DEF CreditsOf
<1>3. \A o \in Orders : status'[o] = "FUNDED" =>
         CreditsOf(o)' # {} \/ \E q \in Procs : Crediter(q, o)'
  BY <1>1, <1>2 DEF CreditsDue
<1>4. ASSUME NEW o \in Orders, NEW q \in Procs, pc'[q] = "commit",
             buf'[q].writes[o] = "FUNDED"
      PROVE  CreditsOf(o)' # {} \/ PendingCredit(q, o)'
  <2>1. q # p /\ pc[q] = "commit" /\ buf[q].writes[o] = "FUNDED"
    BY <1>4
  <2> QED BY <1>2, <2>1 DEF CreditsDue, PendingCredit
<1> QED BY <1>3, <1>4 DEF CreditsDue

(* What a session commits is already credited, or about to be. *)
LEMMA DueCommit ==
    ASSUME TypeOK, FundingInv, BuffersClean, CreditsDue, NEW p \in Procs, Commit(p),
           NEW l, Goto(p, l), msg' = msg, l # "commit", pc[p] \in {"post", "commit", "respond", "next"},
           pc[p] = "post" => l = "credit"
    PROVE  CreditsDue'
<1>0. /\ buf[p] \in BufType /\ pc'[p] = l
      /\ \A q \in Procs \ {p} : pc'[q] = pc[q] /\ msg'[q] = msg[q] /\ buf'[q] = buf[q]
  BY DEF Commit, Goto, TypeOK
<1>1. \A o \in Orders : CreditsOf(o) \subseteq CreditsOf(o)'
  BY DEF CreditsOf, Commit, TypeOK
<1>2. \A o \in Orders : PendingCredit(p, o) => CreditsOf(o)' # {}
  <2> SUFFICES ASSUME NEW o \in Orders, PendingCredit(p, o) PROVE CreditsOf(o)' # {}
    OBVIOUS
  <2>1. PICK x \in buf[p].credits : OrderOf[x] = o
    BY DEF PendingCredit
  <2>2. x \in Transfers /\ credits[x] \in Nat /\ credits'[x] = credits[x] + 1
    BY <1>0, <2>1 DEF BufType, TypeOK, Commit
  <2> QED BY <2>1, <2>2 DEF CreditsOf
<1>3. \A o \in Orders : \A q \in Procs : q # p /\ Crediter(q, o) => Crediter(q, o)'
  BY <1>0 DEF Crediter, Order, PendingCredit
<1>4. \A o \in Orders : Crediter(p, o) => CreditsOf(o)' # {}
  BY <1>2 DEF Crediter
<1>5. ASSUME NEW o \in Orders, buf[p].writes[o] = "FUNDED"
      PROVE  CreditsOf(o)' # {} \/ Crediter(p, o)'
  <2>1. o = Order(p) /\ pc[p] \in {"post", "commit"}
    BY <1>5 DEF BuffersClean, Keep
  <2>2. CASE pc[p] = "post"
    BY <1>0, <2>1, <2>2 DEF Crediter, Order
  <2>3. CASE pc[p] = "commit"
    BY <1>1, <1>2, <1>5, <2>3 DEF CreditsDue
  <2> QED BY <2>1, <2>2, <2>3
<1>6. \A o \in Orders : status'[o] = "FUNDED" =>
         CreditsOf(o)' # {} \/ \E q \in Procs : Crediter(q, o)'
  <2> SUFFICES ASSUME NEW o \in Orders, status'[o] = "FUNDED"
               PROVE  CreditsOf(o)' # {} \/ \E q \in Procs : Crediter(q, o)'
    OBVIOUS
  <2>1. status[o] = "FUNDED" \/ buf[p].writes[o] = "FUNDED"
    BY DEF Commit
  <2> QED BY <1>1, <1>3, <1>4, <1>5, <2>1 DEF CreditsDue
<1>7. ASSUME NEW o \in Orders, NEW q \in Procs, pc'[q] = "commit",
             buf'[q].writes[o] = "FUNDED"
      PROVE  CreditsOf(o)' # {} \/ PendingCredit(q, o)'
  <2>1. q # p /\ pc[q] = "commit" /\ buf[q].writes[o] = "FUNDED" /\ buf'[q] = buf[q]
    BY <1>0, <1>7
  <2> QED BY <1>1, <2>1 DEF CreditsDue, PendingCredit
<1> QED BY <1>6, <1>7 DEF CreditsDue

(* The credit is added, unless there is one. *)
LEMMA DueCredit ==
    ASSUME TypeOK, BuffersClean, CreditsDue, NEW p \in Procs, CreditUser(p)
    PROVE  CreditsDue'
<1>0. /\ pc[p] = "credit" /\ pc'[p] = "commit" /\ UNCHANGED <<status, credits, msg>>
      /\ buf[p] \in BufType /\ buf'[p].writes = buf[p].writes
      /\ \A q \in Procs \ {p} : pc'[q] = pc[q] /\ buf'[q] = buf[q]
      /\ msg[p].xfer \in Transfers
  BY DEF CreditUser, Goto, TypeOK, BufType, PayloadType
<1>1. CreditsOf(Order(p))' # {} \/ PendingCredit(p, Order(p))'
  <2>1. CASE CreditExists(p)
    <3>1. PICK x \in Transfers : OrderOf[x] = Order(p) /\ (credits[x] > 0 \/ x \in buf[p].credits)
      BY <2>1 DEF CreditExists
    <3>2. buf' = buf
      BY <2>1 DEF CreditUser
    <3> QED BY <1>0, <3>1, <3>2 DEF CreditsOf, PendingCredit, Order
  <2>2. CASE ~CreditExists(p)
    <3>1. msg[p].xfer \in buf'[p].credits
      BY <1>0, <2>2 DEF CreditUser, TypeOK, BufType
    <3> QED BY <1>0, <3>1 DEF PendingCredit, Order
  <2> QED BY <2>1, <2>2
<1>2. \A o \in Orders : Crediter(p, o) \/ buf[p].writes[o] = "FUNDED" =>
          CreditsOf(o)' # {} \/ (Crediter(p, o)' /\ PendingCredit(p, o)')
  <2> SUFFICES ASSUME NEW o \in Orders, Crediter(p, o) \/ buf[p].writes[o] = "FUNDED"
               PROVE  CreditsOf(o)' # {} \/ (Crediter(p, o)' /\ PendingCredit(p, o)')
    OBVIOUS
  <2>1. o = Order(p)
    BY DEF Crediter, BuffersClean, Keep
  <2>2. Order(p)' = Order(p)
    BY <1>0 DEF Order
  <2>3. CreditsOf(o)' # {} \/ PendingCredit(p, o)'
    BY <1>0, <1>1, <2>1, <2>2 DEF CreditsOf, PendingCredit, Order
  <2> QED BY <1>0, <2>1, <2>2, <2>3 DEF Crediter
<1>3. \A o \in Orders : \A q \in Procs : q # p /\ Crediter(q, o) => Crediter(q, o)'
  BY <1>0 DEF Crediter, Order, PendingCredit
<1>4. \A o \in Orders : CreditsOf(o)' = CreditsOf(o)
  BY <1>0 DEF CreditsOf
<1>5. \A o \in Orders : status'[o] = "FUNDED" =>
         CreditsOf(o)' # {} \/ \E q \in Procs : Crediter(q, o)'
  BY <1>0, <1>2, <1>3, <1>4 DEF CreditsDue
<1>6. \A o \in Orders, q \in Procs : pc'[q] = "commit" /\ buf'[q].writes[o] = "FUNDED" =>
         CreditsOf(o)' # {} \/ PendingCredit(q, o)'
  <2> SUFFICES ASSUME NEW o \in Orders, NEW q \in Procs, pc'[q] = "commit",
                      buf'[q].writes[o] = "FUNDED"
               PROVE  CreditsOf(o)' # {} \/ PendingCredit(q, o)'
    OBVIOUS
  <2>1. CASE q = p
    BY <1>0, <1>2, <2>1
  <2>2. CASE q # p
    BY <1>0, <1>4, <2>2 DEF CreditsDue, PendingCredit
  <2> QED BY <2>1, <2>2
<1> QED BY <1>5, <1>6 DEF CreditsDue

LEMMA DueStep ==
    ASSUME TypeOK, FundingInv, BuffersClean, RetriesHandled, CreditsDue, [Next]_vars,
           faults'.soft = 0
    PROVE  CreditsDue'
<1>0. /\ Web \subseteq Procs /\ Worker \in Procs
      /\ \A p \in Procs : ~Deadlocked(p)
      /\ faults.soft + 1 # 0 /\ ~Restart
      /\ DOMAIN pc = Procs /\ DOMAIN msg = Procs /\ DOMAIN buf = Procs
  BY NoDeadlock, StaysCalm DEF Procs, TypeOK
<1>1. ASSUME NEW p \in Procs, NEW l, Goto(p, l), l # "commit",
             pc[p] \notin {"credit", "commit"},
             \A q \in Procs \ {p} : msg'[q] = msg[q] /\ buf'[q] = buf[q],
             UNCHANGED <<status, credits>>
      PROVE  CreditsDue'
  <2>1. /\ pc'[p] = l
        /\ \A q \in Procs \ {p} : pc'[q] = pc[q] /\ msg'[q] = msg[q] /\ buf'[q] = buf[q]
    BY <1>0, <1>1 DEF Goto
  <2>2. \A o \in Orders : ~Crediter(p, o)
    BY <1>1 DEF Crediter
  <2> QED BY <1>1, <2>1, <2>2, DueElsewhere
<1>2. ASSUME NEW w \in Web, NEW x \in Transfers, NEW c \in BOOLEAN, NEW i \in BOOLEAN,
             Receive(w, x, c, i)
      PROVE  CreditsDue'
  BY <1>0, <1>1, <1>2 DEF Receive
<1>3. ASSUME NEW w \in Web, Respond(w) PROVE CreditsDue'
  BY <1>0, <1>3, DueCommit DEF Respond
<1>4. ASSUME NEW w \in Web, Drop(w) PROVE CreditsDue'
  <2>1. pc[w] = "read"
    BY <1>0, <1>4 DEF Drop, Unknown, TypeOK, FaultType
  <2> QED BY <1>0, <1>1, <1>4, <2>1 DEF Drop, Rollback
<1>5. ASSUME NEW w \in Web, NEW r \in RetryIds, QueueRetry(w, r) PROVE CreditsDue'
  <2>1. pc[w] = "read"
    BY <1>0, <1>5 DEF QueueRetry, Unknown, TypeOK, FaultType
  <2> QED BY <1>0, <1>1, <1>5, <2>1 DEF QueueRetry
<1>6. ASSUME NEW l \in logs, NEW r \in RetryIds, ManualRetry(l, r) PROVE CreditsDue'
  BY <1>6 DEF ManualRetry, CreditsDue, CreditsOf, Crediter, PendingCredit, Order
<1>7. ASSUME NEW p \in Procs, Process(p) PROVE CreditsDue'
  <2>1. CASE ReadOrder(p)
    BY <1>1, <2>1 DEF ReadOrder
  <2>2. CASE InsertDeposit(p)
    <3>1. /\ \A q \in Procs \ {p} : pc'[q] = pc[q] /\ msg'[q] = msg[q] /\ buf'[q] = buf[q]
          /\ UNCHANGED <<status, credits>> /\ pc[p] = "insert"
      BY <1>0, <2>2 DEF InsertDeposit, Goto
    <3>2. \A o \in Orders : buf'[p].writes[o] # "FUNDED"
      <4>1. buf[p] \in BufType /\ \A o \in Orders : buf[p].writes[o] = Keep
        BY <3>1 DEF BuffersClean, TypeOK
      <4>2. buf'[p] = [buf[p] EXCEPT !.deps = @ \union {msg[p].xfer}]
        BY <1>0, <2>2 DEF InsertDeposit
      <4> QED BY <4>1, <4>2 DEF BufType, Keep
    <3> QED BY <3>1, <3>2, DueElsewhere DEF Crediter
  <2>3. CASE DuplicateDeposit(p)
    BY <1>0, <1>1, <2>3 DEF DuplicateDeposit, Rollback
  <2>4. CASE LockOrder(p)
    BY <1>0, <1>1, <2>4 DEF LockOrder
  <2>5. ASSUME NEW d \in {"BLOCK", "REVIEW", "ACCEPT"}, Decide(p, d) PROVE CreditsDue'
    <3>1. /\ \A q \in Procs \ {p} : pc'[q] = pc[q] /\ msg'[q] = msg[q] /\ buf'[q] = buf[q]
          /\ UNCHANGED <<status, credits>> /\ pc[p] = "decide"
      BY <1>0, <2>5 DEF Decide, Goto
    <3>2. /\ buf[p] \in BufType /\ Order(p) \in Orders
          /\ \A o \in Orders : buf[p].writes[o] = Keep
      BY <3>1 DEF BuffersClean, TypeOK, FundingInv, ControlOK
    <3>3. pc'[p] # "commit" \/ \A o \in Orders : buf'[p].writes[o] # "FUNDED"
      <4>1. CASE d = "ACCEPT"
        BY <1>0, <2>5, <4>1 DEF Decide, Goto
      <4>2. CASE d = "REVIEW"
        BY <2>5, <3>2, <4>2 DEF Decide, Keep
      <4>3. CASE d = "BLOCK"
        <5>1. buf'[p] = [buf[p] EXCEPT !.writes[Order(p)] = "CANCELLED"]
          BY <1>0, <2>5, <4>3 DEF Decide
        <5> QED BY <3>2, <5>1 DEF BufType, Keep
      <4> QED BY <4>1, <4>2, <4>3
    <3> QED BY <3>1, <3>3, DueElsewhere DEF Crediter
  <2>6. CASE CheckJournal(p)
    BY <1>1, <2>6 DEF CheckJournal
  <2>7. CASE PostJournal(p)
    BY <2>7, DueCommit DEF PostJournal
  <2>8. CASE CreditUser(p)
    BY <2>8, DueCredit
  <2>9. CASE CommitDeposit(p)
    BY <2>9, DueCommit DEF CommitDeposit
  <2> QED BY <1>7, <2>1, <2>2, <2>3, <2>4, <2>5, <2>6, <2>7, <2>8, <2>9 DEF Process
<1>8. CASE Batch
  <2>1. CASE StartBatch
    BY <1>0, <1>1, <2>1 DEF StartBatch
  <2>2. CASE NextRow
    BY <1>0, <1>1, <2>2 DEF NextRow
  <2>3. CASE RowDone
    BY <1>0, <1>1, <2>3 DEF RowDone
  <2>4. CASE RowFails
    BY <1>0, <1>1, <2>4 DEF RowFails, RetriesHandled
  <2>5. CASE EndBatch
    BY <1>0, <2>5, DueCommit DEF EndBatch
  <2> QED BY <1>8, <2>1, <2>2, <2>3, <2>4, <2>5 DEF Batch
<1>9. CASE SqlError
  BY <1>0, <1>1, <1>9 DEF SqlError, Rollback, RetriesHandled
<1>10. CASE UNCHANGED vars
  BY <1>10 DEF vars, CreditsDue, CreditsOf, Crediter, PendingCredit, Order
<1> QED BY <1>0, <1>2, <1>3, <1>4, <1>5, <1>6, <1>7, <1>8, <1>9, <1>10 DEF Next

LEMMA FaultFreeInit == Init => FaultFreeInv
<1> SUFFICES ASSUME Init PROVE BuffersClean /\ RetriesHandled /\ CreditsDue
  BY DEF FaultFreeInv
<1>1. BuffersClean
  BY DEF Init, BuffersClean, EmptyBuf
<1>2. RetriesHandled
  BY DEF Init, RetriesHandled, Procs
<1>3. CreditsDue
  BY DEF Init, CreditsDue
<1> QED BY <1>1, <1>2, <1>3

\* Without an exception or a restart the user of a FUNDED order is credited by the
\* time the sessions are idle: the commit inside post_journal publishes FUNDED
\* before the credit, but the session that did it still has the credit to make.
THEOREM FundedCredited == Spec => []FundedIsCredited
<1>1. TypeOK /\ FundingInv /\ FaultFreeInv /\ [Next]_vars => FaultFreeInv'
  <2> SUFFICES ASSUME TypeOK, FundingInv, FaultFreeInv, [Next]_vars, faults'.soft = 0
               PROVE  BuffersClean' /\ RetriesHandled' /\ CreditsDue'
    BY DEF FaultFreeInv
  <2>1. BuffersClean /\ RetriesHandled /\ CreditsDue
    BY StaysCalm DEF FaultFreeInv
  <2> QED BY <2>1, CleanStep, HandledStep, DueStep DEF FundingInv
<1>2. FaultFreeInv => FundedIsCredited
  BY DEF FaultFreeInv, CreditsDue, Crediter, FundedIsCredited
<1> QED BY <1>1, <1>2, FaultFreeInit, Invariance, PTL DEF Spec

=============================================================================
