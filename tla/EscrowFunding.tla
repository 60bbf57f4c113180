---------------------------- MODULE EscrowFunding ----------------------------
(***************************************************************************)
(* How an on-chain USDC transfer funds an escrow order.                    *)
(*                                                                         *)
(* A webhook session (routers/escrow/escrow_webhook.py) or the retry       *)
(* worker runs process_usdc_webhook (services/escrow_webhook_service.py).  *)
(* Each of them works in a PostgreSQL transaction at READ COMMITTED: what  *)
(* it wrote so far is in its buffer buf[p], invisible to the others until  *)
(* one of its COMMITs, and there is a commit in the middle of the handler: *)
(* PaylinkLedgerService.post_journal commits the journal it inserts.       *)
(*                                                                         *)
(* A Transfer is one Transfer event; TxOf gives its transaction hash (one  *)
(* transaction may hold several events) and OrderOf the order whose        *)
(* deposit address it pays, or NoOrder.  Amounts are abstracted.           *)
(***************************************************************************)
EXTENDS EscrowRules, Naturals, FiniteSets

CONSTANTS
    Orders, Transfers, Txs,
    TxOf,          \* [Transfers -> Txs]
    OrderOf,       \* [Transfers -> Orders \union {NoOrder}]
    NoOrder,
    Web, Worker,   \* webhook sessions, the retry worker's only session
    RetryIds,      \* ids escrow.webhook_retries can hand out (a bound)
    MaxAttempts,   \* 10 in the source
    MaxFaults,     \* bound on exceptions and process restarts
    MaxDbErrors    \* bound on SQL errors met by the retry worker

ASSUME FundingAssumption ==
    /\ TxOf \in [Transfers -> Txs]
    /\ OrderOf \in [Transfers -> Orders \union {NoOrder}]
    /\ NoOrder \notin Orders
    /\ Worker \notin Web
    /\ RetryIds \subseteq Nat
    /\ MaxAttempts \in Nat /\ MaxFaults \in Nat /\ MaxDbErrors \in Nat

VARIABLES
    status,     \* escrow.orders.status, committed
    deposits,   \* escrow.chain_deposits: transfers with a row, tx_hash unique
    journals,   \* number of ledger journals with tx_id = the order
    credits,    \* number of user credits each transfer gave rise to
    logs,       \* escrow.webhook_logs
    retry,      \* escrow.webhook_retries
    pc, msg,    \* where each session is, and the payload it handles
    buf,        \* uncommitted writes and row locks of each session
    worker,     \* the row and the batch of the retry worker, and its wedged flag
    faults      \* exceptions, restarts and SQL errors so far

vars == <<status, deposits, journals, credits, logs, retry, pc, msg, buf,
          worker, faults>>

-----------------------------------------------------------------------------
Procs == Web \union {Worker}

NoIndex == "absent"
Keep    == "KEEP"

\* ChainDepositWebhook has no log_index field: model_dump() drops it, so the
\* payload stored in a log or in a retry row never holds one
Payload(x, c) == [xfer |-> x, conf |-> c, index |-> NoIndex]

PayloadType == [xfer : Transfers, conf : BOOLEAN, index : {NoIndex} \union Transfers]

PCs == {"idle", "read", "insert", "lock", "decide", "check", "post", "credit",
        "commit", "respond", "next"}

FreeRow == [state : {"free"}]
RowType == [state : {"queued", "deleted"}, load : PayloadType, attempts : Nat]

BufType == [deps : SUBSET Transfers, writes : [Orders -> Status \union {Keep}],
            credits : SUBSET Transfers, done : SUBSET RetryIds,
            bumped : SUBSET RetryIds, locks : SUBSET Orders]

WorkerType == [row : RetryIds \union {0}, batch : SUBSET RetryIds, wedged : BOOLEAN]

FaultType == [soft : Nat, db : Nat]

EmptyBuf == [deps |-> {}, writes |-> [o \in Orders |-> Keep], credits |-> {},
             done |-> {}, bumped |-> {}, locks |-> {}]

TypeOK ==
    /\ status \in [Orders -> Status]
    /\ deposits \in SUBSET Transfers
    /\ journals \in [Orders -> Nat]
    /\ credits \in [Transfers -> Nat]
    /\ logs \in SUBSET PayloadType
    /\ retry \in [RetryIds -> FreeRow \union RowType]
    /\ pc \in [Procs -> PCs]
    /\ msg \in [Procs -> PayloadType]
    /\ buf \in [Procs -> BufType]
    /\ worker \in WorkerType
    /\ faults \in FaultType

Init ==
    /\ status = [o \in Orders |-> "CREATED"]
    /\ deposits = {}
    /\ journals = [o \in Orders |-> 0]
    /\ credits = [x \in Transfers |-> 0]
    /\ logs = {}
    /\ retry = [r \in RetryIds |-> [state |-> "free"]]
    /\ pc = [p \in Procs |-> "idle"]
    /\ msg \in [Procs -> {Payload(x, FALSE) : x \in Transfers}]
    /\ buf = [p \in Procs |-> EmptyBuf]
    /\ worker = [row |-> 0, batch |-> {}, wedged |-> FALSE]
    /\ faults = [soft |-> 0, db |-> 0]

-----------------------------------------------------------------------------
(* Transactions *)

\* COMMIT of session p: its buffered writes reach the tables
Commit(p) ==
    /\ deposits' = deposits \union buf[p].deps
    /\ status' = [o \in Orders |-> IF buf[p].writes[o] = Keep THEN status[o]
                                   ELSE buf[p].writes[o]]
    /\ credits' = [x \in Transfers |-> IF x \in buf[p].credits
                                       THEN credits[x] + 1 ELSE credits[x]]
    /\ retry' = [r \in RetryIds |->
                    IF retry[r].state # "queued" THEN retry[r]
                    ELSE IF r \in buf[p].done
                         THEN [retry[r] EXCEPT !.state = "deleted"]
                    ELSE IF r \in buf[p].bumped
                         THEN [retry[r] EXCEPT !.attempts = @ + 1]
                    ELSE retry[r]]
    /\ buf' = [buf EXCEPT ![p] = EmptyBuf]

\* ROLLBACK of session p
Rollback(p) ==
    /\ buf' = [buf EXCEPT ![p] = EmptyBuf]
    /\ UNCHANGED <<deposits, status, credits, retry>>

Goto(p, l) == pc' = [pc EXCEPT ![p] = l]

Order(p) == OrderOf[msg[p].xfer]
Tx(p) == TxOf[msg[p].xfer]

\* a transaction reads the committed status, or the one it wrote itself
Seen(p, o) == IF buf[p].writes[o] = Keep THEN status[o] ELSE buf[p].writes[o]

\* p must wait for q: a row lock on the order, or an uncommitted deposit row
\* with the same unique tx_hash
Waits(p, q) ==
    /\ p # q
    /\ \/ pc[p] = "lock" /\ Order(p) \in buf[q].locks
       \/ pc[p] = "insert" /\ \E d \in buf[q].deps : TxOf[d] = Tx(p)

Blocked(p) == \E q \in Procs : Waits(p, q)

\* PostgreSQL aborts one of the transactions of a wait cycle
Deadlocked(p) == \E q \in Procs : Waits(p, q) /\ Waits(q, p)

\* "Escrow order not found"
Unknown(p) == pc[p] = "read" /\ Order(p) = NoOrder

-----------------------------------------------------------------------------
(* Variants: each repeats one of the definitions below with a plausible      *)
(* mistake.  They are used by no action; PROJECT.json names the property that *)
(* must notice each of them.                                                 *)

\* the unique index on tx_hash is missing
InsertDepositNotUnique(p) ==
    /\ pc[p] = "insert"
    /\ buf' = [buf EXCEPT ![p].deps = @ \union {msg[p].xfer}]
    /\ Goto(p, IF msg[p].conf THEN "lock" ELSE "commit")
    /\ UNCHANGED <<status, deposits, journals, credits, logs, retry, msg,
                   worker, faults>>

\* autoflush is off: the lookup of the user takes no row lock
LockOrderNoFlush(p) ==
    /\ pc[p] = "lock"
    /\ Goto(p, "decide")
    /\ UNCHANGED <<status, deposits, journals, credits, logs, retry, msg, buf,
                   worker, faults>>

\* the deposit row is taken for the credit
CreditExistsDeposited(p) ==
    \E x \in Transfers : OrderOf[x] = Order(p) /\ x \in deposits

\* a failed attempt is not counted
RowFailsUncounted ==
    /\ \/ Unknown(Worker)
       \/ pc[Worker] \in {"decide", "credit", "commit"} /\ faults.soft < MaxFaults
    /\ faults' = IF Unknown(Worker) THEN faults ELSE [faults EXCEPT !.soft = @ + 1]
    /\ Goto(Worker, "next")
    /\ UNCHANGED <<status, deposits, journals, credits, logs, retry, msg, buf, worker>>

-----------------------------------------------------------------------------
(* The webhook endpoint: routers/escrow/escrow_webhook.py, usdc_webhook *)

\* the envelope guard: with a log_index in the request only rows whose payload
\* holds that index count, without one any row of the transaction does
Known(x, indexed) ==
    \E l \in logs : /\ TxOf[l.xfer] = TxOf[x]
                    /\ indexed => l.index = x

Receive(w, x, c, indexed) ==
    /\ pc[w] = "idle"
    /\ ~Known(x, indexed)          \* else the answer is DUPLICATE
    /\ msg' = [msg EXCEPT ![w] = Payload(x, c)]
    /\ Goto(w, "read")
    /\ UNCHANGED <<status, deposits, journals, credits, logs, retry, buf,
                   worker, faults>>

\* the answer: a SUCCESS log row and the last commit
Respond(w) ==
    /\ pc[w] = "respond"
    /\ logs' = logs \union {msg[w]}
    /\ Commit(w)
    /\ Goto(w, "idle")
    /\ UNCHANGED <<journals, msg, worker, faults>>

\* any exception: rollback, then a retry row and a FAILED log row
QueueRetry(w, r) ==
    /\ pc[w] # "idle"
    /\ Unknown(w) \/ Deadlocked(w) \/ faults.soft < MaxFaults
    /\ retry[r].state = "free"
    /\ \A q \in RetryIds : q < r => retry[q].state # "free"
    /\ retry' = [retry EXCEPT ![r] = [state |-> "queued", load |-> msg[w],
                                      attempts |-> 0]]
    /\ logs' = logs \union {msg[w]}
    /\ buf' = [buf EXCEPT ![w] = EmptyBuf]
    /\ faults' = IF Unknown(w) \/ Deadlocked(w) THEN faults
                 ELSE [faults EXCEPT !.soft = @ + 1]
    /\ Goto(w, "idle")
    /\ UNCHANGED <<status, deposits, journals, credits, msg, worker>>

\* the retry row could not be written either: the delivery leaves no trace.
\* (A failing delivery also ends here when RetryIds, a bound, is used up.)
NoRetryId == \A r \in RetryIds : retry[r].state # "free"

Drop(w) ==
    /\ pc[w] # "idle"
    /\ \/ /\ faults.soft < MaxFaults
          /\ faults' = [faults EXCEPT !.soft = @ + 1]
       \/ NoRetryId /\ (Unknown(w) \/ Deadlocked(w)) /\ UNCHANGED faults
    /\ Rollback(w)
    /\ Goto(w, "idle")
    /\ UNCHANGED <<journals, logs, msg, worker>>

\* backoffice_webhooks.retry_webhook_log: an operator queues a logged payload
ManualRetry(l, r) ==
    /\ l \in logs
    /\ retry[r].state = "free"
    /\ \A q \in RetryIds : q < r => retry[q].state # "free"
    /\ retry' = [retry EXCEPT ![r] = [state |-> "queued", load |-> l,
                                      attempts |-> 0]]
    /\ UNCHANGED <<status, deposits, journals, credits, logs, pc, msg, buf,
                   worker, faults>>

-----------------------------------------------------------------------------
(* process_usdc_webhook, run by a webhook session or by the retry worker *)

ReadOrder(p) ==
    /\ pc[p] = "read"
    /\ Order(p) # NoOrder
    /\ Goto(p, IF Seen(p, Order(p)) = "CREATED" THEN "insert"
               ELSE "respond")     \* IGNORED
    /\ UNCHANGED <<status, deposits, journals, credits, logs, retry, msg, buf,
                   worker, faults>>

InsertDeposit(p) ==
    /\ pc[p] = "insert"
    /\ ~Blocked(p)
    /\ \A d \in deposits \union buf[p].deps : TxOf[d] # Tx(p)
    /\ buf' = [buf EXCEPT ![p].deps = @ \union {msg[p].xfer}]
    /\ Goto(p, IF msg[p].conf THEN "lock" ELSE "commit")
    /\ UNCHANGED <<status, deposits, journals, credits, logs, retry, msg,
                   worker, faults>>

\* IntegrityError: rollback, an IGNORED_DUPLICATE log row, commit
DuplicateDeposit(p) ==
    /\ pc[p] = "insert"
    /\ ~Blocked(p)
    /\ \E d \in deposits \union buf[p].deps : TxOf[d] = Tx(p)
    /\ Rollback(p)
    /\ logs' = logs \union {msg[p]}
    /\ Goto(p, "respond")
    /\ UNCHANGED <<journals, msg, worker, faults>>

\* usdc_received, deposit_tx_hash, ... are flushed by db.get(Users), the next
\* ORM query: the UPDATE takes the row lock of the order.  (The queries of the
\* risk evaluation, of post_journal and of the credit are plain SQL texts, for
\* which the session does not flush.)
LockOrder(p) ==
    /\ pc[p] = "lock"
    /\ ~Blocked(p)
    /\ buf' = [buf EXCEPT ![p].locks = @ \union {Order(p)}]
    /\ Goto(p, "decide")
    /\ UNCHANGED <<status, deposits, journals, credits, logs, retry, msg,
                   worker, faults>>

\* risk and AML: BLOCK cancels the order, REVIEW only flags it (its status
\* column is not written), otherwise it becomes FUNDED.  The transition is
\* validated against the status read by ReadOrder, which was CREATED.
Decide(p, decision) ==
    /\ pc[p] = "decide"
    /\ buf' = CASE decision = "BLOCK"  ->
                     [buf EXCEPT ![p].writes[Order(p)] = "CANCELLED"]
                [] decision = "REVIEW" -> buf
                [] decision = "ACCEPT" ->
                     [buf EXCEPT ![p].writes[Order(p)] = "FUNDED"]
    /\ Goto(p, IF decision = "ACCEPT" THEN "check" ELSE "commit")
    /\ UNCHANGED <<status, deposits, journals, credits, logs, retry, msg,
                   worker, faults>>

\* post_journal looks for a journal of this order; it returns without a
\* commit when there is one
CheckJournal(p) ==
    /\ pc[p] = "check"
    /\ Goto(p, IF journals[Order(p)] > 0 THEN "credit" ELSE "post")
    /\ UNCHANGED <<status, deposits, journals, credits, logs, retry, msg, buf,
                   worker, faults>>

\* ... and otherwise inserts one and commits everything written so far
PostJournal(p) ==
    /\ pc[p] = "post"
    /\ journals' = [journals EXCEPT ![Order(p)] = @ + 1]
    /\ Commit(p)
    /\ Goto(p, "credit")
    /\ UNCHANGED <<logs, msg, worker, faults>>

\* _journal_exists_by_ref(ESCROW_FUNDED_CREDIT:<order>), as this transaction
\* sees it
CreditExists(p) ==
    \E x \in Transfers : /\ OrderOf[x] = Order(p)
                         /\ credits[x] > 0 \/ x \in buf[p].credits

CreditUser(p) ==
    /\ pc[p] = "credit"
    /\ buf' = IF CreditExists(p) THEN buf
              ELSE [buf EXCEPT ![p].credits = @ \union {msg[p].xfer}]
    /\ Goto(p, "commit")
    /\ UNCHANGED <<status, deposits, journals, credits, logs, retry, msg,
                   worker, faults>>

CommitDeposit(p) ==
    /\ pc[p] = "commit"
    /\ Commit(p)
    /\ Goto(p, "respond")
    /\ UNCHANGED <<journals, logs, msg, worker, faults>>

Process(p) ==
    \/ ReadOrder(p) \/ InsertDeposit(p) \/ DuplicateDeposit(p)
    \/ LockOrder(p)
    \/ \E d \in {"BLOCK", "REVIEW", "ACCEPT"} : Decide(p, d)
    \/ CheckJournal(p) \/ PostJournal(p) \/ CreditUser(p) \/ CommitDeposit(p)

-----------------------------------------------------------------------------
(* The retry worker: retry_failed_webhooks, in one transaction per batch *)

Due == {r \in RetryIds : retry[r].state = "queued" /\ retry[r].attempts < MaxAttempts}

StartBatch ==
    /\ pc[Worker] = "idle"
    /\ ~worker.wedged
    /\ Due # {}
    /\ worker' = [worker EXCEPT !.batch = Due]
    /\ Goto(Worker, "next")
    /\ UNCHANGED <<status, deposits, journals, credits, logs, retry, msg, buf,
                   faults>>

NextRow ==
    /\ pc[Worker] = "next"
    /\ \E r \in worker.batch :
         /\ \A q \in worker.batch : r <= q          \* ORDER BY created_at
         /\ worker' = [worker EXCEPT !.row = r, !.batch = @ \ {r}]
         /\ msg' = [msg EXCEPT ![Worker] = retry[r].load]
    /\ Goto(Worker, "read")
    /\ UNCHANGED <<status, deposits, journals, credits, logs, retry, buf,
                   faults>>

\* success (or IGNORED): the row is deleted, at the next commit
RowDone ==
    /\ pc[Worker] = "respond"
    /\ buf' = [buf EXCEPT ![Worker].done = @ \union {worker.row}]
    /\ logs' = logs \union {msg[Worker]}
    /\ Goto(Worker, "next")
    /\ UNCHANGED <<status, deposits, journals, credits, retry, msg, worker,
                   faults>>

\* an exception is caught and the attempt counted, without a rollback except
\* the one post_journal does itself: what the row wrote stays in the batch's
\* transaction
RowFails ==
    LET kept == IF pc[Worker] \in {"check", "post"} THEN EmptyBuf ELSE buf[Worker]
    IN  /\ \/ Unknown(Worker)
           \/ /\ pc[Worker] \in {"decide", "check", "post", "credit", "commit",
                                 "respond"}
              /\ faults.soft < MaxFaults
        /\ buf' = [buf EXCEPT ![Worker] =
                     [kept EXCEPT !.bumped = @ \union {worker.row}]]
        /\ faults' = IF Unknown(Worker) THEN faults
                     ELSE [faults EXCEPT !.soft = @ + 1]
        /\ Goto(Worker, "next")
        /\ UNCHANGED <<status, deposits, journals, credits, logs, retry, msg,
                       worker>>

EndBatch ==
    /\ pc[Worker] = "next"
    /\ worker.batch = {}
    /\ Commit(Worker)
    /\ Goto(Worker, "idle")
    /\ UNCHANGED <<journals, logs, msg, worker, faults>>

\* an SQL error: the UPDATE that should count the attempt fails too, the
\* exception leaves retry_failed_webhooks and main.webhook_retry_worker keeps
\* the same session without a rollback, so every later statement fails
SqlError ==
    /\ pc[Worker] \notin {"idle", "check", "post"}
    /\ Deadlocked(Worker) \/ faults.db < MaxDbErrors
    /\ faults' = IF Deadlocked(Worker) THEN faults
                 ELSE [faults EXCEPT !.db = @ + 1]
    /\ Rollback(Worker)
    /\ worker' = [worker EXCEPT !.batch = {}, !.wedged = TRUE]
    /\ Goto(Worker, "idle")
    /\ UNCHANGED <<journals, logs, msg>>

\* the process restarts: sessions and the worker's state are lost
Restart ==
    /\ faults.soft < MaxFaults
    /\ \E p \in Procs : pc[p] # "idle" \/ worker.wedged
    /\ faults' = [faults EXCEPT !.soft = @ + 1]
    /\ pc' = [p \in Procs |-> "idle"]
    /\ buf' = [p \in Procs |-> EmptyBuf]
    /\ worker' = [worker EXCEPT !.batch = {}, !.wedged = FALSE]
    /\ UNCHANGED <<status, deposits, journals, credits, logs, retry, msg>>

-----------------------------------------------------------------------------
Batch == StartBatch \/ NextRow \/ RowDone \/ RowFails \/ EndBatch

Next ==
    \/ \E w \in Web, x \in Transfers, c, i \in BOOLEAN : Receive(w, x, c, i)
    \/ \E w \in Web : Respond(w) \/ Drop(w)
    \/ \E w \in Web, r \in RetryIds : QueueRetry(w, r)
    \/ \E l \in logs, r \in RetryIds : ManualRetry(l, r)
    \/ \E p \in Procs : Process(p)
    \/ Batch \/ SqlError \/ Restart

Spec == Init /\ [][Next]_vars

\* main.webhook_retry_worker is an endless loop with a sleep: it keeps taking
\* the steps of its batch, and a webhook session that holds what it waits for
\* runs to its end
Fairness == WF_vars(Batch \/ Process(Worker))
            /\ \A w \in Web : WF_vars(Process(w) \/ Respond(w))

FairSpec == Spec /\ Fairness

-----------------------------------------------------------------------------
(* Properties *)

\* The ledger never holds two funding journals of an order.  Nothing in the
\* schema forbids it: post_journal reads, then inserts.  It holds because the
\* row lock taken when the user is looked up outlives the read.
OneJournalPerOrder == \A o \in Orders : journals[o] <= 1

\* A transfer credits the user at most once, however often it is delivered,
\* retried, half-processed or replayed after a crash.
OneCreditPerTransfer == \A x \in Transfers : credits[x] <= 1

\* Every user credit is backed by a recorded deposit and a funding journal.
CreditIsBacked ==
    \A x \in Transfers : credits[x] > 0 =>
        x \in deposits /\ OrderOf[x] \in Orders /\ journals[OrderOf[x]] > 0

\* An order shows FUNDED only when its deposit is in the ledger.
FundedIsJournaled ==
    \A o \in Orders : status[o] = "FUNDED" => journals[o] > 0

CreditsOf(o) == {x \in Transfers : OrderOf[x] = o /\ credits[x] > 0}

\* When nothing failed and no session is running, a FUNDED order has credited
\* its user: without faults the commit in the middle of the handler leaves no
\* gap behind (with one it does: the retry is answered as a duplicate).
FundedIsCredited ==
    faults.soft = 0 /\ (\A p \in Procs : pc[p] = "idle")
    => \A o \in Orders : status[o] = "FUNDED" => CreditsOf(o) # {}

\* The funding of orders implements the deposit ledger: what one transfer can
\* do to the books, seen through every commit of every session.
Ledger == INSTANCE DepositLedger WITH recorded <- deposits, credited <- credits

LedgerRefined == Ledger!Spec

\* A queued retry row is eventually processed or has used up its attempts.
Settled(r) == \/ retry[r].state = "deleted"
              \/ retry[r].state = "queued" /\ retry[r].attempts >= MaxAttempts

RetriesSettle ==
    \A r \in RetryIds : retry[r].state = "queued" ~> Settled(r)

-----------------------------------------------------------------------------
(* The inductive invariant behind the safety properties *)

\* what a session is doing fits the control state it is in
ControlOK ==
    /\ \A p \in Procs : pc[p] \in {"insert", "lock", "decide", "check", "post",
                                   "credit", "commit"} => Order(p) \in Orders
    /\ pc[Worker] \notin {"idle", "next"} => worker.row \in RetryIds
    /\ \A r \in worker.batch : retry[r].state # "free"

\* the row lock of an order is held by one session, from the lookup of the user
\* to the commit of the journal, so "no journal yet" stays true until then
LockInv ==
    /\ \A p, q \in Procs : p # q => buf[p].locks \intersect buf[q].locks = {}
    /\ \A p \in Procs : pc[p] \in {"decide", "check", "post"}
                        => Order(p) \in buf[p].locks
    /\ \A p \in Procs : pc[p] = "post" => journals[Order(p)] = 0
    /\ OneJournalPerOrder

\* a FUNDED status or a credit is written, or pending, only once the journal
\* of its order exists
JournalInv ==
    /\ \A p \in Procs : pc[p] = "credit" => journals[Order(p)] > 0
    /\ \A p \in Procs : \A o \in Orders : buf[p].writes[o] = "FUNDED" =>
          \/ journals[o] > 0
          \/ pc[p] \in {"check", "post"} /\ Order(p) = o
    /\ \A p \in Procs : \A x \in buf[p].credits :
          OrderOf[x] \in Orders /\ journals[OrderOf[x]] > 0
    /\ \A x \in Transfers : credits[x] > 0 =>
          OrderOf[x] \in Orders /\ journals[OrderOf[x]] > 0
    /\ FundedIsJournaled

\* sessions between the insert of their deposit row and the credit
Crediting == {"lock", "decide", "check", "post", "credit"}

\* a transaction hash belongs to one session, then to the table
DepositInv ==
    /\ \A p \in Procs : \A x \in buf[p].deps : \A y \in deposits : TxOf[x] # TxOf[y]
    /\ \A p, q \in Procs : \A x \in buf[p].deps : \A y \in buf[q].deps :
          TxOf[x] = TxOf[y] => p = q /\ x = y
    /\ \A x, y \in deposits : TxOf[x] = TxOf[y] => x = y
    /\ \A p \in Procs : pc[p] \in {"lock", "decide", "check", "post"}
                        => msg[p].xfer \in buf[p].deps
    /\ \A p \in Procs : pc[p] \in {"credit", "commit"}
                        => msg[p].xfer \in buf[p].deps \union deposits

\* a transfer is credited by the one session that inserted its row
CreditInv ==
    /\ \A x \in Transfers : credits[x] > 0 => x \in deposits
    /\ \A p \in Procs : \A x \in buf[p].credits :
          x \in buf[p].deps \union deposits /\ credits[x] = 0
    /\ \A p, q \in Procs : p # q => buf[p].credits \intersect buf[q].credits = {}
    /\ \A p \in Procs : pc[p] \in Crediting =>
          /\ credits[msg[p].xfer] = 0
          /\ \A q \in Procs : msg[p].xfer \notin buf[q].credits
    /\ \A p, q \in Procs :
          p # q /\ pc[p] \in Crediting /\ pc[q] \in Crediting
          => msg[p].xfer # msg[q].xfer
    /\ OneCreditPerTransfer

FundingInv == ControlOK /\ LockInv /\ JournalInv /\ DepositInv /\ CreditInv

-----------------------------------------------------------------------------
(* ... and behind FundedIsCredited, as long as nothing failed *)

\* what a session has written stays between the insert of its deposit row and the
\* commit, and concerns its order: nothing is left over for the next delivery
BuffersClean ==
    \A p \in Procs :
        /\ pc[p] \in {"idle", "read", "insert", "respond", "next"} =>
              buf[p].deps = {} /\ buf[p].credits = {} /\ buf[p].locks = {}
        /\ pc[p] = "lock" => buf[p].locks = {}
        /\ \A o \in Orders : buf[p].writes[o] # Keep =>
              /\ o = Order(p) /\ pc[p] \in {"check", "post", "credit", "commit"}
              /\ buf[p].writes[o] \in {"FUNDED", "CANCELLED"}

\* a delivery that would change nothing any more
Recorded(x) == \E d \in deposits : TxOf[d] = TxOf[x]

Handled(x) ==
    \/ OrderOf[x] \notin Orders
    \/ status[OrderOf[x]] # "CREATED"
    \/ Recorded(x)

\* Only such deliveries are logged, or wait to be retried: the retry worker never
\* gets as far as the lookup of the user.
RetriesHandled ==
    /\ \A l \in logs : Handled(l.xfer)
    /\ \A r \in RetryIds : retry[r].state # "free" => Handled(retry[r].load.xfer)
    /\ \A p \in Procs : pc[p] = "respond" => Handled(msg[p].xfer)
    /\ pc[Worker] \in {"idle", "next", "read", "insert", "respond"}
    /\ pc[Worker] = "read" => Handled(msg[Worker].xfer)
    /\ pc[Worker] = "insert" => Recorded(msg[Worker].xfer)

\* a session is about to credit the user of o
PendingCredit(p, o) == \E x \in buf[p].credits : OrderOf[x] = o

Crediter(p, o) ==
    /\ Order(p) = o
    /\ pc[p] = "credit" \/ (pc[p] = "commit" /\ PendingCredit(p, o))

CreditsDue ==
    \A o \in Orders :
        /\ status[o] = "FUNDED" => CreditsOf(o) # {} \/ \E p \in Procs : Crediter(p, o)
        /\ \A p \in Procs : pc[p] = "commit" /\ buf[p].writes[o] = "FUNDED" =>
              CreditsOf(o) # {} \/ PendingCredit(p, o)

FaultFreeInv == faults.soft = 0 => BuffersClean /\ RetriesHandled /\ CreditsDue

=============================================================================
