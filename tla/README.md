# Models and proofs of the paylink backend

This directory holds TLA+ models of the money-moving core of the backend in
`src/`, the TLC configurations that model-check them on small instances, and
theorems about them that the TLA+ proof system (TLAPS) checks for every value of
the constants. Paths below are relative to the repository root.

## 1. The system

The backend is a FastAPI application (one `uvicorn` process, `Procfile`,
`railway.json`, restarted on failure) over PostgreSQL, through asynchronous
SQLAlchemy sessions at the default isolation level READ COMMITTED, with
`expire_on_commit=False` (`app/core/database.py`). A request has a session of its
own (`get_db`); the workers that `app/main.py:1081-1096` starts keep theirs for
ever. A second process, `run_watcher.py`, polls the chain and posts webhooks to
the first. There are no application-level locks: requests interleave at every
`await`, and what protects a row is whatever row lock or unique index the SQL
happens to take.

| component | state | operations | what is hard | what makes it correct |
|---|---|---|---|---|
| escrow status table (`services/escrow_order_rules.py`) | - | `validate_escrow_transition` | - | statuses follow `ALLOWED_ESCROW_TRANSITIONS` |
| escrow funding (`routers/escrow/escrow_webhook.py`, `services/escrow_webhook_service.py`) | `escrow.orders`, `chain_deposits`, `webhook_logs`, `webhook_retries`, ledger | receive a deposit webhook, process it, queue a retry, run a batch of retries, retry by hand | duplicate and concurrent deliveries, a commit in the middle of the handler, partial failures in a batch, crashes | one journal per order, one credit per transfer, credits are backed, retries end |
| escrow settlement (`routers/escrow/*`, `services/payout_orchestrator.py`, `services/escrow_dispute_service.py`, `api/agent.py`, `services/sandbox_transition_worker.py`) | `escrow.orders`, `escrow.payouts`, `paylink.assignments`, `paylink.agents`, ledger | confirm a payout, refund, assign an agent, the agent confirms, sandbox steps | status read, checked, and overwritten later; the commit of a journal drops a row lock; two writers of one order | money out only for money in; counters, reservations and assignments agree |
| idempotency keys (`services/idempotency_service.py`, the endpoints) | `paylink.idempotency_keys` | claim, replay, take over, store, clean up | duplicates in flight, takeover of a slow request, cleanup between two statements | an operation is executed once under its key |
| cash desk (`routers/admin/cash_requests.py`, `services/cash_*`, `routers/agent/agent.py`, `services/limits.py`) | `wallet_cash_requests`, `limit_usage`, `wallets`, `credit_lines`, ledger | request, approve, reject; deposit and withdraw directly; agent cash-in and cash-out | balances and statuses are read unlocked, changed and written back; counters are committed before the money | a row says what it moved; wallet and ledger agree; a day grants no more than its counters allow |
| offline agents (`services/agent_offline_service.py`) | `agent_offline_operations` | queue, synchronise, retry, cancel | a retry decides on an item it read before it locked it; an item is committed as syncing before its money moves | an item moves its amount once |
| savings, pots, sub-wallets, cards (`services/savings_service.py`, `pots_service.py`, `business_service.py`, `virtual_cards_service.py`) | a table each, their members and movements, `wallets`, ledger | create, configure, contribute, withdraw, charge, decline, close; batches of due contributions | a batch loses its locks at its first commit; rounds break off | products and ledger agree; due goals are saved for |
| chain watcher (`watchers/polygon_polling_watcher.py`) | block cursor in memory | poll, deliver | restart, failed delivery | every confirmed transfer is delivered |
| P2P trades (`services/p2p_*`, `routers/p2p/p2p.py`) | `p2p.offers`, `p2p.trades`, `p2p.disputes`, ledger | create a trade, change an offer, pay, confirm and release, dispute, resolve, expire | liquidity is read-modify-write; release before commit; the early commit of the journal; expiry races | crypto leaves only for a funded or disputed trade; liquidity is conserved; disputes can be resolved |
| P2P chain deposits (`watchers/p2p_watcher.py`, `services/p2p_chain_*`) | `p2p.chain_deposits`, `p2p.trades` | match a transfer with a trade, keep it for assignment, assign it | redelivery, shared addresses, concurrent matches | a transfer locks one trade; row and trade agree |
| external transfers (`routers/wallet/transfer.py`, `routers/agent/external_transfers.py`, `services/external_provider_worker.py`, `services/external_*`, `routers/webhooks/*`) | `external_transfers`, `wallets`, `credit_lines`, `users`, ledger | create, approve, close, set a status, dispatch, reconcile, receive a webhook, refund, deposit cash | rows read unlocked and written later, timeouts of the provider, late answers, a refund that raises half-way | credit lines balance, funds are taken and given back once, a refund follows a refusal or an error not to be retried |
| scheduled transfers (`services/scheduled_transfer_service.py`) | `scheduled_transfers`, `wallets`, `credit_lines` | create, change, pause, resume, cancel, run a batch | the first commit of a batch drops its locks; external items commit before the schedule advances | as many runs as asked for, money as run, failures pause |
| payment requests (`services/payment_request_service.py`) | `payment_requests`, `wallets`, `credit_lines` | create, pay, decline, cancel, remind, expire, renew, maintain | unlocked reads of requests and balances, two maintenance rounds | paid once, a series ends, reminders keep their distance |
| circuit breaker (`services/circuit_breaker.py`) | Redis | before/after a call | concurrent transitions | at most the allowed calls in HALF |
| transfers between clients, top-ups (`routers/wallet/wallet.py`) | `wallets`, `credit_lines`, ledger | send, transfer, top up | wallets are read unlocked and written after the wait for the credit line; a client may pay himself | wallets and ledger agree; an overdraft is no larger than the credit drawn |
| loans (`routers/loans.py`, `services/loan_workflow.py`) | `loans`, `loan_repayments`, `wallets` | apply, analyze, disburse, repay | two administrators decide on one draft; an analysis replaces the installments | a loan is paid out once, installments show what was paid |
| tontines, merchants | one or two tables each | CRUD with a status | rotation, approvals | status tables |
| risk, AML, authentication, chats, AI, notifications | - | - | - | outside this project |

How they interact: the watcher (or the chain provider) posts a webhook; funding
turns an order from `CREATED` to `FUNDED`, writes the ledger, credits the user and
then calls `assign_agent_and_notify`, which is the start of the settlement; the
status handlers, the refund handlers, the agent's confirmation and the sandbox
worker then write the same `escrow.orders` row from sessions of their own. All of
them write the ledger through `PaylinkLedgerService.post_journal`, which is
idempotent on `tx_id` and **commits the caller's transaction**. That commit, in the
middle of most escrow and P2P handlers, is the single most important fact about
that half of the code, and its models are built around it. The other half, which
moves clients' money (external, scheduled and internal transfers, payment requests,
the cash desk, the products), posts with `LedgerService`, which does not commit, and
meets in the rows of `wallets` and `credit_lines`; there the question is which rows a
handler has locked when it reads them.

## 2. The modules

| module | models | role |
|---|---|---|
| `EscrowRules` | the statuses and the transition table | pure definitions |
| `EscrowFunding` | webhook sessions, retry queue, retry worker | component |
| `DepositLedger` | what funding promises about on-chain money | abstract specification |
| `EscrowSettlement` | status handlers, assignment, confirmation | component |
| `Idempotency` | the key protocol and the shapes of its handlers | component |
| `P2PRules` | the statuses and transitions of a P2P trade | pure definitions |
| `P2PTrades` | offers, trades, chain deposits, release, disputes, expiry worker | component |
| `Totals` | the sum of a function over a finite set, as the number of points below its graph | pure definition |
| `CreditFunding` | how a client pays from wallet and credit line, and how a line is drawn, topped up and repaid | pure definitions |
| `ExternalTransfers` | transfers abroad, their agents, their provider and their refunds | component |
| `ScheduledTransfers` | schedules, their worker and their clients | component |
| `PaymentRequests` | requests for payment, their answers and their maintenance | component |
| `ClientBooks` | wallets, credit lines and the balances of the ledger, and what moves between them | shared state |
| `CashDesk` | cash requests, direct cash, agents' cash with its limits, offline operations | component over `ClientBooks` |
| `ClientProducts` | savings goals and their batches, pots, sub-wallets, cards | component over `ClientBooks` |
| `ClientTransfers` | transfers from one client to another, top-ups | component over `ClientBooks` |
| `ClientLoans` | loans, their installments and repayments | component over `ClientBooks` |
| `ClientMoney` | the four at once over one set of wallets and one ledger | composition |
| `EscrowFundingProofs`, `EscrowSettlementProofs`, `IdempotencyProofs`, `P2PTradesProofs`, `ExternalTransfersProofs`, `ScheduledTransfersProofs`, `PaymentRequestsProofs`, `ClientMoneyProofs` | theorems about the components | proofs |
| `MC*` | finite instances of the components | TLC |

A session is a process with a program counter. What happens between two points
where another session can be noticed (a statement that reads or locks a shared
row, a COMMIT) is one action; what a transaction wrote and has not committed is
either in an explicit buffer (`EscrowFunding`, where one handler commits several
times and a batch shares one transaction) or is applied at its COMMIT (the other
components). A handler that reads a row unlocked is two actions, one that reads
and one that writes by primary key the columns that differ from what was read
(`Column` and `Save`: SQLAlchemy sends changed columns only); a handler that locks
its rows is one action. A session that dies before its COMMIT leaves nothing,
which is what `Fail` and `Abort` say. Definitions whose names end in a description
of a mistake (`InsertDepositNotUnique`, `LookInProgress`, ...) and whose comment
begins with "Variant with a mistake", or that stand under a heading that says so, are
the mutants that show that each property
can be broken; no action uses them.

### EscrowFunding

`pc[p]` is where session `p` is in `process_usdc_webhook`; `buf[p]` holds its
uncommitted deposit rows, order updates, credits, retry bookkeeping and row locks,
and `Commit(p)`/`Rollback(p)` are PostgreSQL's. `ReadOrder`, `InsertDeposit`,
`DuplicateDeposit`, `LockOrder`, `Decide`, `CheckJournal`, `PostJournal`,
`CreditUser` and `CommitDeposit` are its statements in order; `PostJournal` commits.
The lookup of the user flushes the pending UPDATE of the order (ORM queries flush,
plain SQL texts do not), so that is where the row lock is taken. `Waits` is a row
lock or the unique `tx_hash`; a cycle of waits is aborted by PostgreSQL. `Receive`,
`Respond`, `QueueRetry` and `Drop` are the endpoint; `StartBatch`, `NextRow`,
`RowDone`, `RowFails`, `EndBatch` and `SqlError` are `retry_failed_webhooks` in the
worker's only session, whose failed transaction nobody rolls back; `ManualRetry` is
the backoffice; `Restart` is the platform. The P2P rows of the same retry table are
not modelled. Amounts, risk and AML scores are abstracted to their decision.

### EscrowSettlement

`Handlers` is the table of the fourteen endpoints and worker steps that read an
order, require a status, post a journal and overwrite the status by primary key;
`Start`, `CheckJournal`, `PostJournal` and `Write` are their common path.
`ReadAssignment` ... `CommitAssignment` are `assign_agent_and_notify`, with the row
lock on the agent (`Locks`) that the commit of the reservation drops. `ReadConfirm`,
`Pay` and `Settle` are the agent's confirmation. `Fail` ends a session anywhere.
Every payout has amount 1. `services/escrow_swap_service.py`,
`escrow_payout_service.py` and `escrow_post_funded_worker.py` have no callers and are
left out, so a real order never becomes `SWAPPED`; sandbox orders do.

### Idempotency

`Shape[k]` says where the handler behind a key commits: once (`one`), once before
the work because `update_risk_score` commits (`early`), or before the response is
stored (`late`). `Insert` and `Look` are the two halves of `acquire_idempotency`;
`Vanished` is the row being deleted between them; `Older` lets the takeover timeout
pass, `Cleanup` the 72 hours.

### P2PTrades

A handler of this part reads the rows it needs without a lock, decides, and
SQLAlchemy sends the columns that changed, by primary key, when the session flushes
and commits. `sess[p]` is what session `p` has decided to write (`Keep` stands for a
column it does not touch); the actions `CreateTrade`, `UpdateOffer`, `SetActive`,
`Deliver`, `DeliverUnmatched`, `Assign`, `SandboxLock`, `FiatSent`, `ConfirmFiat`,
`OpenDispute`, `Resolve` and `ReadDue` are the reads and checks of the handlers, and
`Commit` applies the writes. `Refused` is the unique index on `escrow_tx_hash`.
`market_order` is `CreateTrade` on the offer it found or has just created; new
offers are the initial state.

`confirm_fiat_received` has more steps, because what happens between them cannot be
undone: `ConfirmFiat` (the check), `Flush` (the UPDATE to `FIAT_CONFIRMED`, which
locks the row), `Release` (the call of `release_crypto_to_buyer`, a stub in this
repository: `released` counts its calls), `PostJournal` (the commit inside
`post_journal`, which publishes `FIAT_CONFIRMED` and drops the row lock) or
`JournalExists`, and `Commit` (`RELEASED`). The expiration worker
(`ReadDue`, `ExpireNext` for each trade, `Commit`) has a single session for ever:
an SQL error leaves it `wedged` until `Restart`. `Fail` rolls a request back
anywhere. `Match` is `_resolve_trade`: by the quoted reference, by address, by
address and exact amount; `Received`, `RefOf` and `Addressed` say what a transfer
pays, quotes and where. Prices, fees, risk and AML scores are left out; the score of
an automatic assignment is a choice. `delete_offer` is left out: the foreign key of
`p2p.trades` refuses it once a trade exists.

### ExternalTransfers

`row[t]` is the row of a transfer with its metadata, which every writer replaces as
a whole (`SaveMeta`): whether funding is pending, what wallet, credit line and bonus
paid, what was repaid, whether it was refunded. `StartCreate` and `Create` are
`external_transfer` with its three outcomes (`CreateFunded`, `CreateFromBonus`,
`CreateUnfunded`); `Approve`, `Close` and `Update` are the agents' endpoints;
`Webhook` is the provider's, which refunds through `Refund`. `Dispatch` is the
background task of the creating request, `Resend`, `Poll`, `PollFails` the items of the
reconcile worker; `Decide` is the provider itself, in the middle of any of that. A
request to the provider (`Send`) is answered (`SendAnswered`), ends in a timeout or
another error that may be retried (`SendTimesOut`), or in one that may not
(`SendRefused`): any 4xx answer, a missing key or address, an unknown provider. The code
takes the last for a failure and refunds, whatever the provider's books say; `denied` is
a history variable, the transfers to which that has happened. `HalfRefund` is a refund
whose journal does not balance: a EUR client's credit mirrors a part of the debit, so the
amounts to give back may add up to more than the transfer, `LedgerService` raises
after the wallet was credited, the background task rolls back and the worker
commits the money, and the reference if it has got one, without journal or mark
(`ResendRaises`, `Poll`). `Deposit` is a cash deposit, whose
repayment is spread over the transfers that still owe (`Splits` leaves their order
open). Limits are compared with the counter a request has read (`StartCreate`).

### ScheduledTransfers

`Select` and `SelectOwn` are the worker's and a client's SELECT ... FOR UPDATE of the
due schedules; `held[w]` is what they read and `locking` says whether the locks are
still held: the commit of the first item (`RunInternal`, `RunRefused`,
`PlaceExternal`) drops them all. `PlaceExternal` commits the transfer, `RecordExternal`
the schedule. `Record` writes the row from what was read: `Ran` advances it, `Failed`
counts and pauses. `Create`, `Update`, `Pause`, `Resume`, `Cancel` and `RunNow` are the
client's; they wait for locked rows. `astray` is a history variable: the schedules
written from a row that had changed, or run and not recorded.

### PaymentRequests

`Outcome` says, for each operation, how it changes a row it has read; `Answer`,
`View` and `MaintainOwn` read rows, `ReadFunds` the two wallets, and `Commit` writes
rows and balances and creates the successor of a recurring request (`Renewed`).
`MaintainAll` is the round of the product worker, in one transaction over the oldest
rows that are due or expired (`Batch`), with rows another session holds skipped;
`Transfer` is an internal transfer that moves the same wallets under locks. `lost` and
`Stale` are history: whose balance, and which requests, were written from a row no
longer true.

### ClientBooks, CashDesk, ClientProducts, ClientTransfers, ClientLoans and ClientMoney

`ClientBooks` holds what the handlers share: `wallet`, `line` (with `Draw` and `Recover`
of `CreditFunding`), and `book`, the balance of each ledger account. A handler posts a
balanced journal (`Posted`) in the transaction that writes the wallet, so the two part
only where a balance is computed from a row that has changed since it was read;
`clobbered` remembers for whom that has happened.

`CashDesk`. `rows` are the cash requests and the offline operations, `desk[c]` is what
session `c` has read. `RequestCash`, `OpenApproval`, `OpenRejection` and `Reject` are the
requests of clients and the decisions of administrators; a request's row is locked when
its new status is flushed (`Locked`), which is when the wallet is read (`ReadWallet`).
`HandOver` is cash taken or paid directly by an administrator or an agent, `AgentCash`
an agent's cash-in or cash-out, which counts against the client's day first
(`GuardLimits`: there is no unique key on user and day, so sessions that found no
counter insert one each; the check reads the first, the UPDATE increases all) and has
then committed, because `update_risk_score` does. `HandlerCommits` writes wallet, line,
ledger and row. `QueueItem`, `TakeItem`, `OpenRetry`, `Retry`, `SyncItem`, `OpenCancel`
and `CancelItem` are the offline operations. `Stop` is a refusal, an exception, or the
death of a session. After a failure `sync_agent_offline_operation` rolls back and then
means to mark the item as failed; the rollback has expired `current_agent`, whose
`user_id` it reads next, and an asynchronous session cannot load it there
(`MissingGreenlet`), so the item stays `syncing`, which nothing takes up again. The
model follows that reading of SQLAlchemy and has no status `failed`.

`ClientProducts`. Handlers lock the product and then the wallet and commit once: one
action each. The exceptions are the two batches of due contributions (`WorkerRound`,
`OwnRound`, then `NextInRound` until `EndRound`): the commit after a goal drops the locks
of the goals still in `held`, and `WriteSaved` writes them from what was read. `age` is
the order of `updated_at`, by which the worker selects. An exception makes the round
roll back, which expires the goals still to come, and the round breaks off at the next
one; so `WorkerRound` begins with the due goal touched longest ago. The refusals of a
card are counted (`DeclineCharge`); its controls, and the roles in a business, are
refusals that may come at any time.

`ClientTransfers`. `paying[t]` is what session `t` has read. `/send` and `/transfer` of
`routers/wallet/wallet.py` are one sequence: the payer's wallet (`OpenTransfer`), the
payee's (`ReadPayee`), both without a lock, then the credit line under its lock and, in
the same action because nothing is seen in between, the COMMIT (`Pay`), which writes both
balances as computed from what was read. A payer who is his own payee has one row in the
session, so the amount leaves and comes back (`Moved`) while the credit line is drawn on
as for any other payment (`Owed`). `OpenTopUp` and `TopUpWallet` are both top-ups; they
do not repay the line. The limits of the day of `/send` and `/topup`
(`users.used_daily`) and a frozen account are refusals (`HangUp`).

`ClientLoans`. `clerk[o]` is what session `o` has read of a loan: its status (`OpenTask`),
then its installments and the borrower's wallet (`LookUpPlan`). `Apply`, `WriteOff`,
`Approve`, `Disburse` and `Repay` are the COMMITs. `Approve` removes the installments its
DELETE saw and adds a schedule (`Replanned`); a repayment spends its amount on the
installments in order of their due dates (`Payments`), writes `paid_amount` from what it
read (`Marked`), and cannot write a row somebody has deleted or is deleting (`Writable`).
A status that is as it was read is not written (`NewStatus`). No journal is posted for
loans: `lent` is the history of what they have brought a client. `misread` is the history
of the loans a session wrote when they were not as it had read. What
`users.credit_limit` and `credit_used` leave a borrower is a refusal.

## 3. What the runs check

Every run below is an entry of `PROJECT.json`; every property of a passing run is
also shown to fail under a mutation of one definition.

| run | instance | shows |
|---|---|---|
| `funding_same_order` | 2 webhook sessions + worker, 2 transfers to 1 order, 1 fault, 1 SQL error | one journal per order, one credit per transfer, and without a fault a funded order is credited |
| `funding_batch` | 1 webhook session + worker, 2 retry rows, a transfer to no order, 2 faults | `DepositLedger` is implemented, queued retries settle |
| `settlement_overlap` | 2 sessions, 2 real orders, 3 assignments, 1 agent with limit 1, 1 fault, fair | the limit is overrun by at most one payout per other session, money is traced, a request for an agent ends with an assignment unless there comes a time when no agent is left for it |
| `settlement_serial` | 1 session, 2 sandbox orders (both flows), no fault | one payment per order, which reaches the order |
| `idempotency_keys` | 2 sessions, 2 payloads, one key of each shape, 1 fault, 1 purge | at most one execution, or one more than takeovers; replays match |
| `p2p_overlap` | 2 requests + worker, two at a time; 2 trades of one offer, 1 transfer, 1 dispute, 1 fault | crypto leaves for funded or disputed trades only, disputes can be resolved, a transfer locks one trade |
| `p2p_serial` | 1 request + worker in turn, 2 trades, 2 transfers by two routes, sandbox, an owner changing the offer; no fault, fair | crypto released once, rows and trades agree, only unpaid trades expire and they do, liquidity conserved |
| `external_overlap` | 2 sessions that overlap, 2 clients (BIF and EUR), 3 transfers of which 2 through a provider, 1 agent, 1 fault | credit lines balance, wallets are what their history says, money goes back only after a refusal or an error not to be retried |
| `external_serial` | 1 session, 1 client, 2 transfers, a cash deposit, 2 timeouts of the provider, fair | funds taken once and given back once at most, refunds journaled, debts traced to transfers, polling ends |
| `scheduled` | worker with batches of one + 1 client, an internal and an external schedule, 1 change or death, fair | overdrafts are lent, money matches runs, runs are as granted, what is due is handled |
| `requests` | 2 sessions + worker, 3 requests of 2 offers (one recurs, one expires), 2 transfers, fair | paid once and marked so, a series is bounded, balances match, reminders are spaced, the oldest are seen to |
| `client_money` | 2 desk sessions, 2 batches, 2 clients, 1 request, 1 offline item, 2 goals, 1 pot, 1 sub-wallet, 1 card, 1 session that sends or tops up, 2 on 1 loan, 3 requests, fair | rows say what they moved, limits hold for each counter, wallets, products and loans agree with the books, overdrafts are no larger than the credit drawn, due goals are saved for |

### Known limits of the code

The passing runs state the limits of what holds, and these limits are findings of
their own kind.

Escrow. `FundedIsCredited` and, in `OutOnce`, "a confirmed assignment has paid its
order out" hold without faults only, because
a crash between the two commits of the handler leaves the order behind and the
retry is answered as done. After an SQL error the worker's only session stays
aborted, since nobody rolls it back, and every later batch fails until a restart
(`RetriesSettle` is checked without SQL errors). A second transfer to an order
cancelled meanwhile turns `CANCELLED` into `FUNDED`: the status is read before the
row is locked. The agent's confirmation does not look at the status of the order: the
assignment of an order survives its refund, and confirming it turns `REFUNDED` into
`PAID_OUT`, which `app/tests/escrow/test_status_transition_rules.py:93` lists among the
transitions that must be refused. `OutOnce` holds only when sessions do not overlap (give
`SettlementSerial.cfg` a second session to see it fail); `OvershootBounded` replaces
"the daily limit is respected". `post_journal` keeps one journal per `tx_id`, so the
payout of an order whose deposit was journaled, and the fee of a P2P trade, are never
posted. An idempotency key of an `early` handler is executed twice when its first
request outlives the takeover timeout (`OncePerClaim` bounds it).

P2P. All properties of `p2p_serial` fail when two handlers overlap (a second request
and `Parallel = 2` in `P2pSerial.cfg`): two confirmations, or a confirmation and a
resolution, release twice; two creations oversell the offer; a stale write parts a
deposit row from its trade; a stale worker writes `EXPIRED` over a locked trade. With
one fault and no overlap `ReleasedOnce` fails, since a crash after the journal's commit
leaves `FIAT_CONFIRMED` behind and a dispute releases again, and so does
`DueTradesLeave`; the others hold. A log delivered again by the watcher, after it
locked its trade, overwrites its deposit row as `UNMATCHED`. What survives all of
that is `p2p_overlap`, and is proved.

External transfers. `MovedOnce` holds without overlap only: two approvals fund a
transfer twice, a stale webhook erases the mark of a refund and the next failure
refunds again. `WalletMatchesHistory` excepts the clients with a cash deposit, which
reads the wallet before it waits for the credit line. `RefundIsJournaled` excepts the
amounts whose parts do not add up (`HalfRefund`). `RefundIsWarranted` accepts two warrants,
a refusal in the provider's books and an error not to be retried, because the second
proves nothing: after a send that timed out, a resend that is answered by 401, 408, 409 or
429, or that finds no key in the configuration, makes the transfer `failed` and refunds the
client, although the provider may have accepted or paid the first request (leave `denied`
out of `Warranted` to see it). The webhook that then reports the payment sets `succeeded`
and takes nothing back. An agent's status `failed` refunds
nothing, and a failure the provider reports after an agent has closed the transfer
refunds what was handed out; a transfer whose dispatch rolled back stays `created`
and is never polled (`PollingEnds` is about the polled statuses).

Scheduled transfers. `RunsAreGranted` excepts the schedules that a batch wrote from a
row changed meanwhile, or that a session ran and did not record. `MoneyMatchesRuns`
has no exception: wallets move by locked rows.

Payment requests. Two payments at once both take place: `PaidMatches`,
`SeriesIsBounded` and `RemindersAreSpaced` except the requests written stale,
`BalanceMatchesFlow` the wallets overwritten. `OldestAreSeenTo` is about the requests
the batch has room for: a due request stays selected after its reminder, so
`PRODUCT_AUTOMATION_BATCH_LIMIT` of them keep the others waiting.

The cash desk. An approved request may be approved again and moves its amount again:
`validate_cash_request_transition` returns early when the status stays the same.
`RowsMatchMoney` excepts the rows written in a status they no longer had: an approval
and a rejection that cross, an item that is cancelled, or retried, while it is being
synchronised. `LimitsHold` bounds what is granted by the limit *for each counter* of the
day; an amount counts from its commit, also when the operation is refused afterwards.
The counter called monthly is found by day and so begins anew every day. A wallet
written from a stale balance parts from its ledger account and stays so (`BooksMatch`
excepts it), and may become negative beyond the credit drawn.

Transfers and loans. `/send` and `/transfer` lock the credit line and not the wallets, so two
payments, or a payment and anything else, overwrite each other's balance: `BooksMatch` and
`OverdraftsAreLent` except the clients concerned. A client who pays himself more
than he has keeps his money and owes the credit line. The second half of `BooksMatch` (`LoansMatch`) excepts the
loans of `misread`: two disbursements of one draft pay it out twice, a rejection that
crosses a disbursement leaves a paid loan `written_off`, two analyses leave two
schedules, an analysis that crosses a disbursement deletes installments that were paid.

Products. `BooksMatch` excepts the goals a batch wrote from a row that had changed;
pots, sub-wallets and cards need no exception. `DueGoalsAreSaved` is about the goals that
wait behind no other: a due goal whose owner is short of money ends every round at
itself, and goals without a rule, which are never touched, fill the worker's batch.

### Bounds

Two sessions are enough for every race known of this code: the shared objects are
single rows, and each race needs one reader and one writer of them; the proofs cover
any number. Two transfers, orders, agents, payloads, schedules or offers give one to
confuse with the other; `requests` has a third request for the successor in a series,
`external_overlap` a third transfer for the BIF client. One or two faults put a crash
at every point and let a retry meet its remains. Retry ids, assignment ids, attempts,
faults and purges are bounded by constants (`MaxFaults`, `MaxAttempts`, `Most`,
`MaxBack`, `MaxEvents`, `MaxOps`, `Horizon`, ...), each named in a guard; the proofs
are for every value of them. Symmetry is used for sessions (and payloads) only in runs
without liveness properties. Deadlock is checked in the funding runs, whose model
never stops; the other models stop when the bounds on ids and faults are used up.
In `settlement_overlap` the only agent is locked by the other session, or at its limit of
one, so that both ways of finding no agent occur, and one request at least finds it free.
In `scheduled` both schedules may be due while a batch has room for one (`BatchLimit`), so
that one waits behind the other. `MaxBack` bounds how many refunds webhooks and errors may
bring about, repeated ones among them.
`P2PTrades` and `ExternalTransfers` bound how many sessions overlap (`Parallel`,
`Width`): two suffice for every stale read, and a width of 1 states what holds without
overlap. In `client_money` three requests (`MaxOps`) begin in a state without products
or in one with one of each (`Existing`), so that each race of two handlers, and a third
request before or between, takes place; a limit, a target and a contribution of one or two
units put every boundary within reach; only one client comes to the desk (`Served`) and sends
money (`Senders`), to himself or to the other; two transfers (`Sent`)
are more than he has, so that the second draws on the line. The loan has one installment (`Terms`) of two
units (`Due`), so that it can be paid in parts, and exists already, analysed, in one
of the starts.

### Fairness

`RetriesSettle` assumes that the retry worker keeps taking steps
(`main.webhook_retry_worker` is an endless loop with a sleep) and that a request that
has begun runs to its end; `AssignmentFollows` assumes the latter only.
`DueTradesLeave` assumes that requests run to their end and, strongly, that the
expiration worker finds a moment in which no request runs: in the serial run the
worker's turn is taken away by every request, which the real event loop does not do.
`PollingEnds` assumes that requests end, that the provider decides, and, strongly for
the same reason, that the reconcile worker gets to each transfer it polls.
`DueIsHandled` assumes the worker's loop: that it selects what is due and runs what it
has selected. `OldestAreSeenTo` assumes that the worker's maintenance round comes
(`product_automation_worker` in `app/main.py` is an endless loop with a sleep).
`DueGoalsAreSaved` assumes that this loop comes back to the savings round, that is, that
the steps of its cycle before that one do not raise every time, and that a round that has begun ends.
Nothing is assumed of clients, of deliveries, or of the moment a row lock is granted.

## 4. What is proved

All theorems are about the specifications as TLC checks them, for any sets of
sessions, orders, transfers, users and keys and any values of the bounds. They rest on
the named ASSUMEs of the modules and nothing else: the types of the constants, and that
a set is finite where its members are counted or summed over (the sessions of
`EscrowSettlement` and `Idempotency`, the desks, schedules, external transfers and P2P
trades). Every invariant and every action property in the list of a run is stated by a
theorem; what remains to the model checker alone is liveness.

Some properties do not survive overlapping handlers (section 3, "Known limits"). Their
theorems have the form `Serial => (Spec => []P)`, or `(Width = 1) => (Spec => []P)`, where
the premise says of the constants what the serial runs give them: one session
(`EscrowSettlement`) or one at a time (`Parallel`, `Width`), and, for
`EscrowSettlement` and `P2PTrades`, no fault. Requests follow each other in any order
and any number; of `ExternalTransfers`, timeouts and failures are included.

Sums and counts. The provers cannot instantiate an induction principle, so a sum by
recursion is out of their reach. `Totals` defines it as the cardinality of a set of
points, and what the proofs need of it (it is a natural number; one term changes; the set
gains a member; two functions agree) follows from the library's theorems about
finite sets. These lemmas (`TotalOfNone`, `TotalAdds` and the like) stand at the head of the part of each proof module that uses them.

`EscrowFundingProofs`: `TypeCorrect`, `Invariance`, `JournalOnce`, `CreditOnce`,
`CreditBacked`, `FundedJournaled`, `FundedCredited`, `LedgerImplemented`. The argument is the
invariant `FundingInv`. "One journal per order" is not inductive: `post_journal`
reads, then inserts. It holds because the row lock of the order is held from the
lookup of the user to the commit of the journal, hence `LockInv` (locks are
exclusive; a session between lock and insert holds it; "no journal yet" stays true
while it does). "One credit per transfer" rests on the unique `tx_hash`: a transfer
belongs to the session that inserted its row, and that session alone may credit it
(`DepositInv`, `CreditInv`). `JournalInv` carries "a pending or committed FUNDED or
credit has its journal" through the failures that keep partial writes.
`LedgerImplemented` maps the committed deposits and credits to `DepositLedger`:
every commit of every session is one `Advance`. `FundedCredited` is about the executions
without a fault: there a commit never carries anything but the order, journal and credit of
one transfer (`BuffersClean`), every delivery that comes again belongs to an order already
dealt with or to a recorded transfer (`RetriesHandled`), and an order that has become
FUNDED has a session that is about to credit its user (`CreditsDue`).

`EscrowSettlementProofs`: `TypeCorrect`, `Invariance`, `SettlementConsistent`,
`AssignmentsAreReserved`, `MoneyTraced`, `OvershootIsBounded`, `OutOnceSerially`.
`SettlementInv` says what a session's
stale reads are still worth: a handler of a real order that passed its status check
has a funding journal behind it (`SessionsTraced`), a session between reservation
and assignment owns its id (`SessionsOwnIds`). The limit of an agent is compared before
its row is locked, so the invariant charges an assignment to the agent from the pick on:
what is used, plus the sessions between pick and commit, stays within the limit plus one
for each other session (`BookedWithinLimit`), since the last session to pick saw the limit
not reached. For `OutOnceSerially`, `SerialInv` adds that what the one session has read
is so still (`ReadIsCurrent`), that nothing leads out of a payout (`PaidIsFinal`), and that
a confirmed assignment has reached its order or its session is on the way (`ConfirmedIsSettled`).

`IdempotencyProofs`: `TypeCorrect`, `Invariance`, `ExecutedAtMostOnce`, `ClaimInvariance`,
`ExecutedOncePerClaim`, `ReplaysMatch`.
"Executed at most once" needs `TableCounts` (a committed key of a handler with one
commit stands for exactly one execution), `StoredIsDone` (and has its response, so
nobody can take it over), `ClaimsExclusive` (the INSERT of a claim locks it) and
`KeylessIsPurged` (a request goes on without its key only after a cleanup). For handlers
of any shape, `ClaimInv` counts: the executions under a key and the sessions about to
execute are together no more than its claims, which are the first INSERT and each
takeover (`ExecutionsAreClaimed`); and the payload of that INSERT stays the key's, so
every holder has it (`KeyFixesHash`) and every replay answers it.

`P2PTradesProofs`: `Invariance`, `TypeCorrect`, `CryptoIsFunded`, `DisputesCanEnd`,
`TransfersLockOnce`, for any sets, any overlap, and any number of exceptions, SQL
errors and restarts; and `SerialInvariance`, `ReleasedOnceSerially`, `MatchesAreMutual`,
`LiquidityIsConserved` without. A status is no basis for an argument here, since a stale write
may put any trade back into an earlier one; what no handler ever erases is the
transaction hash of a trade and the trade of a dispute. `Justified` states, for each
status a session is about to write, the fact that its decision rested on and that is
still true when it commits; `DisputesOwned` separates the session that inserts a
dispute from the others; `PaidHasHash` and the three properties follow. Deciding is
one lemma (`DecidedKeepsInv`), the two steps that cannot be undone and the COMMIT are
one lemma each. Without overlap, `SerialInv` states what a session has decided and that it
is so until it writes it (`Sure`): in particular what the liquidity of each offer will
be (`Allots`), which for the expiration worker, who gives back the trades of a whole round
in one COMMIT, is a sum over the trades it has been through. `LiquidityConserved` is an
action property and is proved from that invariant, one sum over the trades of the offer on
each side.

`ExternalTransfersProofs`: `InductiveInvariant`, `TypesHold`, `CreditLinesBalance`,
`RefundsAreWarranted`, `WalletsMatchHistory`, and, for requests that do not overlap,
`SerialInvariance`, `MovedOnceSerially`, `RefundsAreJournaled`, `DebtsAreTraced`. Used and available credit add up to the limit because drawing,
topping up, giving back and recovering each keep the sum, whatever a session has read:
the lines are changed under their lock (`DrawKeeps`, `TopUpKeeps`, `GiveBackKeeps`,
`RecoverKeeps`). A
refund, in the mark or in the wallet history (`BackOK`), has a warrant because every
decision to refund carries the provider's word (`hooks` and what a session holds), which
the provider does not take back, or comes with an error, which `denied` remembers. A wallet is moved by locked rows, except by a cash deposit;
so each step changes one term of the sums of `WalletMatchesHistory` and the wallet by the
same amount. `SerialInv` says of each transfer what its row, its mark, its journals and
the money given back mean together (`Good`), that what a request has read is so when it
commits (`OneByOne`), and that the counter of the daily limit is the sum of the funded
transfers (`Counted`). A deposit repays the line and spreads the same amount over the
transfers that owe, in an order the model leaves open (`Splits`): the debts lose exactly
what the line loses because the points of the new debts and of the parts together are as
many as those of the old ones (`TotalSum`).

`ScheduledTransfersProofs`: `InductiveInvariant`, `TypesHold`, `LocksAreFresh`,
`OverdraftsAreLent`, `FailuresPauseSchedules`, `RunsAreAsGranted`, `MoneyIsWhatRan`. While a session
holds its locks what it read is what the database has; a schedule that is not `astray`
has in `left` what was granted less what ran, also in the rows sessions hold; no run
takes more than wallet and line allow. A run changes two wallets and one term of the sums
of `MoneyMatchesRuns`, which occurs in the payee's and in the owner's.

`PaymentRequestsProofs`: `InductiveInvariant`, `TypesHold`, `PaidAsItSays`,
`BalancesMatch`, `RemindersKeepTheirDistance`, `SeriesAreBounded`. Each of the first
properties is one about rows, so the
invariant says it of the database and of every row a session holds that still is the
one in the database; a commit writes what `Outcome` makes of it. `SeriesInv` is about all rows of a series: what
was paid and what its open request still allows never exceeds the count, since a payment
takes from the request exactly what its successor gets (`Share`), and a row a
session holds agrees with the database in whatever no commit changes (`Origin`).

`ClientMoneyProofs`: `InductiveInvariant`, `TypesHold`, `RowsSayWhatMoved`, `BooksAgree`,
`OverdraftsStayLent`, `LimitsAreHeld`, for any number of sessions, clients, products, loans and requests.
What a session has read may be false by the time it writes; so the invariant says, of each
session, what it knows of its row as long as nobody has written that row in another status
(`Sessions`), and from that, what each row has moved. A balance agrees with its account in
every state in which it is not `clobbered`, since each handler posts what it adds to the
balance it has read, and either that balance is still there or the client joins
`clobbered`; for pots, sub-wallets and cards there is no such way out, because their
handlers hold the lock. Of a loan, `LoansInv` needs to know only with which statuses
a session may have passed its check (`Reads`): a COMMIT compares what was read with what is
there, so a loan that does not become `misread` had exactly that status and those
installments.
An overdraft is no larger than the credit drawn (`Lent`) because every debit draws what
the balance it has read lacks, a deposit repays no more than it adds, and products
and repayments take no more than they find; the arithmetic is one lemma (`LentArithmetic`),
the rest one lemma for each group of handlers. `LimitsAreHeld` needs `UsageInv`: a counter of
the day is inserted by a session that saw none, so there are no more of them than desks,
and what is granted fits, unit by unit, below the limit of the counter it was checked
against.

The types and the inductive invariants (`FundingInv`, `SettlementInv`,
`IdempotencyInv`, `ClaimInv`, `P2PInv`, the `IInv`s and `SerialInv`s, the `TypeOK`s,
`LockedIsFresh`, `FailuresPause`) are proved and therefore in no run's list.

Only model-checked: the liveness properties `RetriesSettle`, `AssignmentFollows`,
`DueTradesLeave`, `PollingEnds`, `DueIsHandled`, `OldestAreSeenTo` and `DueGoalsAreSaved`,
since the prover has neither fairness nor ENABLED.

## 5. The plan

Done: escrow funding with its ledger, settlement, idempotency keys, P2P trades and
deposits, external and scheduled transfers, payment requests, the cash desk with its
limits and offline operations, the clients' products, transfers and loans, each with its
proofs. To come, in this order:

1. `ChainWatcher` (`polygon_polling_watcher.py`): the cursor in memory moves after a
   whole batch, a failed post redelivers the batch, a restart begins at the latest
   blocks and skips what was mined meanwhile; and its composition with `EscrowFunding`
   (every confirmed transfer is credited unless it was skipped).
2. Crypto withdrawals and conversion over `ClientBooks`; the limits of order creation.
3. Merchant webhooks and their retries.
4. An abstract offer book implemented by `P2PTrades` without overlap, and an abstract
   bank of clients implemented by `ClientMoney` outside of `clobbered`.

## 6. Not modelled

Listed component by component in `PROJECT.json`. Access control, text
interpretation, notifications, scoring and reports are outside the project; merchants
come last. The tontine endpoints that would move money raise before they commit (a float is
subtracted from a Decimal balance, `wallets` has no column `balance`), and so does the
rotation (`Tontines` has no `id`), so there is nothing to check. Within the components
that are modelled:

- Automatic payment of payment requests: no row can ever have it enabled, because
  creation stores it as disabled and the event that would record a change,
  `autopay_updated`, is refused by a CHECK.
- Currencies: wallets, products and payees are of one currency; a handler refuses the
  others before it changes anything. A EUR client of an external transfer is the
  exception, and is modelled.
- A transaction that ends before its COMMIT leaves nothing; it is modelled only where
  something was committed or handed out before.
- `SKIP LOCKED` in the rounds of payment requests and savings: a round leaves out the
  rows that a session holds in the former; in the latter a handler that holds a goal is one
  action, so there is nothing to skip.
- The mirror row of an external transfer in `paylink.transactions`, the status
  `cancelled` that no code sets, the bonus a creation earns, which a refund leaves with
  the client, and reviews, which are a choice. The monthly limit and `used_monthly`,
  which are compared and written beside the daily ones in the same way. The status
  `completed` that a creation accepts as an override: its only caller
  (`app/routers/agent/agent_external_transfer.py:456`) asks for `approved`. The second commit of
  that caller, which adds to the metadata who created the transfer.
- Approving a pending external transfer does not compare it with the limits again, and
  the model does not either. `ledger_journal.tx_id` of `LedgerService` is not unique and
  no model relies on it.
- Reminders and lists of loans, which change nothing the others read.
  `users.credit_limit` and `credit_used`, which several handlers write from what they
  read, are a refusal in `ClientLoans`; a client without a row in `credit_lines`, whose
  credit is the difference of these two, has a line of 0 in `ClientTransfers`.
- The circuit breaker: the payout router that consults it has no caller; what remains is
  the arbitrage endpoint of the administrators.
