-------------------------- MODULE ExternalTransfers --------------------------
(***************************************************************************)
(* Transfers to a beneficiary abroad.  A client creates a transfer, which  *)
(* is funded at once from wallet, credit line or bonus, or waits for an    *)
(* agent who approves it and funds it then.  An approved transfer is paid  *)
(* by a provider (sent by a background task, polled by the reconcile       *)
(* worker, reported by webhooks) or by an agent who hands out the cash and *)
(* closes it.  A provider that fails makes the code refund the client.     *)
(*                                                                         *)
(* Creation, the background task and the reconcile worker lock the rows    *)
(* they read.  Approval, closing, the agents' status update and the        *)
(* provider webhook read the transfer without a lock, decide on what they  *)
(* read, and write the columns they changed, the JSON metadata as a whole. *)
(* So each of those is two steps: Start reads, the second step commits.    *)
(*                                                                         *)
(* Amounts include the fee and are in one currency.  The row of            *)
(* paylink.transactions, whose status mirrors the transfer's, is left out, *)
(* and so are risk scores (a review is a choice), notifications and the    *)
(* change of day of the counters.                                          *)
(***************************************************************************)
EXTENDS CreditFunding, Totals

CONSTANTS
    Transfers, Users, Agents, Sessions,
    OwnerOf,      \* [Transfers -> Users]
    Amount,       \* [Transfers -> Nat], fee included
    Routed,       \* the transfers whose partner has a provider
    Bif,          \* the users whose wallet is in BIF
    Start0,       \* [Users -> Int], the wallets at the start
    Limit0,       \* [Users -> Nat], the limits of the credit lines
    Bonus0,       \* [Users -> Nat]
    AgentCash0,   \* [Agents -> Nat]
    Daily,        \* daily limit of a user
    RetryMax,     \* EXTERNAL_TRANSFER_PROVIDER_RETRY_MAX
    Deposits,     \* amounts a client may deposit in cash
    MaxBack,      \* webhooks and errors come until refunds (amounts, journals) reach this
    Width,        \* how many requests and worker turns overlap
    Most,         \* bound on the transfers created plus the amounts deposited
    MaxFaults,    \* bound on restarts and on timeouts of the provider
    None

ASSUME ExternalAssumption ==
    /\ OwnerOf \in [Transfers -> Users]
    /\ Amount \in [Transfers -> Nat \ {0}]
    /\ Routed \subseteq Transfers /\ Bif \subseteq Users
    /\ Start0 \in [Users -> Int] /\ Limit0 \in [Users -> Nat]
    /\ Bonus0 \in [Users -> Nat] /\ AgentCash0 \in [Agents -> Nat]
    /\ Daily \in Nat /\ RetryMax \in Nat /\ MaxFaults \in Nat
    /\ Deposits \subseteq Nat \ {0} /\ MaxBack \in Nat
    /\ Width \in Nat /\ Most \in Nat

ASSUME TransfersAreFinite == IsFiniteSet(Transfers)

VARIABLES
    row,       \* paylink.external_transfers
    wallet,    \* wallets.available of the clients
    line,      \* their credit lines
    bonus,     \* their bonus balances
    used,      \* users.used_daily
    till,      \* wallets.available of the agents
    moves,     \* wallet history: amounts taken and given back, by transfer
    paidIn,    \* wallet history: what the client deposited in cash
    journal,   \* ledger journals, by transfer
    cash,      \* payouts by agents, by transfer
    provider,  \* the provider's own books
    hooks,     \* webhooks the provider has sent, delivered any number of times
    denied,    \* transfers of which a request got an error not to be retried
    tasks,     \* background tasks of this process that dispatch a transfer
    sess,      \* requests being served
    faults

vars == <<row, wallet, line, bonus, used, till, moves, paidIn, journal, cash,
          provider, hooks, denied, tasks, sess, faults>>

-----------------------------------------------------------------------------
Status == {"none", "pending", "approved", "completed", "succeeded", "failed",
           "partially_repaid", "repaid"}

ProviderStatus == {"created", "processing", "sent", "success", "failed", "retry",
                   "manual_review"}

Pollable == {"sent", "processing", "retry"}

Settled == {"completed", "succeeded", "partially_repaid", "repaid"}

Allowed ==
    [none |-> {}, failed |-> {}, repaid |-> {},
     pending |-> {"approved", "failed", "succeeded", "completed"},
     approved |-> {"completed", "succeeded", "failed"},
     succeeded |-> {"partially_repaid", "repaid"},
     completed |-> {"partially_repaid", "repaid"},
     partially_repaid |-> {"repaid"}]

\* validate_external_transfer_transition also accepts a status for itself
CanMove(from, to) == from = to \/ to \in Allowed[from]

\* the part of the JSON metadata the code decides on
MetaType == [pending : BOOLEAN,      \* funding_pending
             debited : Nat,          \* debited_amount
             credit : Nat,           \* credit_used_amount
             repaid : Nat,           \* credit_repaid_amount
             refunded : BOOLEAN]     \* provider_refund_done

RowType == [status : Status, pstatus : ProviderStatus, ref : BOOLEAN,
            retries : 0..RetryMax, meta : MetaType]

Blank == [status |-> "none", pstatus |-> "created", ref |-> FALSE, retries |-> 0,
          meta |-> [pending |-> FALSE, debited |-> 0, credit |-> 0, repaid |-> 0,
                    refunded |-> FALSE]]

\* Requests that read before they lock: op, the transfer and the row read, an
\* argument (agent, status), and a number read (a counter or a balance).
Request(op, t, snap, arg, n) ==
    [op |-> op, t |-> t, snap |-> snap, arg |-> arg, n |-> n]

RequestsOf(op, args) ==
    [op : {op}, t : Transfers, snap : RowType, arg : args, n : Int]

DepositRequests == [op : {"deposit"}, u : Users, d : Deposits, n : Int]

Requests ==
    RequestsOf("create", {None}) \union RequestsOf("approve", {None})
      \union RequestsOf("close", Agents) \union RequestsOf("update", Status)
      \union RequestsOf("webhook", ProviderStatus) \union DepositRequests

TypeOK ==
    /\ row \in [Transfers -> RowType]
    /\ wallet \in [Users -> Int]
    /\ line \in [Users -> LineType]
    /\ bonus \in [Users -> Int]
    /\ used \in [Users -> Int]
    /\ till \in [Agents -> Int]
    /\ moves \in [Transfers -> [out : Nat, back : Nat]]
    /\ paidIn \in [Users -> Nat]
    /\ journal \in [Transfers -> [fund : Nat, refund : Nat]]
    /\ cash \in [Transfers -> Nat]
    /\ provider \in [Transfers -> {"none", "accepted", "paid", "rejected"}]
    /\ hooks \subseteq [t : Transfers, status : ProviderStatus]
    /\ denied \subseteq Transfers
    /\ tasks \subseteq Routed
    /\ sess \in [Sessions -> Requests \union {None}]
    /\ faults \in Nat

Init ==
    /\ row = [t \in Transfers |-> Blank]
    /\ wallet = Start0
    /\ line = [u \in Users |-> [limit |-> Limit0[u], used |-> 0, avail |-> Limit0[u]]]
    /\ bonus = Bonus0
    /\ used = [u \in Users |-> 0]
    /\ till = AgentCash0
    /\ moves = [t \in Transfers |-> [out |-> 0, back |-> 0]]
    /\ paidIn = [u \in Users |-> 0]
    /\ journal = [t \in Transfers |-> [fund |-> 0, refund |-> 0]]
    /\ cash = [t \in Transfers |-> 0]
    /\ provider = [t \in Transfers |-> "none"]
    /\ hooks = {} /\ denied = {} /\ tasks = {}
    /\ sess = [s \in Sessions |-> None]
    /\ faults = 0

-----------------------------------------------------------------------------
(* Variants of definitions below, each with a mistake; not part of Spec.   *)

\* no answer is taken for a refusal
RetriedAsRefused(r) ==
    [r EXCEPT !.pstatus = "failed", !.status = "failed", !.meta.refunded = TRUE]

\* the wallet gets back what credit paid, too
GiveAllBack(t, meta) ==
    LET u == OwnerOf[t] IN
    /\ wallet' = [wallet EXCEPT ![u] = @ + meta.debited + meta.credit]
    /\ line' = [line EXCEPT ![u] = GiveBack(@, meta.credit)]
    /\ moves' = [moves EXCEPT ![t].back = @ + meta.debited]

\* a transfer accepted without a reference is left alone
UnsentIsRetry(t) == row[t].pstatus = "retry"

-----------------------------------------------------------------------------
(* Requests.                                                               *)

Busy == {s \in Sessions : sess[s] # None}

\* whether one more piece of work, of a request or of the worker, may run now
Room == Cardinality(Busy) < Width

Begin(s, request) ==
    /\ sess[s] = None
    /\ Room
    /\ sess' = [sess EXCEPT ![s] = request]

Serves(s, op) == sess[s] # None /\ sess[s].op = op

Done(s) == sess' = [sess EXCEPT ![s] = None]

\* the ORM writes the columns whose value differs from the one it read
Column(current, read, new) == IF new = read THEN current ELSE new

Save(current, read, new) ==
    [status  |-> Column(current.status, read.status, new.status),
     pstatus |-> Column(current.pstatus, read.pstatus, new.pstatus),
     ref     |-> Column(current.ref, read.ref, new.ref),
     retries |-> Column(current.retries, read.retries, new.retries),
     meta    |-> Column(current.meta, read.meta, new.meta)]

\* metadata that gains a key is written as a whole, with all that was read
SaveMeta(current, read, new) ==
    [Save(current, read, new) EXCEPT !.meta = new.meta]

Asked == Cardinality({t \in Transfers : row[t].status # "none"})
         + Cardinality({s \in Busy : sess[s].op \in {"create", "deposit"}})
         + Total(paidIn, Users)

Put(t, r) == row' = [row EXCEPT ![t] = r]

World == <<provider, hooks, denied>>
Purses == <<bonus, used, till>>
Books == <<moves, paidIn, journal>>
Money == <<wallet, line, moves, journal>>

-----------------------------------------------------------------------------
(* Funding.                                                                *)

\* takes a transfer from the wallet and from line l, which may be topped up
TakeFunds(t, f, l) ==
    LET u == OwnerOf[t] IN
    /\ wallet' = [wallet EXCEPT ![u] = @ - f.debit]
    /\ line' = [line EXCEPT ![u] = Draw(l, f.credit)]
    /\ moves' = [moves EXCEPT ![t].out = @ + f.debit]
    /\ journal' = [journal EXCEPT ![t].fund = @ + 1]
    /\ bonus' = [bonus EXCEPT ![u] = @ + Amount[t]]

Terms(t, l) ==
    LET u == OwnerOf[t] IN Funding(wallet[u], l.avail, Amount[t], u \in Bif)

Affordable(t) ==
    LET u == OwnerOf[t] IN
    IF u \in Bif THEN line[u].avail ELSE Capacity(wallet[u], line[u].avail)

Shortage(t) == Pos(Amount[t] - Affordable(t))

\* the counters are in a row of users the request loaded before it locked it
StartCreate(s, t) ==
    /\ row[t].status = "none"
    /\ Asked < Most
    /\ \A q \in Busy : sess[q].op # "deposit" => sess[q].t # t
    /\ Begin(s, Request("create", t, row[t], None, used[OwnerOf[t]]))
    /\ UNCHANGED <<row, wallet, line, Purses, Books, cash, World, tasks, faults>>

WithinLimit(s) == Daily > 0 => sess[s].n + Amount[sess[s].t] <= Daily

Dispatchable(t, status) == IF status = "approved" /\ t \in Routed THEN {t} ELSE {}

\* enough money, or an agent who may force the wallet below zero
CreateFunded(s, review, override) ==
    LET t == sess[s].t
        u == OwnerOf[t]
        f == Terms(t, line[u])
        status == IF review THEN "pending" ELSE "approved"
    IN
    /\ Serves(s, "create") /\ WithinLimit(s)
    /\ Shortage(t) > 0 => override
    /\ TakeFunds(t, f, line[u])
    /\ used' = [used EXCEPT ![u] = sess[s].n + Amount[t]]
    /\ Put(t, [Blank EXCEPT !.status = status,
                            !.meta.debited = f.debit, !.meta.credit = f.credit])
    /\ tasks' = tasks \union Dispatchable(t, status)
    /\ Done(s)
    /\ UNCHANGED <<till, paidIn, cash, World, faults>>

\* paid from the bonus: no movement, no journal, nothing recorded as debited
CreateFromBonus(s, review) ==
    LET t == sess[s].t
        u == OwnerOf[t]
        status == IF review THEN "pending" ELSE "approved"
    IN
    /\ Serves(s, "create") /\ WithinLimit(s)
    /\ bonus[u] >= Amount[t]
    /\ bonus' = [bonus EXCEPT ![u] = @ - Amount[t]]
    /\ used' = [used EXCEPT ![u] = sess[s].n + Amount[t]]
    /\ Put(t, [Blank EXCEPT !.status = status])
    /\ tasks' = tasks \union Dispatchable(t, status)
    /\ Done(s)
    /\ UNCHANGED <<wallet, line, till, Books, cash, World, faults>>

\* too little money: the transfer waits for an agent, nothing is taken
CreateUnfunded(s) ==
    LET t == sess[s].t IN
    /\ Serves(s, "create") /\ WithinLimit(s)
    /\ Shortage(t) > 0
    /\ Put(t, [Blank EXCEPT !.status = "pending", !.meta.pending = TRUE])
    /\ Done(s)
    /\ UNCHANGED <<wallet, line, Purses, Books, cash, World, tasks, faults>>

Create(s) ==
    \/ \E review, override \in BOOLEAN : CreateFunded(s, review, override)
    \/ \E review \in BOOLEAN : CreateFromBonus(s, review)
    \/ CreateUnfunded(s)

-----------------------------------------------------------------------------
(* Agents: approval, closing, status.                                      *)

StartApprove(s, t) ==
    /\ row[t].status # "none" /\ CanMove(row[t].status, "approved")
    /\ Begin(s, Request("approve", t, row[t], None, 0))
    /\ UNCHANGED <<row, wallet, line, Purses, Books, cash, World, tasks, faults>>

\* what was read says the transfer is not funded: the line is topped up by what
\* is missing, and the transfer is funded now
FundAtApproval(t) ==
    LET u == OwnerOf[t]
        l == TopUp(line[u], Shortage(t))
    IN
    /\ TakeFunds(t, Terms(t, l), l)
    /\ used' = [used EXCEPT ![u] = @ + Amount[t]]

Approve(s) ==
    LET t == sess[s].t
        read == sess[s].snap
        u == OwnerOf[t]
        f == Terms(t, TopUp(line[u], Shortage(t)))
        approved == [read EXCEPT !.status = "approved"]
    IN
    /\ Serves(s, "approve")
    /\ IF read.meta.pending
       THEN /\ FundAtApproval(t)
            /\ Put(t, SaveMeta(row[t], read,
                      [approved EXCEPT !.meta.pending = FALSE,
                                       !.meta.debited = f.debit,
                                       !.meta.credit = f.credit]))
       ELSE /\ UNCHANGED <<wallet, line, bonus, used, moves, journal>>
            /\ Put(t, Save(row[t], read, approved))
    /\ tasks' = tasks \union Dispatchable(t, "approved")
    /\ Done(s)
    /\ UNCHANGED <<till, paidIn, cash, World, faults>>

\* an agent hands out the cash; the check reads transfer and wallet unlocked
StartClose(s, t, a) ==
    /\ row[t].status = "approved"
    /\ till[a] >= Amount[t]
    /\ Begin(s, Request("close", t, row[t], a, till[a]))
    /\ UNCHANGED <<row, wallet, line, Purses, Books, cash, World, tasks, faults>>

Close(s) ==
    LET t == sess[s].t
        read == sess[s].snap
    IN
    /\ Serves(s, "close")
    /\ till' = [till EXCEPT ![sess[s].arg] = sess[s].n - Amount[t]]
    /\ cash' = [cash EXCEPT ![t] = @ + 1]
    /\ Put(t, SaveMeta(row[t], read, [read EXCEPT !.status = "completed"]))
    /\ Done(s)
    /\ UNCHANGED <<wallet, line, bonus, used, Books, World, tasks, faults>>

StartUpdate(s, t, status) ==
    /\ row[t].status # "none" /\ CanMove(row[t].status, status)
    /\ Begin(s, Request("update", t, row[t], status, 0))
    /\ UNCHANGED <<row, wallet, line, Purses, Books, cash, World, tasks, faults>>

\* an agent reports the outcome; nothing is refunded
Update(s) ==
    LET t == sess[s].t
        read == sess[s].snap
    IN
    /\ Serves(s, "update")
    /\ Put(t, SaveMeta(row[t], read, [read EXCEPT !.status = sess[s].arg]))
    /\ Done(s)
    /\ UNCHANGED <<wallet, line, Purses, Books, cash, World, tasks, faults>>

-----------------------------------------------------------------------------
(* The answer of a provider, whoever receives it.                          *)

Refundable(t, meta) == meta.debited + meta.credit = Amount[t]

\* _apply_failed_refund posts an unbalanced journal and raises
Raises(t, read, status) ==
    status = "failed" /\ ~read.meta.refunded /\ ~Refundable(t, read.meta)

GiveFundsBack(t, meta) ==
    LET u == OwnerOf[t] IN
    /\ wallet' = [wallet EXCEPT ![u] = @ + meta.debited]
    /\ line' = [line EXCEPT ![u] = GiveBack(@, meta.credit)]
    /\ moves' = [moves EXCEPT ![t].back = @ + meta.debited]

Mark(r, status, ref) == [r EXCEPT !.pstatus = status, !.ref = @ \/ ref]

Cancelled(meta) == [meta EXCEPT !.refunded = TRUE, !.credit = 0, !.repaid = 0]

\* success and failure overwrite a status the table would not let go
Answered(r, status, ref) ==
    LET marked == Mark(r, status, ref) IN
    CASE status = "success" -> [marked EXCEPT !.status = "succeeded"]
      [] status = "failed"  -> [marked EXCEPT !.status = "failed",
                                              !.meta = Cancelled(@)]
      [] OTHER -> marked

\* Variants of Refund with a mistake.
\* the refund does not look whether it was done
RefundAgain(t, read, status) ==
    IF status = "failed"
    THEN /\ GiveFundsBack(t, read.meta)
         /\ journal' = [journal EXCEPT ![t].refund = @ + 1]
    ELSE UNCHANGED Money

\* the refund is not journaled
RefundSilently(t, read, status) ==
    IF status = "failed" /\ ~read.meta.refunded
    THEN GiveFundsBack(t, read.meta) /\ UNCHANGED journal
    ELSE UNCHANGED Money

\* the refund that comes with a failure, unless what was read says it is done
Refund(t, read, status) ==
    IF status = "failed" /\ ~read.meta.refunded
    THEN /\ GiveFundsBack(t, read.meta)
         /\ journal' = [journal EXCEPT ![t].refund = @ + 1]
    ELSE UNCHANGED Money

MayGoBack(t) == moves[t].back + journal[t].refund < MaxBack

StartWebhook(s, hook) ==
    /\ hook \in hooks /\ MayGoBack(hook.t)
    /\ Begin(s, Request("webhook", hook.t, row[hook.t], hook.status, 0))
    /\ UNCHANGED <<row, wallet, line, Purses, Books, cash, World, tasks, faults>>

\* a payload seen before leaves the metadata as they were read
Webhook(s) ==
    LET t == sess[s].t
        read == sess[s].snap
        new == Answered(read, sess[s].arg, TRUE)
    IN
    /\ Serves(s, "webhook")
    /\ ~Raises(t, read, sess[s].arg)
    /\ Refund(t, read, sess[s].arg)
    /\ \/ Put(t, SaveMeta(row[t], read, new))
       \/ Put(t, Save(row[t], read, new))
    /\ Done(s)
    /\ UNCHANGED <<Purses, paidIn, cash, World, tasks, faults>>

-----------------------------------------------------------------------------
(* The provider: it honours the idempotency key, so that a request it has  *)
(* accepted is not accepted again, and reports each verdict by a webhook.  *)

Says == [none |-> {}, accepted |-> {"processing", "sent"}, paid |-> {"success"},
         rejected |-> {"failed"}]

Verdict(t, p) == [t |-> t, status |-> IF p = "paid" THEN "success" ELSE "failed"]

\* what the books may say after a request that reached the provider
Received(t) == IF provider[t] = "none" THEN {"accepted", "paid", "rejected"}
                                       ELSE {provider[t]}

Decide(t) ==
    /\ provider[t] = "accepted"
    /\ \E p \in {"paid", "rejected"} :
          /\ provider' = [provider EXCEPT ![t] = p]
          /\ hooks' = hooks \union {Verdict(t, p)}
    /\ UNCHANGED <<row, wallet, line, Purses, Books, cash, denied, tasks, sess, faults>>

\* a request that is accepted is announced by a webhook, too
Reach(t, p) ==
    /\ provider' = [provider EXCEPT ![t] = p]
    /\ hooks' = IF provider[t] = "none" /\ p = "accepted"
                THEN hooks \union {[t |-> t, status |-> "sent"]} ELSE hooks

\* a request without a usable answer: the provider may have received it, or not
MayReach(t) == \E p \in Received(t) \union {provider[t]} : Reach(t, p)

\* a retryable error, as long as retries are left
Retried(r) == IF r.retries < RetryMax
              THEN [r EXCEPT !.pstatus = "retry", !.retries = @ + 1]
              ELSE [r EXCEPT !.pstatus = "manual_review"]

\* Sends an approved transfer under the lock of its row.  The answer names the
\* provider's reference, or not.
SendAnswered(t) ==
    \E p \in Received(t), ref \in BOOLEAN : \E status \in Says[p] :
       /\ Reach(t, p)
       /\ ~Raises(t, row[t], status)
       /\ Put(t, Answered(row[t], status, ref))
       /\ Refund(t, row[t], status)
       /\ UNCHANGED <<denied, faults>>

\* no answer in time, or a server error: the provider may have the request
SendTimesOut(t) ==
    /\ faults < MaxFaults /\ faults' = faults + 1
    /\ MayReach(t) /\ UNCHANGED denied
    /\ Put(t, Retried(row[t]))
    /\ UNCHANGED Money

\* a 4xx answer or a fault of the configuration: an error not to be retried
Denied(t) == MayGoBack(t) /\ MayReach(t) /\ denied' = denied \union {t}

\* it is taken for a failure: the transfer fails and is refunded, also when an
\* earlier request, which timed out, was accepted
SendRefused(t) ==
    /\ Denied(t)
    /\ ~Raises(t, row[t], "failed")
    /\ Put(t, Answered(row[t], "failed", FALSE))
    /\ Refund(t, row[t], "failed")
    /\ UNCHANGED faults

Send(t) == SendAnswered(t) \/ SendTimesOut(t) \/ SendRefused(t)

\* the background task; when the refund raises, its transaction is lost
Dispatch(t) ==
    /\ Room
    /\ t \in tasks /\ tasks' = tasks \ {t}
    /\ \/ row[t].status = "approved" /\ Send(t)
       \/ /\ row[t].status = "approved" /\ Raises(t, row[t], "failed")
          /\ MayReach(t)
          /\ UNCHANGED <<row, Money, denied, faults>>
       \/ row[t].status # "approved" /\ UNCHANGED <<row, Money, World, faults>>
    /\ UNCHANGED <<Purses, paidIn, cash, sess>>

\* what the reconcile worker keeps of a refund that raised: wallet and line are
\* written, the journal and the mark in the metadata are not
HalfRefund(t, ref) ==
    /\ GiveFundsBack(t, row[t].meta)
    /\ Put(t, Mark(row[t], "manual_review", ref))
    /\ UNCHANGED journal

\* a refusal, or an error taken for one
ResendRaises(t) ==
    /\ Raises(t, row[t], "failed") /\ UNCHANGED faults
    /\ \/ /\ "rejected" \in Received(t) /\ Reach(t, "rejected") /\ UNCHANGED denied
          /\ \E ref \in BOOLEAN : HalfRefund(t, ref)
       \/ Denied(t) /\ HalfRefund(t, FALSE)

\* the worker sends again what has no reference or is to be retried
Unsent(t) == row[t].pstatus = "retry" \/ (row[t].pstatus \in Pollable /\ ~row[t].ref)

Resend(t) ==
    /\ Room
    /\ t \in Routed /\ Unsent(t)
    /\ row[t].status = "approved"
    /\ Send(t) \/ ResendRaises(t)
    /\ UNCHANGED <<Purses, paidIn, cash, tasks, sess>>

\* and asks for the status of the others
Polled(t) == t \in Routed /\ row[t].pstatus \in {"sent", "processing"} /\ row[t].ref

Poll(t) ==
    /\ Room
    /\ Polled(t)
    /\ \E status \in Says[provider[t]] :
          \/ /\ ~Raises(t, row[t], status)
             /\ Put(t, Answered(row[t], status, TRUE))
             /\ Refund(t, row[t], status)
          \/ Raises(t, row[t], status) /\ HalfRefund(t, TRUE)
    /\ UNCHANGED <<Purses, paidIn, cash, World, tasks, sess, faults>>

PollFails(t) ==
    /\ Room
    /\ Polled(t)
    /\ faults < MaxFaults /\ faults' = faults + 1
    /\ Put(t, Retried(row[t])) \/ Put(t, [row[t] EXCEPT !.pstatus = "manual_review"])
    /\ UNCHANGED <<wallet, line, Purses, Books, cash, World, tasks, sess>>

-----------------------------------------------------------------------------
(* Cash deposits repay the credit of transfers.  The balance is read before *)
(* the credit line is locked.                                              *)

StartDeposit(s, u, d) ==
    /\ Asked + d <= Most
    /\ Begin(s, [op |-> "deposit", u |-> u, d |-> d, n |-> wallet[u]])
    /\ UNCHANGED <<row, wallet, line, Purses, Books, cash, World, tasks, faults>>

Outstanding(t) == Pos(row[t].meta.credit - row[t].meta.repaid)

Debts == [t \in Transfers |-> Outstanding(t)]

Owned(u) == {t \in Transfers : OwnerOf[t] = u}

\* all that is outstanding, if the amount allows; transfers are repaid one after
\* the other, so that one at most is repaid in part
Exhausts(split, u, amount) ==
    LET owned == Owned(u) IN
    /\ \A t \in owned : split[t] <= Outstanding(t)
    /\ Total(split, owned) = Least(amount, Total(Debts, owned))
    /\ Cardinality({t \in owned : 0 < split[t] /\ split[t] < Outstanding(t)}) <= 1

Splits(u, amount) == {split \in [Owned(u) -> 0..amount] : Exhausts(split, u, amount)}

Repaid(t, n) ==
    LET r == row[t]
        status == IF r.status \notin Settled THEN r.status
                  ELSE IF n = Outstanding(t) THEN "repaid" ELSE "partially_repaid"
    IN [r EXCEPT !.status = status, !.meta.repaid = @ + n]

Deposit(s) ==
    LET u == sess[s].u
        d == sess[s].d
    IN
    /\ Serves(s, "deposit")
    /\ wallet' = [wallet EXCEPT ![u] = sess[s].n + d]
    /\ paidIn' = [paidIn EXCEPT ![u] = @ + d]
    /\ line' = [line EXCEPT ![u] = Recover(@, d)]
    /\ \E split \in Splits(u, Recovered(line[u], d)) :
          LET paid == {t \in Owned(u) : split[t] > 0} IN
          /\ \A t \in paid : CanMove(row[t].status, Repaid(t, split[t]).status)
          /\ row' = [t \in Transfers |->
                       IF t \in paid THEN Repaid(t, split[t]) ELSE row[t]]
    /\ Done(s)
    /\ UNCHANGED <<Purses, moves, journal, cash, World, tasks, faults>>

-----------------------------------------------------------------------------
(* A request that fails is rolled back; a restart loses requests and tasks. *)

Abort(s) ==
    /\ sess[s] # None /\ Done(s)
    /\ UNCHANGED <<row, wallet, line, Purses, Books, cash, World, tasks, faults>>

Restart ==
    /\ faults < MaxFaults /\ faults' = faults + 1
    /\ sess' = [s \in Sessions |-> None] /\ tasks' = {}
    /\ UNCHANGED <<row, wallet, line, Purses, Books, cash, World>>

StartRequest(s) ==
    \/ \E t \in Transfers : StartCreate(s, t) \/ StartApprove(s, t)
    \/ \E t \in Transfers, a \in Agents : StartClose(s, t, a)
    \/ \E t \in Transfers, status \in {"succeeded", "failed"} : StartUpdate(s, t, status)
    \/ \E hook \in hooks : StartWebhook(s, hook)
    \/ \E u \in Users, d \in Deposits : StartDeposit(s, u, d)

Commit(s) ==
    Create(s) \/ Approve(s) \/ Close(s) \/ Update(s) \/ Webhook(s) \/ Deposit(s)

Next ==
    \/ \E s \in Sessions : StartRequest(s) \/ Commit(s) \/ Abort(s)
    \/ \E t \in Transfers : Dispatch(t) \/ Resend(t) \/ Poll(t) \/ PollFails(t) \/ Decide(t)
    \/ Restart

Spec == Init /\ [][Next]_vars

\* the reconcile worker runs every minute and takes every pollable transfer;
\* the provider decides
Fairness ==
    /\ \A t \in Transfers : SF_vars(Poll(t)) /\ SF_vars(Resend(t)) /\ WF_vars(Decide(t))
    /\ \A s \in Sessions : WF_vars(Commit(s) \/ Abort(s))

FairSpec == Spec /\ Fairness

-----------------------------------------------------------------------------
(* Properties.                                                             *)

\* What a credit line has lent and what it can still lend add up to its limit,
\* through funding, top-ups, refunds (also repeated ones) and repayments.
CreditLineBalanced ==
    \A u \in Users : line[u].used + line[u].avail = line[u].limit

Taken == [t \in Transfers |-> moves[t].out]
Given == [t \in Transfers |-> moves[t].back]

\* A balance is what the wallet history says, also when a transfer is approved or
\* refunded twice at the same time: those lock the wallet before they read it.
\* A cash deposit does not: even when requests are served one at a time, it writes
\* back a balance it read before the worker refunded a transfer.
WalletMatchesHistory ==
    \A u \in Users : paidIn[u] = 0 => 
        wallet[u] = Start0[u] + Total(Given, Owned(u)) - Total(Taken, Owned(u))

\* Money goes back, and a transfer is marked refunded, only if the provider refused
\* it or a request for it got an error not to be retried: a timeout, a retry or a
\* report that is late or comes twice never gives anything back.  The second case
\* may be of a transfer that the provider accepted, or paid.
Warranted == denied \union {t \in Transfers : provider[t] = "rejected"}

RefundIsWarranted ==
    \A t \in Transfers : row[t].meta.refunded \/ moves[t].back > 0 => t \in Warranted

\* Served one at a time, requests fund a transfer once, refund it in the ledger
\* once, let one agent hand out its cash once, and count it once against the daily
\* limit of its client, from when it is funded.
MovedOnce ==
    /\ \A t \in Transfers :
          journal[t].fund <= 1 /\ journal[t].refund <= 1 /\ cash[t] <= 1
    /\ \A u \in Users :
          used[u] = Total(Amount,
                      {t \in Owned(u) : row[t].status # "none" /\ ~row[t].meta.pending})

\* Money goes back to a wallet without a journal only for a transfer whose
\* recorded parts do not add up to its amount (the credit mirrored a debit).
RefundIsJournaled ==
    \A t \in Transfers :
        moves[t].back > 0 /\ Refundable(t, row[t].meta) => journal[t].refund > 0

\* Served one at a time, no client owes the line more than the transfers that
\* used it still show as outstanding.
DebtIsTraced ==
    \A u \in Users : line[u].used <= Total(Debts, Owned(u))

\* The worker does not poll an approved transfer forever.
PollingEnds ==
    \A t \in Transfers :
        (t \in Routed /\ row[t].status = "approved" /\ row[t].pstatus \in Pollable)
            ~> ~(row[t].status = "approved" /\ row[t].pstatus \in Pollable)
=============================================================================
