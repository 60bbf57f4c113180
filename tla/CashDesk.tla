------------------------------- MODULE CashDesk -------------------------------
(***************************************************************************)
(* Cash against balances: requests a client makes and an administrator     *)
(* approves, cash handed over at an agent or at the desk, and operations   *)
(* an agent has queued without a connection and synchronises later.        *)
(*                                                                         *)
(* Most handlers read the row of the request and the wallet without a lock *)
(* and write both by primary key at their COMMIT.  The agents' operations  *)
(* count against a daily limit first, in a transaction of their own        *)
(* (update_risk_score commits); the model covers one day.  A session that  *)
(* is refused, aborted or dies leaves what it has committed (Stop).        *)
(***************************************************************************)
EXTENDS ClientBooks, Sequences

CONSTANTS
    Desks,      \* the sessions
    Requests,   \* wallet_cash_requests
    Items,      \* agent_offline_operations
    ClientOf,   \* [Requests \union Items -> Users]
    In, Out,    \* what a deposit brings and a withdrawal takes, fees included
    Served,     \* the clients who come to the desk
    DailyLimit, \* users.daily_limit, the lower of the two limits
    None

Rows == Requests \union Items

ASSUME DeskAssumption ==
    /\ Requests \intersect Items = {}
    /\ ClientOf \in [Rows -> Users]
    /\ In \in Nat \ {0} /\ Out \in Nat \ {0} /\ DailyLimit \in Nat
    /\ Served \subseteq Users
    /\ None \notin Rows
    /\ IsFiniteSet(Desks)

VARIABLES
    rows,     \* status, kind and, for an item, the balance seen when queued
    desk,     \* what each session is doing
    usage,    \* limit_usage: the counters of a client's day, in commit order
    granted,  \* history: what a client's agents were allowed today
    moved,    \* history: how often a row has moved its amount
    raced     \* history: the rows written in another status than the one read

deskVars == <<rows, desk, usage, granted, moved, raced>>

-----------------------------------------------------------------------------
Kinds == {"deposit", "withdraw", "cash_out"}

Statuses == {"none", "pending", "approved", "rejected",
             "queued", "syncing", "synced", "cancelled"}

RowType == [status : Statuses, kind : Kinds, seen : Int]

Row(status, kind, seen) == [status |-> status, kind |-> kind, seen |-> seen]

\* at: reject, cancel, retry (a row was read), usage, guard (the counters were
\* read), wallet, money (the wallet was read), sync
Work(at, u, k, r, was, read) ==
    [at |-> at, user |-> u, kind |-> k, row |-> r, was |-> was, read |-> read]

WorkType ==
    [at : {"reject", "cancel", "retry", "usage", "guard", "wallet", "money", "sync"},
     user : Users, kind : Kinds, row : Rows \union {None},
     was : Statuses, read : Int]

Idle == [at |-> "idle"]

DeskTypeOK ==
    /\ rows \in [Rows -> RowType]
    /\ desk \in [Desks -> WorkType \union {Idle}]
    /\ usage \in [Users -> Seq(Nat)]
    /\ granted \in [Users -> Nat]
    /\ moved \in [Rows -> Nat]
    /\ raced \subseteq Rows

DeskInit ==
    /\ rows = [r \in Rows |-> Row("none", "deposit", 0)]
    /\ desk = [c \in Desks |-> Idle]
    /\ usage = [u \in Users |-> <<>>]
    /\ granted = [u \in Users |-> 0]
    /\ moved = [r \in Rows |-> 0]
    /\ raced = {}

AmountOf(k) == IF k = "deposit" THEN In ELSE Out

Limits == <<usage, granted>>
Money  == <<wallet, line, book, clobbered>>

\* a request of somebody reaches an idle session
Begin(c, work) ==
    /\ Request
    /\ desk[c] = Idle
    /\ desk' = [desk EXCEPT ![c] = work]

At(c, places) == desk[c].at \in places

Goto(c, at) == desk' = [desk EXCEPT ![c].at = at]

Done(c) == desk' = [desk EXCEPT ![c] = Idle]

\* the status of a row is written by primary key, whatever it has become
SetStatus(r, was, status) ==
    /\ rows' = [rows EXCEPT ![r].status = IF status = was THEN @ ELSE status]
    /\ raced' = IF rows[r].status = was THEN raced ELSE raced \union {r}

-----------------------------------------------------------------------------
(* Variants of definitions below, each with a mistake; not part of Spec.   *)

\* a decision is taken whatever the status
AnyDecision(was, status) == TRUE

\* the counter is compared before it is increased
UnderLimit(used, n) == used <= DailyLimit

\* what was recovered for the line is not credited to the wallet
DepositLess(u, read, n) == read + n - Recovered(line[u], n)

-----------------------------------------------------------------------------
(* Requests of clients and the decisions of administrators.                *)

RequestCash(r, k) ==
    /\ Request
    /\ rows[r].status = "none"
    /\ k = "withdraw" => wallet[ClientOf[r]] >= Out
    /\ rows' = [rows EXCEPT ![r] = Row("pending", k, 0)]
    /\ UNCHANGED <<Money, Limits, desk, moved, raced>>

\* the table of the code; a status may always follow itself
Decision(was, status) ==
    \/ was = status
    \/ was = "pending" /\ status \in {"approved", "rejected"}

OpenApproval(c, r) ==
    /\ Decision(rows[r].status, "approved")
    /\ Begin(c, Work("wallet", ClientOf[r], rows[r].kind, r, rows[r].status, 0))
    /\ UNCHANGED <<Money, Limits, rows, moved, raced>>

\* rejecting what was rejected changes nothing of interest
OpenRejection(c, r) ==
    /\ Decision(rows[r].status, "rejected") /\ rows[r].status # "rejected"
    /\ Begin(c, Work("reject", ClientOf[r], rows[r].kind, r, rows[r].status, 0))
    /\ UNCHANGED <<Money, Limits, rows, moved, raced>>

\* the new status is flushed when the wallet is read: the row is locked
Locked(r) ==
    \E c \in Desks : At(c, {"money"}) /\ desk[c].row = r /\ desk[c].was = "pending"

Reject(c) ==
    /\ At(c, {"reject"}) /\ ~Locked(desk[c].row)
    /\ SetStatus(desk[c].row, desk[c].was, "rejected")
    /\ Done(c)
    /\ UNCHANGED <<Money, Limits, ops, moved>>

-----------------------------------------------------------------------------
(* Cash handed over at the desk or at an agent.                            *)

\* an administrator's deposit or withdrawal, an agent's deposit: no limit
HandOver(c, u, k) ==
    /\ k \in {"deposit", "withdraw"}
    /\ Begin(c, Work("money", u, k, None, "none", wallet[u]))
    /\ UNCHANGED <<Money, Limits, rows, moved, raced>>

\* an agent's cash-in or cash-out; the counters of the day are looked up
AgentCash(c, u, k) ==
    /\ k \in {"deposit", "cash_out"}
    /\ Begin(c, Work("guard", u, k, None, "none", Len(usage[u])))
    /\ UNCHANGED <<Money, Limits, rows, moved, raced>>

\* the same for an item, after its status was committed
LookUpUsage(c) ==
    /\ At(c, {"usage"})
    /\ desk' = [desk EXCEPT ![c].at = "guard", ![c].read = Len(usage[desk[c].user])]
    /\ UNCHANGED <<Money, Limits, ops, rows, moved, raced>>

Within(used, n) == used + n <= DailyLimit

\* One row at least is there for a session that has found one; a session that has
\* not inserts its own.  Of the rows committed since, a prefix is visible to the
\* SELECT and a longer one to the UPDATE.  One of the rows is checked, all are
\* increased.
GuardLimits(c) ==
    LET w == desk[c]
        u == w.user
        n == AmountOf(w.kind)
        all == IF w.read = 0 THEN Append(usage[u], 0) ELSE usage[u]
        own == IF w.read = 0 THEN {Len(all)} ELSE {}
    IN  /\ At(c, {"guard"})
        /\ \E k \in w.read..Len(usage[u]) :
              /\ \E i \in (1..k) \union own : Within(all[i], n)
              /\ \E m \in k..Len(usage[u]) :
                    usage' = [usage EXCEPT ![u] =
                        [i \in 1..Len(all) |-> IF i <= m \/ i \in own
                                               THEN all[i] + n ELSE all[i]]]
        /\ granted' = [granted EXCEPT ![u] = @ + n]
        /\ Goto(c, IF w.row = None THEN "wallet" ELSE "sync")
        /\ UNCHANGED <<Money, ops, rows, moved, raced>>

\* the wallet is read without a lock, for a request once its row is locked
ReadWallet(c) ==
    /\ At(c, {"wallet"})
    /\ desk[c].was = "pending" => ~Locked(desk[c].row)
    /\ desk' = [desk EXCEPT ![c].at = "money", ![c].read = wallet[desk[c].user]]
    /\ UNCHANGED <<Money, Limits, ops, rows, moved, raced>>

-----------------------------------------------------------------------------
(* Money.                                                                  *)

\* what the wallet will hold
Deposited(u, read, n) == read + n

\* a deposit repays the credit line and is credited to the wallet in full
Deposit(u, read, n) ==
    /\ wallet' = [wallet EXCEPT ![u] = Deposited(u, read, n)]
    /\ line' = [line EXCEPT ![u] = Recover(@, n)]
    /\ book' = Posted(Cash, u, n)

\* a withdrawal draws on the credit line first and on the wallet in full
Withdraw(u, read, n) ==
    /\ read + line[u].avail >= n
    /\ wallet' = [wallet EXCEPT ![u] = read - n]
    /\ line' = [line EXCEPT ![u] = Draw(@, Least(n, line[u].avail))]
    /\ book' = Posted(u, Cash, n)

\* an agent's cash-out takes from the wallet alone
CashOut(u, read, n) ==
    /\ read >= n
    /\ wallet' = [wallet EXCEPT ![u] = read - n]
    /\ line' = line
    /\ book' = Posted(u, Cash, n)

Transfer(u, k, read) ==
    /\ \/ k = "deposit"  /\ Deposit(u, read, In)
       \/ k = "withdraw" /\ Withdraw(u, read, Out)
       \/ k = "cash_out" /\ CashOut(u, read, Out)
    /\ clobbered' = IF read = wallet[u] THEN clobbered ELSE clobbered \union {u}

\* the COMMIT: the wallet as computed from the balance that was read
HandlerCommits(c) ==
    LET w == desk[c] IN
    /\ At(c, {"money"})
    /\ Transfer(w.user, w.kind, w.read)
    /\ IF w.row = None
       THEN UNCHANGED <<rows, moved, raced>>
       ELSE /\ SetStatus(w.row, w.was, "approved")
            /\ moved' = [moved EXCEPT ![w.row] = @ + 1]
    /\ Done(c)
    /\ UNCHANGED <<Limits, ops>>

-----------------------------------------------------------------------------
(* Operations queued without a connection.                                 *)

QueueItem(i, k) ==
    /\ Request
    /\ rows[i].status = "none"
    /\ rows' = [rows EXCEPT ![i] = Row("queued", k, wallet[ClientOf[i]])]
    /\ UNCHANGED <<Money, Limits, desk, moved, raced>>

\* nothing has changed since the item was queued, or the check is overruled
Passes(i, force) == force \/ wallet[ClientOf[i]] = rows[i].seen

\* the agent synchronises an item: locked, read, marked, committed
TakeItem(c, i, force) ==
    /\ rows[i].status = "queued"
    /\ Passes(i, force)
    /\ Begin(c, Work("usage", ClientOf[i], rows[i].kind, i, "syncing", 0))
    /\ SetStatus(i, "queued", "syncing")
    /\ UNCHANGED <<Money, Limits, moved>>

\* an administrator's retry reads the item first; the locked SELECT that follows
\* does not refresh it
OpenRetry(c, i) ==
    /\ rows[i].status = "queued"
    /\ Begin(c, Work("retry", ClientOf[i], rows[i].kind, i, "queued", 0))
    /\ UNCHANGED <<Money, Limits, rows, moved, raced>>

Retry(c, force) ==
    LET w == desk[c] IN
    /\ At(c, {"retry"})
    /\ Passes(w.row, force)
    /\ SetStatus(w.row, w.was, "syncing")
    /\ desk' = [desk EXCEPT ![c].at = "usage", ![c].was = "syncing"]
    /\ UNCHANGED <<Money, Limits, ops, moved>>

\* the wallet is locked and read; the item is marked with the money
SyncItem(c) ==
    LET w == desk[c] IN
    /\ At(c, {"sync"})
    /\ Transfer(w.user, w.kind, wallet[w.user])
    /\ SetStatus(w.row, w.was, "synced")
    /\ moved' = [moved EXCEPT ![w.row] = @ + 1]
    /\ Done(c)
    /\ UNCHANGED <<Limits, ops>>

\* an item may be cancelled unless it was synchronised when read
OpenCancel(c, i) ==
    /\ rows[i].status \in {"queued", "syncing"}
    /\ Begin(c, Work("cancel", ClientOf[i], rows[i].kind, i, rows[i].status, 0))
    /\ UNCHANGED <<Money, Limits, rows, moved, raced>>

CancelItem(c) ==
    /\ At(c, {"cancel"})
    /\ SetStatus(desk[c].row, desk[c].was, "cancelled")
    /\ Done(c)
    /\ UNCHANGED <<Money, Limits, ops, moved>>

-----------------------------------------------------------------------------
\* refused, chosen as the victim of a deadlock, or dead: an item in the middle of
\* its synchronisation stays "syncing"
Stop(c) ==
    /\ desk[c] # Idle
    /\ Done(c)
    /\ UNCHANGED <<Money, Limits, ops, rows, moved, raced>>

DeskStep(c) ==
    \/ Reject(c) \/ LookUpUsage(c) \/ GuardLimits(c) \/ ReadWallet(c)
    \/ HandlerCommits(c) \/ SyncItem(c) \/ CancelItem(c) \/ Stop(c)
    \/ \E force \in BOOLEAN : Retry(c, force)

DeskNext ==
    \/ \E r \in Requests, k \in {"deposit", "withdraw"} : RequestCash(r, k)
    \/ \E i \in Items, k \in {"deposit", "cash_out"} : QueueItem(i, k)
    \/ \E c \in Desks, r \in Requests : OpenApproval(c, r) \/ OpenRejection(c, r)
    \/ \E c \in Desks, u \in Served, k \in Kinds : HandOver(c, u, k) \/ AgentCash(c, u, k)
    \/ \E c \in Desks, i \in Items :
          OpenRetry(c, i) \/ OpenCancel(c, i) \/ \E force \in BOOLEAN : TakeItem(c, i, force)
    \/ \E c \in Desks : DeskStep(c)

-----------------------------------------------------------------------------
(* Properties.                                                             *)

\* A row says what it has moved, as long as nobody wrote it in a status it no
\* longer had: nothing before it is approved or synchronised, and an offline
\* item exactly once.  An approved request may be approved again, and then moves
\* its amount again.
RowsMatchMoney ==
    \A r \in Rows \ raced :
        /\ rows[r].status \in {"none", "pending", "rejected", "queued", "syncing",
                               "cancelled"} => moved[r] = 0
        /\ rows[r].status = "approved" => moved[r] > 0
        /\ rows[r].status = "synced" => moved[r] = 1

\* A client's day has a counter for each session that found none, and no more is
\* allowed than the limit for each counter.
LimitsHold ==
    \A u \in Users :
        /\ Len(usage[u]) <= Cardinality(Desks)
        /\ granted[u] <= DailyLimit * Len(usage[u])
        /\ \A i \in 1..Len(usage[u]) : usage[u][i] <= granted[u]
-----------------------------------------------------------------------------
(* The inductive invariant behind LimitsHold.                              *)

\* the sessions that have found no counter and will insert their own
Opening(u) == {c \in Desks : At(c, {"guard"}) /\ desk[c].user = u /\ desk[c].read = 0}

\* what k counters have counted below the limit, unit by unit
Below(counters, k) == {x \in (1..k) \X (1..DailyLimit) : x[2] <= counters[x[1]]}

Units(u) == Below(usage[u], Len(usage[u]))

\* A counter is inserted by a session that saw none, and what a session is allowed
\* fits below the limit of the one counter it was checked against.
UsageInv ==
    \A u \in Users :
        /\ Len(usage[u]) + Cardinality(Opening(u)) <= Cardinality(Desks)
        /\ granted[u] <= Cardinality(Units(u))
        /\ \A i \in 1..Len(usage[u]) : usage[u][i] <= granted[u]
=============================================================================
