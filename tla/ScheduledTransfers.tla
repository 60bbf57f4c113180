------------------------- MODULE ScheduledTransfers -------------------------
(***************************************************************************)
(* Transfers a client has scheduled, run by the worker of the process or   *)
(* at the client's request.  A batch is read with one SELECT ... FOR       *)
(* UPDATE, but each of its items ends with a commit, which drops the locks *)
(* of all the others: from the second item on, a batch runs on rows it     *)
(* read before.  An external item commits even earlier, when the transfer  *)
(* is created and before the schedule has advanced.                        *)
(*                                                                         *)
(* Dates are counted in periods of the schedule.  A schedule is            *)
(* [status, next (next_run_at), left (remaining_runs), fails               *)
(* (metadata.failure_count)].  The fate of an external transfer after its  *)
(* creation is the subject of ExternalTransfers.  Amounts do not change.   *)
(***************************************************************************)
EXTENDS CreditFunding, Totals

CONSTANTS
    Schedules, Users, Clients,  \* Clients: the sessions of requests
    Worker,                     \* the session of the worker
    OwnerOf,                    \* [Schedules -> Users]
    PayeeOf,                    \* [Schedules -> Users \union {None}], None: abroad
    Amount,                     \* [Schedules -> Nat]
    Start0, Limit0,             \* [Users -> Nat], wallets and credit lines
    Wanted,                     \* [Schedules -> Nat \union {None}], runs asked for
    Grants,                     \* numbers of runs an update may ask for
    MaxFails,                   \* max_consecutive_failures
    BatchLimit,                 \* PRODUCT_AUTOMATION_BATCH_LIMIT
    Horizon,                    \* bound on the clock
    MaxEvents,                  \* bound on the changes clients make to schedules
                                \* plus the sessions that are aborted
    None

Sessions == Clients \union {Worker}

ASSUME ScheduledAssumption ==
    /\ OwnerOf \in [Schedules -> Users]
    /\ PayeeOf \in [Schedules -> Users \union {None}]
    /\ \A s \in Schedules : PayeeOf[s] # OwnerOf[s]
    /\ Amount \in [Schedules -> Nat \ {0}]
    /\ Start0 \in [Users -> Nat] /\ Limit0 \in [Users -> Nat]
    /\ Wanted \in [Schedules -> (Nat \ {0}) \union {None}]
    /\ Grants \subseteq (Nat \ {0}) \union {None}
    /\ MaxFails \in Nat \ {0} /\ BatchLimit \in Nat \ {0}
    /\ Horizon \in Nat /\ MaxEvents \in Nat
    /\ None \notin Users \union Schedules \union Sessions \union Nat

ASSUME SchedulesAreFinite == IsFiniteSet(Schedules)

VARIABLES
    sched,     \* product_transfers.scheduled_transfers
    wallet,    \* wallets.available
    line,      \* the credit lines
    clock,
    held,      \* the rows of its batch a session has still to run, as read
    locking,   \* the sessions whose transaction holds the locks of their batch
    placed,    \* the external item a session has run and not yet recorded
    ran,       \* history: how often a schedule was run
    taken,     \* history: how often it took its amount from the owner's wallet
    granted,   \* history: how often the client wants it to run, or None
    astray,    \* history: the schedules written while another session held the
               \* row as it was before, or run and not recorded
    events

vars == <<sched, wallet, line, clock, held, locking, placed, ran, taken, granted,
          astray, events>>

-----------------------------------------------------------------------------
Status == {"none", "active", "failed", "paused", "cancelled", "completed"}

Count == Nat \union {None}

RowType == [status : Status, next : Nat, left : Count, fails : Nat]

Row(status, next, left, fails) ==
    [status |-> status, next |-> next, left |-> left, fails |-> fails]

Blank == Row("none", 0, None, 0)

TypeOK ==
    /\ sched \in [Schedules -> RowType]
    /\ wallet \in [Users -> Int]
    /\ line \in [Users -> LineType]
    /\ clock \in Nat
    /\ held \in [Sessions -> [Schedules -> RowType \union {None}]]
    /\ locking \subseteq Sessions
    /\ placed \in [Sessions -> Schedules \union {None}]
    /\ ran \in [Schedules -> Nat] /\ taken \in [Schedules -> Nat]
    /\ granted \in [Schedules -> Count]
    /\ astray \subseteq Schedules
    /\ events \in Nat

Nothing == [s \in Schedules |-> None]

Init ==
    /\ sched = [s \in Schedules |-> Blank]
    /\ wallet = Start0
    /\ line = [u \in Users |-> [limit |-> Limit0[u], used |-> 0, avail |-> Limit0[u]]]
    /\ clock = 0
    /\ held = [w \in Sessions |-> Nothing]
    /\ locking = {}
    /\ placed = [w \in Sessions |-> None]
    /\ ran = [s \in Schedules |-> 0] /\ taken = [s \in Schedules |-> 0]
    /\ granted = [s \in Schedules |-> None]
    /\ astray = {}
    /\ events = 0

Money == <<wallet, line, taken>>
Batches == <<held, locking, placed>>
Bounds == <<clock, events>>

-----------------------------------------------------------------------------
(* Rows.                                                                   *)

Runnable(r) == r.status \in {"active", "failed"}

Due(s) == Runnable(sched[s]) /\ sched[s].next <= clock

Batch(w) == {s \in Schedules : held[w][s] # None}

\* the sessions that hold the lock of a row
LockedBy(s) == {w \in locking : held[w][s] # None}

Later(a, b) == IF a < b THEN b ELSE a

\* the ORM writes the columns whose value differs from the one it read
Column(current, read, new) == IF new = read THEN current ELSE new

Save(current, read, new) ==
    Row(Column(current.status, read.status, new.status),
        Column(current.next, read.next, new.next),
        Column(current.left, read.left, new.left),
        Column(current.fails, read.fails, new.fails))

\* row s is written by w, or by a request of its own
Write(w, s, r) ==
    /\ sched' = [sched EXCEPT ![s] = r]
    /\ astray' = IF \E v \in Sessions \ {w} : held[v][s] # None
                 THEN astray \union {s} ELSE astray

-----------------------------------------------------------------------------
(* Variants of definitions below, each with a mistake; not part of Spec.   *)

\* the failures so far are forgotten
FailedOnce(r) ==
    Row(IF MaxFails = 1 THEN "paused" ELSE "failed", r.next, r.left, 1)

\* a limited schedule is not counted down
RanUncounted(r) == Row("active", r.next + 1, r.left, 0)

\* the credit line is not asked
AffordsAlways(s) == TRUE

\* the wallet is spared what the credit line mirrors
PaySpared(s) ==
    LET u == OwnerOf[s]
        f == Mirrored(wallet[u], line[u].avail, Amount[s])
    IN [v \in Users |-> IF v = u THEN wallet[v] - (Amount[s] - f.credit)
                        ELSE IF v = PayeeOf[s] THEN wallet[v] + Amount[s]
                        ELSE wallet[v]]

-----------------------------------------------------------------------------
(* The client's own requests, each under the lock of its row.              *)

\* nobody else holds the row, which has one of the statuses
Open(s, statuses) == sched[s].status \in statuses /\ LockedBy(s) = {}

Create(s) ==
    /\ sched[s].status = "none"
    /\ \E next \in clock..Horizon :
          Write(None, s, Row("active", next, Wanted[s], 0))
    /\ granted' = [granted EXCEPT ![s] = Wanted[s]]
    /\ UNCHANGED <<Money, Batches, Bounds, ran>>

Change(s, statuses) ==
    /\ Open(s, statuses)
    /\ events < MaxEvents /\ events' = events + 1

\* another date, another number of runs, or both; the status stays
Update(s) ==
    /\ Change(s, {"active", "failed", "paused"})
    /\ \E next \in {sched[s].next} \union (clock..Horizon) :
          \/ /\ Write(None, s, Row(sched[s].status, next, sched[s].left, 0))
             /\ UNCHANGED granted
          \/ \E left \in Grants :
                /\ Write(None, s, Row(sched[s].status, next, left, 0))
                /\ granted' = [granted EXCEPT ![s] =
                                 IF left = None THEN None ELSE ran[s] + left]
    /\ UNCHANGED <<Money, Batches, clock, ran>>

Pause(s) ==
    /\ Change(s, {"active", "failed", "paused"})
    /\ Write(None, s, [sched[s] EXCEPT !.status = "paused"])
    /\ UNCHANGED <<Money, Batches, clock, ran, granted>>

Resume(s) ==
    /\ Change(s, {"paused"})
    /\ Write(None, s, Row("active", Later(sched[s].next, clock), sched[s].left, 0))
    /\ UNCHANGED <<Money, Batches, clock, ran, granted>>

Cancel(s) ==
    /\ Change(s, Status \ {"none"})
    /\ Write(None, s, [sched[s] EXCEPT !.status = "cancelled"])
    /\ UNCHANGED <<Money, Batches, clock, ran, granted>>

-----------------------------------------------------------------------------
(* Batches.                                                                *)

\* session w reads the rows of S and locks them
Take(w, S) ==
    /\ Batch(w) = {}
    /\ S # {}
    /\ held' = [held EXCEPT ![w] = [s \in Schedules |->
                                       IF s \in S THEN sched[s] ELSE None]]
    /\ locking' = locking \union {w}
    /\ UNCHANGED <<sched, Money, placed, ran, granted, astray, Bounds>>

Unlocked == {s \in Schedules : LockedBy(s) = {}}

\* the worker skips what is locked and takes the earliest, up to its limit
Select ==
    LET due == {s \in Unlocked : Due(s)} IN
    \E S \in SUBSET due :
        /\ Cardinality(S) = Least(BatchLimit, Cardinality(due))
        /\ \A s \in S, o \in due \ S : sched[s].next <= sched[o].next
        /\ Take(Worker, S)

\* a client has all that is due run, or one schedule, due or not; both wait
SelectOwn(c, u) ==
    LET due == {s \in Schedules : OwnerOf[s] = u /\ Due(s)} IN
    due \subseteq Unlocked /\ Take(c, due)

RunNow(c, s) ==
    /\ Open(s, {"active", "failed"})
    /\ sched[s].next <= Horizon
    /\ Take(c, {s})

\* the batch is run in the order of its dates
Turn(w, s) ==
    /\ s \in Batch(w)
    /\ placed[w] = None
    /\ \A o \in Batch(w) : held[w][s].next <= held[w][o].next

Affords(s) ==
    NewDebt(wallet[OwnerOf[s]], Amount[s]) <= line[OwnerOf[s]].avail

\* wallets after a run; a transfer abroad has no payee here
PayPayee(s) ==
    [v \in Users |-> IF v = OwnerOf[s] THEN wallet[v] - Amount[s]
                     ELSE IF v = PayeeOf[s] THEN wallet[v] + Amount[s]
                     ELSE wallet[v]]

DrawLine(s) ==
    LET u == OwnerOf[s]
        f == Mirrored(wallet[u], line[u].avail, Amount[s])
    IN [line EXCEPT ![u] = Draw(@, f.credit)]

\* wallets and credit line are locked and read here
Pay(s) ==
    /\ wallet' = PayPayee(s)
    /\ line' = DrawLine(s)
    /\ taken' = [taken EXCEPT ![s] = @ + 1]

\* one date later, also when several have passed; done after the last run
Ran(r) ==
    IF r.left = None THEN Row("active", r.next + 1, None, 0)
    ELSE IF r.left <= 1 THEN Row("completed", clock, 0, 0)
    ELSE Row("active", r.next + 1, r.left - 1, 0)

Failed(r) ==
    Row(IF r.fails + 1 >= MaxFails THEN "paused" ELSE "failed",
        r.next, r.left, r.fails + 1)

\* the commit of an item: the row is written once nobody else has it locked, and
\* the locks of the rest of the batch are gone
Record(w, s, r) ==
    /\ LockedBy(s) \subseteq {w}
    /\ Write(w, s, Save(sched[s], held[w][s], r))
    /\ held' = [held EXCEPT ![w][s] = None]
    /\ locking' = locking \ {w}

RunInternal(w, s) ==
    /\ Turn(w, s) /\ PayeeOf[s] # None
    /\ Affords(s)
    /\ Pay(s)
    /\ ran' = [ran EXCEPT ![s] = @ + 1]
    /\ Record(w, s, Ran(held[w][s]))
    /\ UNCHANGED <<placed, granted, Bounds>>

\* too little money here; abroad, a limit or an unknown destination
RunRefused(w, s) ==
    /\ Turn(w, s)
    /\ PayeeOf[s] # None => ~Affords(s)
    /\ Record(w, s, Failed(held[w][s]))
    /\ UNCHANGED <<Money, placed, ran, granted, Bounds>>

\* the external transfer is created and committed, paid if there is the money
\* and pending otherwise; the schedule has not advanced
PlaceExternal(w, s) ==
    /\ Turn(w, s) /\ PayeeOf[s] = None
    /\ IF Affords(s) THEN Pay(s) ELSE UNCHANGED Money
    /\ ran' = [ran EXCEPT ![s] = @ + 1]
    /\ placed' = [placed EXCEPT ![w] = s]
    /\ locking' = locking \ {w}
    /\ UNCHANGED <<sched, held, granted, astray, Bounds>>

RecordExternal(w, s) ==
    /\ placed[w] = s /\ s \in Batch(w)
    /\ Record(w, s, Ran(held[w][s]))
    /\ placed' = [placed EXCEPT ![w] = None]
    /\ UNCHANGED <<Money, ran, granted, Bounds>>

\* an SQL error, a deadlock or a restart: the rest of the batch is given up
Abort(w) ==
    /\ Batch(w) # {}
    /\ events < MaxEvents /\ events' = events + 1
    /\ held' = [held EXCEPT ![w] = Nothing]
    /\ locking' = locking \ {w}
    /\ placed' = [placed EXCEPT ![w] = None]
    /\ astray' = IF placed[w] = None THEN astray ELSE astray \union {placed[w]}
    /\ UNCHANGED <<sched, Money, clock, ran, granted>>

Run(w, s) ==
    RunInternal(w, s) \/ RunRefused(w, s) \/ PlaceExternal(w, s) \/ RecordExternal(w, s)

-----------------------------------------------------------------------------
Tick ==
    /\ clock < Horizon /\ clock' = clock + 1
    /\ UNCHANGED <<sched, Money, Batches, events, ran, granted, astray>>

Next ==
    \/ \E s \in Schedules : Create(s) \/ Update(s) \/ Pause(s) \/ Resume(s) \/ Cancel(s)
    \/ Select
    \/ \E c \in Clients, u \in Users : SelectOwn(c, u)
    \/ \E c \in Clients, s \in Schedules : RunNow(c, s)
    \/ \E w \in Sessions, s \in Schedules : Run(w, s)
    \/ \E w \in Sessions : Abort(w)
    \/ Tick

Spec == Init /\ [][Next]_vars

\* the worker comes back every few seconds, and a session runs its batch
Fairness ==
    /\ WF_vars(Select)
    /\ \A w \in Sessions : WF_vars(\E s \in Schedules : Run(w, s))

FairSpec == Spec /\ Fairness

-----------------------------------------------------------------------------
(* Properties.                                                             *)

\* The rows of a batch that holds its locks are what the database has: only the
\* first item of a batch is sure to run on a row nobody has changed.
LockedIsFresh ==
    \A w \in locking : \A s \in Batch(w) :
        held[w][s] = sched[s] /\ LockedBy(s) = {w}

\* However runs overlap, a client owes no more than the credit line has lent, and
\* what the line has lent and what it can lend add up to its limit.
OverdraftIsLent ==
    \A u \in Users :
        /\ wallet[u] + line[u].used >= 0
        /\ line[u].used + line[u].avail = line[u].limit

\* what the runs of each schedule have moved
RunTotals == [s \in Schedules |-> taken[s] * Amount[s]]

\* A balance is what the runs have moved, also when a schedule is run twice.
MoneyMatchesRuns ==
    \A u \in Users :
        wallet[u] = Start0[u]
            + Total(RunTotals, {s \in Schedules : PayeeOf[s] = u})
            - Total(RunTotals, {s \in Schedules : OwnerOf[s] = u})

\* A limited schedule runs as often as the client asked, unless its row was stale
\* when written, or it ran abroad and the session died before it was recorded.
RunsAreGranted ==
    \A s \in Schedules :
        (s \notin astray /\ (\A w \in Sessions : placed[w] # s) /\ sched[s].left # None)
            => ran[s] + sched[s].left = granted[s]

\* A schedule that has failed MaxFails times in a row is not tried again before
\* the client resumes or changes it (with the same exception).
FailuresPause ==
    \A s \in Schedules :
        s \notin astray /\ Runnable(sched[s]) => sched[s].fails < MaxFails

\* What is due is run, fails and is paused, or is withdrawn: a batch limit, a
\* schedule that keeps failing and locks of others do not keep it waiting.
DueIsHandled == \A s \in Schedules : Due(s) ~> ~Due(s)
=============================================================================
