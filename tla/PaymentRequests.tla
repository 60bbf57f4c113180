--------------------------- MODULE PaymentRequests ---------------------------
(***************************************************************************)
(* Requests for payment.  A session reads a request, and for a payment the *)
(* two wallets, without a lock, decides, and writes at its commit the      *)
(* columns it has changed and the balances it has computed.  The worker    *)
(* locks what it reads; so does a transfer to a paytag, which moves the    *)
(* same wallets.                                                           *)
(*                                                                         *)
(* A row is [offer (what the request asks for), status, payer, due,        *)
(* expires, count (payments left in the series; 1 when it does not recur,  *)
(* None when it has no end), last (last_reminder_at), again                *)
(* (metadata.reminder.next_manual_at), prev (the request it renews, or     *)
(* 0)].  Requests are numbered in the order of created_at.  Periods of a   *)
(* recurring request are counted by the clock.  The debit that pays by     *)
(* itself is left out: see README.                                         *)
(***************************************************************************)
EXTENDS CreditFunding, Totals

CONSTANTS
    Users, Sessions,
    Offers,         \* what may be asked: requester, payer (None: whoever has the
                    \* link), amount, due, expires, count, until
    TransferAmount, \* what a transfer to a paytag moves
    Start0, Limit0, \* [Users -> Nat], wallets and credit lines
    Cooldown,       \* MANUAL_REMINDER_COOLDOWN
    BatchLimit,     \* PRODUCT_AUTOMATION_BATCH_LIMIT
    MaxRequests, Horizon, MaxOps, MaxTransfers,   \* bounds
    None

Ids == 1..MaxRequests

Maybe(S) == S \union {None}

OfferType ==
    [requester : Users, payer : Maybe(Users), amount : Nat \ {0}, due : Maybe(Nat),
     expires : Maybe(Nat), count : Maybe(Nat \ {0}), until : Maybe(Nat)]

ASSUME RequestsAssumption ==
    /\ Offers \subseteq OfferType
    /\ \A o \in Offers :
          /\ o.payer # o.requester
          /\ o.due # None /\ o.expires # None => o.due <= o.expires
          /\ o.count # 1 => o.due # None
    /\ TransferAmount \in Nat \ {0}
    /\ Start0 \in [Users -> Nat] /\ Limit0 \in [Users -> Nat]
    /\ Cooldown \in Nat \ {0} /\ BatchLimit \in Nat \ {0}
    /\ MaxRequests \in Nat /\ Horizon \in Nat /\ MaxOps \in Nat /\ MaxTransfers \in Nat
    /\ None \notin Users \union Int \union Offers

VARIABLES
    reqs,      \* product_payments.payment_requests
    n,         \* how many there are
    wallet,    \* wallets.available
    line,      \* the credit lines
    clock,
    txn,       \* what a session is doing, for whom, since when
    held,      \* the rows it has read
    funds,     \* the balances it has read: payer's and requester's
    paid,      \* history: payments of a request
    autos,     \* history: reminders sent to its payer because it was due
    manuals,   \* history: reminders its requester sent
    flow,      \* history: what payments and transfers have brought a user
    astray,    \* history: requests written by a session when they were not as read
    lost,      \* history: users whose balance was overwritten likewise
    ops, transfers   \* counters for the bounds

vars == <<reqs, n, wallet, line, clock, txn, held, funds, paid, autos, manuals, flow,
          astray, lost, ops, transfers>>

-----------------------------------------------------------------------------
Final == {"paid", "declined", "cancelled", "expired"}

RowType ==
    [offer : Maybe(Offers), status : {"none", "pending"} \union Final,
     payer : Maybe(Users), due : Maybe(Nat), expires : Maybe(Nat),
     count : Maybe(Nat \ {0}), last : Maybe(Nat), again : Maybe(Nat), prev : Nat]

Blank == [offer |-> None, status |-> "none", payer |-> None, due |-> None,
          expires |-> None, count |-> None, last |-> None, again |-> None, prev |-> 0]

\* what sessions do with requests
Answers == {"pay", "decline"}
Tasks == Answers \union {"cancel", "remind", "view", "maintain"}

TxnType == [op : Tasks \union {"idle"}, user : Maybe(Users), now : Nat]

Idle == [op |-> "idle", user |-> None, now |-> 0]

TypeOK ==
    /\ reqs \in [Ids -> RowType]
    /\ n \in 0..MaxRequests
    /\ \A r \in Ids : reqs[r].status = "none" <=> r > n
    /\ wallet \in [Users -> Int]
    /\ line \in [Users -> LineType]
    /\ clock \in Nat
    /\ txn \in [Sessions -> TxnType]
    /\ held \in [Sessions -> [Ids -> Maybe(RowType)]]
    /\ funds \in [Sessions -> Maybe(Int \X Int)]
    /\ paid \in [Ids -> Nat] /\ autos \in [Ids -> Nat] /\ manuals \in [Ids -> Nat]
    /\ flow \in [Users -> Int]
    /\ astray \subseteq Ids /\ lost \subseteq Users
    /\ ops \in Nat /\ transfers \in Nat

Nothing == [r \in Ids |-> None]

Init ==
    /\ reqs = [r \in Ids |-> Blank] /\ n = 0
    /\ wallet = Start0
    /\ line = [u \in Users |-> [limit |-> Limit0[u], used |-> 0, avail |-> Limit0[u]]]
    /\ clock = 0
    /\ txn = [c \in Sessions |-> Idle]
    /\ held = [c \in Sessions |-> Nothing]
    /\ funds = [c \in Sessions |-> None]
    /\ paid = [r \in Ids |-> 0] /\ autos = [r \in Ids |-> 0]
    /\ manuals = [r \in Ids |-> 0]
    /\ flow = [u \in Users |-> 0]
    /\ astray = {} /\ lost = {}
    /\ ops = 0 /\ transfers = 0

Balances == <<wallet, line, flow, lost>>
Work == <<txn, held, funds>>
Reminders == <<autos, manuals>>
Counters == <<ops, transfers>>

-----------------------------------------------------------------------------
(* Rows.                                                                   *)

RequesterOf(row) == row.offer.requester

Expired(row, now) ==
    row.status = "pending" /\ row.expires # None /\ row.expires <= now

IsDue(row, now) ==
    /\ row.status = "pending" /\ ~Expired(row, now)
    /\ row.due # None /\ row.due <= now

\* a reminder is due, and has not been sent since
Silent(row, now) ==
    /\ IsDue(row, now)
    /\ row.payer # None
    /\ row.last # None => row.last < row.due

\* what the maintenance selects, whether there is anything left to do or not
Selected(row, now) == Expired(row, now) \/ IsDue(row, now)

-----------------------------------------------------------------------------
(* Variants of definitions below, each with a mistake; not part of Spec.   *)

\* a payment leaves the status as it is
OutcomeUnpaid(op, u, now, row) ==
    CASE op = "pay"     -> [row EXCEPT !.payer = u]
      [] op = "decline" -> [row EXCEPT !.status = "declined", !.payer = u]
      [] op = "cancel"  -> [row EXCEPT !.status = "cancelled"]
      [] op = "remind"  -> [row EXCEPT !.last = now, !.again = now + Cooldown]
      [] OTHER          -> IF Expired(row, now) THEN [row EXCEPT !.status = "expired"]
                           ELSE row

\* an automatic reminder is not noted
MaintainedSilently(row, now) ==
    IF Expired(row, now) THEN [row EXCEPT !.status = "expired"] ELSE row

\* a series is not counted down
RenewedUncounted(row, u, r) ==
    [row EXCEPT !.status = "pending", !.payer = u, !.due = row.due + 1,
                !.last = None, !.again = None, !.prev = r]

\* the latest requests first
BatchLatest(S) ==
    {r \in S : Cardinality({o \in S : o > r}) < BatchLimit}

\* the requester is credited and the payer is not debited
PaidOutFree(u, v, amount, read) ==
    [wallet EXCEPT ![u] = read[1], ![v] = read[2] + amount]

-----------------------------------------------------------------------------
(* What a session does to a row it has read.                               *)

Allowed(op, u, row, now) ==
    /\ row.status = "pending" /\ ~Expired(row, now)
    /\ op \in Answers => row.payer \in {None, u} /\ RequesterOf(row) # u
    /\ op \notin Answers => RequesterOf(row) = u
    /\ op = "remind" => /\ row.payer # None
                        /\ row.again # None => row.again <= now

Maintained(row, now) ==
    IF Expired(row, now) THEN [row EXCEPT !.status = "expired"]
    ELSE IF Silent(row, now) THEN [row EXCEPT !.last = now]
    ELSE row

Outcome(op, u, now, row) ==
    CASE op = "pay"      -> [row EXCEPT !.status = "paid", !.payer = u]
      [] op = "decline"  -> [row EXCEPT !.status = "declined", !.payer = u]
      [] op = "cancel"   -> [row EXCEPT !.status = "cancelled"]
      [] op = "remind"   -> [row EXCEPT !.last = now, !.again = now + Cooldown]
      [] op = "view"     -> IF Expired(row, now) THEN [row EXCEPT !.status = "expired"]
                            ELSE row
      [] op = "maintain" -> Maintained(row, now)

\* the ORM writes the columns whose value differs from the one it read
Column(current, read, new) == IF new = read THEN current ELSE new

Save(current, read, new) ==
    [current EXCEPT !.status = Column(@, read.status, new.status),
                    !.payer = Column(@, read.payer, new.payer),
                    !.last = Column(@, read.last, new.last),
                    !.again = Column(@, read.again, new.again)]

\* a request that has been paid is followed by another
Renews(row) ==
    /\ row.count # 1 /\ row.due # None
    /\ row.offer.until # None => row.due + 1 <= row.offer.until

NextExpires(row) ==
    IF row.expires = None THEN None
    ELSE IF row.expires > row.due THEN row.expires + 1 ELSE None

Renewed(row, u, r) ==
    [row EXCEPT !.status = "pending", !.payer = u,
                !.due = row.due + 1, !.expires = NextExpires(row),
                !.count = IF row.count = None THEN None ELSE row.count - 1,
                !.last = None, !.again = None, !.prev = r]

-----------------------------------------------------------------------------
(* Sessions.                                                               *)

Create(o) ==
    /\ n < MaxRequests
    /\ o.expires # None => o.expires > clock
    /\ \A r \in Ids : reqs[r].offer # o   \* each offer once, to bound the model
    /\ n' = n + 1
    /\ reqs' = [reqs EXCEPT ![n + 1] =
                  [offer |-> o, status |-> "pending", payer |-> o.payer, due |-> o.due,
                   expires |-> o.expires, count |-> o.count, last |-> None,
                   again |-> None, prev |-> 0]]
    /\ UNCHANGED <<Balances, Work, Reminders, Counters, clock, paid, astray>>

\* session c reads the rows of S for user u
Read(c, op, u, S) ==
    /\ txn[c].op = "idle"
    /\ ops < MaxOps /\ ops' = ops + 1
    /\ txn' = [txn EXCEPT ![c] = [op |-> op, user |-> u, now |-> clock]]
    /\ held' = [held EXCEPT ![c] = [r \in Ids |-> IF r \in S THEN reqs[r] ELSE None]]
    /\ UNCHANGED <<reqs, n, Balances, Reminders, clock, funds, paid, astray, transfers>>

\* pay, decline, cancel, remind
Answer(c, op, u, r) ==
    /\ Allowed(op, u, reqs[r], clock)
    /\ Read(c, op, u, {r})

\* whoever opens a request or lists requests finds those that have expired
View(c, S) ==
    /\ S # {} /\ \A r \in S : Expired(reqs[r], clock)
    /\ Read(c, "view", None, S)

\* a requester has the due requests seen to
MaintainOwn(c, u) ==
    LET S == {r \in 1..n : RequesterOf(reqs[r]) = u /\ Selected(reqs[r], clock)} IN
    /\ S # {}
    /\ Read(c, "maintain", u, S)

Payee(c, r) == RequesterOf(held[c][r])

Price(c, r) == held[c][r].offer.amount

\* the payment reads both wallets, and gives up when there is too little
ReadFunds(c, r) ==
    LET u == txn[c].user IN
    /\ txn[c].op = "pay" /\ held[c][r] # None /\ funds[c] = None
    /\ IF wallet[u] < Price(c, r)
       THEN /\ txn' = [txn EXCEPT ![c] = Idle]
            /\ held' = [held EXCEPT ![c] = Nothing]
            /\ UNCHANGED funds
       ELSE /\ funds' = [funds EXCEPT ![c] = <<wallet[u], wallet[Payee(c, r)]>>]
            /\ UNCHANGED <<txn, held>>
    /\ UNCHANGED <<reqs, n, Balances, Reminders, Counters, clock, paid, astray>>

-----------------------------------------------------------------------------
(* Commits.                                                                *)

New(c, r) == Outcome(txn[c].op, txn[c].user, txn[c].now, held[c][r])

\* the rows session c changes
Touched(c) == {r \in Ids : held[c][r] # None /\ New(c, r) # held[c][r]}

Written(c) ==
    [r \in Ids |-> IF r \in Touched(c) THEN Save(reqs[r], held[c][r], New(c, r))
                   ELSE reqs[r]]

\* requests that were not as session c had read them
Stale(c) == {r \in Touched(c) : reqs[r] # held[c][r]}

Done(c) ==
    /\ txn' = [txn EXCEPT ![c] = Idle]
    /\ held' = [held EXCEPT ![c] = Nothing]
    /\ funds' = [funds EXCEPT ![c] = None]
    /\ astray' = astray \union Stale(c)

Moved(u, v, amount) ==
    [x \in Users |-> CASE x = u -> flow[x] - amount
                       [] x = v -> flow[x] + amount
                       [] OTHER -> flow[x]]

\* both balances are written as computed from those read
PaidOut(u, v, amount, read) ==
    [wallet EXCEPT ![u] = read[1] - amount, ![v] = read[2] + amount]

Settle(c, r) ==
    LET u == txn[c].user
        v == Payee(c, r)
        amount == Price(c, r)
        row == New(c, r)
    IN  /\ txn[c].op = "pay" /\ held[c][r] # None /\ funds[c] # None
        /\ wallet' = PaidOut(u, v, amount, funds[c])
        /\ lost' = lost \union {x \in {u, v} :
                                  wallet[x] # IF x = u THEN funds[c][1] ELSE funds[c][2]}
        /\ flow' = Moved(u, v, amount)
        /\ paid' = [paid EXCEPT ![r] = @ + 1]
        /\ IF Renews(row)
           THEN /\ n < MaxRequests /\ n' = n + 1
                /\ reqs' = [Written(c) EXCEPT ![n + 1] = Renewed(row, u, r)]
           ELSE /\ n' = n
                /\ reqs' = Written(c)
        /\ Done(c)
        /\ UNCHANGED <<line, clock, Reminders, Counters>>

Noted(history, S) == [r \in Ids |-> IF r \in S THEN history[r] + 1 ELSE history[r]]

Reminding(c) == {r \in Touched(c) : New(c, r).status = "pending"}

Commit(c) ==
    /\ txn[c].op \in Tasks \ {"pay"}
    /\ reqs' = Written(c)
    /\ autos' = IF txn[c].op = "maintain" THEN Noted(autos, Reminding(c)) ELSE autos
    /\ manuals' = IF txn[c].op = "remind" THEN Noted(manuals, Reminding(c)) ELSE manuals
    /\ Done(c)
    /\ UNCHANGED <<n, Balances, Counters, clock, paid>>

-----------------------------------------------------------------------------
(* Under locks.                                                            *)

\* the oldest of those selected
Batch(S) == {r \in S : Cardinality({o \in S : o < r}) < BatchLimit}

\* the worker's round
MaintainAll ==
    LET S == Batch({r \in 1..n : Selected(reqs[r], clock)})
    IN  /\ reqs' = [r \in Ids |-> IF r \in S THEN Maintained(reqs[r], clock)
                                  ELSE reqs[r]]
        /\ autos' = Noted(autos, {r \in S : Silent(reqs[r], clock)})
        /\ UNCHANGED <<n, Balances, Work, Counters, clock, paid, manuals, astray>>

\* a transfer to a paytag, from the wallet and the credit line
Transfer(u, v) ==
    LET f == Mirrored(wallet[u], line[u].avail, TransferAmount) IN
    /\ u # v
    /\ transfers < MaxTransfers /\ transfers' = transfers + 1
    /\ NewDebt(wallet[u], TransferAmount) <= line[u].avail
    /\ wallet' = [wallet EXCEPT ![u] = @ - f.debit, ![v] = @ + TransferAmount]
    /\ line' = [line EXCEPT ![u] = Draw(@, f.credit)]
    /\ flow' = Moved(u, v, TransferAmount)
    /\ UNCHANGED <<reqs, n, Work, Reminders, clock, paid, astray, lost, ops>>

Tick ==
    /\ clock < Horizon /\ clock' = clock + 1
    /\ UNCHANGED <<reqs, n, Balances, Work, Reminders, Counters, paid, astray>>

Next ==
    \/ \E o \in Offers : Create(o)
    \/ \E c \in Sessions, op \in Tasks \ {"view", "maintain"}, u \in Users, r \in Ids :
          Answer(c, op, u, r)
    \/ \E c \in Sessions, S \in SUBSET Ids : View(c, S)
    \/ \E c \in Sessions, u \in Users : MaintainOwn(c, u)
    \/ \E c \in Sessions, r \in Ids : ReadFunds(c, r) \/ Settle(c, r)
    \/ \E c \in Sessions : Commit(c)
    \/ MaintainAll
    \/ \E u \in Users, v \in Users : Transfer(u, v)
    \/ Tick

Spec == Init /\ [][Next]_vars

\* the worker comes back every few seconds; nobody need answer a request
FairSpec == Spec /\ WF_vars(MaintainAll)

-----------------------------------------------------------------------------
(* Properties.                                                             *)

\* A request is paid once and then says so, and what is refused, withdrawn or
\* expired was never paid, unless a session wrote it from a row no longer true.
PaidMatches ==
    \A r \in Ids \ astray : paid[r] = IF reqs[r].status = "paid" THEN 1 ELSE 0

\* the requests that renew r; those that ask for o
Renewals(r) == {s \in Ids : reqs[s].prev = r}
Series(o) == {r \in Ids : reqs[r].offer = o}

\* how often r has been paid and may still be
Share(r) == paid[r] + (IF reqs[r].status = "pending" THEN reqs[r].count ELSE 0)

\* However payments overlap, each that calls for another request is followed by
\* one, and nothing else is; and a series asks for no more payments than the
\* requester wanted, unless one of its requests was written stale.
SeriesIsBounded ==
    /\ \A r \in Ids :
        Cardinality(Renewals(r)) =
            IF reqs[r].status # "none" /\ Renews(reqs[r]) THEN paid[r] ELSE 0
    /\ \A o \in Offers :
        o.count # None /\ Series(o) \intersect astray = {}
            => Total([r \in Series(o) |-> Share(r)], Series(o)) <= o.count

\* What makes that inductive: what a session holds agrees with the row in what no
\* commit changes, and a series without an end stays one.
Origin(row) == <<row.offer, row.due, row.count, row.prev>>

SeriesInv ==
    /\ \A r \in Ids :
        /\ r > n => reqs[r].prev = 0 /\ reqs[r].offer = None /\ paid[r] = 0
        /\ r <= n => (reqs[r].count = None <=> reqs[r].offer.count = None)
    /\ \A c \in Sessions, r \in Ids :
        held[c][r] # None => Origin(held[c][r]) = Origin(reqs[r])
    /\ SeriesIsBounded

\* A balance is what came in less what went out, unless a payment overwrote it with
\* one computed from a balance no longer true.
BalanceMatchesFlow ==
    \A u \in Users \ lost : wallet[u] = Start0[u] + flow[u]

\* A payer hears of a due date once, and of the requester's impatience no more
\* than once per cooldown, with the exception of PaidMatches.
RemindersAreSpaced ==
    \A r \in Ids \ astray :
        /\ autos[r] <= 1
        /\ manuals[r] > 1 => (manuals[r] - 1) * Cooldown <= clock

\* requests the worker's batch has room for, and has something to do for
Waiting(r) ==
    /\ r <= n /\ Cardinality({o \in 1..(r - 1) : Selected(reqs[o], clock)}) < BatchLimit
    /\ Expired(reqs[r], clock) \/ Silent(reqs[r], clock)

\* A request among the oldest that are due or expired is seen to: it expires, or
\* its payer is reminded.  (Those past the limit wait for the ones before them,
\* which stay selected until they are paid or withdrawn.)
OldestAreSeenTo == \A r \in Ids : Waiting(r) ~> ~Waiting(r)
=============================================================================
