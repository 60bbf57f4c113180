--------------------------- MODULE EscrowSettlement ---------------------------
(***************************************************************************)
(* How a funded escrow order is paid out or refunded.                      *)
(*                                                                         *)
(* Three groups of handlers write the status of the same order, each in a  *)
(* database session of its own, at READ COMMITTED and without a row lock:  *)
(*   - the handlers of routers/escrow and the sandbox worker read the      *)
(*     order, check its status, and overwrite it by primary key when they  *)
(*     commit (table Handlers);                                            *)
(*   - assign_agent_and_notify reserves liquidity and assigns a payout     *)
(*     agent (services/payout_orchestrator.py);                            *)
(*   - confirm_assignment records that the agent has paid (api/agent.py).  *)
(* A session is a process: its program counter and what it read.  Every    *)
(* payout has amount 1; funding, detailed in EscrowFunding, is one step.   *)
(***************************************************************************)
EXTENDS EscrowRules, Naturals, Sequences, FiniteSets

CONSTANTS
    Orders,
    Sandbox,     \* orders flagged SANDBOX
    FiatToCrypto,     \* orders of the flow FIAT_TO_CRYPTO
    Agents, Sessions,
    Ids,         \* assignment ids uuid4 can hand out (a bound)
    Limit,       \* daily_limit_bif of an agent; 0 means none
    MaxFaults,   \* bound on exceptions and crashes
    None

ASSUME SettlementAssumption ==
    /\ Sandbox \subseteq Orders /\ FiatToCrypto \subseteq Orders
    /\ Ids \subseteq Nat
    /\ Limit \in Nat /\ MaxFaults \in Nat
    /\ IsFiniteSet(Sessions)

VARIABLES
    status,    \* escrow.orders.status
    book,      \* the ledger journals with tx_id = the order
    payouts,   \* number of CONFIRMED rows in escrow.payouts
    reserve,   \* reservation journals, by the assignment_id of their metadata
    rows,      \* paylink.assignments
    used,      \* paylink.agents.daily_used_bif
    outs,      \* number of AGENT_PAYOUT_CONFIRMED journals of an assignment
    sess,      \* the sessions
    faults

vars == <<status, book, payouts, reserve, rows, used, outs, sess, faults>>

-----------------------------------------------------------------------------
Events == {"FUND", "SWAP", "PAYOUT", "FIAT_IN", "RELEASE"}

NoEvent == "none"

Handler(name, orders, from, to, event) ==
    [name |-> name, orders |-> orders, from |-> from, to |-> to, event |-> event]

\* the status handlers: which orders they accept, the status they require, the
\* status they write and the journal they post
MarkPaid == Handler("mark_paid", Orders \ FiatToCrypto, {"PAYOUT_PENDING"}, "PAID_OUT", "PAYOUT")

ConfirmFiatIn == Handler("confirm_fiat_in", FiatToCrypto, {"SWAPPED"}, "PAYOUT_PENDING", "FIAT_IN")

ConfirmCryptoRelease ==
    Handler("confirm_crypto_release", FiatToCrypto, {"PAYOUT_PENDING"}, "PAID_OUT", "RELEASE")

MarkPayoutPending ==
    Handler("payout_pending", Orders, {"SWAPPED"}, "PAYOUT_PENDING", NoEvent)

ConfirmPaidOut == Handler("paid_out", Orders, {"PAYOUT_PENDING"}, "PAID_OUT", "PAYOUT")

RequestRefund ==
    Handler("request_refund", Orders, {t \in Status : Valid(t, "REFUND_PENDING")},
            "REFUND_PENDING", NoEvent)

ConfirmRefund ==
    Handler("confirm_refund", Orders, {t \in Status : Valid(t, "REFUNDED")},
            "REFUNDED", NoEvent)

\* the actions of escrow.py on a sandbox order.  FUND, PAYOUT_PENDING, PAYOUT,
\* FIAT_IN and CRYPTO_RELEASE do what SandboxFund, MarkPayoutPending, MarkPaid,
\* ConfirmFiatIn and ConfirmCryptoRelease do.
SimulateSwap == Handler("SWAP", Sandbox, {"FUNDED"}, "SWAPPED", "SWAP")

\* sandbox.py; its PAYOUT_STUCK scenario does what MarkPayoutPending does
SandboxFund   == Handler("sandbox_fund", Sandbox, {"CREATED"}, "FUNDED", "FUND")
SandboxSwap   == Handler("sandbox_swap", Sandbox, {"FUNDED"}, "SWAPPED", "SWAP")
SandboxPayout == Handler("sandbox_payout", Sandbox, {"SWAPPED"}, "PAID_OUT", "PAYOUT")

\* the sandbox worker, one order at a time
AutoTransitions == {
    Handler("auto_fund", Sandbox, {"CREATED"}, "FUNDED", NoEvent),
    Handler("auto_swap", Sandbox, {"FUNDED"}, "SWAPPED", NoEvent),
    Handler("auto_pay", Sandbox, {"SWAPPED"}, "PAID_OUT", NoEvent) }

Handlers == {MarkPaid, ConfirmFiatIn, ConfirmCryptoRelease, MarkPayoutPending,
             ConfirmPaidOut, RequestRefund, ConfirmRefund, SimulateSwap,
             SandboxFund, SandboxSwap, SandboxPayout} \union AutoTransitions

\* the sandbox SWAP is the only one of them that assigns an agent afterwards
After(h) == IF h.name = "SWAP" THEN "assign" ELSE "idle"

Points == {"idle", "check", "post", "write",                     \* Handlers
           "assign", "reuse", "pick", "reserve", "book", "commit", \* assign_agent
           "pay", "settle"}                                      \* confirm_assignment

\* what a session holds: the order, the handler, the status it read, the
\* assignment id and the agent
SessionType == [at : Points, order : Orders \union {None},
                job : Handlers \union {None}, seen : Status \union {None},
                id : Ids \union {None}, agent : Agents \union {None}]

Idle == [at |-> "idle", order |-> None, job |-> None, seen |-> None,
         id |-> None, agent |-> None]

Reservation == [order : Orders, agent : Agents]

AssignmentType == [order : Orders, agent : Agents, state : {"ASSIGNED", "CONFIRMED"}]

ASSUME NoneAssumption == None \notin Reservation \union AssignmentType \union Handlers

TypeOK ==
    /\ status \in [Orders -> Status]
    /\ book \in [Orders -> Seq(Events)]
    /\ payouts \in [Orders -> Nat]
    /\ reserve \in [Ids -> Reservation \union {None}]
    /\ rows \in [Ids -> AssignmentType \union {None}]
    /\ used \in [Agents -> Nat]
    /\ outs \in [Ids -> Nat]
    /\ sess \in [Sessions -> SessionType]
    /\ faults \in Nat

Init ==
    /\ status = [o \in Orders |-> "CREATED"]
    /\ book = [o \in Orders |-> <<>>]
    /\ payouts = [o \in Orders |-> 0]
    /\ reserve = [i \in Ids |-> None]
    /\ rows = [i \in Ids |-> None]
    /\ used = [a \in Agents |-> 0]
    /\ outs = [i \in Ids |-> 0]
    /\ sess = [p \in Sessions |-> Idle]
    /\ faults = 0

At(p, l) == sess[p].at = l

Goto(p, l) == sess' = [sess EXCEPT ![p].at = l]

Finish(p) == sess' = [sess EXCEPT ![p] = Idle]

-----------------------------------------------------------------------------
(* Variants: each repeats one of the definitions below with a plausible      *)
(* mistake.  They are used by no action; PROJECT.json names the property that *)
(* must notice each of them.                                                 *)

\* the webhook funds the order without its journal
DepositNoJournal(p, o) ==
    /\ At(p, "idle")
    /\ status[o] = "CREATED"
    /\ status' = [status EXCEPT ![o] = "FUNDED"]
    /\ sess' = [sess EXCEPT ![p] = [Idle EXCEPT !.at = "assign", !.order = o]]
    /\ UNCHANGED <<book, payouts, reserve, rows, used, outs, faults>>

\* the limit is compared before the amount is added
EligibleBefore ==
    {a \in Agents : /\ \A q \in Sessions : ~(sess[q].agent = a
                                              /\ sess[q].at \in {"reserve", "commit"})
                    /\ Limit = 0 \/ used[a] <= Limit}

\* an agent must stay below its limit
EligibleBelow ==
    {a \in Agents : /\ \A q \in Sessions : ~(sess[q].agent = a
                                              /\ sess[q].at \in {"reserve", "commit"})
                    /\ Limit = 0 \/ used[a] + 1 < Limit}

\* a confirmed assignment can be confirmed again
ReadConfirmAgain(p, i) ==
    /\ At(p, "idle")
    /\ rows[i] # None
    /\ sess' = [sess EXCEPT ![p] = [Idle EXCEPT
                    !.at = "pay", !.order = rows[i].order, !.id = i]]
    /\ UNCHANGED <<status, book, payouts, reserve, rows, used, outs, faults>>

-----------------------------------------------------------------------------
(* The status handlers *)

Start(p, o, h) ==
    /\ At(p, "idle")
    /\ o \in h.orders
    /\ status[o] \in h.from
    /\ sess' = [sess EXCEPT ![p] = [Idle EXCEPT
                    !.at = IF h.event = NoEvent THEN "write" ELSE "check",
                    !.order = o, !.job = h, !.seen = status[o]]]
    /\ UNCHANGED <<status, book, payouts, reserve, rows, used, outs, faults>>

\* PaylinkLedgerService.post_journal: any journal of the order counts as the
\* one to be posted
CheckJournal(p) ==
    /\ At(p, "check")
    /\ Goto(p, IF book[sess[p].order] = <<>> THEN "post" ELSE "write")
    /\ UNCHANGED <<status, book, payouts, reserve, rows, used, outs, faults>>

\* the COMMIT of a handler: the status by primary key if the handler changed
\* it, and the payout row of the backoffice
Flush(p) ==
    LET o == sess[p].order
        h == sess[p].job
    IN  /\ status' = IF h.to = sess[p].seen THEN status
                     ELSE [status EXCEPT ![o] = h.to]
        /\ payouts' = IF h.name = "paid_out" THEN [payouts EXCEPT ![o] = @ + 1]
                      ELSE payouts
        /\ IF After(h) = "idle" THEN Finish(p) ELSE Goto(p, After(h))

\* post_journal commits the caller's writes with its own
PostJournal(p) ==
    /\ At(p, "post")
    /\ book' = [book EXCEPT ![sess[p].order] = Append(@, sess[p].job.event)]
    /\ Flush(p)
    /\ UNCHANGED <<reserve, rows, used, outs, faults>>

Write(p) ==
    /\ At(p, "write")
    /\ Flush(p)
    /\ UNCHANGED <<book, reserve, rows, used, outs, faults>>

\* a deposit funds the order and posts its journal unless there is one, or is
\* blocked; the webhook then assigns an agent to the FUNDED order
Deposit(p, o) ==
    /\ At(p, "idle")
    /\ status[o] = "CREATED"
    /\ \/ /\ status' = [status EXCEPT ![o] = "FUNDED"]
          /\ book' = IF book[o] = <<>> THEN [book EXCEPT ![o] = <<"FUND">>] ELSE book
          /\ sess' = [sess EXCEPT ![p] = [Idle EXCEPT !.at = "assign", !.order = o]]
       \/ /\ status' = [status EXCEPT ![o] = "CANCELLED"]
          /\ UNCHANGED <<book, sess>>
    /\ UNCHANGED <<payouts, reserve, rows, used, outs, faults>>

-----------------------------------------------------------------------------
(* assign_agent_and_notify, for the webhook, the sandbox SWAP, or *)
(* api/ops_payout.initiate_payout, which names any order           *)

Initiate(p, o) ==
    /\ At(p, "idle")
    /\ sess' = [sess EXCEPT ![p] = [Idle EXCEPT !.at = "assign", !.order = o]]
    /\ UNCHANGED <<status, book, payouts, reserve, rows, used, outs, faults>>

RowsOf(o) == {i \in Ids : rows[i] # None /\ rows[i].order = o}

ReadAssignment(p) ==
    LET o == sess[p].order
    IN  /\ At(p, "assign")
        /\ sess' = IF RowsOf(o) = {} THEN [sess EXCEPT ![p].at = "pick"]
                   ELSE IF status[o] \in {"SWAPPED", "PAYOUT_PENDING"}
                   THEN [sess EXCEPT ![p].at = "reuse"]
                   ELSE [sess EXCEPT ![p] = Idle]
        /\ UNCHANGED <<status, book, payouts, reserve, rows, used, outs, faults>>

\* UPDATE ... WHERE status IN ('SWAPPED', 'PAYOUT_PENDING')
MakePending(o) ==
    status' = IF status[o] = "SWAPPED"
              THEN [status EXCEPT ![o] = "PAYOUT_PENDING"] ELSE status

Reuse(p) ==
    /\ At(p, "reuse")
    /\ MakePending(sess[p].order)
    /\ Finish(p)
    /\ UNCHANGED <<book, payouts, reserve, rows, used, outs, faults>>

\* the sessions holding the row lock of an agent: from the SELECT ... FOR
\* UPDATE to the commit of the reservation, and again from the UPDATE on
Locks(q, a) == sess[q].agent = a /\ sess[q].at \in {"reserve", "commit"}

Free(a) == \A q \in Sessions : ~Locks(q, a)

Eligible == {a \in Agents : Free(a) /\ (Limit = 0 \/ used[a] + 1 <= Limit)}

\* SKIP LOCKED: an agent locked by another session is passed over.  The order
\* in which agents are preferred (last_assigned_at) is abstracted.
PickAgent(p) ==
    /\ At(p, "pick")
    /\ \/ \E a \in Eligible :
            sess' = [sess EXCEPT ![p] = [@ EXCEPT !.at = "reserve", !.agent = a]]
       \/ Eligible = {} /\ Finish(p)     \* NoAvailablePayoutAgent
    /\ UNCHANGED <<status, book, payouts, reserve, rows, used, outs, faults>>

\* the reservation has a tx_id of its own, so post_journal always inserts it;
\* its commit releases the lock on the agent
Reserve(p) ==
    /\ At(p, "reserve")
    /\ \E i \in Ids :
         /\ reserve[i] = None
         /\ \A j \in Ids : j < i => reserve[j] # None
         /\ reserve' = [reserve EXCEPT ![i] =
                          [order |-> sess[p].order, agent |-> sess[p].agent]]
         /\ sess' = [sess EXCEPT ![p] = [@ EXCEPT !.at = "book", !.id = i]]
    /\ UNCHANGED <<status, book, payouts, rows, used, outs, faults>>

UpdateAgent(p) ==
    /\ At(p, "book")
    /\ Free(sess[p].agent)
    /\ Goto(p, "commit")
    /\ UNCHANGED <<status, book, payouts, reserve, rows, used, outs, faults>>

CommitAssignment(p) ==
    /\ At(p, "commit")
    /\ rows' = [rows EXCEPT ![sess[p].id] =
                  [order |-> sess[p].order, agent |-> sess[p].agent,
                   state |-> "ASSIGNED"]]
    /\ used' = [used EXCEPT ![sess[p].agent] = @ + 1]
    /\ MakePending(sess[p].order)
    /\ Finish(p)
    /\ UNCHANGED <<book, payouts, reserve, outs, faults>>

Assign(p) ==
    \/ ReadAssignment(p) \/ Reuse(p) \/ PickAgent(p) \/ Reserve(p)
    \/ UpdateAgent(p) \/ CommitAssignment(p)

-----------------------------------------------------------------------------
(* confirm_assignment *)

ReadConfirm(p, i) ==
    /\ At(p, "idle")
    /\ rows[i] # None
    /\ rows[i].state = "ASSIGNED"
    /\ sess' = [sess EXCEPT ![p] = [Idle EXCEPT
                    !.at = "pay", !.order = rows[i].order, !.id = i]]
    /\ UNCHANGED <<status, book, payouts, reserve, rows, used, outs, faults>>

\* the UPDATE of the assignment and the journal, committed by post_journal
Pay(p) ==
    LET i == sess[p].id
    IN  /\ At(p, "pay")
        /\ rows' = [rows EXCEPT ![i].state = "CONFIRMED"]
        /\ outs' = [outs EXCEPT ![i] = @ + 1]
        /\ Goto(p, "settle")
        /\ UNCHANGED <<status, book, payouts, reserve, used, faults>>

\* the order, whatever its status
Settle(p) ==
    /\ At(p, "settle")
    /\ status' = [status EXCEPT ![sess[p].order] = "PAID_OUT"]
    /\ Finish(p)
    /\ UNCHANGED <<book, payouts, reserve, rows, used, outs, faults>>

\* an exception (a risk BLOCK or REVIEW of a payout among them) or the death of
\* the process ends the session; what it committed stays
Fail(p) ==
    /\ ~At(p, "idle")
    /\ faults < MaxFaults
    /\ faults' = faults + 1
    /\ Finish(p)
    /\ UNCHANGED <<status, book, payouts, reserve, rows, used, outs>>

-----------------------------------------------------------------------------
Continue(p) == CheckJournal(p) \/ PostJournal(p) \/ Write(p) \/ Assign(p)
               \/ Pay(p) \/ Settle(p)

Next ==
    \E p \in Sessions :
        \/ \E o \in Orders, h \in Handlers : Start(p, o, h)
        \/ \E o \in Orders : Deposit(p, o) \/ Initiate(p, o)
        \/ \E i \in Ids : ReadConfirm(p, i)
        \/ Continue(p)
        \/ Fail(p)

Spec == Init /\ [][Next]_vars

\* a request that has begun is carried to its end by the event loop
FairSpec == Spec /\ \A p \in Sessions : WF_vars(Continue(p))

-----------------------------------------------------------------------------
(* Properties *)

\* the assignments of an agent
AssignedTo(a) == {i \in Ids : rows[i] # None /\ rows[i].agent = a}

\* What an agent has used of the daily limit is what is assigned to it, however
\* the sessions that assign interleave, fail or die half-way: the row and the
\* counter travel in one commit, after the commit of the reservation.  The limit is
\* read under a row lock that the commit of the reservation drops, so it can be
\* overrun, by at most one payout per other session.
OvershootBounded ==
    \A a \in Agents :
        /\ used[a] = Cardinality(AssignedTo(a))
        /\ Limit > 0 => used[a] <= Limit + Cardinality(Sessions) - 1

\* An order is assigned once, however often it is asked for; its assignment is paid
\* by the agent once, and the backoffice confirms the payout once: no handler leads
\* an order back to PAYOUT_PENDING.  What the agent has confirmed reaches the order,
\* once no session is running.
OutOnce ==
    /\ \A o \in Orders : Cardinality(RowsOf(o)) <= 1 /\ payouts[o] <= 1
    /\ \A i \in Ids : outs[i] <= 1
    /\ (\A p \in Sessions : At(p, "idle")) =>
          \A i \in Ids : rows[i] # None /\ rows[i].state = "CONFIRMED"
                           => status[rows[i].order] = "PAID_OUT"

\* no agent is left for a session: each is locked by another one, or at its limit
NoAgentFor(p) ==
    \A a \in Agents : \/ \E q \in Sessions \ {p} : Locks(q, a)
                      \/ Limit > 0 /\ used[a] + 1 > Limit

\* An order for which an agent is asked, after a deposit, a swap or by hand, gets an
\* assignment, from this request or from another one, unless there comes a time when
\* no agent is left for it: a request is turned away only then, and those that wait
\* for the row of an agent after the reservation do not wait for each other.
AssignmentFollows ==
    \A p \in Sessions, o \in Orders :
        At(p, "assign") /\ sess[p].order = o
            ~> RowsOf(o) # {} \/ NoAgentFor(p) \/ faults > 0

-----------------------------------------------------------------------------
(* The inductive invariant *)

\* what a session knows fits the point it is at
Fits(r) ==
    /\ r.at # "idle" => r.order \in Orders
    /\ r.at \in {"check", "post", "write"} => r.job \in Handlers /\ r.seen \in r.job.from
    /\ r.at \in {"check", "post"} => r.job.event \in Events
    /\ r.at \in {"reserve", "book", "commit"} => r.agent \in Agents
    /\ r.at \in {"book", "commit", "pay", "settle"} => r.id \in Ids

SessionsKnow == \A p \in Sessions : Fits(sess[p])

\* the sessions assigning an agent own their id, and its reservation matches
SessionsOwnIds ==
    /\ \A p \in Sessions : sess[p].at \in {"book", "commit"} =>
          /\ reserve[sess[p].id] = [order |-> sess[p].order, agent |-> sess[p].agent]
          /\ rows[sess[p].id] = None
    /\ \A p, q \in Sessions :
          /\ sess[p].at \in {"book", "commit"} /\ sess[q].at \in {"book", "commit"}
          /\ sess[p].id = sess[q].id
          => p = q

\* No assignment exists without the reservation journal of the same order and
\* agent, and no payment without a confirmed assignment: the ledger and the
\* table agree even when a session dies between the commits.
LedgerMatchesRows ==
    \A i \in Ids :
        /\ rows[i] # None =>
              reserve[i] = [order |-> rows[i].order, agent |-> rows[i].agent]
        /\ outs[i] > 0 <=> rows[i] # None /\ rows[i].state = "CONFIRMED"

PaidByAgent(o) == \E i \in RowsOf(o) : outs[i] > 0

Traced(o) ==
    \/ status[o] \in {"CREATED", "CANCELLED"}
    \/ book[o] # <<>>
    \/ status[o] = "PAID_OUT" /\ PaidByAgent(o)

\* An order that left CREATED by anything but a cancellation was funded, or,
\* if it is PAID_OUT, was paid by an agent: a refund or a payout of a real
\* order is never conjured from a stale read.
MoneyIsTraced == \A o \in Orders \ Sandbox : Traced(o)

\* ... because what the sessions hold is traced too
SessionsTraced ==
    \A p \in Sessions :
        /\ /\ sess[p].at \in {"check", "post", "write"}
           /\ sess[p].order \notin Sandbox
           => book[sess[p].order] # <<>>
        /\ sess[p].at \in {"pay", "settle"} =>
              rows[sess[p].id] # None /\ rows[sess[p].id].order = sess[p].order
        /\ sess[p].at = "settle" => outs[sess[p].id] > 0

\* the counter of an agent counts its assignments, of which there are finitely many
UsedIsAssigned ==
    \A a \in Agents :
        IsFiniteSet(AssignedTo(a)) /\ used[a] = Cardinality(AssignedTo(a))

\* the sessions that have picked an agent under the limit and not yet counted it
Booking(a) == {q \in Sessions : sess[q].at \in {"reserve", "book", "commit"}
                                  /\ sess[q].agent = a}

\* ... are charged to the limit from the pick on
BookedWithinLimit ==
    Limit > 0 =>
        \A a \in Agents :
            used[a] + Cardinality(Booking(a)) <= Limit + Cardinality(Sessions) - 1

SettlementInv == /\ SessionsKnow /\ SessionsOwnIds /\ LedgerMatchesRows
                 /\ MoneyIsTraced /\ SessionsTraced
                 /\ UsedIsAssigned /\ BookedWithinLimit

\* one request at a time, none of which fails: what one session has read cannot
\* become stale under another
Serial == MaxFaults = 0 /\ \A p, q \in Sessions : p = q

OneRowPerOrder ==
    \A i, j \in Ids :
        rows[i] # None /\ rows[j] # None /\ rows[i].order = rows[j].order => i = j

ReadIsCurrent ==
    \A p \in Sessions :
        /\ sess[p].at \in {"check", "post", "write"} => status[sess[p].order] = sess[p].seen
        /\ sess[p].at \in {"pick", "reserve", "book", "commit"} => RowsOf(sess[p].order) = {}
        /\ sess[p].at = "pay" => rows[sess[p].id].state = "ASSIGNED"

PaidIsFinal == \A o \in Orders : payouts[o] = 0 \/ (payouts[o] = 1 /\ status[o] = "PAID_OUT")

ConfirmedIsSettled ==
    \A i \in Ids :
        /\ outs[i] <= 1
        /\ rows[i] # None /\ rows[i].state = "CONFIRMED" =>
              \/ status[rows[i].order] = "PAID_OUT"
              \/ \E p \in Sessions : At(p, "settle") /\ sess[p].id = i

SerialInv == OneRowPerOrder /\ ReadIsCurrent /\ PaidIsFinal /\ ConfirmedIsSettled

=============================================================================
