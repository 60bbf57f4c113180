------------------------------- MODULE P2PTrades -------------------------------
(***************************************************************************)
(* P2P trades: offers with their liquidity, trades from creation to        *)
(* release, expiry or dispute, and the chain deposits that lock a trade.   *)
(*                                                                         *)
(* Every handler reads the rows it needs without a lock, decides, and      *)
(* writes the columns it changed by primary key when its session flushes:  *)
(* sess[p] is what session p has decided to write.  Two handlers do        *)
(* something between decision and write that cannot be undone: they        *)
(* release the crypto to the buyer.  The expiration worker has a session   *)
(* of its own, for ever; the other handlers are requests, webhooks and     *)
(* the chain watcher.  Reads of one handler before its first write are one *)
(* step, except the worker's.                                              *)
(***************************************************************************)
EXTENDS P2PRules, Totals

CONSTANTS
    Trades, Offers, Transfers,
    Disputes,     \* dispute ids (a bound)
    Requests,     \* sessions of the requests and of the chain watcher
    Worker,       \* the session of p2p_expiration_worker
    OfferOf,      \* the offer a trade is made on
    Amount,       \* token_amount of a trade
    Received,     \* the amount of a transfer
    RefOf,        \* the trade whose escrow_deposit_ref a webhook quotes, or None
    Addressed,    \* the trades whose escrow_deposit_addr a transfer pays
    Stock,        \* available_amount of a new offer
    Managed,      \* offers whose owner changes them, and
    Quantities,   \* the amounts it sets (bounds)
    Routes,       \* how transfers are delivered (a bound)
    Sandbox,      \* trades the sandbox endpoint is used on
    Parallel,     \* how many sessions may overlap
    MaxFaults,    \* bound on exceptions, crashes and SQL errors
    None,
    Keep,         \* "this column is not written"
    Forged        \* the made-up hash of the sandbox endpoint

ASSUME P2PAssumption ==
    /\ Worker \notin Requests
    /\ OfferOf \in [Trades -> Offers]
    /\ Amount \in [Trades -> Nat \ {0}]
    /\ Received \in [Transfers -> Nat]
    /\ RefOf \in [Transfers -> Trades \union {None}]
    /\ Addressed \in [Transfers -> SUBSET Trades]
    /\ Stock \in [Offers -> Nat]
    /\ Managed \subseteq Offers /\ Quantities \subseteq Nat
    /\ Routes \subseteq {"watcher", "webhook", "provider"}
    /\ Sandbox \subseteq Trades
    /\ Parallel \in Nat /\ MaxFaults \in Nat
    /\ None \notin Trades \union Transfers \union {Keep, Forged}
    /\ Keep \notin Nat \union BOOLEAN \union Transfers \union {Forged}
    /\ Keep \notin TradeStatus \union {"NONE", "watcher", "webhook", "provider"}
    /\ Forged \notin Transfers
    /\ None \notin [d : Disputes, trade : Trades, open : BOOLEAN]

ASSUME TradesAreFinite == IsFiniteSet(Trades)

VARIABLES
    trades,     \* p2p.trades: status ("NONE" before the INSERT) and escrow_tx_hash
    avail,      \* p2p.offers.available_amount
    active,     \* p2p.offers.is_active
    deposits,   \* p2p.chain_deposits
    disputes,   \* p2p.disputes
    journaled,  \* trades with a ledger journal (tx_id = the trade)
    released,   \* calls of release_crypto_to_buyer, by trade
    due,        \* trades whose expires_at has passed
    sess,       \* the sessions
    faults

vars == <<trades, avail, active, deposits, disputes, journaled, released, due,
          sess, faults>>

-----------------------------------------------------------------------------
Procs == Requests \union {Worker}

Hashes == Transfers \union {Forged}

\* how a transfer reaches process_transfer: from the chain watcher, from a
\* webhook with its deposit reference, or from a provider that also names its event
Ways == {"watcher", "webhook", "provider"}

DepositType == [state : {"ABSENT", "UNMATCHED", "AMBIGUOUS", "MATCHED"},
                trade : Trades \union {None}, via : Ways \union {None}]

RowType == [x : Transfers, state : {"UNMATCHED", "AMBIGUOUS", "MATCHED"},
            trade : Trades \union {None}, via : Ways \union {Keep}]

SessionType ==
    [at      : {"idle", "expire", "flush", "release", "journal", "write", "wedged"},
     left    : SUBSET Trades,              \* trades the worker has not visited yet
     trades  : SUBSET Trades,              \* the trades it writes, and
     status  : TradeStatus \union {Keep},  \* what it writes to them
     hash    : Hashes \union {Keep},
     avail   : [Offers -> Nat \union {Keep}],
     active  : [Offers -> BOOLEAN \union {Keep}],
     row     : RowType \union {None},      \* the chain deposit it writes
     dispute : [d : Disputes, trade : Trades, open : BOOLEAN] \union {None},
     holds   : BOOLEAN]                    \* it has flushed: its trades are locked

Nothing ==
    [at |-> "idle", left |-> {}, trades |-> {}, status |-> Keep, hash |-> Keep,
     avail |-> [o \in Offers |-> Keep], active |-> [o \in Offers |-> Keep],
     row |-> None, dispute |-> None, holds |-> FALSE]

TypeOK ==
    /\ trades \in [Trades -> [status : TradeStatus \union {"NONE"},
                              hash : Hashes \union {None}]]
    /\ avail \in [Offers -> Nat]
    /\ active \in [Offers -> BOOLEAN]
    /\ deposits \in [Transfers -> DepositType]
    /\ disputes \in [Disputes -> [trade : Trades \union {None}, open : BOOLEAN]]
    /\ journaled \subseteq Trades
    /\ released \in [Trades -> Nat]
    /\ due \subseteq Trades
    /\ sess \in [Procs -> SessionType]
    /\ faults \in 0..MaxFaults

Init ==
    /\ trades = [t \in Trades |-> [status |-> "NONE", hash |-> None]]
    /\ avail = Stock
    /\ active = [o \in Offers |-> TRUE]
    /\ deposits = [x \in Transfers |->
                    [state |-> "ABSENT", trade |-> None, via |-> None]]
    /\ disputes = [d \in Disputes |-> [trade |-> None, open |-> FALSE]]
    /\ journaled = {}
    /\ released = [t \in Trades |-> 0]
    /\ due = {}
    /\ sess = [p \in Procs |-> Nothing]
    /\ faults = 0

Status(t) == trades[t].status

Idle(p) ==
    /\ sess[p].at = "idle"
    /\ Cardinality({q \in Procs : sess[q].at # "idle"}) < Parallel

rows == <<trades, avail, active, deposits, disputes>>

\* a handler has read and decided: w is what it will write
Decided(p, w) ==
    /\ sess' = [sess EXCEPT ![p] = w]
    /\ UNCHANGED <<rows, journaled, released, due, faults>>

Writes == [Nothing EXCEPT !.at = "write"]

Fresh(t) == Status(t) = "NONE" /\ \A q \in Procs : t \notin sess[q].trades

Awaiting(t) == Status(t) = "AWAITING_CRYPTO"

-----------------------------------------------------------------------------
(* Variants.  Each repeats an operator of this module with one plausible   *)
(* mistake.  They are used by no action; PROJECT.json names the property that *)
(* shows the mistake.                                                      *)

\* the buyer may declare the payment before the crypto is locked
FiatSentEarly(p, t) ==
    /\ Idle(p) /\ p # Worker
    /\ Status(t) \in {"AWAITING_FIAT", "CRYPTO_LOCKED", "AWAITING_CRYPTO"}
    /\ Decided(p, [Writes EXCEPT !.trades = {t}, !.status = "FIAT_SENT"])

\* a confirmation may be repeated
ConfirmFiatAgain(p, t) ==
    /\ Idle(p) /\ p # Worker
    /\ Status(t) \in {"FIAT_SENT", "RELEASED"}
    /\ Decided(p, [Nothing EXCEPT !.at = "flush", !.trades = {t},
                                  !.status = "FIAT_CONFIRMED"])

\* the resolution for the seller forgets the status of the trade
ResolveDisputeOnly(p, t, d) ==
    /\ Idle(p) /\ p # Worker
    /\ Status(t) = "DISPUTED"
    /\ disputes[d] = [trade |-> t, open |-> TRUE]
    /\ \E buyer \in BOOLEAN :
         Decided(p, [Nothing EXCEPT
           !.at = IF buyer THEN "release" ELSE "write", !.trades = {t},
           !.status = IF buyer THEN "RELEASED" ELSE Keep,
           !.dispute = [d |-> d, trade |-> t, open |-> FALSE]])

\* the offer is read again for every trade: the session's own addition is lost
ExpireNextReread ==
    /\ sess[Worker].at = "expire"
    /\ \E t \in sess[Worker].left :
         LET o    == OfferOf[t]
             rest == sess[Worker].left \ {t}
         IN  Decided(Worker, [sess[Worker] EXCEPT
               !.left = rest, !.avail[o] = avail[o] + Amount[t],
               !.at = IF rest = {} THEN "write" ELSE "expire"])

\* no unique index on escrow_tx_hash
ClashNever(p) == FALSE

-----------------------------------------------------------------------------
(* Offers and the creation of trades. *)

\* create_trade, also behind market_order: the liquidity is read, checked and
\* written back as an absolute value
CreateTrade(p, t) ==
    LET o == OfferOf[t] IN
    /\ Idle(p) /\ p # Worker
    /\ Fresh(t)
    /\ active[o]
    /\ Amount[t] <= avail[o]
    /\ Decided(p, [Writes EXCEPT !.trades = {t}, !.status = "AWAITING_CRYPTO",
                                 !.avail[o] = avail[o] - Amount[t]])

NoOpenTrades(o) == \A t \in Trades : OfferOf[t] = o => Status(t) \notin Blocking

\* the value SQLAlchemy sends: none when it is the one that was loaded
Changed(new, loaded) == IF new = loaded THEN Keep ELSE new

UpdateOffer(p, o, n) ==
    /\ Idle(p) /\ p # Worker
    /\ NoOpenTrades(o)
    /\ Decided(p, [Writes EXCEPT !.avail[o] = Changed(n, avail[o])])

SetActive(p, o, b) ==
    /\ Idle(p) /\ p # Worker
    /\ ~b => NoOpenTrades(o)
    /\ Decided(p, [Writes EXCEPT !.active[o] = Changed(b, active[o])])

-----------------------------------------------------------------------------
(* Chain deposits. *)

Single(S) == \E t \in S : S = {t}

\* _resolve_trade: by reference, then by address, then by address and amount
Match(x, via) ==
    LET quoted == {t \in Trades : via # "watcher" /\ RefOf[x] = t /\ Awaiting(t)}
        near   == {t \in Addressed[x] : Awaiting(t)}
        exact  == {t \in near : Amount[t] = Received[x]}
    IN  IF quoted # {} THEN quoted
        ELSE IF Single(near) THEN near
        ELSE IF Single(exact) THEN exact ELSE {}

\* process_p2p_chain_deposit_webhook answers DUPLICATE
KnownEvent(x, via) == via = "provider" /\ deposits[x].via = "provider"

\* a variant: the row is MATCHED, the hash of the trade is not written
DeliverNoHash(p, x, via) ==
    /\ Idle(p) /\ p # Worker
    /\ ~KnownEvent(x, via)
    /\ \E t \in Match(x, via) :
         /\ trades[t].hash = None
         /\ Decided(p, [Writes EXCEPT
              !.trades = {t}, !.status = "CRYPTO_LOCKED",
              !.row = [x |-> x, state |-> "MATCHED", trade |-> t, via |-> via]])

Deliver(p, x, via) ==
    /\ Idle(p) /\ p # Worker
    /\ ~KnownEvent(x, via)
    /\ \E t \in Match(x, via) :
         /\ trades[t].hash = None
         /\ Decided(p, [Writes EXCEPT
              !.trades = {t}, !.status = "CRYPTO_LOCKED", !.hash = x,
              !.row = [x |-> x, state |-> "MATCHED", trade |-> t, via |-> via]])

\* no trade, or more than one: the row is written for a later assignment
DeliverUnmatched(p, x, via) ==
    /\ Idle(p) /\ p # Worker
    /\ ~KnownEvent(x, via)
    /\ Match(x, via) = {}
    /\ \E state \in {"UNMATCHED", "AMBIGUOUS"} :
         /\ state = "UNMATCHED" <=> \A t \in Addressed[x] : ~Awaiting(t)
         /\ Decided(p, [Writes EXCEPT
              !.row = [x |-> x, state |-> state, trade |-> None, via |-> via]])

\* the reference kept in the metadata of the row
StoredRef(x) == IF deposits[x].via \in {"webhook", "provider"} THEN RefOf[x] ELSE None

\* _assign_chain_deposit_to_trade, by hand or by auto_assign_chain_deposit
Assign(p, x, t) ==
    /\ Idle(p) /\ p # Worker
    /\ deposits[x].state # "ABSENT" /\ deposits[x].trade = None
    /\ Awaiting(t)
    /\ StoredRef(x) \in {None, t}
    /\ t \in Addressed[x]
    /\ trades[t].hash = None
    /\ Decided(p, [Writes EXCEPT
         !.trades = {t}, !.status = "CRYPTO_LOCKED", !.hash = x,
         !.row = [x |-> x, state |-> "MATCHED", trade |-> t, via |-> Keep]])

\* sandbox_crypto_locked: the table refuses its EXPIRED case
SandboxLock(p, t) ==
    /\ Idle(p) /\ p # Worker
    /\ t \in Sandbox
    /\ Status(t) \in {"AWAITING_CRYPTO", "EXPIRED"}
    /\ CanMove(Status(t), "CRYPTO_LOCKED")
    /\ Decided(p, [Writes EXCEPT !.trades = {t}, !.status = "CRYPTO_LOCKED",
                                 !.hash = Forged])

-----------------------------------------------------------------------------
(* Payment, release and disputes. *)

\* mark_fiat_sent and the agent's link: AWAITING_FIAT and FIAT_SENT in one commit
FiatSent(p, t) ==
    /\ Idle(p) /\ p # Worker
    /\ Status(t) \in {"AWAITING_FIAT", "CRYPTO_LOCKED"}
    /\ Decided(p, [Writes EXCEPT !.trades = {t}, !.status = "FIAT_SENT"])

\* confirm_fiat_received up to the first query after the change of status
ConfirmFiat(p, t) ==
    /\ Idle(p) /\ p # Worker
    /\ Status(t) = "FIAT_SENT"
    /\ Decided(p, [Nothing EXCEPT !.at = "flush", !.trades = {t},
                                  !.status = "FIAT_CONFIRMED"])

\* a row another session has flushed is locked until that session's commit
Unlocked(p) ==
    \A q \in Procs \ {p} : sess[q].holds =>
        sess[p].status = Keep \/ sess[p].trades \intersect sess[q].trades = {}

Flush(p) ==
    /\ sess[p].at = "flush"
    /\ Unlocked(p)
    /\ Decided(p, [sess[p] EXCEPT !.at = "release", !.holds = TRUE])

\* release_crypto_to_buyer: not undone by a rollback
Release(p) ==
    /\ sess[p].at = "release"
    /\ released' = [t \in Trades |-> released[t] + (IF t \in sess[p].trades THEN 1 ELSE 0)]
    /\ sess' = [sess EXCEPT ![p] =
                  [@ EXCEPT !.at = IF sess[p].holds THEN "journal" ELSE "write"]]
    /\ UNCHANGED <<rows, journaled, due, faults>>

\* ledger_release: post_journal commits FIAT_CONFIRMED, and with it drops the
\* row lock, before the handler goes on to RELEASED
PostJournal(p) ==
    /\ sess[p].at = "journal"
    /\ sess[p].trades \intersect journaled = {}
    /\ journaled' = journaled \union sess[p].trades
    /\ trades' = [t \in Trades |-> IF t \in sess[p].trades
                                   THEN [trades[t] EXCEPT !.status = sess[p].status]
                                   ELSE trades[t]]
    /\ sess' = [sess EXCEPT ![p] =
                  [@ EXCEPT !.at = "write", !.status = "RELEASED", !.holds = FALSE]]
    /\ UNCHANGED <<avail, active, deposits, disputes, released, due, faults>>

\* a journal of the trade exists: post_journal returns it and commits nothing
JournalExists(p) ==
    /\ sess[p].at = "journal"
    /\ sess[p].trades \intersect journaled # {}
    /\ Decided(p, [sess[p] EXCEPT !.at = "write", !.status = "RELEASED"])

OpenDispute(p, t, d) ==
    /\ Idle(p) /\ p # Worker
    /\ Status(t) # "NONE" /\ CanMove(Status(t), "DISPUTED")
    /\ disputes[d].trade = None
    /\ \A q \in Procs : sess[q].dispute # None => sess[q].dispute.d # d
    /\ Decided(p, [Writes EXCEPT
         !.trades = {t}, !.status = Changed("DISPUTED", Status(t)),
         !.dispute = [d |-> d, trade |-> t, open |-> TRUE]])

\* resolve_dispute: RESOLVED is never committed
Resolve(p, t, d) ==
    /\ Idle(p) /\ p # Worker
    /\ Status(t) = "DISPUTED"
    /\ disputes[d] = [trade |-> t, open |-> TRUE]
    /\ \E buyer \in BOOLEAN :
         Decided(p, [Nothing EXCEPT
           !.at = IF buyer THEN "release" ELSE "write", !.trades = {t},
           !.status = IF buyer THEN "RELEASED" ELSE "CANCELLED",
           !.dispute = [d |-> d, trade |-> t, open |-> FALSE]])

-----------------------------------------------------------------------------
(* The expiration worker. *)

\* one query finds every expired trade
ReadDue ==
    LET found == {t \in due : Status(t) \in Expirable} IN
    /\ Idle(Worker)
    /\ found # {}
    /\ Decided(Worker, [Nothing EXCEPT !.at = "expire", !.left = found,
                                       !.trades = found, !.status = "EXPIRED"])

\* one trade: its offer is read, unless the session has it already, and its
\* liquidity given back
ExpireNext ==
    /\ sess[Worker].at = "expire"
    /\ \E t \in sess[Worker].left :
         LET o    == OfferOf[t]
             seen == IF sess[Worker].avail[o] = Keep THEN avail[o]
                                                     ELSE sess[Worker].avail[o]
             rest == sess[Worker].left \ {t}
         IN  Decided(Worker, [sess[Worker] EXCEPT
               !.left = rest, !.avail[o] = seen + Amount[t],
               !.at = IF rest = {} THEN "write" ELSE "expire"])

-----------------------------------------------------------------------------
(* The end of a session. *)

Put(new, old) == IF new = Keep THEN old ELSE new

\* the unique index on escrow_tx_hash refuses the write
Clash(p) ==
    \E t \in Trades \ sess[p].trades :
        sess[p].hash \in Transfers /\ trades[t].hash = sess[p].hash

\* the last flush and the COMMIT
Commit(p) ==
    LET w == sess[p] IN
    /\ w.at = "write"
    /\ Unlocked(p)
    /\ ~Clash(p)
    /\ trades' = [t \in Trades |->
         IF t \in w.trades THEN [status |-> Put(w.status, trades[t].status),
                                 hash   |-> Put(w.hash, trades[t].hash)]
                           ELSE trades[t]]
    /\ avail' = [o \in Offers |-> Put(w.avail[o], avail[o])]
    /\ active' = [o \in Offers |-> Put(w.active[o], active[o])]
    /\ deposits' = [x \in Transfers |->
         IF w.row # None /\ w.row.x = x
         THEN [state |-> w.row.state, trade |-> w.row.trade,
               via   |-> Put(w.row.via, deposits[x].via)]
         ELSE deposits[x]]
    /\ disputes' = [d \in Disputes |->
         IF w.dispute # None /\ w.dispute.d = d
         THEN [trade |-> w.dispute.trade, open |-> w.dispute.open]
         ELSE disputes[d]]
    /\ sess' = [sess EXCEPT ![p] = Nothing]
    /\ UNCHANGED <<journaled, released, due, faults>>

Refused(p) ==
    /\ sess[p].at = "write"
    /\ Clash(p)
    /\ Decided(p, Nothing)

Fault(s) ==
    /\ faults < MaxFaults
    /\ faults' = faults + 1
    /\ sess' = s
    /\ UNCHANGED <<rows, journaled, released, due>>

\* an exception or a disconnection: the session is rolled back
Fail(p) ==
    /\ p # Worker /\ sess[p].at # "idle"
    /\ Fault([sess EXCEPT ![p] = Nothing])

\* an SQL error in the worker: nobody rolls its only session back
Wedge ==
    /\ sess[Worker].at \in {"idle", "expire", "write"}
    /\ Fault([sess EXCEPT ![Worker] = [Nothing EXCEPT !.at = "wedged"]])

\* the process dies and is started again
Restart == Fault([p \in Procs |-> Nothing])

\* time passes the expires_at of a trade
Expires(t) ==
    /\ Status(t) # "NONE" /\ t \notin due
    /\ due' = due \union {t}
    /\ UNCHANGED <<rows, journaled, released, sess, faults>>

-----------------------------------------------------------------------------
Continue(p) ==
    \/ Flush(p) \/ Release(p) \/ PostJournal(p) \/ JournalExists(p)
    \/ Commit(p) \/ Refused(p)

OfferStep(p) ==
    \/ \E t \in Trades : CreateTrade(p, t)
    \/ \E o \in Managed, n \in Quantities : UpdateOffer(p, o, n)
    \/ \E o \in Managed, b \in BOOLEAN : SetActive(p, o, b)

DepositStep(p) ==
    \/ \E x \in Transfers, via \in Routes : Deliver(p, x, via) \/ DeliverUnmatched(p, x, via)
    \/ \E x \in Transfers, t \in Trades : Assign(p, x, t)
    \/ \E t \in Trades : SandboxLock(p, t)

PartyStep(p) ==
    \/ \E t \in Trades : FiatSent(p, t) \/ ConfirmFiat(p, t)
    \/ \E t \in Trades, d \in Disputes : OpenDispute(p, t, d) \/ Resolve(p, t, d)

WorkerStep == ReadDue \/ ExpireNext

Next ==
    \/ \E p \in Procs : OfferStep(p) \/ DepositStep(p) \/ PartyStep(p) \/ Continue(p)
    \/ WorkerStep
    \/ \E p \in Procs : Fail(p)
    \/ Wedge \/ Restart
    \/ \E t \in Trades : Expires(t)

Spec == Init /\ [][Next]_vars

\* a session that has begun runs to its end, and the worker, an endless loop with
\* a sleep, finds a moment between the requests
FairSpec ==
    /\ Spec
    /\ \A p \in Procs : WF_vars(Continue(p))
    /\ SF_vars(ReadDue) /\ WF_vars(ExpireNext)

-----------------------------------------------------------------------------
(* The inductive invariant. *)

\* what a session is about to write is still justified when it writes it,
\* however long ago it read the rows it decided on
Justified(w) ==
    /\ w.at = "flush" => w.status = "FIAT_CONFIRMED"
    /\ w.at = "journal" => w.holds /\ w.status = "FIAT_CONFIRMED"
    /\ w.at = "release" => \/ w.holds /\ w.status = "FIAT_CONFIRMED"
                           \/ ~w.holds /\ w.dispute # None /\ w.status = "RELEASED"
    /\ w.status = "CRYPTO_LOCKED" => w.hash # Keep
    /\ w.hash # Keep => w.status = "CRYPTO_LOCKED" /\ \E t \in Trades : w.trades = {t}
    /\ w.status \notin {"CREATED", "AWAITING_FIAT", "RESOLVED"}
    /\ w.status \in {"FIAT_SENT", "FIAT_CONFIRMED"} =>
         w.dispute = None /\ \A t \in w.trades : trades[t].hash # None
    /\ w.status = "RELEASED" /\ w.dispute = None =>
         \A t \in w.trades : trades[t].hash # None
    /\ w.status = "DISPUTED" => w.dispute # None /\ w.dispute.open
    /\ w.dispute # None =>
         /\ w.trades = {w.dispute.trade}
         /\ w.dispute.open => disputes[w.dispute.d].trade = None
                              /\ w.status \in {"DISPUTED", Keep}
         /\ ~w.dispute.open => disputes[w.dispute.d].trade = w.dispute.trade
                               /\ w.status \in {"RELEASED", "CANCELLED"}
    /\ w.row # None /\ w.row.state = "MATCHED" =>
         w.row.trade \in w.trades /\ w.hash # Keep

SessionsJustified == \A p \in Procs : Justified(sess[p])

\* a new dispute row belongs to the session that inserts it
DisputesOwned ==
    \A p, q \in Procs :
        p # q /\ sess[p].dispute # None /\ sess[q].dispute # None
              /\ sess[p].dispute.d = sess[q].dispute.d
        => ~sess[p].dispute.open

\* a trade that waits for fiat, or has it, had its crypto locked
PaidHasHash ==
    \A t \in Trades :
        Status(t) \in {"CRYPTO_LOCKED", "AWAITING_FIAT", "FIAT_SENT", "FIAT_CONFIRMED"}
            => trades[t].hash # None

\* a MATCHED deposit row names a trade whose crypto is locked
MatchedIsLocked ==
    \A x \in Transfers : deposits[x].state = "MATCHED" =>
        deposits[x].trade \in Trades /\ trades[deposits[x].trade].hash # None

(* Properties of every interleaving, with faults. *)

\* Crypto leaves the escrow only for a trade whose deposit was recorded, or by
\* the decision of an administrator on a dispute: release_crypto_to_buyer is
\* reached from FIAT_SENT, and stale writes of other sessions cannot lead a trade
\* there without its hash.
FundedBeforeRelease ==
    \A t \in Trades : released[t] > 0 =>
        trades[t].hash # None \/ \E d \in Disputes : disputes[d].trade = t

\* A trade in DISPUTED can be resolved: resolve_dispute refuses a trade without
\* an open dispute row, and no other handler leaves DISPUTED.
DisputesResolvable ==
    \A t \in Trades : Status(t) = "DISPUTED" =>
        \E d \in Disputes : disputes[d] = [trade |-> t, open |-> TRUE]

\* One transfer locks one trade, although deliveries and assignments of it by
\* concurrent sessions each find a trade of their own.
OneTradePerTransfer ==
    \A t, u \in Trades :
        trades[t].hash \in Transfers /\ trades[t].hash = trades[u].hash => t = u

P2PInv ==
    /\ TypeOK
    /\ SessionsJustified
    /\ DisputesOwned
    /\ PaidHasHash
    /\ MatchedIsLocked
    /\ FundedBeforeRelease
    /\ DisputesResolvable
    /\ OneTradePerTransfer

(* Properties of runs without overlap and without faults. *)

Serial == Parallel = 1 /\ MaxFaults = 0

Quiet == \A p \in Procs : sess[p].at = "idle"

\* what the trades of an offer have taken from it; expiry gives it back, a
\* cancellation does not
Taking(o) == {t \in Trades : OfferOf[t] = o /\ Status(t) \notin {"NONE", "EXPIRED"}}

Taken(o) == Total(Amount, Taking(o))

\* While an offer has an open trade, what it has available and what its trades
\* have taken adds up to the same: creation and expiry move liquidity, and only
\* the owner of an offer without open trades changes it.
LiquidityConserved ==
    [][\A o \in Offers :
         \/ avail'[o] + Taken(o)' = avail[o] + Taken(o)
         \/ NoOpenTrades(o) /\ NoOpenTrades(o)']_vars

\* The crypto of a trade is released once, whether its seller confirms, repeats
\* the confirmation, or an administrator decides, and the trade is RELEASED when no
\* session works on it any more: confirm_fiat_received commits FIAT_CONFIRMED
\* half-way.
ReleasedOnce ==
    \A t \in Trades :
        /\ released[t] <= 1
        /\ Quiet /\ released[t] > 0 => Status(t) = "RELEASED"

\* The row of a transfer and the trade it names agree on each other, and a trade
\* that was paid into never expires.
MatchIsMutual ==
    /\ \A x \in Transfers : deposits[x].state = "MATCHED" =>
          trades[deposits[x].trade].hash = x
    /\ \A t \in Trades : Status(t) = "EXPIRED" => trades[t].hash = None

\* A trade past its expires_at does not wait for crypto for ever.
DueTradesLeave ==
    \A t \in Trades : (t \in due /\ Awaiting(t)) ~> ~Awaiting(t)

=============================================================================
