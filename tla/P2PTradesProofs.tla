---------------------------- MODULE P2PTradesProofs ----------------------------
(***************************************************************************)
(* Proofs about P2PTrades, for any sets of sessions, trades, offers and    *)
(* transfers.  P2PInv is inductive in any overlap and with any number of   *)
(* faults; SerialInv says what holds besides, and is inductive, when the   *)
(* handlers do not overlap and none of them fails (Serial).                *)
(***************************************************************************)
EXTENDS P2PTrades, FiniteSetTheorems, TLAPS

-----------------------------------------------------------------------------
(* Sessions. *)

LEMMA NothingIsIdle ==
    /\ Nothing \in SessionType
    /\ Nothing.dispute = None /\ Nothing.row = None
    /\ Justified(Nothing)
<1> USE P2PAssumption
<1>1. Nothing \in SessionType
  BY DEF Nothing, SessionType
<1>2. /\ Nothing.dispute = None /\ Nothing.row = None /\ Nothing.trades = {}
      /\ Nothing.at = "idle" /\ Nothing.status = Keep /\ Nothing.hash = Keep
  BY DEF Nothing
<1>3. Keep \notin TradeStatus
  BY DEF P2PAssumption
<1>4. Justified(Nothing)
  BY <1>2, <1>3 DEF Justified, TradeStatus
<1> QED
  BY <1>1, <1>2, <1>4

\* a dispute row another session writes is not one this session inserts
Apart(p, w) ==
    \A q \in Procs \ {p} :
        w.dispute # None /\ sess[q].dispute # None /\ w.dispute.d = sess[q].dispute.d
        => ~w.dispute.open /\ ~sess[q].dispute.open

\* A decision changes the session only, so it is enough that what it decided is
\* justified.
LEMMA DecidedKeepsInv ==
    ASSUME P2PInv, NEW p \in Procs, NEW w \in SessionType,
           Decided(p, w), Justified(w), Apart(p, w)
    PROVE  P2PInv'
<1>1. /\ sess' = [sess EXCEPT ![p] = w]
      /\ UNCHANGED <<trades, avail, active, deposits, disputes>>
      /\ UNCHANGED <<journaled, released, due, faults>>
  BY DEF Decided, rows
<1>2. sess \in [Procs -> SessionType]
  BY DEF P2PInv, TypeOK
<1>3. /\ sess' \in [Procs -> SessionType]
      /\ sess'[p] = w
      /\ \A q \in Procs : q # p => sess'[q] = sess[q]
  BY <1>1, <1>2
<1>4. TypeOK'
  BY <1>1, <1>3 DEF P2PInv, TypeOK
<1>5. SessionsJustified'
  <2> SUFFICES ASSUME NEW q \in Procs PROVE Justified(sess[q])'
    BY DEF SessionsJustified
  <2>1. Justified(sess[q]) \/ q = p
    BY DEF P2PInv, SessionsJustified
  <2>2. CASE q = p
    BY <2>2, <1>1, <1>3 DEF Justified
  <2>3. CASE q # p
    BY <2>1, <2>3, <1>1, <1>3 DEF Justified
  <2> QED
    BY <2>2, <2>3
<1>6. DisputesOwned'
  <2> SUFFICES ASSUME NEW q \in Procs, NEW r \in Procs, q # r,
                      sess'[q].dispute # None, sess'[r].dispute # None,
                      sess'[q].dispute.d = sess'[r].dispute.d
               PROVE  ~sess'[q].dispute.open
    BY DEF DisputesOwned
  <2>1. CASE q = p
    BY <2>1, <1>3 DEF Apart
  <2>2. CASE r = p
    BY <2>2, <1>3 DEF Apart
  <2>3. CASE q # p /\ r # p
    BY <2>3, <1>3 DEF P2PInv, DisputesOwned
  <2> QED
    BY <2>1, <2>2, <2>3
<1>7. /\ PaidHasHash' /\ MatchedIsLocked' /\ FundedBeforeRelease'
      /\ DisputesResolvable' /\ OneTradePerTransfer'
  BY <1>1 DEF P2PInv, PaidHasHash, MatchedIsLocked, FundedBeforeRelease,
     DisputesResolvable, OneTradePerTransfer, Status
<1> QED
  BY <1>4, <1>5, <1>6, <1>7 DEF P2PInv

\* A write without a dispute is apart from every other.
LEMMA NoDisputeIsApart ==
    ASSUME NEW p \in Procs, NEW w, w.dispute = None
    PROVE  Apart(p, w)
  BY DEF Apart

\* A session that goes on with the dispute it has stays apart.
LEMMA SameDisputeIsApart ==
    ASSUME P2PInv, NEW p \in Procs, NEW w, w.dispute = sess[p].dispute
    PROVE  Apart(p, w)
  BY DEF Apart, P2PInv, DisputesOwned

-----------------------------------------------------------------------------
(* Steps that only decide. *)

LEMMA OfferStepKeepsInv ==
    ASSUME P2PInv, NEW p \in Procs, OfferStep(p)
    PROVE  P2PInv'
<1> USE P2PAssumption
<1>0. /\ avail \in [Offers -> Nat] /\ active \in [Offers -> BOOLEAN]
      /\ Nothing \in SessionType
  BY NothingIsIdle DEF P2PInv, TypeOK
<1>1. ASSUME NEW t \in Trades, CreateTrade(p, t) PROVE P2PInv'
  <2> DEFINE o == OfferOf[t]
             left == avail[o] - Amount[t]
             w == [Writes EXCEPT !.trades = {t}, !.status = "AWAITING_CRYPTO",
                                 !.avail[o] = left]
  <2>1. Decided(p, w) /\ Amount[t] <= avail[o]
    BY <1>1 DEF CreateTrade
  <2>2. o \in Offers /\ left \in Nat
    BY <1>0, <2>1 DEF P2PAssumption
  <2>3. w \in SessionType
    <3> HIDE DEF o, left
    <3> QED
      BY <2>2 DEF Writes, Nothing, SessionType, TradeStatus
  <2>4. /\ w.at = "write" /\ w.status = "AWAITING_CRYPTO" /\ w.hash = Keep
        /\ w.row = None /\ w.dispute = None
    BY DEF Writes, Nothing
  <2> HIDE DEF w
  <2>5. Justified(w)
    BY <2>4 DEF Justified
  <2> QED
    BY <2>1, <2>3, <2>4, <2>5, NoDisputeIsApart, DecidedKeepsInv
<1>2. ASSUME NEW o \in Managed, NEW n \in Quantities, UpdateOffer(p, o, n)
      PROVE  P2PInv'
  <2> DEFINE new == Changed(n, avail[o])
             w == [Writes EXCEPT !.avail[o] = new]
  <2>1. Decided(p, w)
    BY <1>2 DEF UpdateOffer
  <2>2. o \in Offers /\ new \in Nat \union {Keep}
    BY DEF P2PAssumption, Changed
  <2>3. w \in SessionType
    <3> HIDE DEF new
    <3> QED
      BY <2>2 DEF Writes, Nothing, SessionType
  <2>4. /\ w.at = "write" /\ w.status = Keep /\ w.hash = Keep
        /\ w.row = None /\ w.dispute = None
    BY DEF Writes, Nothing
  <2> HIDE DEF w
  <2>5. Justified(w)
    BY <2>4 DEF Justified, TradeStatus, P2PAssumption
  <2> QED
    BY <2>1, <2>3, <2>4, <2>5, NoDisputeIsApart, DecidedKeepsInv
<1>3. ASSUME NEW o \in Managed, NEW b \in BOOLEAN, SetActive(p, o, b)
      PROVE  P2PInv'
  <2> DEFINE new == Changed(b, active[o])
             w == [Writes EXCEPT !.active[o] = new]
  <2>1. Decided(p, w)
    BY <1>3 DEF SetActive
  <2>2. o \in Offers /\ new \in BOOLEAN \union {Keep}
    BY DEF P2PAssumption, Changed
  <2>3. w \in SessionType
    <3> HIDE DEF new
    <3> QED
      BY <2>2 DEF Writes, Nothing, SessionType
  <2>4. /\ w.at = "write" /\ w.status = Keep /\ w.hash = Keep
        /\ w.row = None /\ w.dispute = None
    BY DEF Writes, Nothing
  <2> HIDE DEF w
  <2>5. Justified(w)
    BY <2>4 DEF Justified, TradeStatus, P2PAssumption
  <2> QED
    BY <2>1, <2>3, <2>4, <2>5, NoDisputeIsApart, DecidedKeepsInv
<1> QED
  BY <1>1, <1>2, <1>3 DEF OfferStep

LEMMA DepositStepKeepsInv ==
    ASSUME P2PInv, NEW p \in Procs, DepositStep(p)
    PROVE  P2PInv'
<1> USE P2PAssumption
<1>0. Routes \subseteq Ways
  BY DEF P2PAssumption, Ways
<1>1. ASSUME NEW x \in Transfers, NEW via \in Routes, Deliver(p, x, via)
      PROVE  P2PInv'
  <2>1. PICK t \in Match(x, via) :
          Decided(p, [Writes EXCEPT
              !.trades = {t}, !.status = "CRYPTO_LOCKED", !.hash = x,
              !.row = [x |-> x, state |-> "MATCHED", trade |-> t, via |-> via]])
    BY <1>1 DEF Deliver
  <2>2. t \in Trades
    BY DEF Match, P2PAssumption
  <2> DEFINE r == [x |-> x, state |-> "MATCHED", trade |-> t, via |-> via]
             w == [Writes EXCEPT !.trades = {t}, !.status = "CRYPTO_LOCKED",
                                 !.hash = x, !.row = r]
  <2>3. r \in RowType /\ r.state = "MATCHED" /\ r.trade = t
    BY <1>0, <2>2 DEF RowType
  <2>4. Decided(p, w)
    BY <2>1
  <2> HIDE DEF r
  <2>5. w \in SessionType
    BY <2>2, <2>3 DEF Writes, Nothing, SessionType, TradeStatus, Hashes
  <2>6. /\ w.at = "write" /\ w.status = "CRYPTO_LOCKED" /\ w.hash = x
        /\ w.trades = {t} /\ w.row = r /\ w.dispute = None
    BY DEF Writes, Nothing
  <2> HIDE DEF w
  <2>7. x # Keep
    BY DEF P2PAssumption
  <2>8. Justified(w)
    BY <2>2, <2>3, <2>6, <2>7 DEF Justified
  <2> QED
    BY <2>4, <2>5, <2>6, <2>8, NoDisputeIsApart, DecidedKeepsInv
<1>2. ASSUME NEW x \in Transfers, NEW via \in Routes, DeliverUnmatched(p, x, via)
      PROVE  P2PInv'
  <2>1. PICK state \in {"UNMATCHED", "AMBIGUOUS"} :
          Decided(p, [Writes EXCEPT
              !.row = [x |-> x, state |-> state, trade |-> None, via |-> via]])
    BY <1>2 DEF DeliverUnmatched
  <2> DEFINE r == [x |-> x, state |-> state, trade |-> None, via |-> via]
             w == [Writes EXCEPT !.row = r]
  <2>2. r \in RowType /\ r.state # "MATCHED"
    BY <1>0 DEF RowType
  <2>3. Decided(p, w)
    BY <2>1
  <2> HIDE DEF r
  <2>4. w \in SessionType
    BY <2>2 DEF Writes, Nothing, SessionType
  <2>5. /\ w.at = "write" /\ w.status = Keep /\ w.hash = Keep
        /\ w.row = r /\ w.dispute = None
    BY DEF Writes, Nothing
  <2> HIDE DEF w
  <2>6. Justified(w)
    BY <2>2, <2>5 DEF Justified, TradeStatus, P2PAssumption
  <2> QED
    BY <2>3, <2>4, <2>5, <2>6, NoDisputeIsApart, DecidedKeepsInv
<1>3. ASSUME NEW x \in Transfers, NEW t \in Trades, Assign(p, x, t)
      PROVE  P2PInv'
  <2> DEFINE r == [x |-> x, state |-> "MATCHED", trade |-> t, via |-> Keep]
             w == [Writes EXCEPT !.trades = {t}, !.status = "CRYPTO_LOCKED",
                                 !.hash = x, !.row = r]
  <2>1. Decided(p, w)
    BY <1>3 DEF Assign
  <2>2. r \in RowType /\ r.state = "MATCHED" /\ r.trade = t
    BY DEF RowType
  <2> HIDE DEF r
  <2>3. w \in SessionType
    BY <2>2 DEF Writes, Nothing, SessionType, TradeStatus, Hashes
  <2>4. /\ w.at = "write" /\ w.status = "CRYPTO_LOCKED" /\ w.hash = x
        /\ w.trades = {t} /\ w.row = r /\ w.dispute = None
    BY DEF Writes, Nothing
  <2> HIDE DEF w
  <2>5. x # Keep
    BY DEF P2PAssumption
  <2>6. Justified(w)
    BY <2>2, <2>4, <2>5 DEF Justified
  <2> QED
    BY <2>1, <2>3, <2>4, <2>6, NoDisputeIsApart, DecidedKeepsInv
<1>4. ASSUME NEW t \in Trades, SandboxLock(p, t) PROVE P2PInv'
  <2> DEFINE w == [Writes EXCEPT !.trades = {t}, !.status = "CRYPTO_LOCKED",
                                 !.hash = Forged]
  <2>1. Decided(p, w)
    BY <1>4 DEF SandboxLock
  <2>2. w \in SessionType
    BY DEF Writes, Nothing, SessionType, TradeStatus, Hashes
  <2>3. /\ w.at = "write" /\ w.status = "CRYPTO_LOCKED" /\ w.hash = Forged
        /\ w.trades = {t} /\ w.row = None /\ w.dispute = None
    BY DEF Writes, Nothing
  <2> HIDE DEF w
  <2>4. Forged # Keep
    BY DEF P2PAssumption
  <2>5. Justified(w)
    BY <2>3, <2>4 DEF Justified
  <2> QED
    BY <2>1, <2>2, <2>3, <2>5, NoDisputeIsApart, DecidedKeepsInv
<1> QED
  BY <1>1, <1>2, <1>3, <1>4 DEF DepositStep

LEMMA PartyStepKeepsInv ==
    ASSUME P2PInv, NEW p \in Procs, PartyStep(p)
    PROVE  P2PInv'
<1> USE P2PAssumption
<1>1. ASSUME NEW t \in Trades, FiatSent(p, t) PROVE P2PInv'
  <2> DEFINE w == [Writes EXCEPT !.trades = {t}, !.status = "FIAT_SENT"]
  <2>1. Decided(p, w) /\ Status(t) \in {"AWAITING_FIAT", "CRYPTO_LOCKED"}
    BY <1>1 DEF FiatSent
  <2>2. w \in SessionType
    BY DEF Writes, Nothing, SessionType, TradeStatus
  <2>3. /\ w.at = "write" /\ w.status = "FIAT_SENT" /\ w.hash = Keep
        /\ w.trades = {t} /\ w.row = None /\ w.dispute = None
    BY DEF Writes, Nothing
  <2> HIDE DEF w
  <2>4. trades[t].hash # None
    BY <2>1 DEF P2PInv, PaidHasHash
  <2>5. Justified(w)
    BY <2>3, <2>4 DEF Justified
  <2> QED
    BY <2>1, <2>2, <2>3, <2>5, NoDisputeIsApart, DecidedKeepsInv
<1>2. ASSUME NEW t \in Trades, ConfirmFiat(p, t) PROVE P2PInv'
  <2> DEFINE w == [Nothing EXCEPT !.at = "flush", !.trades = {t},
                                  !.status = "FIAT_CONFIRMED"]
  <2>1. Decided(p, w) /\ Status(t) = "FIAT_SENT"
    BY <1>2 DEF ConfirmFiat
  <2>2. w \in SessionType
    BY DEF Nothing, SessionType, TradeStatus
  <2>3. /\ w.at = "flush" /\ w.status = "FIAT_CONFIRMED" /\ w.hash = Keep
        /\ w.trades = {t} /\ w.row = None /\ w.dispute = None
    BY DEF Nothing
  <2> HIDE DEF w
  <2>4. trades[t].hash # None
    BY <2>1 DEF P2PInv, PaidHasHash
  <2>5. Justified(w)
    BY <2>3, <2>4 DEF Justified
  <2> QED
    BY <2>1, <2>2, <2>3, <2>5, NoDisputeIsApart, DecidedKeepsInv
<1>3. ASSUME NEW t \in Trades, NEW d \in Disputes, OpenDispute(p, t, d)
      PROVE  P2PInv'
  <2> DEFINE new == Changed("DISPUTED", Status(t))
             r == [d |-> d, trade |-> t, open |-> TRUE]
             w == [Writes EXCEPT !.trades = {t}, !.status = new, !.dispute = r]
  <2>1. /\ Decided(p, w)
        /\ disputes[d].trade = None
        /\ \A q \in Procs : sess[q].dispute # None => sess[q].dispute.d # d
    BY <1>3 DEF OpenDispute
  <2>2. new \in {"DISPUTED", Keep}
    BY DEF Changed
  <2>3. /\ r \in [d : Disputes, trade : Trades, open : BOOLEAN]
        /\ r.d = d /\ r.trade = t /\ r.open = TRUE
    OBVIOUS
  <2>4. r # None
    BY <2>3 DEF P2PAssumption
  <2> HIDE DEF new, r
  <2>5. w \in SessionType
    BY <2>2, <2>3 DEF Writes, Nothing, SessionType, TradeStatus
  <2>6. /\ w.at = "write" /\ w.status = new /\ w.hash = Keep
        /\ w.trades = {t} /\ w.row = None /\ w.dispute = r
    BY DEF Writes, Nothing
  <2> HIDE DEF w
  <2>7. Justified(w)
    BY <2>1, <2>2, <2>3, <2>6 DEF Justified, TradeStatus, P2PAssumption
  <2>8. Apart(p, w)
    BY <2>1, <2>3, <2>6 DEF Apart
  <2> QED
    BY <2>1, <2>5, <2>7, <2>8, DecidedKeepsInv
<1>4. ASSUME NEW t \in Trades, NEW d \in Disputes, Resolve(p, t, d)
      PROVE  P2PInv'
  <2>1. /\ Status(t) = "DISPUTED"
        /\ disputes[d] = [trade |-> t, open |-> TRUE]
    BY <1>4 DEF Resolve
  <2>2. PICK buyer \in BOOLEAN :
         Decided(p, [Nothing EXCEPT
           !.at = IF buyer THEN "release" ELSE "write", !.trades = {t},
           !.status = IF buyer THEN "RELEASED" ELSE "CANCELLED",
           !.dispute = [d |-> d, trade |-> t, open |-> FALSE]])
    BY <1>4 DEF Resolve
  <2> DEFINE at == IF buyer THEN "release" ELSE "write"
             to == IF buyer THEN "RELEASED" ELSE "CANCELLED"
             r == [d |-> d, trade |-> t, open |-> FALSE]
             w == [Nothing EXCEPT !.at = at, !.trades = {t}, !.status = to,
                                  !.dispute = r]
  <2>3. Decided(p, w)
    BY <2>2
  <2>4. /\ at \in {"release", "write"} /\ to \in {"RELEASED", "CANCELLED"}
        /\ at = "release" => to = "RELEASED"
    OBVIOUS
  <2>5. /\ r \in [d : Disputes, trade : Trades, open : BOOLEAN]
        /\ r.d = d /\ r.trade = t /\ r.open = FALSE
    OBVIOUS
  <2>6. r # None
    BY <2>5 DEF P2PAssumption
  <2> HIDE DEF at, to, r
  <2>7. w \in SessionType
    BY <2>4, <2>5 DEF Nothing, SessionType, TradeStatus
  <2>8. /\ w.at = at /\ w.status = to /\ w.hash = Keep /\ w.holds = FALSE
        /\ w.trades = {t} /\ w.row = None /\ w.dispute = r
    BY DEF Nothing
  <2> HIDE DEF w
  <2>9. Justified(w)
    BY <2>1, <2>4, <2>5, <2>6, <2>8 DEF Justified
  <2>10. Apart(p, w)
    <3> SUFFICES ASSUME NEW q \in Procs \ {p}, sess[q].dispute # None,
                        sess[q].dispute.d = d, sess[q].dispute.open
                 PROVE  FALSE
      BY <2>5, <2>8 DEF Apart
    <3>1. disputes[d].trade = None
      BY DEF P2PInv, SessionsJustified, Justified
    <3> QED
      BY <3>1, <2>1 DEF P2PAssumption
  <2> QED
    BY <2>3, <2>7, <2>9, <2>10, DecidedKeepsInv
<1> QED
  BY <1>1, <1>2, <1>3, <1>4 DEF PartyStep

\* The worker's decisions.
LEMMA WorkerStepKeepsInv ==
    ASSUME P2PInv, WorkerStep
    PROVE  P2PInv'
<1> USE P2PAssumption
<1>0. Worker \in Procs
  BY DEF Procs
<1>1. CASE ReadDue
  <2> DEFINE found == {t \in due : Status(t) \in Expirable}
             w == [Nothing EXCEPT !.at = "expire", !.left = found,
                                  !.trades = found, !.status = "EXPIRED"]
  <2>1. Decided(Worker, w)
    BY <1>1 DEF ReadDue
  <2>2. found \subseteq Trades
    BY DEF P2PInv, TypeOK
  <2> HIDE DEF found
  <2>3. w \in SessionType
    BY <2>2 DEF Nothing, SessionType, TradeStatus
  <2>4. /\ w.at = "expire" /\ w.status = "EXPIRED" /\ w.hash = Keep
        /\ w.row = None /\ w.dispute = None
    BY DEF Nothing
  <2> HIDE DEF w
  <2>5. Justified(w)
    BY <2>4 DEF Justified
  <2> QED
    BY <1>0, <2>1, <2>3, <2>4, <2>5, NoDisputeIsApart, DecidedKeepsInv
<1>2. CASE ExpireNext
  <2> DEFINE old == sess[Worker]
  <2>1. PICK t \in old.left :
          LET o    == OfferOf[t]
              seen == IF old.avail[o] = Keep THEN avail[o] ELSE old.avail[o]
              rest == old.left \ {t}
          IN  Decided(Worker, [old EXCEPT
                !.left = rest, !.avail[o] = seen + Amount[t],
                !.at = IF rest = {} THEN "write" ELSE "expire"])
    BY <1>2 DEF ExpireNext
  <2>2. old \in SessionType /\ avail \in [Offers -> Nat] /\ Justified(old)
    BY <1>0 DEF P2PInv, TypeOK, SessionsJustified
  <2> DEFINE o    == OfferOf[t]
             seen == IF old.avail[o] = Keep THEN avail[o] ELSE old.avail[o]
             sum  == seen + Amount[t]
             rest == old.left \ {t}
             at   == IF rest = {} THEN "write" ELSE "expire"
             w    == [old EXCEPT !.left = rest, !.avail[o] = sum, !.at = at]
  <2>3. Decided(Worker, w)
    BY <2>1
  <2>4. o \in Offers /\ sum \in Nat
    <3>1. t \in Trades
      BY <2>2 DEF SessionType
    <3>2. o \in Offers /\ Amount[t] \in Nat
      BY <3>1 DEF P2PAssumption
    <3>3. seen \in Nat
      BY <2>2, <3>2 DEF SessionType
    <3> QED
      BY <3>2, <3>3
  <2>5. at \in {"write", "expire"} /\ rest \subseteq old.left
    OBVIOUS
  <2> HIDE DEF sum, o, rest, at, old
  <2>6. w \in SessionType
    BY <2>2, <2>4, <2>5 DEF SessionType
  <2>7. /\ w.at = at /\ w.status = old.status /\ w.hash = old.hash
        /\ w.trades = old.trades /\ w.row = old.row /\ w.dispute = old.dispute
    BY <2>2 DEF SessionType
  <2> HIDE DEF w
  <2>8. Justified(w)
    BY <2>2, <2>5, <2>7 DEF Justified
  <2>9. Apart(Worker, w)
    BY <1>0, <2>7, SameDisputeIsApart DEF old
  <2> QED
    BY <1>0, <2>3, <2>6, <2>8, <2>9, DecidedKeepsInv
<1> QED
  BY <1>1, <1>2 DEF WorkerStep

-----------------------------------------------------------------------------
(* The rest of a session. *)

LEMMA FlushKeepsInv ==
    ASSUME P2PInv, NEW p \in Procs, Flush(p) \/ JournalExists(p) \/ Refused(p)
    PROVE  P2PInv'
<1> DEFINE old == sess[p]
<1>0. old \in SessionType /\ Justified(old)
  BY DEF P2PInv, TypeOK, SessionsJustified
<1>1. CASE Flush(p)
  <2> DEFINE w == [old EXCEPT !.at = "release", !.holds = TRUE]
  <2>1. Decided(p, w) /\ old.at = "flush"
    BY <1>1 DEF Flush
  <2> HIDE DEF old
  <2>2. w \in SessionType
    BY <1>0 DEF SessionType
  <2>3. /\ w.at = "release" /\ w.holds = TRUE
        /\ w.status = old.status /\ w.hash = old.hash
        /\ w.trades = old.trades /\ w.row = old.row /\ w.dispute = old.dispute
    BY <1>0 DEF SessionType
  <2> HIDE DEF w
  <2>4. Justified(w)
    BY <1>0, <2>1, <2>3 DEF Justified
  <2> QED
    BY <2>1, <2>2, <2>3, <2>4, SameDisputeIsApart, DecidedKeepsInv DEF old
<1>2. CASE JournalExists(p)
  <2> DEFINE w == [old EXCEPT !.at = "write", !.status = "RELEASED"]
  <2>1. Decided(p, w) /\ old.at = "journal"
    BY <1>2 DEF JournalExists
  <2> HIDE DEF old
  <2>2. w \in SessionType
    BY <1>0 DEF SessionType, TradeStatus
  <2>3. /\ w.at = "write" /\ w.status = "RELEASED" /\ w.hash = old.hash
        /\ w.trades = old.trades /\ w.row = old.row /\ w.dispute = old.dispute
    BY <1>0 DEF SessionType
  <2> HIDE DEF w
  <2>4. Justified(w)
    BY <1>0, <2>1, <2>3 DEF Justified
  <2> QED
    BY <2>1, <2>2, <2>3, <2>4, SameDisputeIsApart, DecidedKeepsInv DEF old
<1>3. CASE Refused(p)
  BY <1>3, NothingIsIdle, NoDisputeIsApart, DecidedKeepsInv DEF Refused
<1> QED
  BY <1>1, <1>2, <1>3

\* The crypto that leaves is recorded by a hash, or by the dispute the session
\* resolves.
LEMMA ReleaseKeepsInv ==
    ASSUME P2PInv, NEW p \in Procs, Release(p)
    PROVE  P2PInv'
<1> USE P2PAssumption
<1> DEFINE old == sess[p]
           w == [old EXCEPT !.at = IF old.holds THEN "journal" ELSE "write"]
<1>0. old \in SessionType /\ Justified(old) /\ old.at = "release"
  BY DEF Release, P2PInv, TypeOK, SessionsJustified
<1>1. /\ sess' = [sess EXCEPT ![p] = w]
      /\ UNCHANGED <<trades, avail, active, deposits, disputes>>
      /\ UNCHANGED <<journaled, due, faults>>
      /\ released' = [t \in Trades |->
                        released[t] + (IF t \in old.trades THEN 1 ELSE 0)]
  BY DEF Release, rows
<1>2. released' \in [Trades -> Nat] /\ released \in [Trades -> Nat]
  BY <1>1 DEF P2PInv, TypeOK
<1>3. \A t \in Trades : released'[t] > 0 => released[t] > 0 \/ t \in old.trades
  BY <1>1, <1>2
<1> HIDE DEF old
<1>4. w \in SessionType
  BY <1>0 DEF SessionType
<1>5. /\ w.at = IF old.holds THEN "journal" ELSE "write"
      /\ w.holds = old.holds
      /\ w.status = old.status /\ w.hash = old.hash
      /\ w.trades = old.trades /\ w.row = old.row /\ w.dispute = old.dispute
  BY <1>0 DEF SessionType
<1> HIDE DEF w
<1>6. Justified(w)
  BY <1>0, <1>5 DEF Justified
<1>7. /\ sess' \in [Procs -> SessionType]
      /\ sess'[p] = w
      /\ \A q \in Procs : q # p => sess'[q] = sess[q]
  BY <1>1, <1>4 DEF P2PInv, TypeOK
<1>8. TypeOK'
  BY <1>1, <1>2, <1>7 DEF P2PInv, TypeOK
<1>9. SessionsJustified'
  <2> SUFFICES ASSUME NEW q \in Procs PROVE Justified(sess[q])'
    BY DEF SessionsJustified
  <2>1. CASE q = p
    BY <2>1, <1>1, <1>6, <1>7 DEF Justified
  <2>2. CASE q # p
    <3>1. Justified(sess[q])
      BY DEF P2PInv, SessionsJustified
    <3> QED
      BY <3>1, <2>2, <1>1, <1>7 DEF Justified
  <2> QED
    BY <2>1, <2>2
<1>10. DisputesOwned'
  <2>1. \A q \in Procs : sess'[q].dispute = sess[q].dispute
    BY <1>5, <1>7 DEF old
  <2> QED
    BY <2>1 DEF P2PInv, DisputesOwned
<1>11. FundedBeforeRelease'
  <2> SUFFICES ASSUME NEW t \in Trades, t \in old.trades
               PROVE  trades[t].hash # None \/ \E d \in Disputes : disputes[d].trade = t
    BY <1>1, <1>3 DEF P2PInv, FundedBeforeRelease
  <2>1. CASE old.holds
    BY <2>1, <1>0 DEF Justified
  <2>2. CASE ~old.holds
    <3>1. old.dispute # None /\ old.status = "RELEASED"
      BY <2>2, <1>0 DEF Justified
    <3>2. ~old.dispute.open /\ old.dispute.d \in Disputes
      BY <3>1, <1>0, P2PAssumption DEF Justified, SessionType, P2PAssumption, TradeStatus
    <3>3. disputes[old.dispute.d].trade = t
      BY <3>1, <3>2, <1>0 DEF Justified
    <3> QED
      BY <3>2, <3>3
  <2> QED
    BY <2>1, <2>2
<1>12. /\ PaidHasHash' /\ MatchedIsLocked' /\ DisputesResolvable'
       /\ OneTradePerTransfer'
  BY <1>1 DEF P2PInv, PaidHasHash, MatchedIsLocked, DisputesResolvable,
     OneTradePerTransfer, Status
<1> QED
  BY <1>8, <1>9, <1>10, <1>11, <1>12 DEF P2PInv

\* The early commit writes a status only, to trades that have their hash.
LEMMA PostJournalKeepsInv ==
    ASSUME P2PInv, NEW p \in Procs, PostJournal(p)
    PROVE  P2PInv'
<1> USE P2PAssumption
<1> DEFINE old == sess[p]
           w == [old EXCEPT !.at = "write", !.status = "RELEASED", !.holds = FALSE]
<1>0. /\ old \in SessionType /\ Justified(old) /\ old.at = "journal"
      /\ trades \in [Trades -> [status : TradeStatus \union {"NONE"},
                                hash : Hashes \union {None}]]
  BY DEF PostJournal, P2PInv, TypeOK, SessionsJustified
<1>1. /\ sess' = [sess EXCEPT ![p] = w]
      /\ UNCHANGED <<avail, active, deposits, disputes, released, due, faults>>
      /\ journaled' = journaled \union old.trades
      /\ trades' = [t \in Trades |-> IF t \in old.trades
                                     THEN [trades[t] EXCEPT !.status = old.status]
                                     ELSE trades[t]]
  BY DEF PostJournal
<1> HIDE DEF old
<1>2. /\ old.status = "FIAT_CONFIRMED" /\ old.dispute = None
      /\ old.trades \subseteq Trades
      /\ \A t \in old.trades : trades[t].hash # None
  BY <1>0 DEF Justified, SessionType
<1>3. /\ w \in SessionType
      /\ w.at = "write" /\ w.status = "RELEASED" /\ w.hash = old.hash
      /\ w.trades = old.trades /\ w.row = old.row /\ w.dispute = old.dispute
  BY <1>0 DEF SessionType, TradeStatus
<1> HIDE DEF w
<1>4. Justified(w)
  BY <1>0, <1>2, <1>3 DEF Justified
<1>5. /\ sess' \in [Procs -> SessionType]
      /\ sess'[p] = w
      /\ \A q \in Procs : q # p => sess'[q] = sess[q]
  BY <1>1, <1>3 DEF P2PInv, TypeOK
<1>6. /\ trades' \in [Trades -> [status : TradeStatus \union {"NONE"},
                                 hash : Hashes \union {None}]]
      /\ \A t \in Trades :
           /\ trades'[t].hash = trades[t].hash
           /\ t \in old.trades => trades'[t].status = "FIAT_CONFIRMED"
           /\ t \notin old.trades => trades'[t].status = trades[t].status
  BY <1>0, <1>1, <1>2 DEF TradeStatus
<1>7. TypeOK'
  <2>1. journaled' \subseteq Trades
    BY <1>1, <1>2 DEF P2PInv, TypeOK
  <2> QED
    BY <2>1, <1>1, <1>5, <1>6 DEF P2PInv, TypeOK
<1>8. SessionsJustified'
  <2> SUFFICES ASSUME NEW q \in Procs PROVE Justified(sess[q])'
    BY DEF SessionsJustified
  <2> DEFINE v == IF q = p THEN w ELSE sess[q]
  <2>1. Justified(v) /\ v \in SessionType /\ sess'[q] = v
    BY <1>3, <1>4, <1>5 DEF P2PInv, TypeOK, SessionsJustified
  <2> HIDE DEF v
  <2>2. v.trades \subseteq Trades
    BY <2>1 DEF SessionType
  <2> QED
    BY <2>1, <2>2, <1>1, <1>6 DEF Justified
<1>9. DisputesOwned'
  <2>1. \A q \in Procs : sess'[q].dispute = sess[q].dispute
    BY <1>3, <1>5 DEF old
  <2> QED
    BY <2>1 DEF P2PInv, DisputesOwned
<1>10. PaidHasHash'
  BY <1>2, <1>6 DEF P2PInv, PaidHasHash, Status
<1>11. MatchedIsLocked'
  BY <1>1, <1>6 DEF P2PInv, MatchedIsLocked
<1>12. FundedBeforeRelease'
  BY <1>1, <1>6 DEF P2PInv, FundedBeforeRelease
<1>13. DisputesResolvable'
  BY <1>1, <1>6 DEF P2PInv, DisputesResolvable, Status
<1>14. OneTradePerTransfer'
  BY <1>6 DEF P2PInv, OneTradePerTransfer
<1> QED
  BY <1>7, <1>8, <1>9, <1>10, <1>11, <1>12, <1>13, <1>14 DEF P2PInv

-----------------------------------------------------------------------------
(* The COMMIT: no hash is ever erased, and no dispute loses its trade. *)

LEMMA CommitKeepsInv ==
    ASSUME P2PInv, NEW p \in Procs, Commit(p)
    PROVE  P2PInv'
<1> DEFINE w == sess[p]
<1>0. /\ w \in SessionType /\ Justified(w)
      /\ trades \in [Trades -> [status : TradeStatus \union {"NONE"},
                                hash : Hashes \union {None}]]
      /\ disputes \in [Disputes -> [trade : Trades \union {None}, open : BOOLEAN]]
      /\ deposits \in [Transfers -> DepositType]
  BY DEF P2PInv, TypeOK, SessionsJustified
<1>1. /\ trades' = [t \in Trades |->
           IF t \in w.trades THEN [status |-> Put(w.status, trades[t].status),
                                   hash   |-> Put(w.hash, trades[t].hash)]
                             ELSE trades[t]]
      /\ deposits' = [x \in Transfers |->
           IF w.row # None /\ w.row.x = x
           THEN [state |-> w.row.state, trade |-> w.row.trade,
                 via   |-> Put(w.row.via, deposits[x].via)]
           ELSE deposits[x]]
      /\ disputes' = [d \in Disputes |->
           IF w.dispute # None /\ w.dispute.d = d
           THEN [trade |-> w.dispute.trade, open |-> w.dispute.open]
           ELSE disputes[d]]
      /\ sess' = [sess EXCEPT ![p] = Nothing]
      /\ UNCHANGED <<journaled, released, due, faults>>
      /\ ~Clash(p)
  BY DEF Commit
<1>2. /\ avail' = [o \in Offers |-> Put(w.avail[o], avail[o])]
      /\ active' = [o \in Offers |-> Put(w.active[o], active[o])]
  BY DEF Commit
<1>3. /\ avail' \in [Offers -> Nat]
      /\ active' \in [Offers -> BOOLEAN]
  BY <1>0, <1>2 DEF P2PInv, TypeOK, SessionType, Put
<1>4. /\ sess' \in [Procs -> SessionType]
      /\ sess'[p] = Nothing
      /\ \A q \in Procs : q # p => sess'[q] = sess[q]
  BY <1>1, NothingIsIdle DEF P2PInv, TypeOK
<1>5. \A t \in Trades :
        /\ trades'[t].status = IF t \in w.trades
                               THEN Put(w.status, trades[t].status) ELSE trades[t].status
        /\ trades'[t].hash = IF t \in w.trades
                             THEN Put(w.hash, trades[t].hash) ELSE trades[t].hash
  BY <1>1
<1>6. trades' \in [Trades -> [status : TradeStatus \union {"NONE"},
                              hash : Hashes \union {None}]]
  BY <1>0, <1>1 DEF SessionType, Put
<1>7. \A d \in Disputes :
        /\ disputes'[d].trade = IF w.dispute # None /\ w.dispute.d = d
                                THEN w.dispute.trade ELSE disputes[d].trade
        /\ disputes'[d].open = IF w.dispute # None /\ w.dispute.d = d
                               THEN w.dispute.open ELSE disputes[d].open
  BY <1>1
<1>8. disputes' \in [Disputes -> [trade : Trades \union {None}, open : BOOLEAN]]
  BY <1>0, <1>1 DEF SessionType
<1>9. deposits' \in [Transfers -> DepositType]
  <2> SUFFICES ASSUME NEW x \in Transfers, w.row # None
               PROVE  [state |-> w.row.state, trade |-> w.row.trade,
                       via |-> Put(w.row.via, deposits[x].via)] \in DepositType
    BY <1>0, <1>1
  <2>1. w.row \in RowType
    BY <1>0 DEF SessionType
  <2> QED
    BY <2>1, <1>0 DEF RowType, DepositType, Put
<1>10. TypeOK'
  BY <1>1, <1>3, <1>4, <1>6, <1>8, <1>9 DEF P2PInv, TypeOK
<1> HIDE DEF w
<1>11. \A t \in Trades : trades[t].hash # None => trades'[t].hash # None
  BY <1>0, <1>5, P2PAssumption DEF SessionType, Hashes, Put, P2PAssumption
<1>12. ASSUME NEW d \in Disputes, disputes[d].trade # None
       PROVE  disputes'[d].trade = disputes[d].trade
  BY <1>12, <1>0, <1>7 DEF Justified, SessionType
<1>13. SessionsJustified'
  <2> SUFFICES ASSUME NEW q \in Procs, q # p PROVE Justified(sess[q])'
    <3>1. Justified(Nothing)' BY NothingIsIdle, <1>4, P2PAssumption
            DEF Justified, Nothing, P2PAssumption, TradeStatus
    <3> QED
      BY <3>1, <1>4 DEF SessionsJustified, Justified
  <2> DEFINE v == sess[q]
  <2>1. v \in SessionType /\ Justified(v) /\ sess'[q] = v
    BY <1>4 DEF P2PInv, TypeOK, SessionsJustified
  <2>2. v.dispute # None /\ v.dispute.open => disputes'[v.dispute.d].trade = None
    <3> SUFFICES ASSUME v.dispute # None, v.dispute.open
                 PROVE  disputes'[v.dispute.d].trade = None
      OBVIOUS
    <3>1. v.dispute.d \in Disputes /\ disputes[v.dispute.d].trade = None
      BY <2>1 DEF Justified, SessionType
    <3>2. ~(w.dispute # None /\ w.dispute.d = v.dispute.d)
      BY DEF P2PInv, DisputesOwned, w
    <3> QED
      BY <3>1, <3>2, <1>7
  <2>3. v.dispute # None /\ ~v.dispute.open =>
          disputes'[v.dispute.d].trade = v.dispute.trade
    <3> SUFFICES ASSUME v.dispute # None, ~v.dispute.open
                 PROVE  disputes'[v.dispute.d].trade = v.dispute.trade
      OBVIOUS
    <3>1. /\ v.dispute.d \in Disputes /\ v.dispute.trade \in Trades
          /\ disputes[v.dispute.d].trade = v.dispute.trade
      BY <2>1 DEF Justified, SessionType
    <3> QED
      BY <3>1, <1>12, P2PAssumption DEF P2PAssumption
  <2>4. v.trades \subseteq Trades
    BY <2>1 DEF SessionType
  <2> HIDE DEF v
  <2> QED
    BY <2>1, <2>2, <2>3, <2>4, <1>11 DEF Justified
<1>14. DisputesOwned'
  BY <1>4, NothingIsIdle DEF P2PInv, DisputesOwned
<1>15. PaidHasHash'
  <2> SUFFICES ASSUME NEW t \in Trades,
                      trades'[t].status \in {"CRYPTO_LOCKED", "AWAITING_FIAT",
                                             "FIAT_SENT", "FIAT_CONFIRMED"}
               PROVE  trades'[t].hash # None
    BY DEF PaidHasHash, Status
  <2>1. CASE t \in w.trades /\ w.status = "CRYPTO_LOCKED"
    BY <2>1, <1>0, <1>5, P2PAssumption
       DEF Justified, SessionType, Hashes, Put, P2PAssumption
  <2>2. CASE t \in w.trades /\ w.status \in {"FIAT_SENT", "FIAT_CONFIRMED"}
    BY <2>2, <1>0, <1>11 DEF Justified
  <2>3. CASE t \notin w.trades \/ w.status = Keep
    <3>1. trades'[t].status = trades[t].status
      BY <2>3, <1>5 DEF Put
    <3> QED
      BY <3>1, <1>11 DEF P2PInv, PaidHasHash, Status
  <2>4. CASE t \in w.trades /\ w.status # Keep
             /\ w.status \notin {"CRYPTO_LOCKED", "FIAT_SENT", "FIAT_CONFIRMED"}
    BY <2>4, <1>0, <1>5 DEF Justified, Put
  <2> QED
    BY <2>1, <2>2, <2>3, <2>4
<1>16. MatchedIsLocked'
  <2> SUFFICES ASSUME NEW x \in Transfers, deposits'[x].state = "MATCHED"
               PROVE  deposits'[x].trade \in Trades
                      /\ trades'[deposits'[x].trade].hash # None
    BY DEF MatchedIsLocked
  <2>1. CASE w.row # None /\ w.row.x = x
    <3>1. /\ w.row.state = "MATCHED" /\ deposits'[x].trade = w.row.trade
      BY <2>1, <1>1 DEF w
    <3>2. w.row.trade \in w.trades /\ w.hash \in Hashes /\ w.hash # Keep
          /\ w.trades \subseteq Trades
      BY <2>1, <3>1, <1>0 DEF Justified, SessionType
    <3> QED
      BY <3>1, <3>2, <1>5, P2PAssumption DEF Hashes, Put, P2PAssumption
  <2>2. CASE ~(w.row # None /\ w.row.x = x)
    <3>1. deposits'[x] = deposits[x]
      BY <2>2, <1>1 DEF w
    <3> QED
      BY <3>1, <1>11 DEF P2PInv, MatchedIsLocked
  <2> QED
    BY <2>1, <2>2
<1>17. FundedBeforeRelease'
  <2> SUFFICES ASSUME NEW t \in Trades, released[t] > 0, trades[t].hash = None
               PROVE  \E d \in Disputes : disputes'[d].trade = t
    BY <1>1, <1>11 DEF FundedBeforeRelease
  <2>1. PICK d \in Disputes : disputes[d].trade = t
    BY DEF P2PInv, FundedBeforeRelease
  <2> QED
    BY <2>1, <1>12, P2PAssumption DEF P2PAssumption
<1>18. DisputesResolvable'
  <2> SUFFICES ASSUME NEW t \in Trades, trades'[t].status = "DISPUTED"
               PROVE  \E d \in Disputes : disputes'[d] = [trade |-> t, open |-> TRUE]
    BY DEF DisputesResolvable, Status
  <2>1. CASE t \in w.trades /\ w.status = "DISPUTED"
    <3>1. /\ w.dispute # None /\ w.dispute.open = TRUE /\ w.dispute.trade = t
          /\ w.dispute.d \in Disputes
      BY <2>1, <1>0 DEF Justified, SessionType
    <3> QED
      BY <3>1, <1>1 DEF w
  <2>2. CASE ~(t \in w.trades /\ w.status = "DISPUTED")
    <3>1. /\ trades[t].status = "DISPUTED"
          /\ t \in w.trades => w.status = Keep
      BY <2>2, <1>5 DEF Put
    <3>2. PICK d \in Disputes : disputes[d] = [trade |-> t, open |-> TRUE]
      BY <3>1 DEF P2PInv, DisputesResolvable, Status
    <3>3. ~(w.dispute # None /\ w.dispute.d = d)
      <4> SUFFICES ASSUME w.dispute # None, w.dispute.d = d PROVE FALSE
        OBVIOUS
      <4>1. ~w.dispute.open
        BY <3>2, <1>0, P2PAssumption DEF Justified, P2PAssumption
      <4>2. w.status \in {"RELEASED", "CANCELLED"} /\ t \in w.trades
        BY <4>1, <3>2, <1>0 DEF Justified
      <4> QED
        BY <4>2, <3>1, P2PAssumption DEF P2PAssumption, TradeStatus
    <3> QED
      BY <3>2, <3>3, <1>1 DEF w
  <2> QED
    BY <2>1, <2>2
<1>19. OneTradePerTransfer'
  <2> SUFFICES ASSUME NEW t \in Trades, NEW u \in Trades,
                      trades'[t].hash \in Transfers, trades'[t].hash = trades'[u].hash
               PROVE  t = u
    BY DEF OneTradePerTransfer
  <2>1. CASE w.hash = Keep
    BY <2>1, <1>5 DEF Put, P2PInv, OneTradePerTransfer
  <2>2. CASE w.hash # Keep
    <3>1. PICK v \in Trades : w.trades = {v}
      BY <2>2, <1>0 DEF Justified
    <3>2. trades'[v].hash = w.hash
          /\ \A z \in Trades \ {v} : trades'[z].hash = trades[z].hash
      BY <2>2, <3>1, <1>5 DEF Put
    <3>3. w.hash \in Transfers => \A z \in Trades \ {v} : trades[z].hash # w.hash
      BY <3>1, <1>1 DEF Clash, w
    <3> QED
      BY <3>2, <3>3 DEF P2PInv, OneTradePerTransfer
  <2> QED
    BY <2>1, <2>2
<1> QED
  BY <1>10, <1>13, <1>14, <1>15, <1>16, <1>17, <1>18, <1>19 DEF P2PInv

-----------------------------------------------------------------------------
(* Faults and time. *)

\* Sessions may be replaced by ones that write nothing.
LEMMA FaultKeepsInv ==
    ASSUME P2PInv, (\E p \in Procs : Fail(p)) \/ Wedge \/ Restart
    PROVE  P2PInv'
<1> DEFINE Silent(v) == /\ v.dispute = None /\ v.row = None /\ v.status = Keep
                        /\ v.hash = Keep /\ v.at \in {"idle", "wedged"}
           dead == [Nothing EXCEPT !.at = "wedged"]
<1>1. /\ UNCHANGED <<trades, avail, active, deposits, disputes>>
      /\ UNCHANGED <<journaled, released, due>>
      /\ faults' \in 0..MaxFaults
  BY P2PAssumption DEF Fail, Wedge, Restart, Fault, rows, P2PInv, TypeOK, P2PAssumption
<1>2. /\ sess \in [Procs -> SessionType] /\ Worker \in Procs
      /\ Nothing \in SessionType /\ Silent(Nothing)
      /\ dead \in SessionType /\ Silent(dead)
  BY NothingIsIdle DEF P2PInv, TypeOK, Procs, Nothing, SessionType
<1> HIDE DEF dead
<1>3. /\ sess' \in [Procs -> SessionType]
      /\ \A q \in Procs : sess'[q] = sess[q] \/ sess'[q] \in {Nothing, dead}
  <2>1. CASE \E p \in Procs : Fail(p)
    BY <2>1, <1>2 DEF Fail, Fault
  <2>2. CASE Wedge
    BY <2>2, <1>2 DEF Wedge, Fault, dead
  <2>3. CASE Restart
    BY <2>3, <1>2 DEF Restart, Fault
  <2> QED
    BY <2>1, <2>2, <2>3
<1>4. \A q \in Procs : sess'[q] = sess[q] \/ Silent(sess'[q])
  BY <1>2, <1>3
<1>5. SessionsJustified'
  <2> SUFFICES ASSUME NEW q \in Procs PROVE Justified(sess[q])'
    BY DEF SessionsJustified
  <2>1. CASE sess'[q] = sess[q]
    BY <2>1, <1>1 DEF P2PInv, SessionsJustified, Justified
  <2>2. CASE Silent(sess'[q])
    BY <2>2, P2PAssumption DEF Justified, P2PAssumption, TradeStatus
  <2> QED
    BY <2>1, <2>2, <1>4
<1>6. DisputesOwned'
  BY <1>4 DEF P2PInv, DisputesOwned
<1> QED
  BY <1>1, <1>3, <1>5, <1>6
     DEF P2PInv, TypeOK, PaidHasHash, MatchedIsLocked, FundedBeforeRelease,
         DisputesResolvable, OneTradePerTransfer, Status

LEMMA ExpiresKeepsInv ==
    ASSUME P2PInv, NEW t \in Trades, Expires(t)
    PROVE  P2PInv'
  BY DEF Expires, rows, P2PInv, TypeOK, SessionsJustified, Justified, DisputesOwned,
     PaidHasHash, MatchedIsLocked, FundedBeforeRelease, DisputesResolvable,
     OneTradePerTransfer, Status

-----------------------------------------------------------------------------
LEMMA InitInv == Init => P2PInv
<1> SUFFICES ASSUME Init PROVE P2PInv
  OBVIOUS
<1> USE P2PAssumption
<1>1. TypeOK
  BY NothingIsIdle DEF Init, TypeOK, DepositType, P2PAssumption
<1>2. SessionsJustified /\ DisputesOwned
  BY NothingIsIdle DEF Init, SessionsJustified, DisputesOwned
<1>3. PaidHasHash /\ MatchedIsLocked /\ FundedBeforeRelease /\ DisputesResolvable
  BY DEF Init, PaidHasHash, MatchedIsLocked, FundedBeforeRelease,
     DisputesResolvable, Status
<1>4. OneTradePerTransfer
  BY DEF Init, OneTradePerTransfer, P2PAssumption
<1> QED
  BY <1>1, <1>2, <1>3, <1>4 DEF P2PInv

LEMMA StutterKeepsInv == P2PInv /\ UNCHANGED vars => P2PInv'
  BY DEF vars, P2PInv, TypeOK, SessionsJustified, Justified, DisputesOwned,
     PaidHasHash, MatchedIsLocked, FundedBeforeRelease, DisputesResolvable,
     OneTradePerTransfer, Status

LEMMA NextKeepsInv == P2PInv /\ [Next]_vars => P2PInv'
<1> SUFFICES ASSUME P2PInv, [Next]_vars PROVE P2PInv'
  OBVIOUS
<1>1. ASSUME NEW p \in Procs, OfferStep(p) PROVE P2PInv'
  BY <1>1, OfferStepKeepsInv
<1>2. ASSUME NEW p \in Procs, DepositStep(p) PROVE P2PInv'
  BY <1>2, DepositStepKeepsInv
<1>3. ASSUME NEW p \in Procs, PartyStep(p) PROVE P2PInv'
  BY <1>3, PartyStepKeepsInv
<1>4. ASSUME NEW p \in Procs, Continue(p) PROVE P2PInv'
  BY <1>4, FlushKeepsInv, ReleaseKeepsInv, PostJournalKeepsInv, CommitKeepsInv
     DEF Continue
<1>5. CASE WorkerStep
  BY <1>5, WorkerStepKeepsInv
<1>6. CASE (\E p \in Procs : Fail(p)) \/ Wedge \/ Restart
  BY <1>6, FaultKeepsInv
<1>7. ASSUME NEW t \in Trades, Expires(t) PROVE P2PInv'
  BY <1>7, ExpiresKeepsInv
<1>8. CASE UNCHANGED vars
  BY <1>8, StutterKeepsInv
<1> QED
  BY <1>1, <1>2, <1>3, <1>4, <1>5, <1>6, <1>7, <1>8 DEF Next

\* The inductive invariant holds of every reachable state: whatever the sessions,
\* their overlap, their exceptions and the restarts, what a handler writes late is
\* still justified by what the tables say then.
THEOREM Invariance == Spec => []P2PInv
<1>1. Init => P2PInv
  BY InitInv
<1>2. P2PInv /\ [Next]_vars => P2PInv'
  BY NextKeepsInv
<1> QED
  BY <1>1, <1>2, PTL DEF Spec

\* Every row and every session keeps its type: stale absolute writes of the
\* liquidity of an offer never make it negative.
THEOREM TypeCorrect == Spec => []TypeOK
<1>1. P2PInv => TypeOK
  BY DEF P2PInv
<1> QED
  BY <1>1, Invariance, PTL

\* No crypto is released for a trade that has neither a recorded deposit nor a
\* dispute.
THEOREM CryptoIsFunded == Spec => []FundedBeforeRelease
<1>1. P2PInv => FundedBeforeRelease
  BY DEF P2PInv
<1> QED
  BY <1>1, Invariance, PTL

\* A disputed trade always has the open dispute row resolve_dispute asks for.
THEOREM DisputesCanEnd == Spec => []DisputesResolvable
<1>1. P2PInv => DisputesResolvable
  BY DEF P2PInv
<1> QED
  BY <1>1, Invariance, PTL

\* No transfer on the chain locks two trades.
THEOREM TransfersLockOnce == Spec => []OneTradePerTransfer
<1>1. P2PInv => OneTradePerTransfer
  BY DEF P2PInv
<1> QED
  BY <1>1, Invariance, PTL

-----------------------------------------------------------------------------
(* Sums.                                                                   *)

LEMMA OneTo ==
    ASSUME NEW k \in Nat
    PROVE  IsFiniteSet(1..k) /\ Cardinality(1..k) = k
<1>1. /\ IsFiniteSet(1..k)
      /\ Cardinality(1..k) = IF 1 > k THEN 0 ELSE k - 1 + 1
  BY FS_Interval
<1> QED
  BY <1>1

LEMMA Column1 ==
    ASSUME NEW x, NEW k \in Nat
    PROVE  IsFiniteSet({x} \X (1..k)) /\ Cardinality({x} \X (1..k)) = k
<1>1. IsFiniteSet({x}) /\ Cardinality({x}) = 1
  BY FS_Singleton
<1>2. /\ IsFiniteSet({x} \X (1..k))
      /\ Cardinality({x} \X (1..k)) = Cardinality({x}) * Cardinality(1..k)
  BY <1>1, OneTo, FS_Product, Zenon
<1> QED
  BY <1>1, <1>2, OneTo

\* the pairs that Total counts
Pairs(f, S) == UNION {{x} \X (1..f[x]) : x \in S}

LEMMA PairsOf ==
    ASSUME NEW f, NEW S
    PROVE  \A z : z \in Pairs(f, S) <=> \E x \in S : z \in {x} \X (1..f[x])
BY DEF Pairs

LEMMA PairsAreFinite ==
    ASSUME NEW S, IsFiniteSet(S), NEW f, \A x \in S : f[x] \in Nat
    PROVE  IsFiniteSet(Pairs(f, S)) /\ Total(f, S) \in Nat
<1> DEFINE C(x) == {x} \X (1..f[x])
           T == {C(x) : x \in S}
<1>1. IsFiniteSet(T)
  <2> DEFINE g == [x \in S |-> C(x)]
  <2>1. g \in Surjection(S, T)
    BY DEF Surjection
  <2> HIDE DEF g, T
  <2> QED
    BY <2>1, FS_Surjection
<1>2. \A c \in T : IsFiniteSet(c)
  <2>1. ASSUME NEW x \in S PROVE IsFiniteSet(C(x))
    BY Column1
  <2> HIDE DEF C
  <2> QED
    BY <2>1
<1>3. IsFiniteSet(UNION T)
  <2> HIDE DEF T
  <2> QED
    BY <1>1, <1>2, FS_UNION
<1> QED
  BY <1>3, FS_CardinalityType DEF Pairs, Total

LEMMA TotalOfNone ==
    ASSUME NEW f
    PROVE  Total(f, {}) = 0
<1>1. Pairs(f, {}) = {}
  BY DEF Pairs
<1> QED
  BY <1>1, FS_EmptySet DEF Pairs, Total

LEMMA TotalOfOne ==
    ASSUME NEW f, NEW x, f[x] \in Nat
    PROVE  Total(f, {x}) = f[x]
<1>1. Pairs(f, {x}) = {x} \X (1..f[x])
  BY DEF Pairs
<1> QED
  BY <1>1, Column1 DEF Pairs, Total

LEMMA TotalOfBoth ==
    ASSUME NEW S, NEW T, IsFiniteSet(S), IsFiniteSet(T), S \intersect T = {},
           NEW f, \A x \in S \union T : f[x] \in Nat
    PROVE  /\ Total(f, S \union T) = Total(f, S) + Total(f, T)
           /\ Total(f, S) \in Nat /\ Total(f, T) \in Nat
<1> DEFINE P == Pairs(f, S)
           Q == Pairs(f, T)
<1>1. /\ IsFiniteSet(P) /\ Cardinality(P) = Total(f, S) /\ Total(f, S) \in Nat
      /\ IsFiniteSet(Q) /\ Cardinality(Q) = Total(f, T) /\ Total(f, T) \in Nat
  BY PairsAreFinite DEF Pairs, Total
<1>2. Pairs(f, S \union T) = P \union Q
  BY DEF Pairs
<1>3. P \intersect Q = {}
  BY PairsOf
<1>4. Cardinality(P \intersect Q) = 0
  BY <1>3, FS_EmptySet
<1>5. Total(f, S \union T) = Cardinality(P \union Q)
  BY <1>2 DEF Pairs, Total
<1> HIDE DEF P, Q
<1>6. Cardinality(P \union Q) = Cardinality(P) + Cardinality(Q) - Cardinality(P \intersect Q)
  BY <1>1, FS_Union
<1> QED
  BY <1>1, <1>4, <1>5, <1>6

-----------------------------------------------------------------------------
(* Handlers that do not overlap, and no faults: Serial.                    *)

Busy(p) == sess[p].at # "idle"

\* a session that has released the crypto and is to write RELEASED
Releasing(w) == w.at = "journal" \/ (w.at = "write" /\ w.status = "RELEASED")

\* the statuses in which a trade has its part of the liquidity
Takes(st) == st \notin {"NONE", "EXPIRED"}

\* the trades of offer o the worker has given back already
Returned(w, o) == {t \in w.trades \ w.left : OfferOf[t] = o}

\* what the session is to set the liquidity of the offers to
Allots(w) ==
    /\ w.status = "AWAITING_CRYPTO" =>
         \E t \in Trades :
           /\ w.trades = {t} /\ Status(t) = "NONE" /\ Amount[t] <= avail[OfferOf[t]]
           /\ \A o \in Offers :
                w.avail[o] = IF o = OfferOf[t] THEN avail[o] - Amount[t] ELSE Keep
    /\ w.at = "expire" => w.status = "EXPIRED"
    /\ w.status = "EXPIRED" =>
         /\ w.left \subseteq w.trades /\ (w.at = "write" => w.left = {})
         /\ \A o \in Offers :
              Put(w.avail[o], avail[o]) = avail[o] + Total(Amount, Returned(w, o))
    /\ w.status = Keep => \A o \in Offers : w.avail[o] # Keep => NoOpenTrades(o)
    /\ w.status \notin {"AWAITING_CRYPTO", "EXPIRED", Keep} =>
         \A o \in Offers : w.avail[o] = Keep

\* what a busy session has decided is so until it writes it
Sure(w) ==
    /\ w.status # Keep =>
         \A t \in w.trades : released[t] = IF Releasing(w) THEN 1 ELSE 0
    /\ w.status \notin {"AWAITING_CRYPTO", Keep} =>
         \A t \in w.trades : Takes(Status(t))
    /\ w.hash # Keep \/ w.status \in {"AWAITING_CRYPTO", "EXPIRED"} =>
         \A t \in w.trades : trades[t].hash = None
    /\ w.row # None /\ w.row.state = "MATCHED" => w.hash = w.row.x
    /\ Allots(w)

Alone == \A p, q \in Procs : Busy(p) /\ Busy(q) => p = q

UnpaidHasNone ==
    \A t \in Trades :
        /\ Status(t) \in {"NONE", "AWAITING_CRYPTO", "EXPIRED"} => trades[t].hash = None
        /\ Status(t) \notin {"CREATED", "AWAITING_FIAT"}

MatchedBack ==
    \A x \in Transfers : deposits[x].state = "MATCHED" => trades[deposits[x].trade].hash = x

ReleaseEnds ==
    \A t \in Trades :
        /\ released[t] <= 1
        /\ released[t] > 0 => \/ Status(t) = "RELEASED"
                              \/ \E p \in Procs : Releasing(sess[p]) /\ t \in sess[p].trades

AllSure == \A p \in Procs : Busy(p) => Sure(sess[p])

SerialInv == Alone /\ UnpaidHasNone /\ MatchedBack /\ ReleaseEnds /\ AllSure

LEMMA SerialTypes ==
    ASSUME P2PInv
    PROVE  /\ sess \in [Procs -> SessionType] /\ avail \in [Offers -> Nat]
           /\ trades \in [Trades -> [status : TradeStatus \union {"NONE"},
                                    hash : Hashes \union {None}]]
           /\ deposits \in [Transfers -> DepositType]
           /\ released \in [Trades -> Nat] /\ SessionsJustified
BY DEF P2PInv, TypeOK

\* when one session at a time is allowed, a session that may begin is the first
LEMMA NoneIsBusy ==
    ASSUME Serial, Alone, NEW p \in Procs, Idle(p)
    PROVE  \A q \in Procs : ~Busy(q)
<1> DEFINE S == {q \in Procs : sess[q].at # "idle"}
<1>1. Cardinality(S) < 1
  BY DEF Idle, Serial
<1>2. ASSUME NEW q \in S PROVE FALSE
  <2>1. S = {q}
    BY DEF Alone, Busy
  <2>2. Cardinality(S) = 1
    BY <2>1, FS_Singleton
  <2> QED
    BY <1>1, <2>2
<1> QED
  BY <1>2 DEF Busy

LEMMA NoneReleases ==
    ASSUME SerialInv, \A q \in Procs : ~Busy(q), NEW t \in Trades, P2PInv,
           Status(t) # "RELEASED"
    PROVE  released[t] = 0
<1>1. \A q \in Procs : ~Releasing(sess[q])
  BY DEF Busy, Releasing
<1>2. ~(released[t] > 0)
  BY <1>1 DEF SerialInv, ReleaseEnds
<1> QED
  BY <1>2, SerialTypes

\* A decision that is sure, of a session that starts or goes on.
LEMMA DecidedStep ==
    ASSUME P2PInv, SerialInv, NEW p \in Procs, NEW w, Decided(p, w), Sure(w),
           \A q \in Procs : Busy(q) => q = p,
           Releasing(sess[p]) => Releasing(w) /\ w.trades = sess[p].trades
    PROVE  SerialInv'
<1>1. /\ sess' = [sess EXCEPT ![p] = w]
      /\ UNCHANGED <<trades, avail, deposits, released>>
  BY DEF Decided, rows
<1>2. /\ sess'[p] = w
      /\ \A q \in Procs : q # p => sess'[q] = sess[q]
  BY <1>1, SerialTypes
<1>3. Alone'
  BY <1>2 DEF Alone, Busy
<1>4. UnpaidHasNone' /\ MatchedBack'
  BY <1>1 DEF SerialInv, UnpaidHasNone, MatchedBack, Status
<1>5. \A t \in Trades : (\E q \in Procs : Releasing(sess[q]) /\ t \in sess[q].trades)
                         => (\E q \in Procs : Releasing(sess'[q]) /\ t \in sess'[q].trades)
  BY <1>2
<1>6. ReleaseEnds'
  BY <1>1, <1>5 DEF SerialInv, ReleaseEnds, Status
<1>7. \A o \in Offers : NoOpenTrades(o)' <=> NoOpenTrades(o)
  BY <1>1 DEF NoOpenTrades, Status
<1>8. Allots(w)'
  BY <1>1, <1>7 DEF Sure, Allots, Status, Returned
<1>9. Sure(w)'
  BY <1>1, <1>8 DEF Sure, Status
<1>10. Sure(sess[p])'
  BY <1>2, <1>9
<1>11. AllSure'
  BY <1>2, <1>10 DEF AllSure, Busy
<1> QED
  BY <1>3, <1>4, <1>6, <1>11 DEF SerialInv

LEMMA FirstStep ==
    ASSUME Serial, P2PInv, SerialInv, NEW p \in Procs, Idle(p), NEW w, Decided(p, w), Sure(w)
    PROVE  SerialInv'
<1>1. \A q \in Procs : ~Busy(q)
  BY NoneIsBusy DEF SerialInv
<1>2. ~Releasing(sess[p])
  BY DEF Idle, Releasing
<1> QED
  BY <1>1, <1>2, DecidedStep

\* a decision about trades that take part already and are not released, which
\* does not touch the liquidity
LEMMA PlainIsSure ==
    ASSUME P2PInv, SerialInv, \A q \in Procs : ~Busy(q),
           NEW w, w.status \notin {"AWAITING_CRYPTO", "EXPIRED"}, ~Releasing(w),
           w.at # "expire",
           \A o \in Offers : w.avail[o] = Keep, w.trades \subseteq Trades,
           \A t \in w.trades : Status(t) # "RELEASED" /\ Takes(Status(t)),
           w.hash # Keep => \A t \in w.trades : Awaiting(t),
           w.row # None /\ w.row.state = "MATCHED" => w.hash = w.row.x
    PROVE  Sure(w)
<1>1. \A t \in w.trades : released[t] = 0
  BY NoneReleases
<1>2. w.hash # Keep => \A t \in w.trades : trades[t].hash = None
  BY DEF SerialInv, UnpaidHasNone, Awaiting
<1>3. Allots(w)
  BY DEF Allots
<1> QED
  BY <1>1, <1>2, <1>3 DEF Sure

LEMMA OfferSure ==
    ASSUME Serial, P2PInv, SerialInv, NEW p \in Procs, OfferStep(p)
    PROVE  SerialInv'
<1> USE P2PAssumption
<1>1. ASSUME NEW t \in Trades, CreateTrade(p, t) PROVE SerialInv'
  <2> DEFINE o == OfferOf[t]
             n == avail[o] - Amount[t]
             w == [Writes EXCEPT !.trades = {t}, !.status = "AWAITING_CRYPTO",
                                 !.avail[o] = n]
  <2>1. Decided(p, w) /\ Idle(p) /\ Status(t) = "NONE" /\ Amount[t] <= avail[o]
    BY <1>1 DEF CreateTrade, Fresh
  <2>2. o \in Offers
    BY DEF P2PAssumption
  <2>3. /\ w.trades = {t} /\ w.status = "AWAITING_CRYPTO" /\ w.hash = Keep
        /\ w.row = None /\ w.at = "write"
        /\ \A x \in Offers : w.avail[x] = IF x = o THEN n ELSE Keep
    BY <2>2 DEF Writes, Nothing
  <2>4. Status(t) # "RELEASED" /\ trades[t].hash = None
    BY <2>1 DEF SerialInv, UnpaidHasNone
  <2>5. released[t] = 0
    BY <2>1, <2>4, NoneIsBusy, NoneReleases DEF SerialInv
  <2> HIDE DEF w
  <2>6. Keep # "AWAITING_CRYPTO"
    BY DEF P2PAssumption, TradeStatus
  <2>7. Allots(w)
    BY <2>1, <2>3, <2>6 DEF Allots
  <2>8. Sure(w)
    BY <2>3, <2>4, <2>5, <2>7 DEF Sure, Releasing
  <2> QED
    BY <2>1, <2>8, FirstStep
<1>2. ASSUME NEW w, Decided(p, w), Idle(p), w.trades = {}, w.status = Keep, w.hash = Keep,
             w.row = None, w.at = "write",
             \A o \in Offers : w.avail[o] # Keep => NoOpenTrades(o)
      PROVE  SerialInv'
  <2>1. Keep \notin TradeStatus
    BY DEF P2PAssumption
  <2>2. Allots(w)
    BY <1>2, <2>1 DEF Allots, TradeStatus
  <2>3. Sure(w)
    BY <1>2, <2>2 DEF Sure
  <2> QED
    BY <1>2, <2>3, FirstStep
<1>3. ASSUME NEW o \in Managed, NEW n \in Quantities, UpdateOffer(p, o, n) PROVE SerialInv'
  <2> DEFINE w == [Writes EXCEPT !.avail[o] = Changed(n, avail[o])]
  <2>1. Decided(p, w) /\ Idle(p) /\ NoOpenTrades(o)
    BY <1>3 DEF UpdateOffer
  <2>2. o \in Offers
    BY DEF P2PAssumption
  <2>3. /\ w.trades = {} /\ w.status = Keep /\ w.hash = Keep /\ w.row = None
        /\ w.at = "write" /\ \A x \in Offers : x # o => w.avail[x] = Keep
    BY <2>2 DEF Writes, Nothing
  <2> HIDE DEF w
  <2> QED
    BY <1>2, <2>1, <2>3
<1>4. ASSUME NEW o \in Managed, NEW b \in BOOLEAN, SetActive(p, o, b) PROVE SerialInv'
  <2> DEFINE w == [Writes EXCEPT !.active[o] = Changed(b, active[o])]
  <2>1. Decided(p, w) /\ Idle(p)
    BY <1>4 DEF SetActive
  <2>2. /\ w.trades = {} /\ w.status = Keep /\ w.hash = Keep /\ w.row = None
        /\ w.at = "write" /\ \A x \in Offers : w.avail[x] = Keep
    BY DEF Writes, Nothing
  <2> HIDE DEF w
  <2> QED
    BY <1>2, <2>1, <2>2
<1> QED
  BY <1>1, <1>3, <1>4 DEF OfferStep

LEMMA DepositSure ==
    ASSUME Serial, P2PInv, SerialInv, NEW p \in Procs, DepositStep(p)
    PROVE  SerialInv'
\* one trade that waits for its crypto, and the row of the transfer
<1>1. ASSUME NEW w, Decided(p, w), Idle(p), NEW t \in Trades, Awaiting(t), w.trades = {t},
             w.status = "CRYPTO_LOCKED", \A o \in Offers : w.avail[o] = Keep,
             w.row # None => w.hash = w.row.x, w.at = "write"
      PROVE  SerialInv'
  <2>1. \A q \in Procs : ~Busy(q)
    BY <1>1, NoneIsBusy DEF SerialInv
  <2>2. Status(t) # "RELEASED" /\ Takes(Status(t))
    BY <1>1 DEF Awaiting, Takes
  <2>3. /\ w.trades \subseteq Trades /\ ~Releasing(w)
        /\ \A u \in w.trades : Status(u) # "RELEASED" /\ Takes(Status(u)) /\ Awaiting(u)
    BY <1>1, <2>2 DEF Releasing
  <2>4. w.status \notin {"AWAITING_CRYPTO", "EXPIRED"}
    BY <1>1
  <2>5. Sure(w)
    BY <1>1, <2>1, <2>3, <2>4, PlainIsSure
  <2> QED
    BY <1>1, <2>5, FirstStep
<1>2. ASSUME NEW x \in Transfers, NEW via \in Routes, Deliver(p, x, via) PROVE SerialInv'
  <2>1. PICK t \in Match(x, via) :
          Decided(p, [Writes EXCEPT
            !.trades = {t}, !.status = "CRYPTO_LOCKED", !.hash = x,
            !.row = [x |-> x, state |-> "MATCHED", trade |-> t, via |-> via]])
    BY <1>2 DEF Deliver
  <2> DEFINE w == [Writes EXCEPT
                !.trades = {t}, !.status = "CRYPTO_LOCKED", !.hash = x,
                !.row = [x |-> x, state |-> "MATCHED", trade |-> t, via |-> via]]
  <2>2. t \in Trades /\ Awaiting(t)
    BY P2PAssumption DEF Match, P2PAssumption
  <2>3. /\ w.trades = {t} /\ w.status = "CRYPTO_LOCKED" /\ w.hash = x /\ w.row.x = x
        /\ w.at = "write" /\ \A o \in Offers : w.avail[o] = Keep
    BY DEF Writes, Nothing
  <2>4. Idle(p) /\ Decided(p, w)
    BY <1>2, <2>1 DEF Deliver
  <2> HIDE DEF w
  <2> QED
    BY <1>1, <2>2, <2>3, <2>4
<1>3. ASSUME NEW x \in Transfers, NEW via \in Routes, DeliverUnmatched(p, x, via)
      PROVE  SerialInv'
  <2>1. PICK state \in {"UNMATCHED", "AMBIGUOUS"} :
          Decided(p, [Writes EXCEPT
            !.row = [x |-> x, state |-> state, trade |-> None, via |-> via]])
    BY <1>3 DEF DeliverUnmatched
  <2> DEFINE w == [Writes EXCEPT
                !.row = [x |-> x, state |-> state, trade |-> None, via |-> via]]
  <2>2. /\ w.trades = {} /\ w.status = Keep /\ w.hash = Keep /\ w.row.state # "MATCHED"
        /\ w.at = "write" /\ \A o \in Offers : w.avail[o] = Keep
    BY DEF Writes, Nothing
  <2>3. Idle(p) /\ Decided(p, w)
    BY <1>3, <2>1 DEF DeliverUnmatched
  <2> HIDE DEF w
  <2>4. Keep \notin TradeStatus
    BY P2PAssumption DEF P2PAssumption
  <2>5. \A q \in Procs : ~Busy(q)
    BY <2>3, NoneIsBusy DEF SerialInv
  <2>6. Sure(w)
    BY <2>2, <2>4, <2>5, PlainIsSure DEF Releasing, TradeStatus
  <2> QED
    BY <2>3, <2>6, FirstStep
<1>4. ASSUME NEW x \in Transfers, NEW t \in Trades, Assign(p, x, t) PROVE SerialInv'
  <2> DEFINE w == [Writes EXCEPT
                !.trades = {t}, !.status = "CRYPTO_LOCKED", !.hash = x,
                !.row = [x |-> x, state |-> "MATCHED", trade |-> t, via |-> Keep]]
  <2>1. Decided(p, w) /\ Idle(p) /\ Awaiting(t)
    BY <1>4 DEF Assign
  <2>2. /\ w.trades = {t} /\ w.status = "CRYPTO_LOCKED" /\ w.hash = x /\ w.row.x = x
        /\ w.at = "write" /\ \A o \in Offers : w.avail[o] = Keep
    BY DEF Writes, Nothing
  <2> HIDE DEF w
  <2> QED
    BY <1>1, <2>1, <2>2
<1>5. ASSUME NEW t \in Trades, SandboxLock(p, t) PROVE SerialInv'
  <2> DEFINE w == [Writes EXCEPT !.trades = {t}, !.status = "CRYPTO_LOCKED",
                                 !.hash = Forged]
  <2>1. Decided(p, w) /\ Idle(p) /\ Awaiting(t)
    BY <1>5 DEF SandboxLock, CanMove, AllowedTrade, Awaiting
  <2>2. /\ w.trades = {t} /\ w.status = "CRYPTO_LOCKED" /\ w.row = None
        /\ w.at = "write" /\ \A o \in Offers : w.avail[o] = Keep
    BY DEF Writes, Nothing
  <2> HIDE DEF w
  <2> QED
    BY <1>1, <2>1, <2>2
<1> QED
  BY <1>2, <1>3, <1>4, <1>5 DEF DepositStep

LEMMA PartySure ==
    ASSUME Serial, P2PInv, SerialInv, NEW p \in Procs, PartyStep(p)
    PROVE  SerialInv'
\* one trade that takes part and is not released
<1>1. ASSUME NEW w, Decided(p, w), Idle(p), NEW t \in Trades, w.trades = {t},
             Status(t) # "RELEASED", Takes(Status(t)), w.hash = Keep, w.row = None,
             w.status \notin {"AWAITING_CRYPTO", "EXPIRED"}, ~Releasing(w),
             w.at # "expire", \A o \in Offers : w.avail[o] = Keep
      PROVE  SerialInv'
  <2>1. \A q \in Procs : ~Busy(q)
    BY <1>1, NoneIsBusy DEF SerialInv
  <2>2. /\ w.trades \subseteq Trades
        /\ \A u \in w.trades : Status(u) # "RELEASED" /\ Takes(Status(u))
    BY <1>1
  <2>3. Sure(w)
    BY <1>1, <2>1, <2>2, PlainIsSure
  <2> QED
    BY <1>1, <2>3, FirstStep
<1>2. ASSUME NEW t \in Trades, FiatSent(p, t) PROVE SerialInv'
  <2> DEFINE w == [Writes EXCEPT !.trades = {t}, !.status = "FIAT_SENT"]
  <2>1. Decided(p, w) /\ Idle(p) /\ Status(t) \in {"AWAITING_FIAT", "CRYPTO_LOCKED"}
    BY <1>2 DEF FiatSent
  <2>2. /\ w.trades = {t} /\ w.status = "FIAT_SENT" /\ w.row = None /\ w.hash = Keep
        /\ w.at = "write" /\ \A o \in Offers : w.avail[o] = Keep
    BY DEF Writes, Nothing
  <2> HIDE DEF w
  <2> QED
    BY <1>1, <2>1, <2>2 DEF Takes, Releasing
<1>3. ASSUME NEW t \in Trades, ConfirmFiat(p, t) PROVE SerialInv'
  <2> DEFINE w == [Nothing EXCEPT !.at = "flush", !.trades = {t},
                                  !.status = "FIAT_CONFIRMED"]
  <2>1. Decided(p, w) /\ Idle(p) /\ Status(t) = "FIAT_SENT"
    BY <1>3 DEF ConfirmFiat
  <2>2. /\ w.trades = {t} /\ w.status = "FIAT_CONFIRMED" /\ w.row = None /\ w.hash = Keep
        /\ w.at = "flush" /\ \A o \in Offers : w.avail[o] = Keep
    BY DEF Nothing
  <2> HIDE DEF w
  <2> QED
    BY <1>1, <2>1, <2>2 DEF Takes, Releasing
<1>4. ASSUME NEW t \in Trades, NEW d \in Disputes, OpenDispute(p, t, d) PROVE SerialInv'
  <2> DEFINE w == [Writes EXCEPT
                !.trades = {t}, !.status = Changed("DISPUTED", Status(t)),
                !.dispute = [d |-> d, trade |-> t, open |-> TRUE]]
  <2>1. /\ Decided(p, w) /\ Idle(p) /\ Status(t) # "NONE"
        /\ CanMove(Status(t), "DISPUTED")
    BY <1>4 DEF OpenDispute
  <2>2. /\ w.trades = {t} /\ w.status \in {"DISPUTED", Keep} /\ w.row = None
        /\ w.hash = Keep /\ w.at = "write" /\ \A o \in Offers : w.avail[o] = Keep
    BY DEF Writes, Nothing, Changed
  <2>3. Status(t) \notin {"RELEASED", "EXPIRED"}
    BY <2>1 DEF CanMove, AllowedTrade
  <2>4. Keep \notin TradeStatus
    BY P2PAssumption DEF P2PAssumption
  <2> HIDE DEF w
  <2> QED
    BY <1>1, <2>1, <2>2, <2>3, <2>4 DEF Takes, Releasing, TradeStatus
<1>5. ASSUME NEW t \in Trades, NEW d \in Disputes, Resolve(p, t, d) PROVE SerialInv'
  <2>1. PICK buyer \in BOOLEAN :
         Decided(p, [Nothing EXCEPT
           !.at = IF buyer THEN "release" ELSE "write", !.trades = {t},
           !.status = IF buyer THEN "RELEASED" ELSE "CANCELLED",
           !.dispute = [d |-> d, trade |-> t, open |-> FALSE]])
    BY <1>5 DEF Resolve
  <2> DEFINE w == [Nothing EXCEPT
           !.at = IF buyer THEN "release" ELSE "write", !.trades = {t},
           !.status = IF buyer THEN "RELEASED" ELSE "CANCELLED",
           !.dispute = [d |-> d, trade |-> t, open |-> FALSE]]
  <2>2. Decided(p, w) /\ Idle(p) /\ Status(t) = "DISPUTED"
    BY <1>5, <2>1 DEF Resolve
  <2>3. /\ w.trades = {t} /\ w.row = None /\ w.hash = Keep
        /\ \/ w.status = "RELEASED" /\ w.at = "release"
           \/ w.status = "CANCELLED" /\ w.at = "write"
        /\ \A o \in Offers : w.avail[o] = Keep
    BY DEF Nothing
  <2> HIDE DEF w
  <2> QED
    BY <1>1, <2>2, <2>3 DEF Takes, Releasing
<1> QED
  BY <1>2, <1>3, <1>4, <1>5 DEF PartyStep

\* a busy session is the only one, and what it decided is sure
LEMMA BusyFacts ==
    ASSUME P2PInv, SerialInv, NEW p \in Procs, sess[p].at # "idle"
    PROVE  /\ Sure(sess[p]) /\ Justified(sess[p]) /\ sess[p] \in SessionType
           /\ \A q \in Procs : Busy(q) => q = p
<1>1. sess \in [Procs -> SessionType] /\ SessionsJustified
  BY SerialTypes
<1>2. Busy(p)
  BY DEF Busy
<1> QED
  BY <1>1, <1>2 DEF SerialInv, Alone, AllSure, SessionsJustified

LEMMA ReadDueStep ==
    ASSUME Serial, P2PInv, SerialInv, ReadDue
    PROVE  SerialInv'
<1> DEFINE found == {t \in due : Status(t) \in Expirable}
           w == [Nothing EXCEPT !.at = "expire", !.left = found,
                                !.trades = found, !.status = "EXPIRED"]
<1>1. Decided(Worker, w) /\ Idle(Worker) /\ Worker \in Procs
  BY DEF ReadDue, Procs
<1>2. found \subseteq Trades /\ \A t \in found : Status(t) \in Expirable
  BY DEF P2PInv, TypeOK
<1> HIDE DEF found
<1>3. /\ w.trades = found /\ w.left = found /\ w.status = "EXPIRED" /\ w.at = "expire"
      /\ w.row = None /\ w.hash = Keep /\ \A o \in Offers : w.avail[o] = Keep
  BY DEF Nothing
<1> HIDE DEF w
<1>4. \A q \in Procs : ~Busy(q)
  BY <1>1, NoneIsBusy DEF SerialInv
<1>5. \A t \in found : /\ released[t] = 0 /\ trades[t].hash = None /\ Takes(Status(t))
  <2>1. ASSUME NEW t \in found PROVE Status(t) = "AWAITING_CRYPTO" /\ trades[t].hash = None
    BY <1>2 DEF SerialInv, UnpaidHasNone, Expirable
  <2> QED
    BY <1>2, <1>4, <2>1, NoneReleases DEF Takes
<1>6. Keep \notin TradeStatus
  BY P2PAssumption DEF P2PAssumption
<1>7. Allots(w)
  <2>1. ASSUME NEW o \in Offers
        PROVE  Put(w.avail[o], avail[o]) = avail[o] + Total(Amount, Returned(w, o))
    <3>1. Returned(w, o) = {}
      BY <1>3 DEF Returned
    <3>2. avail[o] \in Nat
      BY SerialTypes
    <3> QED
      BY <1>3, <3>1, <3>2, TotalOfNone DEF Put
  <2> QED
    BY <1>3, <1>6, <2>1 DEF Allots, TradeStatus
<1>8. Sure(w)
  BY <1>3, <1>5, <1>7 DEF Sure, Releasing
<1> QED
  BY <1>1, <1>8, FirstStep

LEMMA AmountIsNat == \A t \in Trades : Amount[t] \in Nat /\ OfferOf[t] \in Offers
BY P2PAssumption DEF P2PAssumption

\* the worker gives one more trade back, on top of what it has given back already
LEMMA ExpireNextStep ==
    ASSUME Serial, P2PInv, SerialInv, ExpireNext
    PROVE  SerialInv'
<1> DEFINE old == sess[Worker]
<1>1. PICK t \in old.left :
        LET o    == OfferOf[t]
            seen == IF old.avail[o] = Keep THEN avail[o] ELSE old.avail[o]
            rest == old.left \ {t}
        IN  Decided(Worker, [old EXCEPT
              !.left = rest, !.avail[o] = seen + Amount[t],
              !.at = IF rest = {} THEN "write" ELSE "expire"])
  BY DEF ExpireNext
<1>2. /\ Worker \in Procs /\ old.at = "expire"
  BY DEF ExpireNext, Procs
<1>3. /\ Sure(old) /\ Justified(old) /\ old \in SessionType
      /\ \A q \in Procs : Busy(q) => q = Worker
  BY <1>2, BusyFacts
<1>4. avail \in [Offers -> Nat]
  BY SerialTypes
<1> DEFINE o    == OfferOf[t]
           seen == Put(old.avail[o], avail[o])
           sum  == seen + Amount[t]
           rest == old.left \ {t}
           at   == IF rest = {} THEN "write" ELSE "expire"
           w    == [old EXCEPT !.left = rest, !.avail[o] = sum, !.at = at]
<1>5. Decided(Worker, w)
  BY <1>1 DEF Put
<1>6. t \in Trades /\ o \in Offers /\ Amount[t] \in Nat
  BY <1>3, AmountIsNat DEF SessionType
<1>7. old.status = "EXPIRED"
  BY <1>2, <1>3 DEF Sure, Allots
<1>8. seen \in Nat /\ sum \in Nat /\ sum # Keep
  BY <1>3, <1>4, <1>6, P2PAssumption DEF SessionType, Put, P2PAssumption
<1>9. /\ w.status = "EXPIRED" /\ w.hash = old.hash /\ w.left = rest
      /\ w.trades = old.trades /\ w.row = old.row /\ w.at = at
      /\ \A x \in Offers : w.avail[x] = IF x = o THEN sum ELSE old.avail[x]
  BY <1>3, <1>6, <1>7 DEF SessionType
<1>10. at \in {"write", "expire"} /\ (at = "write" => rest = {})
  OBVIOUS
<1> HIDE DEF w, at, rest, sum, seen
<1>11. /\ old.left \subseteq old.trades /\ old.trades \subseteq Trades
       /\ \A x \in Offers :
            Put(old.avail[x], avail[x]) = avail[x] + Total(Amount, Returned(old, x))
  BY <1>3, <1>7 DEF Sure, Allots, SessionType
<1>12. ASSUME NEW x \in Offers
       PROVE  Put(w.avail[x], avail[x]) = avail[x] + Total(Amount, Returned(w, x))
  <2>1. CASE x # o
    <3>1. Returned(w, x) = Returned(old, x)
      BY <1>9, <2>1 DEF Returned, rest
    <3> QED
      BY <1>9, <1>11, <2>1, <3>1
  <2>2. CASE x = o
    <3> DEFINE R == Returned(old, o)
    <3>1. Returned(w, o) = R \union {t} /\ R \intersect {t} = {} /\ R \subseteq Trades
      BY <1>1, <1>9, <1>11 DEF Returned, rest
    <3>2. IsFiniteSet(R) /\ IsFiniteSet({t}) /\ \A y \in R \union {t} : Amount[y] \in Nat
      BY <1>6, <3>1, TradesAreFinite, AmountIsNat, FS_Subset, FS_Singleton
    <3> HIDE DEF R
    <3>3. /\ Total(Amount, R \union {t}) = Total(Amount, R) + Total(Amount, {t})
          /\ Total(Amount, R) \in Nat
      BY <3>1, <3>2, TotalOfBoth
    <3>4. Total(Amount, {t}) = Amount[t]
      BY <1>6, TotalOfOne
    <3>5. seen = avail[o] + Total(Amount, R)
      BY <1>6, <1>11 DEF R, seen
    <3>6. Put(w.avail[o], avail[o]) = seen + Amount[t]
      BY <1>6, <1>8, <1>9 DEF Put, sum
    <3> QED
      BY <1>4, <1>6, <2>2, <3>1, <3>3, <3>4, <3>5, <3>6
  <2> QED
    BY <2>1, <2>2
<1>13. Keep \notin TradeStatus
  BY P2PAssumption DEF P2PAssumption
<1>14. Allots(w)
  <2>1. w.left \subseteq w.trades
    BY <1>9, <1>11 DEF rest
  <2> QED
    BY <1>9, <1>10, <1>12, <1>13, <2>1 DEF Allots, TradeStatus
<1>15. Sure(w)
  BY <1>2, <1>3, <1>7, <1>9, <1>10, <1>14 DEF Sure, Releasing
<1>16. ~Releasing(sess[Worker])
  BY <1>2 DEF Releasing
<1> QED
  BY <1>2, <1>3, <1>5, <1>15, <1>16, DecidedStep

LEMMA FlushStep ==
    ASSUME P2PInv, SerialInv, NEW p \in Procs, Flush(p)
    PROVE  SerialInv'
<1> DEFINE old == sess[p]
           w == [old EXCEPT !.at = "release", !.holds = TRUE]
<1>1. Decided(p, w) /\ old.at = "flush"
  BY DEF Flush
<1>2. /\ Sure(old) /\ Justified(old) /\ old \in SessionType
      /\ \A q \in Procs : Busy(q) => q = p
  BY <1>1, BusyFacts
<1> HIDE DEF old
<1>3. /\ w.at = "release" /\ w.status = old.status /\ w.hash = old.hash /\ w.row = old.row
      /\ w.trades = old.trades /\ w.left = old.left /\ w.avail = old.avail
  BY <1>2 DEF SessionType
<1>4. old.status = "FIAT_CONFIRMED"
  BY <1>1, <1>2 DEF Justified
<1> HIDE DEF w
<1>5. Allots(w)
  BY <1>2, <1>3, <1>4 DEF Sure, Allots
<1>6. Sure(w) /\ ~Releasing(old)
  BY <1>1, <1>2, <1>3, <1>4, <1>5 DEF Sure, Releasing
<1> QED
  BY <1>1, <1>2, <1>6, DecidedStep DEF old

LEMMA JournalExistsStep ==
    ASSUME P2PInv, SerialInv, NEW p \in Procs, JournalExists(p)
    PROVE  SerialInv'
<1> DEFINE old == sess[p]
           w == [old EXCEPT !.at = "write", !.status = "RELEASED"]
<1>1. Decided(p, w) /\ old.at = "journal"
  BY DEF JournalExists
<1>2. /\ Sure(old) /\ Justified(old) /\ old \in SessionType
      /\ \A q \in Procs : Busy(q) => q = p
  BY <1>1, BusyFacts
<1> HIDE DEF old
<1>3. /\ w.at = "write" /\ w.status = "RELEASED" /\ w.hash = old.hash /\ w.row = old.row
      /\ w.trades = old.trades /\ w.left = old.left /\ w.avail = old.avail
  BY <1>2 DEF SessionType
<1>4. old.status = "FIAT_CONFIRMED" /\ Keep \notin TradeStatus
  BY <1>1, <1>2, P2PAssumption DEF Justified, P2PAssumption
<1> HIDE DEF w
<1>5. Allots(w)
  BY <1>2, <1>3, <1>4 DEF Sure, Allots, TradeStatus
<1>6. Sure(w) /\ Releasing(w)
  BY <1>1, <1>2, <1>3, <1>4, <1>5 DEF Sure, Releasing, TradeStatus
<1> QED
  BY <1>1, <1>2, <1>3, <1>6, DecidedStep DEF old

\* the write the index refuses was to lock a trade, not to release one
LEMMA RefusedStep ==
    ASSUME P2PInv, SerialInv, NEW p \in Procs, Refused(p)
    PROVE  SerialInv'
<1>1. /\ Decided(p, Nothing) /\ sess[p].at = "write" /\ sess[p].hash \in Transfers
  BY DEF Refused, Clash
<1>2. /\ Justified(sess[p]) /\ \A q \in Procs : Busy(q) => q = p
  BY <1>1, BusyFacts
<1>3. Keep \notin TradeStatus /\ Keep \notin Transfers
  BY P2PAssumption DEF P2PAssumption
<1>4. ~Releasing(sess[p])
  BY <1>1, <1>2, <1>3 DEF Justified, Releasing
<1>5. /\ Nothing.status = Keep /\ Nothing.hash = Keep /\ Nothing.row = None
      /\ Nothing.trades = {} /\ Nothing.at = "idle"
      /\ \A o \in Offers : Nothing.avail[o] = Keep
  BY DEF Nothing
<1>6. Allots(Nothing)
  BY <1>3, <1>5 DEF Allots, TradeStatus
<1>7. Sure(Nothing)
  BY <1>3, <1>5, <1>6 DEF Sure, TradeStatus
<1> HIDE DEF Nothing
<1> QED
  BY <1>1, <1>2, <1>4, <1>7, DecidedStep

\* the steps of a busy session that change the tables
LEMMA OwnStep ==
    ASSUME P2PInv, SerialInv, NEW p \in Procs, NEW w, sess' = [sess EXCEPT ![p] = w],
           \A q \in Procs : Busy(q) => q = p, w.at # "idle" => Sure(w)',
           UnpaidHasNone', MatchedBack',
           \A t \in Trades :
             /\ released'[t] <= 1
             /\ released'[t] > 0 => Status(t)' = "RELEASED" \/ (Releasing(w) /\ t \in w.trades)
    PROVE  SerialInv'
<1>1. /\ sess'[p] = w
      /\ \A q \in Procs : q # p => sess'[q] = sess[q]
  BY SerialTypes
<1>2. Alone'
  BY <1>1 DEF Alone, Busy
<1>3. ReleaseEnds'
  BY <1>1 DEF ReleaseEnds
<1>4. w.at # "idle" => Sure(sess[p])'
  BY <1>1 DEF Sure, Allots, Returned, Releasing
<1>5. AllSure'
  BY <1>1, <1>4 DEF AllSure, Busy
<1> QED
  BY <1>2, <1>3, <1>5 DEF SerialInv

LEMMA ReleaseStep ==
    ASSUME P2PInv, SerialInv, NEW p \in Procs, Release(p)
    PROVE  SerialInv'
<1>1. PICK old : old = sess[p]
  OBVIOUS
<1>2. PICK w : w = [old EXCEPT !.at = IF old.holds THEN "journal" ELSE "write"]
  OBVIOUS
<1>3. /\ sess' = [sess EXCEPT ![p] = w] /\ old.at = "release"
      /\ UNCHANGED <<trades, avail, active, deposits, disputes>>
      /\ released' = [t \in Trades |->
                        released[t] + (IF t \in old.trades THEN 1 ELSE 0)]
  BY <1>1, <1>2 DEF Release, rows
<1>4. /\ Sure(old) /\ Justified(old) /\ old \in SessionType
      /\ \A q \in Procs : Busy(q) => q = p
  BY <1>1, <1>3, BusyFacts
<1>5. /\ w.at = IF old.holds THEN "journal" ELSE "write"
      /\ w.status = old.status /\ w.hash = old.hash /\ w.row = old.row
      /\ w.trades = old.trades /\ w.left = old.left /\ w.avail = old.avail
  BY <1>2, <1>4 DEF SessionType
<1>6. /\ old.status \in {"FIAT_CONFIRMED", "RELEASED"} /\ Releasing(w) /\ ~Releasing(old)
      /\ old.status # Keep /\ old.trades \subseteq Trades
  BY <1>3, <1>4, <1>5, P2PAssumption
     DEF Justified, Releasing, P2PAssumption, TradeStatus, SessionType
<1>7. \A t \in old.trades : released[t] = 0
  BY <1>4, <1>6 DEF Sure
<1>8. \A t \in Trades : released'[t] = IF t \in old.trades THEN 1 ELSE released[t]
  BY <1>3, <1>7, SerialTypes
<1>9. ASSUME NEW t \in Trades
      PROVE  /\ released'[t] <= 1
             /\ released'[t] > 0 => Status(t)' = "RELEASED" \/ (Releasing(w) /\ t \in w.trades)
  <2>1. CASE t \in old.trades
    BY <1>5, <1>6, <1>8, <2>1
  <2>2. CASE t \notin old.trades
    <3>1. \A q \in Procs : Releasing(sess[q]) => FALSE
      BY <1>1, <1>4, <1>6 DEF Busy, Releasing
    <3>2. released[t] <= 1 /\ (released[t] > 0 => Status(t) = "RELEASED")
      BY <3>1 DEF SerialInv, ReleaseEnds
    <3> QED
      BY <1>3, <1>8, <2>2, <3>2 DEF Status
  <2> QED
    BY <2>1, <2>2
<1>10. UnpaidHasNone' /\ MatchedBack'
  BY <1>3 DEF SerialInv, UnpaidHasNone, MatchedBack, Status
<1>11. Allots(w)
  BY <1>4, <1>5, <1>6 DEF Sure, Allots
<1>12. Allots(w)'
  BY <1>3, <1>5, <1>6, <1>11 DEF Allots
<1>13. Sure(w)'
  <2>1. \A t \in w.trades : released'[t] = 1
    BY <1>5, <1>6, <1>8
  <2> QED
    BY <1>3, <1>4, <1>5, <1>6, <1>12, <2>1 DEF Sure, Status
<1> QED
  BY <1>3, <1>4, <1>9, <1>10, <1>13, OwnStep

\* the early commit: the trades take part before and after it
LEMMA PostJournalStep ==
    ASSUME P2PInv, SerialInv, NEW p \in Procs, PostJournal(p)
    PROVE  /\ SerialInv' /\ avail' = avail
           /\ \A t \in Trades : Takes(Status(t))' <=> Takes(Status(t))
<1>1. PICK old : old = sess[p]
  OBVIOUS
<1>2. PICK w : w = [old EXCEPT !.at = "write", !.status = "RELEASED", !.holds = FALSE]
  OBVIOUS
<1>3. /\ sess' = [sess EXCEPT ![p] = w] /\ old.at = "journal"
      /\ UNCHANGED <<avail, active, deposits, disputes, released>>
      /\ trades' = [t \in Trades |-> IF t \in old.trades
                                     THEN [trades[t] EXCEPT !.status = old.status]
                                     ELSE trades[t]]
  BY <1>1, <1>2 DEF PostJournal
<1>4. /\ Sure(old) /\ Justified(old) /\ old \in SessionType
      /\ \A q \in Procs : Busy(q) => q = p
  BY <1>1, <1>3, BusyFacts
<1>5. /\ w.at = "write" /\ w.status = "RELEASED" /\ w.hash = old.hash /\ w.row = old.row
      /\ w.trades = old.trades /\ w.left = old.left /\ w.avail = old.avail
  BY <1>2, <1>4 DEF SessionType
<1>6. /\ old.status = "FIAT_CONFIRMED" /\ Releasing(old) /\ Releasing(w)
      /\ Keep \notin TradeStatus /\ old.trades \subseteq Trades
  BY <1>3, <1>4, <1>5, P2PAssumption DEF Justified, Releasing, P2PAssumption, SessionType
<1>7. \A t \in Trades :
        /\ trades'[t].hash = trades[t].hash
        /\ t \in old.trades => Status(t)' = "FIAT_CONFIRMED"
        /\ t \notin old.trades => Status(t)' = Status(t)
  BY <1>3, <1>6, SerialTypes DEF Status
<1>8. \A t \in old.trades : Takes(Status(t)) /\ released[t] = 1
  BY <1>4, <1>6 DEF Sure, TradeStatus
<1>9. \A t \in Trades : Takes(Status(t))' <=> Takes(Status(t))
  BY <1>7, <1>8 DEF Takes
<1>10. UnpaidHasNone'
  BY <1>7 DEF SerialInv, UnpaidHasNone
<1>11. MatchedBack'
  <2>1. ASSUME NEW x \in Transfers, deposits[x].state = "MATCHED"
        PROVE  deposits[x].trade \in Trades
    BY <2>1 DEF P2PInv, MatchedIsLocked
  <2> QED
    BY <1>3, <1>7, <2>1 DEF SerialInv, MatchedBack
<1>12. ASSUME NEW t \in Trades
       PROVE  /\ released'[t] <= 1
              /\ released'[t] > 0 => Status(t)' = "RELEASED" \/ (Releasing(w) /\ t \in w.trades)
  <2>1. \A q \in Procs : Releasing(sess[q]) => sess[q] = old
    BY <1>1, <1>4 DEF Busy, Releasing
  <2> QED
    BY <1>3, <1>5, <1>6, <1>7, <2>1 DEF SerialInv, ReleaseEnds
<1>13. Allots(w)'
  BY <1>4, <1>5, <1>6 DEF Sure, Allots, TradeStatus
<1>14. Sure(w)'
  BY <1>3, <1>4, <1>5, <1>6, <1>7, <1>8, <1>9, <1>13 DEF Sure, TradeStatus
<1>15. SerialInv'
  BY <1>3, <1>4, <1>10, <1>11, <1>12, <1>14, OwnStep
<1> QED
  BY <1>3, <1>9, <1>15

LEMMA CommitStep ==
    ASSUME P2PInv, SerialInv, NEW p \in Procs, Commit(p)
    PROVE  SerialInv'
<1>1. PICK w : w = sess[p]
  OBVIOUS
<1>2. PICK none : none = Nothing
  OBVIOUS
<1>3. /\ w.at = "write" /\ sess' = [sess EXCEPT ![p] = none] /\ released' = released
      /\ trades' = [t \in Trades |->
           IF t \in w.trades THEN [status |-> Put(w.status, trades[t].status),
                                   hash   |-> Put(w.hash, trades[t].hash)]
                             ELSE trades[t]]
      /\ deposits' = [x \in Transfers |->
           IF w.row # None /\ w.row.x = x
           THEN [state |-> w.row.state, trade |-> w.row.trade,
                 via   |-> Put(w.row.via, deposits[x].via)]
           ELSE deposits[x]]
  BY <1>1, <1>2 DEF Commit
<1>4. /\ Sure(w) /\ Justified(w) /\ w \in SessionType
      /\ \A q \in Procs : Busy(q) => q = p
  BY <1>1, <1>3, BusyFacts
<1>5. /\ none.at = "idle" /\ ~Releasing(none) /\ w.trades \subseteq Trades
  BY <1>2, <1>4 DEF Nothing, Releasing, SessionType
<1>6. /\ \A t \in w.trades : /\ Status(t)' = Put(w.status, Status(t))
                             /\ trades'[t].hash = Put(w.hash, trades[t].hash)
      /\ \A t \in Trades \ w.trades : trades'[t] = trades[t] /\ Status(t)' = Status(t)
  BY <1>3, <1>5 DEF Status
<1>7. /\ Keep \notin TradeStatus /\ Keep \notin Hashes /\ None \notin Hashes /\ Forged # None
      /\ "NONE" \notin TradeStatus
  BY P2PAssumption DEF P2PAssumption, Hashes, TradeStatus
<1>8. w.status \in TradeStatus \union {Keep} /\ w.hash \in Hashes \union {Keep}
  BY <1>4 DEF SessionType
<1>9. UnpaidHasNone'
  <2> SUFFICES ASSUME NEW t \in Trades
               PROVE  /\ Status(t)' \in {"NONE", "AWAITING_CRYPTO", "EXPIRED"}
                           => trades'[t].hash = None
                      /\ Status(t)' \notin {"CREATED", "AWAITING_FIAT"}
    BY DEF UnpaidHasNone
  <2>1. /\ Status(t) \in {"NONE", "AWAITING_CRYPTO", "EXPIRED"} => trades[t].hash = None
        /\ Status(t) \notin {"CREATED", "AWAITING_FIAT"}
    BY DEF SerialInv, UnpaidHasNone
  <2>2. CASE t \notin w.trades
    BY <1>6, <2>1, <2>2
  <2>3. CASE t \in w.trades /\ w.status = Keep
    <3>1. w.hash = Keep
      BY <1>4, <1>7, <2>3 DEF Justified, TradeStatus
    <3> QED
      BY <1>6, <2>1, <2>3, <3>1 DEF Put
  <2>4. CASE t \in w.trades /\ w.status # Keep
    <3>1. Status(t)' = w.status
      BY <1>6, <2>4 DEF Put
    <3>2. w.status \notin {"NONE", "CREATED", "AWAITING_FIAT"}
      BY <1>4, <1>7, <1>8, <2>4 DEF Justified
    <3>3. w.status \in {"AWAITING_CRYPTO", "EXPIRED"} => w.hash = Keep /\ trades[t].hash = None
      BY <1>4, <2>4 DEF Justified, Sure
    <3> QED
      BY <1>6, <2>4, <3>1, <3>2, <3>3 DEF Put
  <2> QED
    BY <2>2, <2>3, <2>4
<1>10. MatchedBack'
  <2> SUFFICES ASSUME NEW x \in Transfers, deposits'[x].state = "MATCHED"
               PROVE  trades'[deposits'[x].trade].hash = x
    BY DEF MatchedBack
  <2>1. CASE w.row # None /\ w.row.x = x
    <3>1. deposits'[x].trade = w.row.trade /\ w.row.state = "MATCHED"
      BY <1>3, <2>1
    <3>2. w.row.trade \in w.trades /\ w.hash = x /\ w.hash # Keep
      BY <1>4, <2>1, <3>1 DEF Justified, Sure
    <3> QED
      BY <1>6, <3>1, <3>2 DEF Put
  <2>2. CASE ~(w.row # None /\ w.row.x = x)
    <3> DEFINE t == deposits[x].trade
    <3>1. deposits'[x].trade = t /\ deposits[x].state = "MATCHED"
      BY <1>3, <2>2
    <3>2. t \in Trades /\ trades[t].hash = x /\ x # None
      BY <1>7, <3>1 DEF P2PInv, MatchedIsLocked, SerialInv, MatchedBack, Hashes
    <3>3. t \in w.trades => w.hash = Keep
      BY <1>4, <3>2 DEF Sure
    <3> HIDE DEF t
    <3> QED
      BY <1>6, <3>1, <3>2, <3>3 DEF Put
  <2> QED
    BY <2>1, <2>2
<1>11. ASSUME NEW t \in Trades
       PROVE  /\ released'[t] <= 1
              /\ released'[t] > 0 => Status(t)' = "RELEASED" \/ (Releasing(none) /\ t \in none.trades)
  <2>1. released[t] <= 1 /\ (released[t] > 0 => Status(t) = "RELEASED" \/ (Releasing(w) /\ t \in w.trades))
    <3>1. \A q \in Procs : Releasing(sess[q]) => sess[q] = w
      BY <1>1, <1>4 DEF Busy, Releasing
    <3> QED
      BY <3>1 DEF SerialInv, ReleaseEnds
  <2>2. ASSUME released[t] > 0 PROVE Status(t)' = "RELEASED"
    <3>1. CASE t \notin w.trades
      BY <1>6, <2>1, <2>2, <3>1
    <3>2. CASE t \in w.trades /\ w.status = Keep
      <4>1. ~Releasing(w)
        BY <1>3, <1>7, <3>2 DEF Releasing, TradeStatus
      <4> QED
        BY <1>6, <2>1, <2>2, <3>2, <4>1 DEF Put
    <3>3. CASE t \in w.trades /\ w.status # Keep
      <4>1. Releasing(w)
        BY <1>4, <2>2, <3>3 DEF Sure
      <4> QED
        BY <1>3, <1>6, <3>3, <4>1 DEF Put, Releasing
    <3> QED
      BY <3>1, <3>2, <3>3
  <2> QED
    BY <1>3, <2>1, <2>2
<1> QED
  BY <1>3, <1>4, <1>5, <1>9, <1>10, <1>11, OwnStep

LEMMA SameStep ==
    ASSUME SerialInv, UNCHANGED <<rows, released, sess>>
    PROVE  SerialInv'
<1>1. UNCHANGED <<trades, avail, deposits, released, sess>>
  BY DEF rows
<1>2. \A t \in Trades : Status(t)' = Status(t)
  BY <1>1 DEF Status
<1>3. Alone' /\ UnpaidHasNone' /\ MatchedBack' /\ ReleaseEnds'
  BY <1>1, <1>2 DEF SerialInv, Alone, Busy, UnpaidHasNone, MatchedBack, ReleaseEnds
<1>4. \A o \in Offers : NoOpenTrades(o)' <=> NoOpenTrades(o)
  BY <1>2 DEF NoOpenTrades
<1>5. ASSUME NEW p \in Procs, Busy(p)' PROVE Sure(sess[p])'
  <2>1. PICK w : w = sess[p]
    OBVIOUS
  <2>2. Sure(w)
    BY <1>1, <1>5, <2>1 DEF SerialInv, AllSure, Busy
  <2>3. Allots(w)'
    BY <1>1, <1>2, <1>4, <2>2 DEF Sure, Allots, Returned
  <2>4. Sure(w)'
    BY <1>1, <2>2, <2>3 DEF Sure, Status
  <2>5. sess'[p] = w
    BY <1>1, <2>1
  <2> QED
    BY <2>4, <2>5
<1> QED
  BY <1>3, <1>5 DEF SerialInv, AllSure

LEMMA NextKeepsSerial ==
    ASSUME Serial, P2PInv, SerialInv, [Next]_vars
    PROVE  SerialInv'
<1>1. ASSUME NEW p \in Procs, OfferStep(p) \/ DepositStep(p) \/ PartyStep(p)
      PROVE  SerialInv'
  BY <1>1, OfferSure, DepositSure, PartySure
<1>2. ASSUME NEW p \in Procs, Continue(p) PROVE SerialInv'
  BY <1>2, FlushStep, ReleaseStep, PostJournalStep, JournalExistsStep, CommitStep, RefusedStep
     DEF Continue
<1>3. CASE WorkerStep
  BY <1>3, ReadDueStep, ExpireNextStep DEF WorkerStep
<1>4. ~((\E p \in Procs : Fail(p)) \/ Wedge \/ Restart)
  <2>1. MaxFaults = 0 /\ faults \in 0..0
    BY DEF Serial, P2PInv, TypeOK
  <2> QED
    BY <2>1 DEF Fail, Wedge, Restart, Fault
<1>5. ASSUME NEW t \in Trades, Expires(t) PROVE SerialInv'
  BY <1>5, SameStep DEF Expires
<1>6. CASE UNCHANGED vars
  <2>1. UNCHANGED <<rows, released, sess>>
    BY <1>6 DEF vars, rows
  <2> QED
    BY <2>1, SameStep
<1> QED
  BY <1>1, <1>2, <1>3, <1>4, <1>5, <1>6 DEF Next

LEMMA InitSerial == ASSUME Init PROVE SerialInv
<1>1. \A p \in Procs : ~Busy(p)
  BY DEF Init, Busy, Nothing
<1>2. /\ \A t \in Trades : Status(t) = "NONE" /\ trades[t].hash = None /\ released[t] = 0
      /\ \A x \in Transfers : deposits[x].state = "ABSENT"
  BY DEF Init, Status
<1> QED
  BY <1>1, <1>2 DEF SerialInv, Alone, UnpaidHasNone, MatchedBack, ReleaseEnds, AllSure

\* The inductive invariant of handlers that do not overlap and do not fail: the one
\* that works decided on rows that are still so, knows whether it has released the
\* crypto, and sets the liquidity of an offer to what its trades leave of it.
THEOREM SerialInvariance == Serial => (Spec => []SerialInv)
<1>1. Init => SerialInv
  BY InitSerial
<1>2. Serial /\ P2PInv /\ SerialInv /\ [Next]_vars => SerialInv'
  BY NextKeepsSerial
<1>3. SUFFICES ASSUME Serial PROVE Spec => []SerialInv
  OBVIOUS
<1>4. P2PInv /\ SerialInv /\ [Next]_vars => SerialInv'
  BY <1>2, <1>3
<1> QED
  BY <1>1, <1>4, Invariance, PTL DEF Spec

\* One handler at a time releases the crypto of a trade once, and the trade is
\* RELEASED when it ends, although half-way it commits FIAT_CONFIRMED.
THEOREM ReleasedOnceSerially == Serial => (Spec => []ReleasedOnce)
<1>1. SerialInv => ReleasedOnce
  <2> SUFFICES ASSUME SerialInv PROVE ReleasedOnce
    OBVIOUS
  <2>1. Quiet => \A p \in Procs : ~Releasing(sess[p])
    BY DEF Quiet, Releasing
  <2> QED
    BY <2>1 DEF SerialInv, ReleaseEnds, ReleasedOnce
<1> QED
  BY <1>1, SerialInvariance, PTL

\* One handler at a time leaves the row of a transfer and the trade it names in
\* agreement, and no trade that was paid into expires.
THEOREM MatchesAreMutual == Serial => (Spec => []MatchIsMutual)
<1>1. SerialInv => MatchIsMutual
  BY DEF SerialInv, MatchedBack, UnpaidHasNone, MatchIsMutual
<1> QED
  BY <1>1, SerialInvariance, PTL

-----------------------------------------------------------------------------
(* Liquidity. *)

Conserved(o) == avail'[o] + Taken(o)' = avail[o] + Taken(o)

\* the same trades take part
LEMMA SameTaken ==
    ASSUME \A t \in Trades : Takes(Status(t))' <=> Takes(Status(t))
    PROVE  \A o \in Offers : Taken(o)' = Taken(o)
<1>1. \A o \in Offers : Taking(o)' = Taking(o)
  BY DEF Taking, Takes
<1> QED
  BY <1>1 DEF Taken

LEMMA TakingIsFinite ==
    ASSUME NEW S, S \subseteq Trades
    PROVE  IsFiniteSet(S) /\ \A t \in S : Amount[t] \in Nat
BY TradesAreFinite, AmountIsNat, FS_Subset

LEMMA CommitConserves ==
    ASSUME P2PInv, SerialInv, NEW p \in Procs, Commit(p), NEW o \in Offers
    PROVE  Conserved(o) \/ (NoOpenTrades(o) /\ NoOpenTrades(o)')
<1>1. PICK w : w = sess[p]
  OBVIOUS
<1>2. /\ w.at = "write" /\ avail'[o] = Put(w.avail[o], avail[o])
      /\ trades' = [t \in Trades |->
           IF t \in w.trades THEN [status |-> Put(w.status, trades[t].status),
                                   hash   |-> Put(w.hash, trades[t].hash)]
                             ELSE trades[t]]
  BY <1>1 DEF Commit
<1>3. /\ Sure(w) /\ w \in SessionType
  BY <1>1, <1>2, BusyFacts
<1>4. w.trades \subseteq Trades /\ Keep \notin TradeStatus /\ Keep \notin Nat
  BY <1>3, P2PAssumption DEF SessionType, P2PAssumption
<1>5. /\ \A t \in w.trades : Status(t)' = Put(w.status, Status(t))
      /\ \A t \in Trades \ w.trades : Status(t)' = Status(t)
  BY <1>2, <1>4 DEF Status
<1>6. avail[o] \in Nat
  BY SerialTypes
<1>7. CASE w.status = "AWAITING_CRYPTO"
  <2>1. PICK t \in Trades :
           /\ w.trades = {t} /\ Status(t) = "NONE" /\ Amount[t] <= avail[OfferOf[t]]
           /\ \A x \in Offers :
                w.avail[x] = IF x = OfferOf[t] THEN avail[x] - Amount[t] ELSE Keep
    BY <1>3, <1>7 DEF Sure, Allots
  <2>2. /\ Status(t)' = "AWAITING_CRYPTO"
        /\ \A x \in Trades : x # t => Status(x)' = Status(x)
    BY <1>4, <1>5, <1>7, <2>1 DEF Put, TradeStatus
  <2>3. CASE OfferOf[t] # o
    <3>1. Taking(o)' = Taking(o)
      BY <2>2, <2>3 DEF Taking
    <3>2. avail'[o] = avail[o]
      BY <1>2, <2>1, <2>3 DEF Put
    <3> QED
      BY <3>1, <3>2 DEF Conserved, Taken
  <2>4. CASE OfferOf[t] = o
    <3> DEFINE T == Taking(o)
    <3>1. /\ Taking(o)' = T \union {t} /\ T \intersect {t} = {} /\ T \union {t} \subseteq Trades
      BY <2>1, <2>2, <2>4 DEF Taking
    <3> HIDE DEF T
    <3>2. /\ Total(Amount, T \union {t}) = Total(Amount, T) + Total(Amount, {t})
          /\ Total(Amount, T) \in Nat
      BY <3>1, TakingIsFinite, FS_Subset, FS_Singleton, TotalOfBoth
    <3>3. Total(Amount, {t}) = Amount[t] /\ Amount[t] \in Nat
      BY AmountIsNat, TotalOfOne
    <3>4. avail'[o] = avail[o] - Amount[t]
      BY <1>2, <1>4, <1>6, <2>1, <2>4, <3>3 DEF Put
    <3> QED
      BY <1>6, <3>1, <3>2, <3>3, <3>4 DEF Conserved, Taken, T
  <2> QED
    BY <2>3, <2>4
<1>8. CASE w.status = "EXPIRED"
  <2> DEFINE T == Taking(o)
             R == Returned(w, o)
  <2>1. /\ w.left = {} /\ Put(w.avail[o], avail[o]) = avail[o] + Total(Amount, R)
        /\ \A t \in w.trades : Takes(Status(t))
    BY <1>2, <1>3, <1>4, <1>8 DEF Sure, Allots, TradeStatus
  <2>2. \A t \in w.trades : Status(t)' = "EXPIRED"
    BY <1>4, <1>5, <1>8 DEF Put, TradeStatus
  <2>3. Taking(o)' = T \ R /\ R \subseteq T /\ T \subseteq Trades
    BY <1>4, <1>5, <2>1, <2>2 DEF Taking, Returned, Takes
  <2> HIDE DEF T, R
  <2>4. /\ T = (T \ R) \union R /\ (T \ R) \intersect R = {}
        /\ T \ R \subseteq Trades /\ R \subseteq Trades
    BY <2>3
  <2>5. /\ Total(Amount, T) = Total(Amount, T \ R) + Total(Amount, R)
        /\ Total(Amount, T \ R) \in Nat /\ Total(Amount, R) \in Nat
    <3>1. /\ IsFiniteSet(T \ R) /\ IsFiniteSet(R)
          /\ \A t \in (T \ R) \union R : Amount[t] \in Nat
      BY <2>3, <2>4, TakingIsFinite
    <3> QED
      BY <2>4, <3>1, TotalOfBoth
  <2> QED
    BY <1>2, <1>6, <2>1, <2>3, <2>5 DEF Conserved, Taken, T
<1>9. CASE w.status = Keep
  <2>1. \A t \in Trades : Status(t)' = Status(t)
    BY <1>5, <1>9 DEF Put
  <2>2. NoOpenTrades(o)' <=> NoOpenTrades(o)
    BY <2>1 DEF NoOpenTrades
  <2>3. w.avail[o] # Keep => NoOpenTrades(o)
    BY <1>3, <1>9 DEF Sure, Allots
  <2>4. Taken(o)' = Taken(o)
    BY <2>1, SameTaken
  <2> QED
    BY <1>2, <2>2, <2>3, <2>4 DEF Put, Conserved
<1>10. CASE w.status \notin {"AWAITING_CRYPTO", "EXPIRED", Keep}
  <2>1. w.avail[o] = Keep /\ \A t \in w.trades : Takes(Status(t))
    BY <1>3, <1>10 DEF Sure, Allots
  <2>2. w.status \in TradeStatus
    BY <1>3, <1>10 DEF SessionType
  <2>3. \A t \in w.trades : Takes(Status(t))'
    BY <1>5, <1>10, <2>2 DEF Put, Takes, TradeStatus
  <2>4. \A t \in Trades : Takes(Status(t))' <=> Takes(Status(t))
    BY <1>5, <2>1, <2>3
  <2>5. Taken(o)' = Taken(o)
    BY <2>4, SameTaken
  <2> QED
    BY <1>2, <2>1, <2>5 DEF Put, Conserved
<1> QED
  BY <1>7, <1>8, <1>9, <1>10

LEMMA NextConserves ==
    ASSUME Serial, P2PInv, SerialInv, [Next]_vars, NEW o \in Offers
    PROVE  Conserved(o) \/ (NoOpenTrades(o) /\ NoOpenTrades(o)')
<1>1. ASSUME UNCHANGED <<trades, avail>> PROVE Conserved(o)
  <2>1. Taken(o)' = Taken(o)
    BY <1>1, SameTaken DEF Status
  <2> QED
    BY <1>1, <2>1 DEF Conserved
<1>2. ASSUME NEW p \in Procs, PostJournal(p) PROVE Conserved(o)
  BY <1>2, PostJournalStep, SameTaken DEF Conserved
<1>3. ASSUME NEW p \in Procs, NEW w, Decided(p, w) PROVE Conserved(o)
  BY <1>1, <1>3 DEF Decided, rows
<1>4. ASSUME NEW p \in Procs, Continue(p)
      PROVE  Conserved(o) \/ (NoOpenTrades(o) /\ NoOpenTrades(o)')
  <2>1. CASE Release(p)
    BY <1>1, <2>1 DEF Release, rows
  <2>2. CASE Flush(p) \/ JournalExists(p) \/ Refused(p)
    BY <1>3, <2>2 DEF Flush, JournalExists, Refused
  <2> QED
    BY <1>2, <1>4, <2>1, <2>2, CommitConserves DEF Continue
<1>5. ASSUME NEW p \in Procs, OfferStep(p) \/ DepositStep(p) \/ PartyStep(p)
      PROVE  Conserved(o)
  <2>1. UNCHANGED <<trades, avail>>
    BY <1>5 DEF OfferStep, DepositStep, PartyStep, CreateTrade, UpdateOffer, SetActive,
       Deliver, DeliverUnmatched, Assign, SandboxLock, FiatSent, ConfirmFiat, OpenDispute,
       Resolve, Decided, rows
  <2> QED
    BY <1>1, <2>1
<1>6. CASE WorkerStep \/ (\E p \in Procs : Fail(p)) \/ Wedge \/ Restart
           \/ (\E t \in Trades : Expires(t)) \/ UNCHANGED vars
  <2>1. UNCHANGED <<trades, avail>>
    BY <1>6 DEF WorkerStep, ReadDue, ExpireNext, Decided, Fail, Wedge, Restart, Fault,
       Expires, vars, rows
  <2> QED
    BY <1>1, <2>1
<1> QED
  BY <1>4, <1>5, <1>6 DEF Next

\* While an offer has an open trade, one handler at a time moves its liquidity
\* between the offer and its trades: a batch of expired trades of one offer gives
\* back each of them.
THEOREM LiquidityIsConserved == Serial => (Spec => LiquidityConserved)
<1>1. Serial /\ P2PInv /\ SerialInv /\ [Next]_vars =>
        [\A o \in Offers :
           \/ avail'[o] + Taken(o)' = avail[o] + Taken(o)
           \/ NoOpenTrades(o) /\ NoOpenTrades(o)']_vars
  BY NextConserves DEF Conserved
<1>2. SUFFICES ASSUME Serial PROVE Spec => LiquidityConserved
  OBVIOUS
<1>3. P2PInv /\ SerialInv /\ [Next]_vars =>
        [\A o \in Offers :
           \/ avail'[o] + Taken(o)' = avail[o] + Taken(o)
           \/ NoOpenTrades(o) /\ NoOpenTrades(o)']_vars
  BY <1>1, <1>2
<1>4. Spec => []SerialInv
  BY <1>2, SerialInvariance
<1> QED
  BY <1>3, <1>4, Invariance, PTL DEF Spec, LiquidityConserved
=============================================================================
