------------------------ MODULE PaymentRequestsProofs ------------------------
(***************************************************************************)
(* Proofs about PaymentRequests, for any users, offers and sessions, any   *)
(* length of the worker's batch and any overlap of sessions.               *)
(***************************************************************************)
EXTENDS PaymentRequests, FiniteSetTheorems, TLAPS

-----------------------------------------------------------------------------
(* The inductive invariant.                                                *)

\* what a session knows of a row it has read
ReadOK(c, r) ==
    LET row == held[c][r]
        t == txn[c]
    IN  /\ r <= n /\ row.status = "pending" /\ row.offer \in Offers
        /\ t.now <= clock /\ (row.last # None => row.last <= t.now)
        /\ t.op = "pay" => /\ t.user \in Users /\ t.user # row.offer.requester
                           /\ \A s \in Ids : held[c][s] # None => s = r
        /\ t.op = "remind" /\ row.again # None => row.again <= t.now

\* what the reminders of a request have left in its row
Spaced(row, a, m, now) ==
    /\ row.status = "none" => a = 0 /\ m = 0
    /\ a <= 1 /\ (a = 1 => row.due # None /\ row.last # None /\ row.due <= row.last)
    /\ m > 0 => row.again # None /\ m * Cooldown <= row.again /\ row.again <= now + Cooldown

RowsOK ==
    \A r \in Ids :
        /\ r <= n => reqs[r].offer \in Offers
        /\ reqs[r].last # None => reqs[r].last <= clock
        /\ r \notin astray =>
              /\ paid[r] = IF reqs[r].status = "paid" THEN 1 ELSE 0
              /\ Spaced(reqs[r], autos[r], manuals[r], clock)

ReadsOK == \A c \in Sessions, r \in Ids : held[c][r] # None => ReadOK(c, r)

IInv == TypeOK /\ RowsOK /\ ReadsOK /\ BalanceMatchesFlow

-----------------------------------------------------------------------------
(* Rows.                                                                   *)

LEMMA RowParts ==
    ASSUME NEW row \in RowType
    PROVE  /\ row.status \in {"none", "pending"} \union Final
           /\ row.payer \in Maybe(Users) /\ row.offer \in Maybe(Offers)
           /\ row.due \in Maybe(Nat) /\ row.expires \in Maybe(Nat)
           /\ row.count \in Maybe(Nat \ {0}) /\ row.last \in Maybe(Nat)
           /\ row.again \in Maybe(Nat) /\ row.prev \in Nat
BY DEF RowType

LEMMA SaveIsRow ==
    ASSUME NEW current \in RowType, NEW read \in RowType, NEW new \in RowType
    PROVE  /\ Save(current, read, new) \in RowType
           /\ Save(current, read, new).status \in {current.status, new.status}
           /\ Save(current, read, new).last \in {current.last, new.last}
           /\ Save(current, read, new).offer = current.offer
           /\ Save(current, read, new).due = current.due
           /\ current = read =>
                 /\ Save(current, read, new).status = new.status
                 /\ Save(current, read, new).last = new.last
                 /\ Save(current, read, new).again = new.again
<1> DEFINE s == Column(current.status, read.status, new.status)
           p == Column(current.payer, read.payer, new.payer)
           l == Column(current.last, read.last, new.last)
           a == Column(current.again, read.again, new.again)
<1>1. /\ s \in {"none", "pending"} \union Final /\ p \in Maybe(Users)
      /\ l \in Maybe(Nat) /\ a \in Maybe(Nat)
      /\ s \in {current.status, new.status} /\ l \in {current.last, new.last}
  BY RowParts DEF Column
<1>2. current = read => s = new.status /\ l = new.last /\ a = new.again
  BY DEF Column
<1>3. Save(current, read, new)
         = [current EXCEPT !.status = s, !.payer = p, !.last = l, !.again = a]
  BY DEF Save
<1> DEFINE saved == [current EXCEPT !.status = s, !.payer = p, !.last = l, !.again = a]
<1> HIDE DEF s, p, l, a
<1>4. /\ saved \in RowType
      /\ saved.status = s /\ saved.last = l /\ saved.again = a
      /\ saved.offer = current.offer /\ saved.due = current.due
  BY <1>1 DEF RowType
<1> HIDE DEF saved
<1> QED
  BY <1>1, <1>2, <1>3, <1>4 DEF saved

LEMMA MaintainedIsRow ==
    ASSUME NEW row \in RowType, row.status = "pending", NEW now \in Nat
    PROVE  /\ Maintained(row, now) \in RowType
           /\ Maintained(row, now).status \in {"pending", "expired"}
           /\ Maintained(row, now).offer = row.offer
           /\ Maintained(row, now).due = row.due
           /\ Maintained(row, now).again = row.again
           /\ Maintained(row, now).last =
                 IF ~Expired(row, now) /\ Silent(row, now) THEN now ELSE row.last
           /\ Maintained(row, now) # row /\ Maintained(row, now).status = "pending"
                 <=> ~Expired(row, now) /\ Silent(row, now)
<1>1. /\ "expired" \in Final /\ now \in Maybe(Nat)
      /\ row.last \in Maybe(Nat)
  BY RowParts DEF Final, Maybe
<1>2. CASE Expired(row, now)
  <2>1. Maintained(row, now) = [row EXCEPT !.status = "expired"]
    BY <1>2 DEF Maintained
  <2> QED
    BY <1>1, <1>2, <2>1 DEF RowType
<1>3. CASE ~Expired(row, now) /\ Silent(row, now)
  <2>1. Maintained(row, now) = [row EXCEPT !.last = now]
    BY <1>3 DEF Maintained
  <2>2. row.last # now
    <3>1. row.last # None => row.last < row.due /\ row.last \in Nat
      BY <1>1, <1>3 DEF Silent, Maybe
    <3>2. row.due # None /\ row.due <= now /\ row.due \in Nat
      BY <1>3, RowParts DEF Silent, IsDue, Maybe
    <3>3. now # None
      BY RequestsAssumption
    <3> QED
      BY <3>1, <3>2, <3>3
  <2> QED
    BY <1>1, <1>3, <2>1, <2>2 DEF RowType
<1>4. CASE ~Expired(row, now) /\ ~Silent(row, now)
  BY <1>4 DEF Maintained
<1> QED
  BY <1>2, <1>3, <1>4

\* what a session makes of a row it has read
LEMMA OutcomeIsRow ==
    ASSUME NEW row \in RowType, row.status = "pending", NEW op \in Tasks,
           NEW u \in Maybe(Users), NEW now \in Nat
    PROVE  LET new == Outcome(op, u, now, row) IN
           /\ new \in RowType /\ new.offer = row.offer /\ new.due = row.due
           /\ new.status \in {"pending"} \union Final
           /\ new.status = "paid" <=> op = "pay"
           /\ new.last \in {row.last, now}
           /\ op # "remind" => new.again = row.again
           /\ op = "remind" => new.status = "pending" /\ new.last = now
                               /\ new.again = now + Cooldown
           /\ op = "maintain" /\ new # row /\ new.status = "pending" =>
                 Silent(row, now) /\ new.last = now
           /\ op \notin {"remind", "maintain"} => new.last = row.last
<1>1. /\ now \in Maybe(Nat) /\ now + Cooldown \in Maybe(Nat)
      /\ Final = {"paid", "declined", "cancelled", "expired"}
  BY RequestsAssumption DEF Maybe, Final
<1>2. CASE op = "pay"
  <2>1. Outcome(op, u, now, row) = [row EXCEPT !.status = "paid", !.payer = u]
    BY <1>2 DEF Outcome
  <2> QED
    BY <1>1, <1>2, <2>1 DEF RowType
<1>3. CASE op = "decline"
  <2>1. Outcome(op, u, now, row) = [row EXCEPT !.status = "declined", !.payer = u]
    BY <1>3 DEF Outcome
  <2> QED
    BY <1>1, <1>3, <2>1 DEF RowType
<1>4. CASE op = "cancel"
  <2>1. Outcome(op, u, now, row) = [row EXCEPT !.status = "cancelled"]
    BY <1>4 DEF Outcome
  <2> QED
    BY <1>1, <1>4, <2>1 DEF RowType
<1>5. CASE op = "remind"
  <2>1. Outcome(op, u, now, row) = [row EXCEPT !.last = now, !.again = now + Cooldown]
    BY <1>5 DEF Outcome
  <2> QED
    BY <1>1, <1>5, <2>1 DEF RowType
<1>6. CASE op = "view"
  <2>1. Outcome(op, u, now, row) = IF Expired(row, now)
                                   THEN [row EXCEPT !.status = "expired"] ELSE row
    BY <1>6 DEF Outcome
  <2> QED
    BY <1>1, <1>6, <2>1 DEF RowType
<1>7. CASE op = "maintain"
  <2>1. Outcome(op, u, now, row) = Maintained(row, now)
    BY <1>7 DEF Outcome
  <2> QED
    BY <1>1, <1>7, <2>1, MaintainedIsRow
<1> QED
  BY <1>2, <1>3, <1>4, <1>5, <1>6, <1>7 DEF Tasks, Answers

-----------------------------------------------------------------------------
(* Sessions that read.                                                     *)

LEMMA OfferParts ==
    ASSUME NEW o \in Offers
    PROVE  /\ o.requester \in Users /\ o.payer \in Maybe(Users) /\ o.amount \in Nat \ {0}
           /\ o.due \in Maybe(Nat) /\ o.expires \in Maybe(Nat)
           /\ o.count \in Maybe(Nat \ {0})
BY RequestsAssumption DEF OfferType

\* an offer is not None: tells apart the rows that exist
LEMMA OfferIsSomething == \A o \in Offers : o # None
BY RequestsAssumption

LEMMA ReadKeepsInv ==
    ASSUME IInv, NEW c \in Sessions, NEW op \in Tasks, NEW u \in Maybe(Users),
           NEW S \in SUBSET Ids, Read(c, op, u, S),
           \A r \in S : reqs[r].status = "pending",
           op = "pay" => /\ u \in Users
                         /\ \A r \in S : reqs[r].offer.requester # u
                         /\ \A r, s \in S : r = s,
           op = "remind" => \A r \in S : reqs[r].again # None => reqs[r].again <= clock
    PROVE  IInv'
<1>1. /\ txn' = [txn EXCEPT ![c] = [op |-> op, user |-> u, now |-> clock]]
      /\ held' = [held EXCEPT ![c] = [r \in Ids |-> IF r \in S THEN reqs[r] ELSE None]]
      /\ ops' = ops + 1
      /\ UNCHANGED <<reqs, n, wallet, line, flow, lost, autos, manuals, clock, funds,
                     paid, astray, transfers>>
  BY DEF Read, Balances, Reminders
<1>2. /\ txn \in [Sessions -> TxnType] /\ held \in [Sessions -> [Ids -> Maybe(RowType)]]
      /\ reqs \in [Ids -> RowType] /\ ops \in Nat /\ clock \in Nat /\ n \in Nat
      /\ \A r \in Ids : reqs[r].status = "none" <=> r > n
  BY RequestsAssumption DEF IInv, TypeOK
<1>3. TypeOK'
  <2>1. [op |-> op, user |-> u, now |-> clock] \in TxnType
    BY <1>2 DEF TxnType
  <2>2. txn' \in [Sessions -> TxnType] /\ ops' \in Nat
    BY <1>1, <1>2, <2>1
  <2>3. [r \in Ids |-> IF r \in S THEN reqs[r] ELSE None] \in [Ids -> Maybe(RowType)]
    BY <1>2 DEF Maybe
  <2>4. held' \in [Sessions -> [Ids -> Maybe(RowType)]]
    BY <1>1, <1>2, <2>3
  <2> QED
    BY <1>1, <2>2, <2>4 DEF IInv, TypeOK
<1>4. ReadsOK'
  <2> SUFFICES ASSUME NEW d \in Sessions, NEW r \in Ids, held'[d][r] # None
               PROVE  ReadOK(d, r)'
    BY DEF ReadsOK
  <2>1. CASE d = c
    <3>1. /\ r \in S /\ \A s \in Ids : held'[c][s] = IF s \in S THEN reqs[s] ELSE None
          /\ txn'[c].op = op /\ txn'[c].user = u /\ txn'[c].now = clock
      BY <1>1, <1>2, <2>1
    <3>2. /\ r <= n /\ reqs[r].offer \in Offers
          /\ reqs[r].last # None => reqs[r].last <= clock
      BY <1>2, <3>1 DEF IInv, RowsOK, Ids
    <3> QED
      BY <1>1, <1>2, <2>1, <3>1, <3>2 DEF ReadOK
  <2>2. CASE d # c
    <3>1. held'[d] = held[d] /\ txn'[d] = txn[d]
      BY <1>1, <1>2, <2>2
    <3> QED
      BY <1>1, <3>1 DEF IInv, ReadsOK, ReadOK
  <2> QED
    BY <2>1, <2>2
<1>5. RowsOK' /\ BalanceMatchesFlow'
  BY <1>1 DEF IInv, RowsOK, BalanceMatchesFlow
<1> QED
  BY <1>3, <1>4, <1>5 DEF IInv

LEMMA AnswerKeepsInv ==
    ASSUME IInv, NEW c \in Sessions, NEW op \in Tasks \ {"view", "maintain"},
           NEW u \in Users, NEW r \in Ids, Answer(c, op, u, r)
    PROVE  IInv'
<1>1. /\ Read(c, op, u, {r}) /\ reqs[r].status = "pending"
      /\ op = "pay" => reqs[r].offer.requester # u
      /\ op = "remind" /\ reqs[r].again # None => reqs[r].again <= clock
  BY DEF Answer, Allowed, RequesterOf, Answers
<1> QED
  BY <1>1, ReadKeepsInv DEF Maybe

LEMMA ViewKeepsInv ==
    ASSUME IInv, NEW c \in Sessions, NEW S \in SUBSET Ids, View(c, S)
    PROVE  IInv'
<1>1. Read(c, "view", None, S) /\ \A r \in S : reqs[r].status = "pending"
  BY DEF View, Expired
<1> QED
  BY <1>1, ReadKeepsInv DEF Maybe, Tasks

LEMMA MaintainOwnKeepsInv ==
    ASSUME IInv, NEW c \in Sessions, NEW u \in Users, MaintainOwn(c, u)
    PROVE  IInv'
<1>1. 1..n \in SUBSET Ids
  BY RequestsAssumption DEF IInv, TypeOK, Ids
<1>2. PICK S \in SUBSET Ids :
         Read(c, "maintain", u, S) /\ \A r \in S : reqs[r].status = "pending"
  <2> DEFINE S == {r \in 1..n : RequesterOf(reqs[r]) = u /\ Selected(reqs[r], clock)}
  <2>1. Read(c, "maintain", u, S) /\ \A r \in S : reqs[r].status = "pending"
    BY DEF MaintainOwn, Selected, Expired, IsDue
  <2>2. S \in SUBSET Ids
    BY <1>1
  <2> HIDE DEF S
  <2> QED
    BY <2>1, <2>2
<1> QED
  BY <1>2, ReadKeepsInv DEF Maybe, Tasks

LEMMA ReadFundsKeepsInv ==
    ASSUME IInv, NEW c \in Sessions, NEW r \in Ids, ReadFunds(c, r)
    PROVE  IInv'
<1>1. /\ txn[c].op = "pay" /\ held[c][r] # None
      /\ \/ /\ txn' = [txn EXCEPT ![c] = Idle]
            /\ held' = [held EXCEPT ![c] = Nothing]
            /\ UNCHANGED funds
         \/ /\ funds' = [funds EXCEPT ![c] = <<wallet[txn[c].user], wallet[Payee(c, r)]>>]
            /\ UNCHANGED <<txn, held>>
      /\ UNCHANGED <<reqs, n, wallet, line, flow, lost, autos, manuals, ops, transfers,
                     clock, paid, astray>>
  BY DEF ReadFunds, Balances, Reminders, Counters
<1>2. /\ txn \in [Sessions -> TxnType] /\ held \in [Sessions -> [Ids -> Maybe(RowType)]]
      /\ funds \in [Sessions -> Maybe(Int \X Int)] /\ wallet \in [Users -> Int]
  BY DEF IInv, TypeOK
<1>3. txn[c].user \in Users /\ Payee(c, r) \in Users
  BY <1>1, OfferParts DEF IInv, ReadsOK, ReadOK, Payee, RequesterOf
<1>4. Idle \in TxnType /\ Nothing \in [Ids -> Maybe(RowType)]
  BY DEF Idle, TxnType, Nothing, Maybe
<1>5. TypeOK'
  <2> DEFINE read == <<wallet[txn[c].user], wallet[Payee(c, r)]>>
  <2>2. read \in Maybe(Int \X Int)
    BY <1>2, <1>3 DEF Maybe
  <2>3. funds' = funds \/ funds' = [funds EXCEPT ![c] = read]
    BY <1>1
  <2> HIDE DEF read
  <2>1. /\ txn' \in [Sessions -> TxnType] /\ held' \in [Sessions -> [Ids -> Maybe(RowType)]]
        /\ funds' \in [Sessions -> Maybe(Int \X Int)]
    BY <1>1, <1>2, <1>4, <2>2, <2>3
  <2> QED
    BY <1>1, <2>1 DEF IInv, TypeOK
<1>6. ReadsOK'
  <2> SUFFICES ASSUME NEW d \in Sessions, NEW s \in Ids, held'[d][s] # None
               PROVE  ReadOK(d, s)'
    BY DEF ReadsOK
  <2>1. held'[d] = held[d] /\ txn'[d] = txn[d]
    BY <1>1, <1>2 DEF Nothing
  <2> QED
    BY <1>1, <2>1 DEF IInv, ReadsOK, ReadOK
<1>7. RowsOK' /\ BalanceMatchesFlow'
  BY <1>1 DEF IInv, RowsOK, BalanceMatchesFlow
<1> QED
  BY <1>5, <1>6, <1>7 DEF IInv

-----------------------------------------------------------------------------
(* Sessions that commit.                                                   *)

\* what a session has decided about a row it holds
LEMMA NewFacts ==
    ASSUME IInv, NEW c \in Sessions, NEW r \in Ids, held[c][r] # None,
           txn[c].op \in Tasks
    PROVE  LET row == held[c][r]
               new == New(c, r)
               now == txn[c].now
           IN  /\ row \in RowType /\ row.status = "pending" /\ ReadOK(c, r)
               /\ now \in Nat
               /\ new \in RowType /\ new.offer = row.offer /\ new.due = row.due
               /\ new.status \in {"pending"} \union Final
               /\ new.status = "paid" <=> txn[c].op = "pay"
               /\ new.last \in {row.last, now}
               /\ txn[c].op # "remind" => new.again = row.again
               /\ txn[c].op = "remind" => new.status = "pending" /\ new.last = now
                                          /\ new.again = now + Cooldown
               /\ txn[c].op = "maintain" /\ new # row /\ new.status = "pending" =>
                     Silent(row, now) /\ new.last = now
               /\ txn[c].op \notin {"remind", "maintain"} => new.last = row.last
<1>1. /\ held[c][r] \in RowType /\ ReadOK(c, r)
      /\ txn[c].user \in Maybe(Users) /\ txn[c].now \in Nat
  BY DEF IInv, TypeOK, ReadsOK, TxnType, Maybe
<1>2. held[c][r].status = "pending"
  BY <1>1 DEF ReadOK
<1> QED
  BY <1>1, <1>2, OutcomeIsRow DEF New

\* the rows after a commit
LEMMA WrittenFacts ==
    ASSUME IInv, NEW c \in Sessions, txn[c].op \in Tasks
    PROVE  /\ Written(c) \in [Ids -> RowType]
           /\ \A r \in Ids : LET row == Written(c)[r] IN
                 /\ row.status = "none" <=> r > n
                 /\ row.offer = reqs[r].offer /\ row.due = reqs[r].due
                 /\ row.last # None => row.last <= clock
                 /\ r \in Touched(c) => held[c][r] # None /\ r <= n
                 /\ r \notin Touched(c) => row = reqs[r]
                 /\ r \in Touched(c) \ Stale(c) =>
                       /\ reqs[r] = held[c][r]
                       /\ row.status = New(c, r).status
                       /\ row.last = New(c, r).last
                       /\ row.again = New(c, r).again
<1> SUFFICES ASSUME NEW r \in Ids
             PROVE  LET row == Written(c)[r] IN
                    /\ row \in RowType
                    /\ row.status = "none" <=> r > n
                    /\ row.offer = reqs[r].offer /\ row.due = reqs[r].due
                    /\ row.last # None => row.last <= clock
                    /\ r \in Touched(c) => held[c][r] # None /\ r <= n
                    /\ r \notin Touched(c) => row = reqs[r]
                    /\ r \in Touched(c) \ Stale(c) =>
                          /\ reqs[r] = held[c][r]
                          /\ row.status = New(c, r).status
                          /\ row.last = New(c, r).last
                          /\ row.again = New(c, r).again
  <2>1. Written(c) = [r \in Ids |-> Written(c)[r]]
    BY DEF Written
  <2> QED
    BY <2>1
<1>1. /\ reqs[r] \in RowType /\ (reqs[r].status = "none" <=> r > n)
      /\ reqs[r].last # None => reqs[r].last <= clock
      /\ clock \in Nat /\ n \in Nat
  BY RequestsAssumption DEF IInv, TypeOK, RowsOK
<1>2. CASE r \notin Touched(c)
  BY <1>1, <1>2 DEF Written
<1>3. CASE r \in Touched(c)
  <2>1. held[c][r] # None
    BY <1>3 DEF Touched
  <2>2. /\ held[c][r] \in RowType /\ New(c, r) \in RowType
        /\ New(c, r).status # "none" /\ r <= n
        /\ New(c, r).last \in {held[c][r].last, txn[c].now}
        /\ txn[c].now <= clock /\ txn[c].now \in Nat
        /\ held[c][r].last # None => held[c][r].last <= txn[c].now
    BY <2>1, NewFacts DEF ReadOK, Final
  <2>3. New(c, r).last # None => New(c, r).last <= clock
    <3>1. held[c][r].last \in Maybe(Nat)
      BY <2>2, RowParts
    <3> QED
      BY <1>1, <2>2, <3>1 DEF Maybe
  <2>4. Written(c)[r] = Save(reqs[r], held[c][r], New(c, r))
    BY <1>3 DEF Written
  <2>5. r > n <=> FALSE
    BY <1>1, <2>2 DEF Ids
  <2> DEFINE saved == Save(reqs[r], held[c][r], New(c, r))
             new == New(c, r)
  <2>6. /\ saved \in RowType
        /\ saved.status \in {reqs[r].status, new.status}
        /\ saved.last \in {reqs[r].last, new.last}
        /\ saved.offer = reqs[r].offer /\ saved.due = reqs[r].due
        /\ reqs[r] = held[c][r] => /\ saved.status = new.status
                                   /\ saved.last = new.last
                                   /\ saved.again = new.again
    BY <1>1, <2>2, SaveIsRow
  <2>7. r \notin Stale(c) => reqs[r] = held[c][r]
    BY <1>3 DEF Stale
  <2> HIDE DEF saved, new
  <2> QED
    BY <1>1, <1>3, <2>1, <2>2, <2>3, <2>4, <2>5, <2>6, <2>7 DEF saved, new
<1> QED
  BY <1>2, <1>3

\* a session that is done forgets what it read
LEMMA DoneKeepsReads ==
    ASSUME IInv, NEW c \in Sessions, Done(c), n' \in Nat, n' >= n, UNCHANGED clock
    PROVE  /\ ReadsOK'
           /\ txn' \in [Sessions -> TxnType]
           /\ held' \in [Sessions -> [Ids -> Maybe(RowType)]]
           /\ funds' \in [Sessions -> Maybe(Int \X Int)]
           /\ astray' = astray \union Stale(c) /\ astray' \subseteq Ids
<1>1. /\ txn' = [txn EXCEPT ![c] = Idle]
      /\ held' = [held EXCEPT ![c] = Nothing]
      /\ funds' = [funds EXCEPT ![c] = None]
      /\ astray' = astray \union Stale(c)
  BY DEF Done
<1>2. /\ txn \in [Sessions -> TxnType] /\ held \in [Sessions -> [Ids -> Maybe(RowType)]]
      /\ funds \in [Sessions -> Maybe(Int \X Int)] /\ astray \subseteq Ids /\ n \in Nat
  BY RequestsAssumption DEF IInv, TypeOK
<1>3. Idle \in TxnType /\ Nothing \in [Ids -> Maybe(RowType)]
  BY DEF Idle, TxnType, Nothing, Maybe
<1>4. ReadsOK'
  <2> SUFFICES ASSUME NEW d \in Sessions, NEW s \in Ids, held'[d][s] # None
               PROVE  ReadOK(d, s)'
    BY DEF ReadsOK
  <2>1. held'[d] = held[d] /\ txn'[d] = txn[d]
    BY <1>1, <1>2 DEF Nothing
  <2>2. s <= n => s <= n'
    BY <1>2 DEF Ids
  <2> QED
    BY <2>1, <2>2 DEF IInv, ReadsOK, ReadOK
<1> QED
  BY <1>1, <1>2, <1>3, <1>4 DEF Maybe, Touched, Stale

\* a row stays spaced while nobody reminds, and when time passes
LEMMA SpacedStays ==
    ASSUME NEW row \in RowType, NEW new \in RowType, NEW a \in Nat, NEW m \in Nat,
           NEW now \in Nat, NEW later \in Nat, now <= later,
           Spaced(row, a, m, now), row.status # "none", new.status # "none",
           new.due = row.due, new.again = row.again,
           new.last = row.last \/ (new.last \in Nat /\ (row.last # None => row.last <= new.last))
    PROVE  Spaced(new, a, m, later)
<1>1. /\ row.due \in Maybe(Nat) /\ row.last \in Maybe(Nat) /\ row.again \in Maybe(Nat)
      /\ new.last \in Maybe(Nat) /\ None \notin Nat /\ Cooldown \in Nat
  BY RowParts, RequestsAssumption
<1>2. a = 1 => new.due # None /\ new.last # None /\ new.due <= new.last
  BY <1>1 DEF Spaced, Maybe
<1>3. m > 0 => new.again # None /\ m * Cooldown <= new.again
               /\ new.again <= later + Cooldown
  BY <1>1 DEF Spaced, Maybe
<1> QED
  BY <1>2, <1>3 DEF Spaced

LEMMA CommitKeepsInv ==
    ASSUME IInv, NEW c \in Sessions, Commit(c)
    PROVE  IInv'
<1>1. /\ txn[c].op \in Tasks /\ txn[c].op # "pay"
      /\ reqs' = Written(c)
      /\ autos' = IF txn[c].op = "maintain" THEN Noted(autos, Reminding(c)) ELSE autos
      /\ manuals' = IF txn[c].op = "remind" THEN Noted(manuals, Reminding(c)) ELSE manuals
      /\ Done(c)
      /\ UNCHANGED <<n, wallet, line, flow, lost, ops, transfers, clock, paid>>
  BY DEF Commit, Balances, Counters
<1>2. /\ reqs \in [Ids -> RowType] /\ n \in Nat /\ clock \in Nat
      /\ autos \in [Ids -> Nat] /\ manuals \in [Ids -> Nat]
      /\ \A r \in Ids : reqs[r].status = "none" <=> r > n
  BY RequestsAssumption DEF IInv, TypeOK
<1>3. /\ ReadsOK' /\ txn' \in [Sessions -> TxnType]
      /\ held' \in [Sessions -> [Ids -> Maybe(RowType)]]
      /\ funds' \in [Sessions -> Maybe(Int \X Int)]
      /\ astray' = astray \union Stale(c) /\ astray' \subseteq Ids
  BY <1>1, <1>2, DoneKeepsReads
<1>4. autos' \in [Ids -> Nat] /\ manuals' \in [Ids -> Nat]
  BY <1>1, <1>2 DEF Noted
<1>5. TypeOK'
  BY <1>1, <1>3, <1>4, WrittenFacts DEF IInv, TypeOK
<1>6. RowsOK'
  <2> SUFFICES ASSUME NEW r \in Ids
               PROVE  /\ r <= n => reqs'[r].offer \in Offers
                      /\ reqs'[r].last # None => reqs'[r].last <= clock
                      /\ r \notin astray' =>
                            /\ paid[r] = IF reqs'[r].status = "paid" THEN 1 ELSE 0
                            /\ Spaced(reqs'[r], autos'[r], manuals'[r], clock)
    BY <1>1 DEF RowsOK
  <2>1. /\ reqs'[r] \in RowType
        /\ reqs'[r].offer = reqs[r].offer /\ reqs'[r].due = reqs[r].due
        /\ reqs'[r].last # None => reqs'[r].last <= clock
        /\ reqs'[r].status = "none" <=> r > n
        /\ r \in Touched(c) => held[c][r] # None /\ r <= n
        /\ r \notin Touched(c) => reqs'[r] = reqs[r]
        /\ r \in Touched(c) \ Stale(c) =>
              /\ reqs[r] = held[c][r]
              /\ reqs'[r].status = New(c, r).status
              /\ reqs'[r].last = New(c, r).last
              /\ reqs'[r].again = New(c, r).again
    BY <1>1, WrittenFacts
  <2>2. r <= n => reqs'[r].offer \in Offers
    BY <2>1 DEF IInv, RowsOK
  <2>3. ASSUME r \notin astray'
        PROVE  /\ paid[r] = IF reqs'[r].status = "paid" THEN 1 ELSE 0
               /\ Spaced(reqs'[r], autos'[r], manuals'[r], clock)
    <3>1. /\ r \notin astray /\ r \notin Stale(c)
          /\ paid[r] = IF reqs[r].status = "paid" THEN 1 ELSE 0
          /\ Spaced(reqs[r], autos[r], manuals[r], clock)
      BY <1>3, <2>3 DEF IInv, RowsOK
    <3>2. CASE r \notin Touched(c)
      <4>1. autos'[r] = autos[r] /\ manuals'[r] = manuals[r]
        BY <1>1, <1>2, <3>2 DEF Noted, Reminding
      <4> QED
        BY <2>1, <3>1, <3>2, <4>1
    <3>3. CASE r \in Touched(c)
      <4> DEFINE row == reqs[r]
                 new == New(c, r)
                 now == txn[c].now
      <4>1. /\ held[c][r] = row /\ reqs'[r].status = new.status
            /\ reqs'[r].last = new.last /\ reqs'[r].again = new.again
            /\ reqs'[r].due = row.due
        BY <2>1, <3>1, <3>3
      <4>2. /\ row \in RowType /\ row.status = "pending" /\ ReadOK(c, r)
            /\ now \in Nat
            /\ new.status \in {"pending"} \union Final
            /\ new.status = "paid" <=> txn[c].op = "pay"
            /\ new.last \in {row.last, now}
            /\ txn[c].op # "remind" => new.again = row.again
            /\ txn[c].op = "remind" => new.status = "pending" /\ new.last = now
                                       /\ new.again = now + Cooldown
            /\ txn[c].op = "maintain" /\ new # row /\ new.status = "pending" =>
                  Silent(row, now) /\ new.last = now
            /\ txn[c].op \notin {"remind", "maintain"} => new.last = row.last
        BY <1>1, <2>1, <3>3, <4>1, NewFacts
      <4>3. /\ now <= clock /\ (row.last # None => row.last <= now)
            /\ txn[c].op = "remind" /\ row.again # None => row.again <= now
        BY <4>1, <4>2 DEF ReadOK
      <4>4. new # row
        BY <3>3, <4>1 DEF Touched
      <4> HIDE DEF row, new, now
      <4>5. paid[r] = 0 /\ reqs'[r].status # "paid" /\ reqs'[r].status # "none"
        BY <1>1, <3>1, <4>1, <4>2 DEF Final, row
      <4>10. ASSUME txn[c].op # "remind"
             PROVE  Spaced(reqs'[r], autos[r], manuals[r], clock)
        <5>1. /\ reqs[r] \in RowType /\ reqs'[r] \in RowType
              /\ autos[r] \in Nat /\ manuals[r] \in Nat /\ clock <= clock
              /\ reqs[r].status # "none" /\ reqs'[r].status # "none"
              /\ reqs'[r].due = reqs[r].due /\ reqs'[r].again = reqs[r].again
          BY <1>2, <2>1, <4>1, <4>2, <4>5, <4>10 DEF row
        <5>2. \/ reqs'[r].last = reqs[r].last
              \/ /\ reqs'[r].last \in Nat
                 /\ reqs[r].last # None => reqs[r].last <= reqs'[r].last
          BY <4>1, <4>2, <4>3 DEF row
        <5> QED
          BY <1>2, <3>1, <5>1, <5>2, SpacedStays
      <4>6. CASE r \notin Reminding(c)
        <5>1. autos'[r] = autos[r] /\ manuals'[r] = manuals[r]
          BY <1>1, <1>2, <4>6 DEF Noted
        <5>2. txn[c].op # "remind"
          BY <3>3, <4>2, <4>6 DEF Reminding, new
        <5>3. Spaced(reqs'[r], autos[r], manuals[r], clock)
          BY <4>10, <5>2
        <5> QED
          BY <4>5, <5>1, <5>3
      <4>7. CASE r \in Reminding(c) /\ txn[c].op \notin {"remind", "maintain"}
        <5>1. autos'[r] = autos[r] /\ manuals'[r] = manuals[r]
          BY <1>1, <4>7
        <5>2. Spaced(reqs'[r], autos[r], manuals[r], clock)
          BY <4>7, <4>10
        <5> QED
          BY <4>5, <5>1, <5>2
      <4>8. CASE r \in Reminding(c) /\ txn[c].op = "maintain"
        <5>1. autos'[r] = autos[r] + 1 /\ manuals'[r] = manuals[r]
          BY <1>1, <1>2, <4>8 DEF Noted
        <5>2. Silent(row, now) /\ new.last = now
          BY <4>2, <4>4, <4>8 DEF Reminding, new
        <5>3. /\ row.due \in Nat /\ row.due <= now
              /\ row.last # None => row.last < row.due /\ row.last \in Nat
          BY <4>2, <5>2, RowParts DEF Silent, IsDue, Maybe
        <5>4. autos[r] = 0
          BY <1>2, <3>1, <5>3, <4>2 DEF Spaced, row
        <5>5. row.due # None /\ new.last # None
          BY <4>2, <5>2, <5>3, RequestsAssumption
        <5>6. manuals[r] > 0 => row.again # None /\ manuals[r] * Cooldown <= row.again
                                /\ row.again <= clock + Cooldown
          BY <3>1 DEF Spaced, row
        <5>7. Spaced(reqs'[r], 1, manuals[r], clock)
          BY <4>1, <4>2, <4>5, <4>8, <5>2, <5>3, <5>5, <5>6 DEF Spaced
        <5> QED
          BY <4>5, <5>1, <5>4, <5>7
      <4>9. CASE r \in Reminding(c) /\ txn[c].op = "remind"
        <5>1. autos'[r] = autos[r] /\ manuals'[r] = manuals[r] + 1
          BY <1>1, <1>2, <4>9 DEF Noted
        <5> DEFINE m == manuals[r]
        <5>2. /\ m \in Nat /\ Cooldown \in Nat \ {0} /\ row.again \in Maybe(Nat)
              /\ (m + 1) * Cooldown = m * Cooldown + Cooldown
          BY <1>2, <4>2, RowParts, RequestsAssumption
        <5>3. m * Cooldown <= now
          <6>1. CASE m = 0
            BY <4>2, <5>2, <6>1
          <6>2. CASE m > 0
            <7>1. row.again # None /\ m * Cooldown <= row.again
              BY <3>1, <6>2 DEF Spaced, row
            <7> QED
              BY <4>2, <4>3, <4>9, <5>2, <7>1 DEF Maybe
          <6> QED
            BY <5>2, <6>1, <6>2
        <5>4. /\ new.again = now + Cooldown /\ new.again # None /\ new.last = now
              /\ (m + 1) * Cooldown <= new.again /\ new.again <= clock + Cooldown
          BY <1>2, <4>2, <4>3, <4>9, <5>2, <5>3, RequestsAssumption
        <5>5. autos[r] = 1 => row.due # None /\ now # None /\ row.due <= now
          <6>1. row.due \in Maybe(Nat) /\ row.last \in Maybe(Nat) /\ None \notin Nat
            BY <4>2, RowParts, RequestsAssumption
          <6> QED
            BY <3>1, <4>2, <4>3, <6>1 DEF Spaced, Maybe, row
        <5>6. autos[r] <= 1
          BY <3>1 DEF Spaced
        <5> HIDE DEF m
        <5>7. Spaced(reqs'[r], autos[r], m + 1, clock)
          BY <4>1, <4>5, <5>2, <5>4, <5>5, <5>6 DEF Spaced
        <5> QED
          BY <4>5, <5>1, <5>7 DEF m
      <4> QED
        BY <4>6, <4>7, <4>8, <4>9
    <3> QED
      BY <3>2, <3>3
  <2> QED
    BY <2>1, <2>2, <2>3
<1>7. BalanceMatchesFlow'
  BY <1>1 DEF IInv, BalanceMatchesFlow
<1> QED
  BY <1>3, <1>5, <1>6, <1>7 DEF IInv

\* the request that follows one that was paid
LEMMA RenewedIsRow ==
    ASSUME NEW row \in RowType, NEW u \in Users, NEW r \in Nat, Renews(row)
    PROVE  /\ Renewed(row, u, r) \in RowType
           /\ Renewed(row, u, r).status = "pending" /\ Renewed(row, u, r).last = None
           /\ Renewed(row, u, r).offer = row.offer
<1> DEFINE d == row.due + 1
           e == NextExpires(row)
           k == IF row.count = None THEN None ELSE row.count - 1
<1>1. /\ row.due \in Maybe(Nat) /\ row.due # None /\ row.count # 1
      /\ row.count \in Maybe(Nat \ {0}) /\ row.expires \in Maybe(Nat)
  BY RowParts DEF Renews
<1>2. d \in Maybe(Nat) /\ e \in Maybe(Nat) /\ k \in Maybe(Nat \ {0})
      /\ u \in Maybe(Users) /\ None \in Maybe(Nat)
  BY <1>1 DEF Maybe, NextExpires
<1>3. Renewed(row, u, r) =
         [row EXCEPT !.status = "pending", !.payer = u, !.due = d, !.expires = e,
                     !.count = k, !.last = None, !.again = None, !.prev = r]
  BY DEF Renewed
<1> HIDE DEF d, e, k
<1> QED
  BY <1>2, <1>3 DEF RowType

LEMMA SettleKeepsInv ==
    ASSUME IInv, NEW c \in Sessions, NEW r \in Ids, Settle(c, r)
    PROVE  IInv'
<1> DEFINE u == txn[c].user
           v == Payee(c, r)
           amount == Price(c, r)
           row == New(c, r)
<1>1. /\ txn[c].op = "pay" /\ held[c][r] # None /\ funds[c] # None
      /\ wallet' = [wallet EXCEPT ![u] = funds[c][1] - amount,
                                  ![v] = funds[c][2] + amount]
      /\ lost' = lost \union {x \in {u, v} :
                                wallet[x] # IF x = u THEN funds[c][1] ELSE funds[c][2]}
      /\ flow' = Moved(u, v, amount)
      /\ paid' = [paid EXCEPT ![r] = @ + 1]
      /\ \/ /\ Renews(row) /\ n < MaxRequests /\ n' = n + 1
            /\ reqs' = [Written(c) EXCEPT ![n + 1] = Renewed(row, u, r)]
         \/ /\ n' = n
            /\ reqs' = Written(c)
      /\ Done(c)
      /\ UNCHANGED <<line, clock, autos, manuals, ops, transfers>>
  BY DEF Settle, PaidOut, Reminders, Counters
<1>2. /\ reqs \in [Ids -> RowType] /\ n \in 0..MaxRequests /\ clock \in Nat
      /\ MaxRequests \in Nat /\ Ids = 1..MaxRequests
      /\ autos \in [Ids -> Nat] /\ manuals \in [Ids -> Nat] /\ paid \in [Ids -> Nat]
      /\ wallet \in [Users -> Int] /\ flow \in [Users -> Int] /\ lost \subseteq Users
      /\ funds[c] \in Int \X Int
      /\ \A s \in Ids : reqs[s].status = "none" <=> s > n
  BY <1>1, RequestsAssumption DEF IInv, TypeOK, Ids, Maybe
<1>3. /\ ReadOK(c, r) /\ held[c][r] \in RowType
      /\ row \in RowType /\ row.status = "paid" /\ row.offer = held[c][r].offer
      /\ row.last = held[c][r].last /\ row.again = held[c][r].again
      /\ row.due = held[c][r].due
  BY <1>1, NewFacts DEF Tasks, Answers
<1>4. /\ u \in Users /\ v \in Users /\ u # v /\ amount \in Nat
      /\ r <= n /\ held[c][r].status = "pending"
      /\ \A s \in Ids : held[c][s] # None => s = r
  BY <1>1, <1>3, OfferParts DEF ReadOK, Payee, RequesterOf, Price
<1>5. /\ Written(c) \in [Ids -> RowType]
      /\ \A s \in Ids :
            /\ Written(c)[s].status = "none" <=> s > n
            /\ Written(c)[s].offer = reqs[s].offer
            /\ Written(c)[s].last # None => Written(c)[s].last <= clock
            /\ s # r => Written(c)[s] = reqs[s]
  BY <1>1, <1>4, WrittenFacts DEF Tasks, Answers
<1>6. r \in Touched(c)
  BY <1>1, <1>3, <1>4 DEF Touched
<1>7. /\ r \notin Stale(c) =>
            /\ reqs[r] = held[c][r] /\ Written(c)[r].status = "paid"
            /\ Written(c)[r].last = row.last /\ Written(c)[r].again = row.again
            /\ Written(c)[r].due = row.due
  BY <1>1, <1>3, <1>6, WrittenFacts DEF Tasks, Answers
<1> HIDE DEF u, v, amount, row
<1>8. /\ ReadsOK' /\ txn' \in [Sessions -> TxnType]
      /\ held' \in [Sessions -> [Ids -> Maybe(RowType)]]
      /\ funds' \in [Sessions -> Maybe(Int \X Int)]
      /\ astray' = astray \union Stale(c) /\ astray' \subseteq Ids
  <2>1. n' \in Nat /\ n' >= n
    BY <1>1, <1>2, SMTT(40)
  <2>2. Done(c) /\ UNCHANGED clock
    BY <1>1
  <2> QED
    BY <2>1, <2>2, DoneKeepsReads
<1>9. \A s \in Ids :
         /\ s = r => paid'[s] = paid[r] + 1
         /\ s # r => paid'[s] = paid[s]
  BY <1>1, <1>2
<1>10. \A s \in Ids \ {r} :
          s \notin astray' =>
             /\ paid'[s] = IF reqs[s].status = "paid" THEN 1 ELSE 0
             /\ Spaced(reqs[s], autos[s], manuals[s], clock)
  BY <1>8, <1>9 DEF IInv, RowsOK
<1>11. r \notin astray' => /\ Written(c)[r].status = "paid" /\ paid'[r] = 1
                          /\ Spaced(Written(c)[r], autos[r], manuals[r], clock)
  <2> SUFFICES ASSUME r \notin astray'
               PROVE  /\ Written(c)[r].status = "paid" /\ paid'[r] = 1
                      /\ Spaced(Written(c)[r], autos[r], manuals[r], clock)
    OBVIOUS
  <2>1. r \notin astray /\ r \notin Stale(c)
    BY <1>8
  <2>2. /\ reqs[r] = held[c][r] /\ Written(c)[r].status = "paid"
        /\ Written(c)[r].last = reqs[r].last /\ Written(c)[r].again = reqs[r].again
        /\ Written(c)[r].due = reqs[r].due
    BY <1>3, <1>7, <2>1 DEF row
  <2>3. paid[r] = 0 /\ Spaced(reqs[r], autos[r], manuals[r], clock)
    BY <1>4, <2>1, <2>2 DEF IInv, RowsOK
  <2>4. paid'[r] = 1
    BY <1>2, <1>9, <2>3
  <2>5. reqs[r].status # "none" /\ Written(c)[r].status # "none"
    BY <1>4, <2>2
  <2>6. Spaced(Written(c)[r], autos[r], manuals[r], clock)
    BY <2>2, <2>3, <2>5 DEF Spaced
  <2> QED
    BY <2>2, <2>4, <2>6
<1>12. \A s \in Ids : s <= n => Written(c)[s].offer \in Offers
  BY <1>5 DEF IInv, RowsOK
<1>13. /\ \A s \in Ids :
            /\ reqs'[s] \in RowType
            /\ reqs'[s].status = "none" <=> s > n'
            /\ s <= n' => reqs'[s].offer \in Offers
            /\ reqs'[s].last # None => reqs'[s].last <= clock
            /\ s \notin astray' =>
                  /\ paid'[s] = IF reqs'[s].status = "paid" THEN 1 ELSE 0
                  /\ Spaced(reqs'[s], autos[s], manuals[s], clock)
      /\ reqs' \in [Ids -> RowType] /\ n' \in 0..MaxRequests
  <2>1. CASE n' = n /\ reqs' = Written(c)
    <3>1. ASSUME NEW s \in Ids
          PROVE  /\ Written(c)[s].status = "none" <=> s > n
                 /\ s <= n => Written(c)[s].offer \in Offers
                 /\ Written(c)[s].last # None => Written(c)[s].last <= clock
                 /\ s \notin astray' =>
                       /\ paid'[s] = IF Written(c)[s].status = "paid" THEN 1 ELSE 0
                       /\ Spaced(Written(c)[s], autos[s], manuals[s], clock)
      <4>1. CASE s = r
        BY <1>5, <1>11, <1>12, <4>1
      <4>2. CASE s # r
        BY <1>5, <1>10, <1>12, <4>2
      <4> QED
        BY <4>1, <4>2
    <3> QED
      BY <1>2, <1>5, <2>1, <3>1
  <2>2. CASE /\ Renews(row) /\ n < MaxRequests /\ n' = n + 1
             /\ reqs' = [Written(c) EXCEPT ![n + 1] = Renewed(row, u, r)]
    <3> DEFINE next == Renewed(row, u, r)
    <3>1. /\ next \in RowType /\ next.status = "pending" /\ next.last = None
          /\ next.offer \in Offers
      <4>1. r \in Nat
        BY <1>2
      <4>2. row \in RowType /\ u \in Users /\ Renews(row)
        BY <1>3, <1>4, <2>2
      <4>3. row.offer \in Offers
        BY <1>3 DEF ReadOK
      <4> HIDE DEF next
      <4>4. /\ next \in RowType /\ next.status = "pending" /\ next.last = None
            /\ next.offer = row.offer
        BY <4>1, <4>2, RenewedIsRow DEF next
      <4> QED BY <4>3, <4>4
    <3>2. /\ n + 1 \in Ids /\ n + 1 # r
          /\ \A s \in Ids : reqs'[s] = IF s = n + 1 THEN next ELSE Written(c)[s]
      BY <1>2, <1>4, <1>5, <2>2, SMTT(40)
    <3> HIDE DEF next
    <3>3. n + 1 \notin astray' => /\ paid'[n + 1] = 0
                                  /\ Spaced(next, autos[n + 1], manuals[n + 1], clock)
      <4>1. reqs[n + 1].status = "none" /\ autos[n + 1] \in Nat /\ manuals[n + 1] \in Nat
        <5>1. \A s \in Ids : s > n => reqs[s].status = "none"
          BY <1>2
        <5>2. n + 1 > n
          BY <1>2
        <5>3. autos \in [Ids -> Nat] /\ manuals \in [Ids -> Nat]
          BY <1>2
        <5> QED BY <3>2, <5>1, <5>2, <5>3
      <4>2. n + 1 \notin astray' =>
               /\ paid'[n + 1] = 0 /\ autos[n + 1] = 0 /\ manuals[n + 1] = 0
        BY <1>10, <3>2, <4>1 DEF Spaced
      <4> QED
        BY <3>1, <4>1, <4>2 DEF Spaced
    <3>4. \A s \in Ids : s # n + 1 => (s > n <=> s > n + 1) /\ (s <= n <=> s <= n + 1)
      BY <1>2
    <3>5. reqs' \in [Ids -> RowType] /\ n' \in 0..MaxRequests
      BY <1>2, <1>5, <2>2, <3>1 DEF next
    <3>6. ASSUME NEW s \in Ids
          PROVE  /\ reqs'[s].status = "none" <=> s > n + 1
                 /\ s <= n + 1 => reqs'[s].offer \in Offers
                 /\ reqs'[s].last # None => reqs'[s].last <= clock
                 /\ s \notin astray' =>
                       /\ paid'[s] = IF reqs'[s].status = "paid" THEN 1 ELSE 0
                       /\ Spaced(reqs'[s], autos[s], manuals[s], clock)
      <4>1. CASE s = n + 1
        <5>1. reqs'[s] = next /\ n \in Nat /\ ~(s > n + 1)
          BY <1>2, <3>2, <4>1
        <5>2. s \notin astray' => /\ paid'[s] = 0
                                  /\ Spaced(reqs'[s], autos[s], manuals[s], clock)
          BY <3>3, <4>1, <5>1
        <5> QED
          BY <3>1, <5>1, <5>2
      <4>2. CASE s # n + 1
        BY <1>5, <1>10, <1>11, <1>12, <3>2, <3>4, <4>2
      <4> QED
        BY <4>1, <4>2
    <3> QED
      BY <2>2, <3>5, <3>6
  <2> QED
    BY <1>1, <2>1, <2>2
<1>14. /\ wallet' \in [Users -> Int] /\ flow' \in [Users -> Int] /\ lost' \subseteq Users
       /\ BalanceMatchesFlow'
  <2>1. /\ funds[c][1] \in Int /\ funds[c][2] \in Int
        /\ wallet \in [Users -> Int] /\ flow \in [Users -> Int] /\ lost \subseteq Users
    BY <1>2
  <2>0. /\ wallet' = [wallet EXCEPT ![u] = funds[c][1] - amount,
                                    ![v] = funds[c][2] + amount]
        /\ lost' = lost \union {x \in {u, v} :
                                  wallet[x] # IF x = u THEN funds[c][1] ELSE funds[c][2]}
        /\ flow' = Moved(u, v, amount)
    BY <1>1
  <2>2. /\ wallet' \in [Users -> Int]
        /\ \A x \in Users : wallet'[x] = IF x = u THEN funds[c][1] - amount
                                         ELSE IF x = v THEN funds[c][2] + amount
                                         ELSE wallet[x]
    BY <1>4, <2>0, <2>1
  <2>3. /\ flow' \in [Users -> Int]
        /\ \A x \in Users : flow'[x] = IF x = u THEN flow[x] - amount
                                       ELSE IF x = v THEN flow[x] + amount ELSE flow[x]
    BY <1>4, <2>0, <2>1 DEF Moved
  <2>4. lost' \subseteq Users
    BY <1>4, <2>0, <2>1
  <2>5. ASSUME NEW x \in Users \ lost' PROVE wallet'[x] = Start0[x] + flow'[x]
    <3>1. /\ wallet[x] = Start0[x] + flow[x] /\ Start0[x] \in Int /\ flow[x] \in Int
          /\ x = u => wallet[x] = funds[c][1]
          /\ x = v => wallet[x] = funds[c][2]
      BY <1>4, <2>0, <2>1, RequestsAssumption DEF IInv, BalanceMatchesFlow
    <3> QED
      BY <1>4, <2>1, <2>2, <2>3, <3>1
  <2> QED
    BY <2>2, <2>3, <2>4, <2>5 DEF BalanceMatchesFlow
<1>15. paid' \in [Ids -> Nat]
  BY <1>1, <1>2, SMTT(40)
<1>16. TypeOK'
  BY <1>1, <1>8, <1>13, <1>14, <1>15 DEF IInv, TypeOK
<1>17. RowsOK'
  BY <1>1, <1>13 DEF RowsOK
<1> QED
  BY <1>8, <1>14, <1>16, <1>17 DEF IInv

-----------------------------------------------------------------------------
(* Steps under locks.                                                      *)

LEMMA CreateKeepsInv ==
    ASSUME IInv, NEW o \in Offers, Create(o)
    PROVE  IInv'
<1> DEFINE new == [offer |-> o, status |-> "pending", payer |-> o.payer, due |-> o.due,
                   expires |-> o.expires, count |-> o.count, last |-> None,
                   again |-> None, prev |-> 0]
<1>1. /\ n < MaxRequests /\ n' = n + 1
      /\ reqs' = [reqs EXCEPT ![n + 1] = new]
      /\ UNCHANGED <<wallet, line, flow, lost, txn, held, funds, autos, manuals, ops,
                     transfers, clock, paid, astray>>
  BY DEF Create, Balances, Work, Reminders, Counters
<1>2. /\ reqs \in [Ids -> RowType] /\ n \in 0..MaxRequests
      /\ \A r \in Ids : reqs[r].status = "none" <=> r > n
      /\ autos \in [Ids -> Nat] /\ manuals \in [Ids -> Nat]
  BY DEF IInv, TypeOK
<1>3. /\ new \in RowType /\ new.status = "pending" /\ new.last = None /\ new.offer = o
  BY OfferParts DEF RowType, Maybe
<1> HIDE DEF new
<1>4. /\ n + 1 \in Ids /\ n' \in 0..MaxRequests /\ n \in Nat
      /\ \A r \in Ids : reqs'[r] = IF r = n + 1 THEN new ELSE reqs[r]
      /\ \A r \in Ids : r # n + 1 => (r > n <=> r > n + 1) /\ (r <= n <=> r <= n + 1)
      /\ ~(n + 1 > n + 1)
  BY <1>1, <1>2, RequestsAssumption DEF Ids
<1>5. TypeOK'
  <2>1. reqs' \in [Ids -> RowType]
    BY <1>1, <1>2, <1>3
  <2>2. \A r \in Ids : reqs'[r].status = "none" <=> r > n'
    BY <1>1, <1>2, <1>3, <1>4
  <2> QED
    BY <1>1, <1>4, <2>1, <2>2 DEF IInv, TypeOK
<1>6. RowsOK'
  <2> SUFFICES ASSUME NEW r \in Ids
               PROVE  /\ r <= n + 1 => reqs'[r].offer \in Offers
                      /\ reqs'[r].last # None => reqs'[r].last <= clock
                      /\ r \notin astray =>
                            /\ paid[r] = IF reqs'[r].status = "paid" THEN 1 ELSE 0
                            /\ Spaced(reqs'[r], autos[r], manuals[r], clock)
    BY <1>1 DEF RowsOK
  <2>1. CASE r = n + 1
    <3>1. reqs'[r] = new /\ reqs[r].status = "none"
      BY <1>2, <1>4, <2>1
    <3>2. r \notin astray => paid[r] = 0 /\ autos[r] = 0 /\ manuals[r] = 0
      BY <3>1 DEF IInv, RowsOK, Spaced
    <3>3. r \notin astray => Spaced(new, autos[r], manuals[r], clock)
      BY <1>3, <3>2 DEF Spaced
    <3> QED
      BY <1>3, <3>1, <3>2, <3>3
  <2>2. CASE r # n + 1
    BY <1>4, <2>2 DEF IInv, RowsOK
  <2> QED
    BY <2>1, <2>2
<1>7. ReadsOK'
  <2> SUFFICES ASSUME NEW c \in Sessions, NEW s \in Ids, held[c][s] # None
               PROVE  ReadOK(c, s)'
    BY <1>1 DEF ReadsOK
  <2>1. s <= n => s <= n'
    BY <1>1, <1>4 DEF Ids
  <2> QED
    BY <1>1, <2>1 DEF IInv, ReadsOK, ReadOK
<1>8. BalanceMatchesFlow'
  BY <1>1 DEF IInv, BalanceMatchesFlow
<1> QED
  BY <1>5, <1>6, <1>7, <1>8 DEF IInv

LEMMA MaintainAllKeepsInv ==
    ASSUME IInv, MaintainAll
    PROVE  IInv'
<1>1. PICK S \in SUBSET Ids :
         /\ \A r \in S : reqs[r].status = "pending"
         /\ reqs' = [r \in Ids |-> IF r \in S THEN Maintained(reqs[r], clock)
                                   ELSE reqs[r]]
         /\ autos' = Noted(autos, {r \in S : Silent(reqs[r], clock)})
  <2> DEFINE S == Batch({r \in 1..n : Selected(reqs[r], clock)})
  <2>1. S \subseteq 1..n /\ \A r \in S : reqs[r].status = "pending"
    BY DEF Batch, Selected, Expired, IsDue
  <2>2. S \in SUBSET Ids
    BY <2>1, RequestsAssumption DEF IInv, TypeOK, Ids
  <2>3. /\ reqs' = [r \in Ids |-> IF r \in S THEN Maintained(reqs[r], clock)
                                  ELSE reqs[r]]
        /\ autos' = Noted(autos, {r \in S : Silent(reqs[r], clock)})
    BY DEF MaintainAll
  <2> HIDE DEF S
  <2> QED
    BY <2>1, <2>2, <2>3
<1>2. UNCHANGED <<n, wallet, line, flow, lost, txn, held, funds, ops, transfers, clock,
                  paid, manuals, astray>>
  BY DEF MaintainAll, Balances, Work, Counters
<1>3. /\ reqs \in [Ids -> RowType] /\ clock \in Nat /\ n \in Nat
      /\ \A r \in Ids : reqs[r].status = "none" <=> r > n
      /\ autos \in [Ids -> Nat] /\ manuals \in [Ids -> Nat]
  BY RequestsAssumption DEF IInv, TypeOK
<1>4. autos' \in [Ids -> Nat]
  BY <1>1, <1>3 DEF Noted
<1>5. ASSUME NEW r \in Ids
      PROVE  /\ reqs'[r] \in RowType
             /\ reqs'[r].status = "none" <=> r > n
             /\ r <= n => reqs'[r].offer \in Offers
             /\ reqs'[r].last # None => reqs'[r].last <= clock
             /\ r \notin astray =>
                   /\ paid[r] = IF reqs'[r].status = "paid" THEN 1 ELSE 0
                   /\ Spaced(reqs'[r], autos'[r], manuals[r], clock)
  <2>1. /\ r <= n => reqs[r].offer \in Offers
        /\ reqs[r].last # None => reqs[r].last <= clock
        /\ r \notin astray => /\ paid[r] = IF reqs[r].status = "paid" THEN 1 ELSE 0
                              /\ Spaced(reqs[r], autos[r], manuals[r], clock)
    BY DEF IInv, RowsOK
  <2>2. CASE r \notin S
    <3>1. reqs'[r] = reqs[r] /\ autos'[r] = autos[r]
      BY <1>1, <2>2 DEF Noted
    <3> QED
      BY <1>3, <2>1, <3>1
  <2>3. CASE r \in S
    <3> DEFINE row == reqs[r]
               new == Maintained(row, clock)
    <3>1. /\ row \in RowType /\ row.status = "pending" /\ reqs'[r] = new
          /\ row.last \in Maybe(Nat) /\ row.due \in Maybe(Nat) /\ None \notin Nat
      BY <1>1, <1>3, <2>3, RowParts, RequestsAssumption
    <3>2. /\ new \in RowType /\ new.status \in {"pending", "expired"}
          /\ new.offer = row.offer /\ new.due = row.due /\ new.again = row.again
          /\ new.last = IF ~Expired(row, clock) /\ Silent(row, clock) THEN clock
                        ELSE row.last
      BY <1>3, <3>1, MaintainedIsRow
    <3> HIDE DEF row, new
    <3>3. /\ new.last # None => new.last <= clock
          /\ new.status # "none" /\ new.status # "paid"
          /\ ~(r > n) /\ r <= n => new.offer \in Offers
      BY <1>3, <2>1, <3>1, <3>2 DEF row
    <3>4. CASE Silent(row, clock)
      <4>1. autos'[r] = autos[r] + 1
        BY <1>1, <1>3, <2>3, <3>4 DEF Noted, row
      <4>2. /\ row.due # None /\ row.due <= clock /\ ~Expired(row, clock)
            /\ row.last # None => row.last < row.due
        BY <3>4 DEF Silent, IsDue
      <4>3. new.last = clock /\ clock # None
        BY <1>3, <3>1, <3>2, <3>4, <4>2
      <4>4. r \notin astray => autos[r] = 0
        <5>1. autos[r] \in Nat
          BY <1>3
        <5> QED
          BY <2>1, <3>1, <4>2, <5>1 DEF Spaced, Maybe, row
      <4>5. r \notin astray => Spaced(new, 1, manuals[r], clock)
        BY <2>1, <3>2, <3>3, <4>2, <4>3 DEF Spaced, row
      <4>6. r \notin astray => paid[r] = 0
        BY <2>1, <3>1 DEF row
      <4> QED
        BY <1>3, <3>1, <3>2, <3>3, <4>1, <4>4, <4>5, <4>6 DEF row
    <3>5. CASE ~Silent(row, clock)
      <4>1. autos'[r] = autos[r]
        BY <1>1, <1>3, <2>3, <3>5 DEF Noted, row
      <4>2. r \notin astray => Spaced(new, autos[r], manuals[r], clock) /\ paid[r] = 0
        BY <2>1, <3>1, <3>2, <3>3, <3>5 DEF Spaced, row
      <4> QED
        BY <1>3, <3>1, <3>2, <3>3, <4>1, <4>2 DEF row
    <3> QED
      BY <3>4, <3>5
  <2> QED
    BY <2>2, <2>3
<1>6. TypeOK'
  <2>1. reqs' \in [Ids -> RowType]
    BY <1>1, <1>5
  <2> QED
    BY <1>2, <1>4, <1>5, <2>1 DEF IInv, TypeOK
<1>7. RowsOK'
  BY <1>2, <1>5 DEF RowsOK
<1>8. ReadsOK' /\ BalanceMatchesFlow'
  BY <1>2 DEF IInv, ReadsOK, ReadOK, BalanceMatchesFlow
<1> QED
  BY <1>6, <1>7, <1>8 DEF IInv

LEMMA TransferKeepsInv ==
    ASSUME IInv, NEW u \in Users, NEW v \in Users, Transfer(u, v)
    PROVE  IInv'
<1> DEFINE f == Mirrored(wallet[u], line[u].avail, TransferAmount)
           a == TransferAmount
<1>1. /\ u # v /\ transfers' = transfers + 1
      /\ wallet' = [wallet EXCEPT ![u] = @ - f.debit, ![v] = @ + a]
      /\ line' = [line EXCEPT ![u] = Draw(@, f.credit)]
      /\ flow' = Moved(u, v, a)
      /\ UNCHANGED <<reqs, n, txn, held, funds, autos, manuals, clock, paid, astray,
                     lost, ops>>
  BY DEF Transfer, Work, Reminders
<1>2. /\ wallet \in [Users -> Int] /\ flow \in [Users -> Int] /\ transfers \in Nat
      /\ line \in [Users -> LineType] /\ a \in Nat /\ Start0 \in [Users -> Nat]
  BY RequestsAssumption DEF IInv, TypeOK
<1>3. /\ f.debit = a /\ f.credit \in Nat
      /\ Draw(line[u], f.credit) \in LineType
  <2>1. line[u].avail \in Nat /\ line[u].used \in Nat /\ line[u].limit \in Nat
    BY <1>2 DEF LineType
  <2>2. NewDebt(wallet[u], a) \in Nat
    BY <1>2 DEF NewDebt, Pos
  <2>3. f.credit = Least(line[u].avail, NewDebt(wallet[u], a)) /\ f.debit = a
    BY DEF Mirrored
  <2>4. f.credit \in Nat
    BY <2>1, <2>2, <2>3 DEF Least
  <2> HIDE DEF f
  <2> QED
    BY <2>1, <2>3, <2>4 DEF Draw, LineType, Pos
<1> HIDE DEF f, a
<1>4. /\ wallet' \in [Users -> Int] /\ line' \in [Users -> LineType]
      /\ \A x \in Users : wallet'[x] = IF x = u THEN wallet[x] - a
                                       ELSE IF x = v THEN wallet[x] + a ELSE wallet[x]
  BY <1>1, <1>2, <1>3
<1>5. /\ flow' \in [Users -> Int]
      /\ \A x \in Users : flow'[x] = IF x = u THEN flow[x] - a
                                     ELSE IF x = v THEN flow[x] + a ELSE flow[x]
  BY <1>1, <1>2 DEF Moved
<1>6. TypeOK'
  BY <1>1, <1>2, <1>4, <1>5 DEF IInv, TypeOK
<1>7. BalanceMatchesFlow'
  <2> SUFFICES ASSUME NEW x \in Users \ lost
               PROVE  wallet'[x] = Start0[x] + flow'[x]
    BY <1>1 DEF BalanceMatchesFlow
  <2>1. wallet[x] = Start0[x] + flow[x] /\ Start0[x] \in Int /\ flow[x] \in Int
    BY <1>2 DEF IInv, BalanceMatchesFlow
  <2> QED
    BY <1>2, <1>4, <1>5, <2>1
<1>8. RowsOK' /\ ReadsOK'
  BY <1>1 DEF IInv, RowsOK, ReadsOK, ReadOK
<1> QED
  BY <1>6, <1>7, <1>8 DEF IInv

LEMMA TickKeepsInv ==
    ASSUME IInv, Tick
    PROVE  IInv'
<1>1. /\ clock' = clock + 1
      /\ UNCHANGED <<reqs, n, wallet, line, flow, lost, txn, held, funds, autos, manuals,
                     ops, transfers, paid, astray>>
  BY DEF Tick, Balances, Work, Reminders, Counters
<1>2. clock \in Nat /\ reqs \in [Ids -> RowType] /\ Cooldown \in Nat /\ None \notin Nat
      /\ txn \in [Sessions -> TxnType]
  BY RequestsAssumption DEF IInv, TypeOK
<1>3. TypeOK'
  BY <1>1, <1>2 DEF IInv, TypeOK
<1>4. RowsOK'
  <2> SUFFICES ASSUME NEW r \in Ids
               PROVE  /\ r <= n => reqs[r].offer \in Offers
                      /\ reqs[r].last # None => reqs[r].last <= clock + 1
                      /\ r \notin astray =>
                            /\ paid[r] = IF reqs[r].status = "paid" THEN 1 ELSE 0
                            /\ Spaced(reqs[r], autos[r], manuals[r], clock + 1)
    BY <1>1 DEF RowsOK
  <2>1. /\ r <= n => reqs[r].offer \in Offers
        /\ reqs[r].last # None => reqs[r].last <= clock
        /\ r \notin astray =>
              /\ paid[r] = IF reqs[r].status = "paid" THEN 1 ELSE 0
              /\ Spaced(reqs[r], autos[r], manuals[r], clock)
    BY DEF IInv, RowsOK
  <2>2. reqs[r].last \in Maybe(Nat) /\ reqs[r].again \in Maybe(Nat)
    BY <1>2, RowParts
  <2> QED
    BY <1>2, <2>1, <2>2 DEF Spaced, Maybe
<1>5. ReadsOK'
  <2> SUFFICES ASSUME NEW c \in Sessions, NEW s \in Ids, held[c][s] # None
               PROVE  ReadOK(c, s)'
    BY <1>1 DEF ReadsOK
  <2>1. txn[c].now \in Nat /\ ReadOK(c, s)
    BY <1>2 DEF TxnType, IInv, ReadsOK
  <2>2. txn[c].now <= clock => txn[c].now <= clock + 1
    BY <1>2, <2>1
  <2> QED
    BY <1>1, <2>1, <2>2 DEF ReadOK
<1>6. BalanceMatchesFlow'
  BY <1>1 DEF IInv, BalanceMatchesFlow
<1> QED
  BY <1>3, <1>4, <1>5, <1>6 DEF IInv

-----------------------------------------------------------------------------
LEMMA InitIInv == Init => IInv
<1> SUFFICES ASSUME Init PROVE IInv
  OBVIOUS
<1>1. Blank \in RowType /\ Blank.status = "none" /\ Blank.last = None
  BY DEF Blank, RowType, Maybe
<1>2. Idle \in TxnType /\ Nothing \in [Ids -> Maybe(RowType)] /\ \A r \in Ids : r > 0
  BY RequestsAssumption DEF Idle, TxnType, Nothing, Maybe, Ids
<1> HIDE DEF Blank, Idle
<1>3. TypeOK
  <2>1. /\ reqs \in [Ids -> RowType] /\ n \in 0..MaxRequests
        /\ \A r \in Ids : reqs[r].status = "none" <=> r > n
    BY <1>1, <1>2, RequestsAssumption DEF Init
  <2>2. /\ wallet \in [Users -> Int] /\ line \in [Users -> LineType]
        /\ flow \in [Users -> Int]
    BY RequestsAssumption DEF Init, LineType
  <2>3. /\ txn \in [Sessions -> TxnType] /\ held \in [Sessions -> [Ids -> Maybe(RowType)]]
        /\ funds \in [Sessions -> Maybe(Int \X Int)]
    BY <1>2 DEF Init, Maybe
  <2> QED
    BY <2>1, <2>2, <2>3 DEF Init, TypeOK
<1>4. RowsOK
  BY <1>1, <1>2, RequestsAssumption DEF Init, RowsOK, Spaced, Ids
<1>5. ReadsOK
  BY DEF Init, ReadsOK, Nothing
<1>6. BalanceMatchesFlow
  BY RequestsAssumption DEF Init, BalanceMatchesFlow
<1> QED
  BY <1>3, <1>4, <1>5, <1>6 DEF IInv

LEMMA NextKeepsInv == IInv /\ [Next]_vars => IInv'
<1> SUFFICES ASSUME IInv, [Next]_vars PROVE IInv'
  OBVIOUS
<1>1. ASSUME NEW o \in Offers, Create(o) PROVE IInv'
  BY <1>1, CreateKeepsInv
<1>2. ASSUME NEW c \in Sessions, NEW op \in Tasks \ {"view", "maintain"},
             NEW u \in Users, NEW r \in Ids, Answer(c, op, u, r)
      PROVE  IInv'
  BY <1>2, AnswerKeepsInv
<1>3. ASSUME NEW c \in Sessions, NEW S \in SUBSET Ids, View(c, S) PROVE IInv'
  BY <1>3, ViewKeepsInv
<1>4. ASSUME NEW c \in Sessions, NEW u \in Users, MaintainOwn(c, u) PROVE IInv'
  BY <1>4, MaintainOwnKeepsInv
<1>5. ASSUME NEW c \in Sessions, NEW r \in Ids, ReadFunds(c, r) \/ Settle(c, r)
      PROVE  IInv'
  BY <1>5, ReadFundsKeepsInv, SettleKeepsInv
<1>6. ASSUME NEW c \in Sessions, Commit(c) PROVE IInv'
  BY <1>6, CommitKeepsInv
<1>7. ASSUME NEW u \in Users, NEW v \in Users, Transfer(u, v) PROVE IInv'
  BY <1>7, TransferKeepsInv
<1>8. ASSUME UNCHANGED vars PROVE IInv'
  BY <1>8 DEF vars, IInv, TypeOK, RowsOK, ReadsOK, ReadOK, BalanceMatchesFlow
<1> QED
  BY <1>1, <1>2, <1>3, <1>4, <1>5, <1>6, <1>7, <1>8, MaintainAllKeepsInv, TickKeepsInv
     DEF Next

-----------------------------------------------------------------------------
(* Theorems.                                                               *)

\* The inductive invariant holds in every behaviour, with or without fairness.
THEOREM InductiveInvariant == Spec => []IInv
BY InitIInv, NextKeepsInv, PTL DEF Spec

\* Types: a series that is renewed is counted down and never beyond its last request.
THEOREM TypesHold == Spec => []TypeOK
<1>1. IInv => TypeOK
  BY DEF IInv
<1> QED
  BY <1>1, InductiveInvariant, PTL

\* A request is paid twice, or paid and then refused, only through a session that
\* writes a row it has read before another's commit.
THEOREM PaidAsItSays == Spec => []PaidMatches
<1>1. IInv => PaidMatches
  BY DEF IInv, RowsOK, PaidMatches
<1> QED
  BY <1>1, InductiveInvariant, PTL

\* Money is lost or made only in a balance that a payment overwrote unread.
THEOREM BalancesMatch == Spec => []BalanceMatchesFlow
<1>1. IInv => BalanceMatchesFlow
  BY DEF IInv
<1> QED
  BY <1>1, InductiveInvariant, PTL

\* Reminders keep their distance in every interleaving of the worker, the requester's
\* own maintenance and manual reminders, but for rows written stale.
THEOREM RemindersKeepTheirDistance == Spec => []RemindersAreSpaced
<1>1. ASSUME IInv PROVE RemindersAreSpaced
  <2> SUFFICES ASSUME NEW r \in Ids \ astray
               PROVE  /\ autos[r] <= 1
                      /\ manuals[r] > 1 => (manuals[r] - 1) * Cooldown <= clock
    BY DEF RemindersAreSpaced
  <2>1. /\ Spaced(reqs[r], autos[r], manuals[r], clock)
        /\ reqs[r] \in RowType /\ manuals[r] \in Nat /\ clock \in Nat
    BY <1>1 DEF IInv, RowsOK, TypeOK
  <2>2. reqs[r].again \in Maybe(Nat) /\ Cooldown \in Nat
    BY <2>1, RowParts, RequestsAssumption
  <2> DEFINE m == manuals[r]
  <2>3. m > 1 => /\ m * Cooldown <= clock + Cooldown
                 /\ m * Cooldown \in Nat
    BY <2>1, <2>2 DEF Spaced, Maybe
  <2>4. (m - 1) * Cooldown = m * Cooldown - Cooldown
    BY <2>1, <2>2
  <2>5. m > 1 => (m - 1) * Cooldown <= clock
    BY <2>1, <2>2, <2>3, <2>4
  <2> QED
    BY <2>1, <2>5 DEF Spaced
<1> QED
  BY <1>1, InductiveInvariant, PTL
-----------------------------------------------------------------------------
(* Sums.                                                                   *)

LEMMA OneTo ==
    ASSUME NEW k \in Nat
    PROVE  IsFiniteSet(1..k) /\ Cardinality(1..k) = k
<1>1. /\ IsFiniteSet(1..k)
      /\ Cardinality(1..k) = IF 1 > k THEN 0 ELSE k - 1 + 1
  BY FS_Interval
<1> QED
  BY <1>1

LEMMA Column1 ==
    ASSUME NEW x, NEW k \in Nat
    PROVE  IsFiniteSet({x} \X (1..k)) /\ Cardinality({x} \X (1..k)) = k
<1>1. IsFiniteSet({x}) /\ Cardinality({x}) = 1
  BY FS_Singleton
<1>2. /\ IsFiniteSet({x} \X (1..k))
      /\ Cardinality({x} \X (1..k)) = Cardinality({x}) * Cardinality(1..k)
  BY <1>1, OneTo, FS_Product, Zenon
<1> QED
  BY <1>1, <1>2, OneTo

\* the pairs that Total counts
Pairs(f, S) == UNION {{x} \X (1..f[x]) : x \in S}

LEMMA PairsOf ==
    ASSUME NEW f, NEW S
    PROVE  \A z : z \in Pairs(f, S) <=> \E x \in S : z \in {x} \X (1..f[x])
BY DEF Pairs

LEMMA PairsAreFinite ==
    ASSUME NEW S, IsFiniteSet(S), NEW f, \A x \in S : f[x] \in Nat
    PROVE  IsFiniteSet(Pairs(f, S)) /\ Total(f, S) \in Nat
<1> DEFINE C(x) == {x} \X (1..f[x])
           T == {C(x) : x \in S}
<1>1. IsFiniteSet(T)
  <2> DEFINE g == [x \in S |-> C(x)]
  <2>1. g \in Surjection(S, T)
    BY DEF Surjection
  <2> HIDE DEF g, T
  <2> QED
    BY <2>1, FS_Surjection
<1>2. \A c \in T : IsFiniteSet(c)
  <2>1. ASSUME NEW x \in S PROVE IsFiniteSet(C(x))
    BY Column1
  <2> HIDE DEF C
  <2> QED
    BY <2>1
<1>3. IsFiniteSet(UNION T)
  <2> HIDE DEF T
  <2> QED
    BY <1>1, <1>2, FS_UNION
<1> QED
  BY <1>3, FS_CardinalityType DEF Pairs, Total

LEMMA TotalOfNone ==
    ASSUME NEW f
    PROVE  Total(f, {}) = 0
<1>1. Pairs(f, {}) = {}
  BY DEF Pairs
<1> QED
  BY <1>1, FS_EmptySet DEF Pairs, Total

LEMMA TotalSame ==
    ASSUME NEW S, NEW f, NEW g, \A x \in S : f[x] = g[x]
    PROVE  Total(f, S) = Total(g, S)
<1>1. Pairs(f, S) = Pairs(g, S)
  BY PairsOf
<1> QED
  BY <1>1 DEF Pairs, Total

LEMMA TotalAdds ==
    ASSUME NEW S, IsFiniteSet(S), NEW x, x \notin S, NEW f,
           \A y \in S \union {x} : f[y] \in Nat
    PROVE  Total(f, S \union {x}) = Total(f, S) + f[x]
<1> DEFINE P == Pairs(f, S)
           N == {x} \X (1..f[x])
<1>1. /\ IsFiniteSet(P) /\ Cardinality(P) = Total(f, S) /\ Cardinality(P) \in Nat
  BY PairsAreFinite DEF Pairs, Total
<1>2. IsFiniteSet(N) /\ Cardinality(N) = f[x] /\ f[x] \in Nat
  BY Column1
<1>3. Pairs(f, S \union {x}) = P \union N
  BY DEF Pairs
<1>4. P \intersect N = {}
  BY DEF Pairs
<1>5. Cardinality(P \intersect N) = 0
  BY <1>4, FS_EmptySet
<1>6. Cardinality(P \union N) = Cardinality(P) + Cardinality(N) - Cardinality(P \intersect N)
  <2> HIDE DEF P, N
  <2> QED
    BY <1>1, <1>2, FS_Union
<1>7. Total(f, S \union {x}) = Cardinality(P \union N)
  BY <1>3 DEF Pairs, Total
<1> HIDE DEF P, N
<1> QED
  BY <1>1, <1>2, <1>5, <1>6, <1>7

LEMMA TotalShrinks ==
    ASSUME NEW S, IsFiniteSet(S), NEW f, NEW g,
           \A x \in S : f[x] \in Nat /\ g[x] \in Nat /\ g[x] <= f[x]
    PROVE  Total(g, S) <= Total(f, S)
<1>1. IsFiniteSet(Pairs(f, S))
  BY PairsAreFinite
<1>2. Pairs(g, S) \subseteq Pairs(f, S)
  <2> SUFFICES ASSUME NEW z \in Pairs(g, S) PROVE z \in Pairs(f, S)
    OBVIOUS
  <2>1. PICK x \in S : z \in {x} \X (1..g[x])
    BY PairsOf
  <2>2. z \in {x} \X (1..f[x])
    BY <2>1
  <2> QED
    BY <2>2, PairsOf
<1>3. Cardinality(Pairs(g, S)) <= Cardinality(Pairs(f, S))
  BY <1>1, <1>2, FS_Subset
<1> QED
  BY <1>3 DEF Pairs, Total

-----------------------------------------------------------------------------
(* Series.                                                                 *)

\* nothing a session does to a row changes what it asks for or renews
LEMMA OutcomeKeepsOrigin ==
    ASSUME NEW row \in RowType, NEW op \in Tasks, NEW u, NEW now
    PROVE  Origin(Outcome(op, u, now, row)) = Origin(row)
<1>1. CASE op = "pay"
  BY <1>1 DEF Outcome, Origin, RowType
<1>2. CASE op = "decline"
  BY <1>2 DEF Outcome, Origin, RowType
<1>3. CASE op = "cancel"
  BY <1>3 DEF Outcome, Origin, RowType
<1>4. CASE op = "remind"
  BY <1>4 DEF Outcome, Origin, RowType
<1>5. CASE op = "view"
  BY <1>5 DEF Outcome, Origin, RowType
<1>6. CASE op = "maintain"
  BY <1>6 DEF Outcome, Maintained, Origin, RowType
<1> QED
  BY <1>1, <1>2, <1>3, <1>4, <1>5, <1>6 DEF Tasks, Answers

LEMMA SaveKeepsOrigin ==
    ASSUME NEW current \in RowType, NEW read, NEW new
    PROVE  Origin(Save(current, read, new)) = Origin(current)
BY DEF Save, Origin, RowType

LEMMA WrittenKeepsOrigin ==
    ASSUME IInv, NEW c \in Sessions
    PROVE  \A r \in Ids : Origin(Written(c)[r]) = Origin(reqs[r])
<1> SUFFICES ASSUME NEW r \in Ids PROVE Origin(Written(c)[r]) = Origin(reqs[r])
  OBVIOUS
<1>1. reqs[r] \in RowType
  BY DEF IInv, TypeOK
<1>2. Written(c)[r] = Save(reqs[r], held[c][r], New(c, r)) \/ Written(c)[r] = reqs[r]
  BY DEF Written
<1> QED
  BY <1>1, <1>2, SaveKeepsOrigin

LEMMA OriginTells ==
    ASSUME NEW row, NEW other, Origin(row) = Origin(other)
    PROVE  /\ row.offer = other.offer /\ row.due = other.due
           /\ row.count = other.count /\ row.prev = other.prev
           /\ Renews(row) <=> Renews(other)
<1>1. /\ row.offer = other.offer /\ row.due = other.due
      /\ row.count = other.count /\ row.prev = other.prev
  BY DEF Origin
<1> QED
  BY <1>1 DEF Renews

LEMMA SeriesAreFinite ==
    /\ IsFiniteSet(Ids)
    /\ \A r : Renewals(r) \subseteq Ids /\ IsFiniteSet(Renewals(r))
    /\ \A o : Series(o) \subseteq Ids /\ IsFiniteSet(Series(o))
<1>1. IsFiniteSet(Ids)
  BY OneTo, RequestsAssumption DEF Ids
<1>2. \A r : Renewals(r) \in SUBSET Ids /\ \A o : Series(o) \in SUBSET Ids
  BY DEF Renewals, Series
<1> QED
  BY <1>1, <1>2, FS_Subset

\* what a request counts for in a series that has an end
LEMMA ShareIsCount ==
    ASSUME IInv, SeriesInv, NEW o \in Offers, o.count # None, NEW r \in Series(o)
    PROVE  /\ Share(r) \in Nat /\ paid[r] \in Nat /\ r \in Ids /\ r <= n
           /\ reqs[r].count \in Nat \ {0}
<1>1. r \in Ids /\ reqs[r].offer = o /\ reqs[r] \in RowType /\ paid[r] \in Nat
  BY DEF Series, IInv, TypeOK
<1>2. o # None
  BY OfferIsSomething
<1>3. r <= n
  BY <1>1, <1>2, RequestsAssumption DEF SeriesInv, IInv, TypeOK, Ids
<1>4. reqs[r].count \in Nat \ {0}
  BY <1>1, <1>3, RowParts DEF SeriesInv, Maybe
<1> QED
  BY <1>1, <1>3, <1>4 DEF Share

\* A step that adds no request and opens none again.
LEMMA SeriesKept ==
    ASSUME IInv, IInv', SeriesInv, n' = n, paid' = paid, astray \subseteq astray',
           \A r \in Ids : /\ Origin(reqs[r])' = Origin(reqs[r])
                          /\ r \notin astray' /\ reqs'[r].status = "pending"
                                => reqs[r].status = "pending",
           \A c \in Sessions, r \in Ids :
              held'[c][r] # None => held'[c][r] \in {held[c][r], reqs[r]}
    PROVE  SeriesInv'
<1>1. \A r \in Ids : /\ reqs'[r].offer = reqs[r].offer /\ reqs'[r].due = reqs[r].due
                     /\ reqs'[r].count = reqs[r].count /\ reqs'[r].prev = reqs[r].prev
                     /\ Renews(reqs[r])' <=> Renews(reqs[r])
                     /\ reqs'[r].status = "none" <=> reqs[r].status = "none"
  <2> TAKE r \in Ids
  <2>1. Origin(reqs'[r]) = Origin(reqs[r])
    OBVIOUS
  <2>2. reqs'[r].status = "none" <=> reqs[r].status = "none"
    BY DEF IInv, TypeOK
  <2> QED
    BY <2>1, <2>2, OriginTells
<1>2. \A r : Renewals(r)' = Renewals(r) /\ Series(r)' = Series(r)
  BY <1>1 DEF Renewals, Series
<1>3. \A r \in Ids :
         Cardinality(Renewals(r))' =
            IF reqs'[r].status # "none" /\ Renews(reqs[r])' THEN paid'[r] ELSE 0
  BY <1>1, <1>2 DEF SeriesInv, SeriesIsBounded
<1>4. ASSUME NEW o \in Offers, o.count # None, Series(o)' \intersect astray' = {}
      PROVE  Total([r \in Series(o)' |-> Share(r)'], Series(o)') <= o.count
  <2> DEFINE S == Series(o)
             f == [r \in S |-> Share(r)]
             g == [r \in S |-> Share(r)']
  <2>1. S \intersect astray = {} /\ S \subseteq Ids /\ IsFiniteSet(S)
    BY <1>2, <1>4, SeriesAreFinite
  <2>2. ASSUME NEW r \in S
        PROVE  Share(r) \in Nat /\ Share(r)' \in Nat /\ Share(r)' <= Share(r)
    <3>1. /\ Share(r) \in Nat /\ paid[r] \in Nat /\ r \in Ids
          /\ reqs[r].count \in Nat
      BY <1>4, ShareIsCount
    <3>2. reqs'[r].status = "pending" => reqs[r].status = "pending"
      BY <1>2, <1>4, <3>1
    <3>3. Share(r)' = paid[r] + (IF reqs'[r].status = "pending" THEN reqs[r].count ELSE 0)
      BY <1>1, <3>1 DEF Share
    <3> QED
      BY <3>1, <3>2, <3>3 DEF Share
  <2>3. Total(f, S) <= o.count
    BY <1>4, <2>1 DEF SeriesInv, SeriesIsBounded
  <2>4. \A r \in S : f[r] \in Nat /\ g[r] \in Nat /\ g[r] <= f[r]
    BY <2>2
  <2> HIDE DEF f, g, S
  <2>5. Total(g, S) <= Total(f, S) /\ Total(g, S) \in Nat /\ Total(f, S) \in Nat
    BY <2>1, <2>4, TotalShrinks, PairsAreFinite
  <2>6. o.count \in Nat
    BY <1>4, OfferParts DEF Maybe
  <2>7. Total(g, S) <= o.count
    BY <2>3, <2>5, <2>6
  <2> QED
    BY <1>2, <2>7 DEF g, S
<1>5. SeriesIsBounded'
  BY <1>3, <1>4 DEF SeriesIsBounded
<1>6. \A c \in Sessions, r \in Ids :
         held'[c][r] # None => Origin(held'[c][r]) = Origin(reqs'[r])
  BY DEF SeriesInv
<1>7. \A r \in Ids :
         /\ r > n' => reqs'[r].prev = 0 /\ reqs'[r].offer = None /\ paid'[r] = 0
         /\ r <= n' => (reqs'[r].count = None <=> reqs'[r].offer.count = None)
  BY <1>1 DEF SeriesInv
<1> QED
  BY <1>5, <1>6, <1>7 DEF SeriesInv

LEMMA CreateKeepsSeries ==
    ASSUME IInv, IInv', SeriesInv, NEW o \in Offers, Create(o)
    PROVE  SeriesInv'
<1> DEFINE new == [offer |-> o, status |-> "pending", payer |-> o.payer, due |-> o.due,
                   expires |-> o.expires, count |-> o.count, last |-> None,
                   again |-> None, prev |-> 0]
<1>1. /\ n < MaxRequests /\ n' = n + 1 /\ \A r \in Ids : reqs[r].offer # o
      /\ reqs' = [reqs EXCEPT ![n + 1] = new]
      /\ UNCHANGED <<held, paid, astray>>
  BY DEF Create, Work
<1>2. /\ reqs \in [Ids -> RowType] /\ n \in Nat /\ n + 1 \in Ids /\ paid \in [Ids -> Nat]
      /\ \A r \in Ids : reqs[r].status = "none" <=> r > n
  <2>1. /\ reqs \in [Ids -> RowType] /\ n \in Nat /\ paid \in [Ids -> Nat]
        /\ \A r \in Ids : reqs[r].status = "none" <=> r > n
    BY RequestsAssumption DEF IInv, TypeOK
  <2> QED
    BY <1>1, <2>1, RequestsAssumption DEF Ids
<1>11. \A c \in Sessions, r \in Ids : held[c][r] # None => r # n + 1
  BY <1>2 DEF IInv, ReadsOK, ReadOK
<1>3. /\ new.prev = 0 /\ new.offer = o /\ new.count = o.count /\ new.status = "pending"
  OBVIOUS
<1> HIDE DEF new
<1>4. /\ reqs'[n + 1] = new /\ \A r \in Ids : r # n + 1 => reqs'[r] = reqs[r]
      /\ reqs[n + 1].prev = 0 /\ reqs[n + 1].offer = None /\ paid[n + 1] = 0
      /\ reqs[n + 1].status = "none" /\ n + 1 > n
  BY <1>1, <1>2 DEF SeriesInv
<1>5. \A r \in Ids : r > 0 /\ Renewals(r)' = Renewals(r)
  BY <1>3, <1>4 DEF Renewals, Ids
<1>6. \A r \in Ids :
         Cardinality(Renewals(r))' =
            IF reqs'[r].status # "none" /\ Renews(reqs[r])' THEN paid'[r] ELSE 0
  <2> TAKE r \in Ids
  <2>1. Cardinality(Renewals(r)) =
           IF reqs[r].status # "none" /\ Renews(reqs[r]) THEN paid[r] ELSE 0
    BY DEF SeriesInv, SeriesIsBounded
  <2>2. CASE r = n + 1
    <3>1. Cardinality(Renewals(r)) = 0 /\ paid'[r] = 0
      BY <1>1, <1>4, <2>1, <2>2
    <3> QED
      BY <1>5, <3>1
  <2>3. CASE r # n + 1
    <3>1. reqs'[r] = reqs[r] /\ paid'[r] = paid[r]
      BY <1>1, <1>4, <2>3
    <3>2. Renews(reqs[r])' <=> Renews(reqs[r])
      BY <3>1
    <3> QED
      BY <1>5, <2>1, <3>1, <3>2
  <2> QED
    BY <2>2, <2>3
<1>7. ASSUME NEW p \in Offers, p.count # None, Series(p)' \intersect astray' = {}
      PROVE  Total([r \in Series(p)' |-> Share(r)'], Series(p)') <= p.count
  <2>1. CASE p = o
    <3>1. Series(p)' = {n + 1}
      BY <1>1, <1>2, <1>3, <1>4, <2>1 DEF Series
    <3>2. o.count \in Nat
      BY <1>7, <2>1, OfferParts DEF Maybe
    <3>3. PICK i : i = n + 1
      OBVIOUS
    <3> DEFINE g == [r \in {i} |-> Share(r)']
    <3>4. g[i] = o.count
      <4>1. paid'[i] = 0 /\ reqs'[i].status = "pending" /\ reqs'[i].count = o.count
        BY <1>1, <1>3, <1>4, <3>3
      <4> QED
        BY <3>2, <4>1 DEF Share
    <3> HIDE DEF g
    <3>5. Total(g, {i}) = o.count
      <4>1. IsFiniteSet({}) /\ i \notin {} /\ \A y \in {} \union {i} : g[y] \in Nat
        BY <3>2, <3>4, FS_EmptySet
      <4>2. Total(g, {} \union {i}) = Total(g, {}) + g[i]
        BY <4>1, TotalAdds
      <4>3. {} \union {i} = {i}
        OBVIOUS
      <4> QED
        BY <3>2, <3>4, <4>2, <4>3, TotalOfNone
    <3> QED
      BY <2>1, <3>1, <3>2, <3>3, <3>5 DEF g
  <2>2. CASE p # o
    <3>1. Series(p)' = Series(p) /\ n + 1 \notin Series(p)
      <4>1. p # None
        BY OfferIsSomething
      <4> QED
        BY <1>3, <1>4, <2>2, <4>1 DEF Series
    <3>2. \A r \in Series(p) : Share(r)' = Share(r)
      BY <1>1, <1>4, <3>1 DEF Share, Series
    <3>3. [r \in Series(p)' |-> Share(r)'] = [r \in Series(p) |-> Share(r)]
      BY <3>1, <3>2
    <3> QED
      BY <1>1, <1>7, <3>1, <3>3 DEF SeriesInv, SeriesIsBounded
  <2> QED
    BY <2>1, <2>2
<1>8. SeriesIsBounded'
  BY <1>6, <1>7 DEF SeriesIsBounded
<1>9. \A r \in Ids :
         /\ r > n' => reqs'[r].prev = 0 /\ reqs'[r].offer = None /\ paid'[r] = 0
         /\ r <= n' => (reqs'[r].count = None <=> reqs'[r].offer.count = None)
  <2> TAKE r \in Ids
  <2>1. CASE r = n + 1
    BY <1>1, <1>2, <1>3, <1>4, <2>1
  <2>2. CASE r # n + 1
    <3>1. (r > n + 1 => r > n) /\ (r <= n + 1 => r <= n)
      BY <1>2, <2>2 DEF Ids
    <3> QED
      BY <1>1, <1>4, <2>2, <3>1 DEF SeriesInv
  <2> QED
    BY <2>1, <2>2
<1>10. \A c \in Sessions, r \in Ids :
          held'[c][r] # None => Origin(held'[c][r]) = Origin(reqs'[r])
  BY <1>1, <1>4, <1>11 DEF SeriesInv
<1> QED
  BY <1>8, <1>9, <1>10 DEF SeriesInv

LEMMA SettleKeepsSeries ==
    ASSUME IInv, IInv', SeriesInv, NEW c \in Sessions, NEW r \in Ids, Settle(c, r)
    PROVE  SeriesInv'
<1> DEFINE row == New(c, r)
           next == Renewed(row, txn[c].user, r)
           more == Renews(row)
<1>1. /\ txn[c].op = "pay" /\ held[c][r] # None
      /\ paid' = [paid EXCEPT ![r] = @ + 1]
      /\ IF more THEN /\ n < MaxRequests /\ n' = n + 1
                      /\ reqs' = [Written(c) EXCEPT ![n + 1] = next]
                 ELSE n' = n /\ reqs' = Written(c)
      /\ held' = [held EXCEPT ![c] = Nothing]
      /\ astray' = astray \union Stale(c)
  BY DEF Settle, Done
<1>2. /\ paid \in [Ids -> Nat] /\ n \in Nat /\ reqs \in [Ids -> RowType]
      /\ held \in [Sessions -> [Ids -> Maybe(RowType)]]
      /\ \A s \in Ids : reqs[s].status = "none" <=> s > n
  BY RequestsAssumption DEF IInv, TypeOK
<1>3. more => n + 1 \in Ids /\ n + 1 > n /\ r # n + 1
  <2>1. r <= n
    BY <1>1 DEF IInv, ReadsOK, ReadOK
  <2> QED
    BY <1>1, <1>2, <2>1, RequestsAssumption DEF Ids
<1>4. /\ r <= n /\ row \in RowType /\ row.status = "paid"
      /\ Origin(row) = Origin(reqs[r])
      /\ \A s \in Ids : s # r => held[c][s] = None
  <2>1. held[c][r] \in RowType /\ txn[c].op \in Tasks
    BY <1>1, <1>2 DEF Maybe, Tasks, Answers
  <2>2. Origin(row) = Origin(held[c][r])
    BY <2>1, OutcomeKeepsOrigin DEF New
  <2>3. Origin(held[c][r]) = Origin(reqs[r])
    BY <1>1 DEF SeriesInv
  <2>4. ReadOK(c, r) /\ row \in RowType /\ row.status = "paid"
    BY <1>1, <2>1, NewFacts
  <2> HIDE DEF row
  <2> QED
    BY <1>1, <2>2, <2>3, <2>4 DEF ReadOK
<1>5. /\ row.offer = reqs[r].offer /\ row.count = reqs[r].count
      /\ more <=> Renews(reqs[r])
  BY <1>4, OriginTells
<1>6. /\ Written(c) \in [Ids -> RowType]
      /\ \A s \in Ids : s # r => Written(c)[s] = reqs[s]
      /\ \A s \in Ids : Origin(Written(c)[s]) = Origin(reqs[s])
      /\ r \notin astray' => /\ Written(c)[r].status = "paid"
                             /\ reqs[r].status = "pending"
  <2>1. \A s \in Ids : s # r => s \notin Touched(c)
    BY <1>4 DEF Touched
  <2>2. held[c][r].status = "pending"
    BY <1>1 DEF IInv, ReadsOK, ReadOK
  <2>3. txn[c].op \in Tasks
    BY <1>1 DEF Tasks, Answers
  <2>4. r \in Touched(c)
    BY <1>1, <1>4, <2>2 DEF Touched
  <2> HIDE DEF row
  <2> QED
    BY <1>1, <1>4, <2>1, <2>2, <2>3, <2>4, WrittenFacts, WrittenKeepsOrigin DEF row
<1>7. more => /\ next.offer = reqs[r].offer /\ next.status = "pending" /\ next.prev = r
              /\ next.count = IF reqs[r].count = None THEN None ELSE reqs[r].count - 1
  BY <1>4, <1>5 DEF Renewed, RowType
<1> HIDE DEF row, next, more
<1>8. \A s \in Ids : ~(more /\ s = n + 1) => reqs'[s] = Written(c)[s]
  BY <1>1, <1>6
<1>9. more => reqs'[n + 1] = next
  BY <1>1, <1>3, <1>6
<1>10. /\ \A s \in Ids : ~(more /\ s = n + 1) =>
             /\ reqs'[s].offer = reqs[s].offer
             /\ reqs'[s].count = reqs[s].count
             /\ reqs'[s].prev = reqs[s].prev
             /\ Renews(reqs[s])' <=> Renews(reqs[s])
             /\ reqs'[s].status = "none" <=> reqs[s].status = "none"
       /\ more => /\ reqs[n + 1].prev = 0 /\ reqs[n + 1].offer = None
                  /\ paid[n + 1] = 0 /\ reqs[n + 1].status = "none"
  <2>1. ASSUME NEW s \in Ids, ~(more /\ s = n + 1)
        PROVE  /\ reqs'[s].offer = reqs[s].offer
               /\ reqs'[s].count = reqs[s].count
               /\ reqs'[s].prev = reqs[s].prev
               /\ Renews(reqs[s])' <=> Renews(reqs[s])
               /\ reqs'[s].status = "none" <=> reqs[s].status = "none"
    <3>1. Origin(reqs'[s]) = Origin(reqs[s])
      BY <1>6, <1>8, <2>1
    <3>2. s > n' <=> s > n
      BY <1>1, <1>2, <2>1 DEF Ids
    <3>3. reqs'[s].status = "none" <=> reqs[s].status = "none"
      BY <3>2 DEF IInv, TypeOK
    <3> QED
      BY <3>1, <3>3, OriginTells
  <2>2. more => /\ reqs[n + 1].prev = 0 /\ reqs[n + 1].offer = None
                /\ paid[n + 1] = 0 /\ reqs[n + 1].status = "none"
    BY <1>2, <1>3 DEF SeriesInv
  <2> QED
    BY <2>1, <2>2
<1>11. \A s \in Ids :
          Renewals(s)' = IF more /\ s = r THEN Renewals(s) \union {n + 1} ELSE Renewals(s)
  <2> TAKE s \in Ids
  <2>1. s # 0
    BY DEF Ids
  <2>2. CASE more
    <3>1. /\ \A t \in Ids : t # n + 1 => reqs'[t].prev = reqs[t].prev
          /\ reqs'[n + 1].prev = r /\ reqs[n + 1].prev = 0
      BY <1>7, <1>9, <1>10, <2>2
    <3> QED
      BY <1>3, <2>1, <2>2, <3>1 DEF Renewals
  <2>3. CASE ~more
    BY <1>10, <2>3 DEF Renewals
  <2> QED
    BY <2>2, <2>3
<1>12. \A s \in Ids : paid'[s] = IF s = r THEN paid[s] + 1 ELSE paid[s]
  BY <1>1, <1>2
<1>13. \A s \in Ids :
          Cardinality(Renewals(s))' =
             IF reqs'[s].status # "none" /\ Renews(reqs[s])' THEN paid'[s] ELSE 0
  <2> TAKE s \in Ids
  <2>1. Cardinality(Renewals(s)) =
           IF reqs[s].status # "none" /\ Renews(reqs[s]) THEN paid[s] ELSE 0
    BY DEF SeriesInv, SeriesIsBounded
  <2>2. CASE more /\ s = n + 1
    <3>1. Cardinality(Renewals(s)) = 0 /\ paid'[s] = 0 /\ s # r
      BY <1>3, <1>10, <1>12, <2>1, <2>2
    <3>2. Renewals(s)' = Renewals(s)
      BY <1>11, <3>1
    <3>3. Cardinality(Renewals(s))' = 0
      BY <3>1, <3>2
    <3> QED
      BY <3>1, <3>3
  <2>3. CASE more /\ s = r
    <3>5. /\ s <= n /\ ~(more /\ s = n + 1) /\ Renews(reqs[s])
          /\ reqs[s].status # "none"
      BY <1>2, <1>3, <1>4, <1>5, <2>3 DEF Ids
    <3>1. /\ Cardinality(Renewals(s)) = paid[s] /\ reqs'[s].status # "none"
          /\ Renews(reqs[s])'
      BY <1>10, <2>1, <3>5
    <3>2. Cardinality(Renewals(s) \union {n + 1}) = Cardinality(Renewals(s)) + 1
      <4>1. n + 1 \notin Renewals(s)
        BY <1>10, <2>3 DEF Renewals, Ids
      <4> QED
        BY <4>1, SeriesAreFinite, FS_AddElement
    <3>3. Renewals(s)' = Renewals(s) \union {n + 1}
      BY <1>11, <2>3
    <3>4. Cardinality(Renewals(s))' = paid'[s]
      BY <1>12, <2>3, <3>1, <3>2, <3>3
    <3> QED
      BY <3>1, <3>4
  <2>4. CASE ~(more /\ s = n + 1) /\ ~(more /\ s = r)
    <3>1. /\ Renewals(s)' = Renewals(s) /\ (Renews(reqs[s])' <=> Renews(reqs[s]))
          /\ reqs'[s].status = "none" <=> reqs[s].status = "none"
      BY <1>10, <1>11, <2>4
    <3>2. s # r => paid'[s] = paid[s]
      BY <1>12
    <3>3. s = r => ~Renews(reqs[s])
      BY <1>5, <2>4
    <3> QED
      BY <2>1, <3>1, <3>2, <3>3
  <2> QED
    BY <2>2, <2>3, <2>4
<1>14. ASSUME NEW o \in Offers, o.count # None, Series(o)' \intersect astray' = {}
       PROVE  Total([s \in Series(o)' |-> Share(s)'], Series(o)') <= o.count
  <2> DEFINE S == Series(o)
             N == Series(o)'
             f == [s \in S |-> Share(s)]
             g == [s \in N |-> Share(s)']
  <2>1. N = IF more /\ reqs[r].offer = o THEN S \union {n + 1} ELSE S
    <3>1. o # None
      BY OfferIsSomething
    <3>2. CASE more
      <4>1. /\ \A t \in Ids : t # n + 1 => reqs'[t].offer = reqs[t].offer
            /\ reqs'[n + 1].offer = reqs[r].offer /\ reqs[n + 1].offer # o
        BY <1>7, <1>9, <1>10, <3>1, <3>2
      <4> QED
        BY <1>3, <3>2, <4>1 DEF Series
    <3>3. CASE ~more
      BY <1>10, <3>3 DEF Series
    <3> QED
      BY <3>2, <3>3
  <2>2. /\ S \intersect astray' = {} /\ S \intersect astray = {}
        /\ S \subseteq Ids /\ IsFiniteSet(S)
    BY <1>1, <1>14, <2>1, SeriesAreFinite
  <2>3. \A s \in S : /\ Share(s) \in Nat /\ paid[s] \in Nat /\ s \in Ids /\ s <= n
                     /\ reqs[s].count \in Nat \ {0}
    BY <1>14, ShareIsCount
  <2>4. Total(f, S) <= o.count /\ o.count \in Nat
    BY <1>14, <2>2, OfferParts DEF SeriesInv, SeriesIsBounded, Maybe
  <2>5. \A s \in S : s # r => Share(s)' = Share(s)
    <3>1. ASSUME NEW s \in S, s # r PROVE Share(s)' = Share(s)
      <4>1. ~(more /\ s = n + 1)
        BY <1>2, <2>3 DEF Ids
      <4>2. reqs'[s] = reqs[s] /\ paid'[s] = paid[s]
        BY <1>6, <1>8, <1>12, <2>3, <3>1, <4>1
      <4> QED
        BY <4>2 DEF Share
    <3> QED
      BY <3>1
  <2>6. \A s \in S : f[s] = Share(s) /\ g[s] = Share(s)'
    BY <2>1
  <2>7. CASE r \notin S
    <3>1. N = S
      BY <2>1, <2>7 DEF Series
    <3>2. g = f
      BY <2>5, <2>7, <3>1
    <3> QED
      BY <2>4, <3>1, <3>2
  <2>8. CASE r \in S
    <3> DEFINE R == S \ {r}
               k == reqs[r].count
    <3>1. /\ r \notin astray' /\ reqs[r].offer = o
          /\ k \in Nat \ {0}
      BY <2>2, <2>3, <2>8 DEF Series
    <3>2. Share(r) = k /\ Share(r)' = 1
      <4>1. /\ reqs[r].status = "pending" /\ paid[r] = 0
        BY <1>1, <1>6, <3>1 DEF IInv, RowsOK
      <4>2. /\ reqs'[r].status = "paid" /\ paid'[r] = 1
        BY <1>3, <1>6, <1>8, <1>12, <3>1, <4>1
      <4> QED
        BY <3>1, <4>1, <4>2 DEF Share
    <3>3. /\ IsFiniteSet(R) /\ r \notin R /\ R \union {r} = S
          /\ \A s \in S : f[s] \in Nat /\ g[s] \in Nat
          /\ \A s \in R : f[s] = g[s]
      BY <2>2, <2>3, <2>5, <2>6, <2>8, <3>1, <3>2, FS_Subset
    <3>4. f[r] = k /\ g[r] = 1
      BY <2>6, <2>8, <3>2
    <3> HIDE DEF S, N, f, g, R, k
    <3>5. /\ Total(f, S) = Total(f, R) + k /\ Total(g, S) = Total(g, R) + 1
          /\ Total(f, R) = Total(g, R) /\ Total(g, R) \in Nat
      <4>1. Total(f, R \union {r}) = Total(f, R) + f[r]
        BY <3>3, TotalAdds
      <4>2. Total(g, R \union {r}) = Total(g, R) + g[r]
        BY <3>3, TotalAdds
      <4>3. Total(f, R) = Total(g, R) /\ Total(g, R) \in Nat
        BY <3>3, TotalSame, PairsAreFinite
      <4> QED
        BY <3>3, <3>4, <4>1, <4>2, <4>3
    <3>6. CASE ~more
      <4>1. N = S
        BY <2>1, <3>6 DEF S, N
      <4>2. Total(g, N) <= o.count
        BY <2>4, <3>1, <3>5, <4>1
      <4> QED
        BY <4>2 DEF g, N
    <3>7. CASE more
      <4>1. PICK i \in Ids : i = n + 1
        BY <1>3, <3>7
      <4>2. N = S \union {i} /\ i \notin S
        <5>1. N = S \union {i}
          BY <2>1, <3>1, <3>7, <4>1 DEF N, S
        <5>2. \A s \in S : s <= n
          BY <2>3
        <5> QED
          BY <1>2, <4>1, <5>1, <5>2
      <4>3. g[i] = k - 1 /\ k - 1 \in Nat
        <5>1. k - 1 \in Nat /\ k # None
          BY <3>1, RequestsAssumption
        <5>2. paid'[i] = 0 /\ reqs'[i].status = "pending" /\ reqs'[i].count = k - 1
          BY <1>3, <1>7, <1>9, <1>10, <1>12, <3>7, <4>1, <5>1 DEF k
        <5>3. Share(i)' = k - 1
          BY <5>1, <5>2 DEF Share
        <5> QED
          BY <4>2, <5>1, <5>3 DEF g
      <4>4. Total(g, S \union {i}) = Total(g, S) + (k - 1)
        <5>1. \A y \in S \union {i} : g[y] \in Nat
          BY <3>3, <4>3
        <5>2. Total(g, S \union {i}) = Total(g, S) + g[i]
          BY <2>2, <4>2, <5>1, TotalAdds
        <5> QED
          BY <4>3, <5>2
      <4>5. Total(g, N) <= o.count
        BY <2>4, <3>1, <3>5, <4>2, <4>4
      <4> QED
        BY <4>5 DEF g, N
    <3> QED
      BY <3>6, <3>7
  <2> QED
    BY <2>7, <2>8
<1>15. SeriesIsBounded'
  BY <1>13, <1>14 DEF SeriesIsBounded
<1>16. \A s \in Ids :
          /\ s > n' => reqs'[s].prev = 0 /\ reqs'[s].offer = None /\ paid'[s] = 0
          /\ s <= n' => (reqs'[s].count = None <=> reqs'[s].offer.count = None)
  <2> TAKE s \in Ids
  <2>1. CASE more /\ s = n + 1
    <3>1. /\ reqs'[s].offer = reqs[r].offer /\ ~(s > n')
          /\ reqs'[s].count = IF reqs[r].count = None THEN None ELSE reqs[r].count - 1
      BY <1>1, <1>2, <1>7, <1>9, <2>1
    <3>2. reqs[r].count = None <=> reqs[r].offer.count = None
      BY <1>4 DEF SeriesInv
    <3>3. reqs[r].count \in Maybe(Nat \ {0}) /\ \A j \in Int : j # None
      BY <1>2, RowParts, RequestsAssumption
    <3> QED
      BY <3>1, <3>2, <3>3 DEF Maybe
  <2>2. CASE ~(more /\ s = n + 1)
    <3>1. /\ s > n' => s > n /\ s # r
          /\ s <= n' => s <= n
      BY <1>1, <1>2, <1>4, <2>2 DEF Ids
    <3> QED
      BY <1>10, <1>12, <2>2, <3>1 DEF SeriesInv
  <2> QED
    BY <2>1, <2>2
<1>17. \A d \in Sessions, s \in Ids :
          held'[d][s] # None => Origin(held'[d][s]) = Origin(reqs'[s])
  <2> SUFFICES ASSUME NEW d \in Sessions, NEW s \in Ids, held'[d][s] # None
               PROVE  Origin(held'[d][s]) = Origin(reqs'[s])
    OBVIOUS
  <2>1. held'[d] = held[d]
    BY <1>1, <1>2 DEF Nothing
  <2>2. s <= n
    BY <2>1 DEF IInv, ReadsOK, ReadOK
  <2>3. reqs'[s] = Written(c)[s]
    BY <1>2, <1>8, <2>2
  <2> QED
    BY <1>6, <2>1, <2>3 DEF SeriesInv
<1> QED
  BY <1>15, <1>16, <1>17 DEF SeriesInv

LEMMA NextKeepsSeries == IInv /\ IInv' /\ SeriesInv /\ [Next]_vars => SeriesInv'
<1> SUFFICES ASSUME IInv, IInv', SeriesInv, [Next]_vars PROVE SeriesInv'
  OBVIOUS
<1>1. ASSUME NEW c \in Sessions, NEW op \in Tasks, NEW u \in Maybe(Users),
             NEW S \in SUBSET Ids, Read(c, op, u, S)
      PROVE  SeriesInv'
  <2>1. /\ UNCHANGED <<reqs, n, paid, astray>>
        /\ held' = [held EXCEPT ![c] = [r \in Ids |-> IF r \in S THEN reqs[r] ELSE None]]
    BY <1>1 DEF Read
  <2>2. held \in [Sessions -> [Ids -> Maybe(RowType)]]
    BY DEF IInv, TypeOK
  <2>3. \A d \in Sessions, r \in Ids :
           held'[d][r] # None => held'[d][r] \in {held[d][r], reqs[r]}
    BY <2>1, <2>2
  <2> QED
    BY <2>1, <2>3, SeriesKept
<1>2. ASSUME NEW c \in Sessions, NEW op \in Tasks \ {"view", "maintain"},
             NEW u \in Users, NEW r \in Ids, Answer(c, op, u, r)
      PROVE  SeriesInv'
  BY <1>1, <1>2 DEF Answer, Maybe
<1>3. ASSUME NEW c \in Sessions, NEW S \in SUBSET Ids, View(c, S) PROVE SeriesInv'
  BY <1>1, <1>3 DEF View, Maybe, Tasks
<1>4. ASSUME NEW c \in Sessions, NEW u \in Users, MaintainOwn(c, u) PROVE SeriesInv'
  <2> DEFINE S == {r \in 1..n : RequesterOf(reqs[r]) = u /\ Selected(reqs[r], clock)}
  <2>1. S \in SUBSET Ids
    BY RequestsAssumption DEF IInv, TypeOK, Ids
  <2>2. Read(c, "maintain", u, S)
    BY <1>4 DEF MaintainOwn
  <2> HIDE DEF S
  <2> QED
    BY <1>1, <2>1, <2>2 DEF Maybe, Tasks
<1>5. ASSUME NEW c \in Sessions, NEW r \in Ids, ReadFunds(c, r) PROVE SeriesInv'
  <2>1. /\ UNCHANGED <<reqs, n, paid, astray>>
        /\ held' = held \/ held' = [held EXCEPT ![c] = Nothing]
    BY <1>5 DEF ReadFunds
  <2>2. held \in [Sessions -> [Ids -> Maybe(RowType)]]
    BY DEF IInv, TypeOK
  <2>3. \A d \in Sessions, s \in Ids :
           held'[d][s] # None => held'[d][s] \in {held[d][s], reqs[s]}
    BY <2>1, <2>2 DEF Nothing
  <2> QED
    BY <2>1, <2>3, SeriesKept
<1>6. ASSUME NEW c \in Sessions, Commit(c) PROVE SeriesInv'
  <2>1. /\ txn[c].op \in Tasks /\ txn[c].op # "pay"
        /\ reqs' = Written(c) /\ UNCHANGED <<n, paid>>
        /\ held' = [held EXCEPT ![c] = Nothing]
        /\ astray' = astray \union Stale(c)
    BY <1>6 DEF Commit, Done
  <2>2. held \in [Sessions -> [Ids -> Maybe(RowType)]]
    BY DEF IInv, TypeOK
  <2>3. \A d \in Sessions, s \in Ids :
           held'[d][s] # None => held'[d][s] \in {held[d][s], reqs[s]}
    BY <2>1, <2>2 DEF Nothing
  <2>4. ASSUME NEW r \in Ids, r \notin astray', reqs'[r].status = "pending"
        PROVE  reqs[r].status = "pending"
    <3>1. CASE r \in Touched(c)
      <4>1. held[c][r] # None /\ reqs[r] = held[c][r]
        BY <2>1, <2>4, <3>1, WrittenFacts
      <4> QED
        BY <4>1 DEF IInv, ReadsOK, ReadOK
    <3>2. CASE r \notin Touched(c)
      BY <2>1, <2>4, <3>2, WrittenFacts
    <3> QED
      BY <3>1, <3>2
  <2>5. \A r \in Ids : Origin(reqs[r])' = Origin(reqs[r])
    BY <2>1, WrittenKeepsOrigin
  <2> QED
    BY <2>1, <2>3, <2>4, <2>5, SeriesKept
<1>7. ASSUME MaintainAll PROVE SeriesInv'
  <2>1. UNCHANGED <<n, paid, held, astray>>
    BY <1>7 DEF MaintainAll, Work
  <2>2. ASSUME NEW r \in Ids
        PROVE  /\ Origin(reqs'[r]) = Origin(reqs[r])
               /\ reqs'[r].status = "pending" => reqs[r].status = "pending"
    <3>1. reqs'[r] \in {reqs[r], Maintained(reqs[r], clock)} /\ reqs[r] \in RowType
      BY <1>7 DEF MaintainAll, IInv, TypeOK
    <3>2. /\ Origin(Maintained(reqs[r], clock)) = Origin(reqs[r])
          /\ Maintained(reqs[r], clock).status \in {"expired", reqs[r].status}
      BY <3>1 DEF Maintained, Origin, RowType
    <3> QED
      BY <3>1, <3>2
  <2> QED
    BY <2>1, <2>2, SeriesKept
<1>8. ASSUME NEW u \in Users, NEW v \in Users, Transfer(u, v) PROVE SeriesInv'
  <2>1. UNCHANGED <<reqs, n, paid, held, astray>>
    BY <1>8 DEF Transfer, Work
  <2> QED
    BY <2>1, SeriesKept
<1>9. ASSUME Tick PROVE SeriesInv'
  <2>1. UNCHANGED <<reqs, n, paid, held, astray>>
    BY <1>9 DEF Tick, Work
  <2> QED
    BY <2>1, SeriesKept
<1>10. ASSUME UNCHANGED vars PROVE SeriesInv'
  <2>1. UNCHANGED <<reqs, n, paid, held, astray>>
    BY <1>10 DEF vars
  <2> QED
    BY <2>1, SeriesKept
<1> QED
  BY <1>2, <1>3, <1>4, <1>5, <1>6, <1>7, <1>8, <1>9, <1>10, CreateKeepsSeries,
     SettleKeepsSeries DEF Next

LEMMA InitSeries == Init => SeriesInv
<1> SUFFICES ASSUME Init PROVE SeriesInv
  OBVIOUS
<1>1. /\ \A r \in Ids : r > 0 /\ r > n /\ reqs[r].prev = 0 /\ reqs[r].offer = None
                        /\ reqs[r].status = "none" /\ paid[r] = 0
      /\ \A c \in Sessions, r \in Ids : held[c][r] = None
  BY RequestsAssumption DEF Init, Blank, Nothing, Ids
<1>2. ASSUME NEW r \in Ids PROVE Cardinality(Renewals(r)) = 0
  <2>1. Renewals(r) = {}
    BY <1>1 DEF Renewals
  <2> QED
    BY <2>1, FS_EmptySet
<1>3. ASSUME NEW o \in Offers, o.count # None
      PROVE  Total([r \in Series(o) |-> Share(r)], Series(o)) <= o.count
  <2>1. Series(o) = {}
    BY <1>1, OfferIsSomething DEF Series
  <2>2. Total([r \in Series(o) |-> Share(r)], Series(o)) = 0
    BY <2>1, TotalOfNone
  <2>3. o.count \in Nat
    BY <1>3, OfferParts DEF Maybe
  <2> QED
    BY <2>2, <2>3
<1>4. SeriesIsBounded
  BY <1>1, <1>2, <1>3 DEF SeriesIsBounded
<1>5. \A r \in Ids : ~(r <= n)
  BY <1>1, RequestsAssumption DEF Init, Ids
<1> QED
  BY <1>1, <1>4, <1>5 DEF SeriesInv

\* However many sessions pay the requests of a series at once, every payment that
\* calls for another request has one, and a series asks for no more than was wanted.
THEOREM SeriesAreBounded == Spec => []SeriesIsBounded
<1>1. Init => IInv /\ SeriesInv
  BY InitIInv, InitSeries
<1>2. IInv /\ SeriesInv /\ [Next]_vars => (IInv /\ SeriesInv)'
  BY NextKeepsInv, NextKeepsSeries
<1>3. SeriesInv => SeriesIsBounded
  BY DEF SeriesInv
<1> QED
  BY <1>1, <1>2, <1>3, PTL DEF Spec
=============================================================================
