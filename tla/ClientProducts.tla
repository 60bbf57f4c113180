---------------------------- MODULE ClientProducts ----------------------------
(***************************************************************************)
(* What a client can put money into: savings goals with rounded-up and     *)
(* automatic contributions, pots shared with members, the sub-wallets of a *)
(* business, and virtual cards.  A handler locks the row of the product    *)
(* and then the wallet and commits once, so it is one action here; the     *)
(* exception is a batch of automatic contributions, which commits after    *)
(* each goal and has then lost the locks of the goals still to come: these *)
(* are written from the rows read at the start.                            *)
(*                                                                         *)
(* Dates are counted in periods of the contributions.  A product that has  *)
(* status "none" does not exist yet.  The columns of a goal's metadata     *)
(* (the two rules) are always written together.                            *)
(***************************************************************************)
EXTENDS ClientBooks

CONSTANTS
    Goals, Pots, SubWallets, Cards,
    OwnerOf,      \* [Products -> Users]
    Target,       \* target_amount of goals and pots
    Amounts,      \* what one contribution, withdrawal or charge may be
    Saving,       \* the amount of an automatic or rounded-up contribution
    Ceilings,     \* spending limits of sub-wallets
    CardLimit,    \* spending limit of a card, 0 for none
    MaxDeclines,  \* max_consecutive_declines
    Batches,      \* the sessions that run due contributions
    Worker,       \* the one of the worker
    BatchLimit,   \* PRODUCT_AUTOMATION_BATCH_LIMIT
    Horizon,      \* bound on the clock
    Age0,         \* the order in which the goals were touched last
    Nothing

ASSUME ProductsAssumption ==
    /\ Products = Goals \union Pots \union SubWallets \union Cards
    /\ Goals \intersect (Pots \union SubWallets \union Cards) = {}
    /\ Pots \intersect (SubWallets \union Cards) = {}
    /\ SubWallets \intersect Cards = {}
    /\ Age0 \in [Goals -> Nat]
    /\ \A g, h \in Goals : g # h => Age0[g] # Age0[h]
    /\ OwnerOf \in [Products -> Users]
    /\ Target \in Nat \ {0} /\ Saving \in Nat \ {0}
    /\ Amounts \subseteq Nat \ {0} /\ Ceilings \subseteq Nat
    /\ CardLimit \in Nat /\ MaxDeclines \in Nat \ {0}
    /\ BatchLimit \in Nat \ {0} /\ Horizon \in Nat
    /\ Worker \in Batches

VARIABLES
    goal,    \* product_savings.savings_goals
    age,     \* how many goals were touched after this one (updated_at)
    pot,     \* product_pots.pots with their members
    sub,     \* business_sub_wallets
    open,    \* business_accounts.is_active of a client's business
    card,    \* virtual_cards
    held,    \* the goals a batch has still to go through, as it read them
    clock

productsVars == <<goal, age, pot, sub, open, card, held, clock>>

-----------------------------------------------------------------------------
GoalType == [status : {"none", "active", "completed"}, amount : Int,
             locked : BOOLEAN, roundUp : BOOLEAN, auto : BOOLEAN, next : Nat]

NewGoal == [status |-> "active", amount |-> 0, locked |-> FALSE,
            roundUp |-> FALSE, auto |-> FALSE, next |-> 0]

NoGoal == [NewGoal EXCEPT !.status = "none"]

PotType == [status : {"none", "active", "funded", "expired", "closed"}, amount : Int,
            until : Nat, member : [Users -> {"none", "active", "away"}]]

\* open until a date, Horizon standing for one beyond what is modelled
NewPot(until) == [status |-> "active", amount |-> 0, until |-> until,
                  member |-> [u \in Users |-> "none"]]

NoPot == [NewPot(0) EXCEPT !.status = "none"]

SubType == [status : {"none", "active", "suspended"}, amount : Int, ceiling : Nat]

NewSub(ceiling) == [status |-> "active", amount |-> 0, ceiling |-> ceiling]

NoSub == [NewSub(0) EXCEPT !.status = "none"]

CardType == [status : {"none", "active", "frozen", "consumed", "cancelled"},
             single : BOOLEAN, spent : Int, declines : Nat]

NewCard(single) == [status |-> "active", single |-> single, spent |-> 0, declines |-> 0]

NoCard == [NewCard(FALSE) EXCEPT !.status = "none"]

ProductsTypeOK ==
    /\ goal \in [Goals -> GoalType] /\ age \in [Goals -> Nat]
    /\ pot \in [Pots -> PotType]
    /\ sub \in [SubWallets -> SubType]
    /\ open \in [Users -> BOOLEAN]
    /\ card \in [Cards -> CardType]
    /\ held \in [Batches -> [Goals -> GoalType \union {Nothing}]]
    /\ clock \in Nat

NoBatch == [g \in Goals |-> Nothing]

\* The products of S are there at the start and as new, goals with an automatic contribution
\* that is due and pots open for the first period.  The oldest goal has the greatest
\* age.
ProductsInit(S) ==
    /\ goal = [g \in Goals |-> IF g \in S THEN [NewGoal EXCEPT !.auto = TRUE] ELSE NoGoal]
    /\ pot = [p \in Pots |-> IF p \in S THEN NewPot(0) ELSE NoPot]
    /\ sub \in [SubWallets -> {NoSub} \union {NewSub(n) : n \in Ceilings}]
    /\ \A s \in SubWallets : sub[s].status = "none" <=> s \notin S
    /\ card = [k \in Cards |-> IF k \in S THEN NewCard(TRUE) ELSE NoCard]
    /\ age = Age0
    /\ open = [u \in Users |-> TRUE]
    /\ held = [w \in Batches |-> NoBatch]
    /\ clock = 0

\* what the requests on one kind of product leave alone
Goalless == <<goal, age>>
Others   == <<pot, sub, open, card>>
NotPot   == <<Goalless, sub, open, card, held, clock, line, clobbered>>
NotSub   == <<Goalless, pot, card, held, clock, line, clobbered>>
NotCard  == <<Goalless, pot, sub, open, held, clock, line, clobbered>>
Purse    == <<wallet, book>>

-----------------------------------------------------------------------------
(* Savings goals.                                                          *)

Touch(g) ==
    age' = [h \in Goals |-> IF h = g THEN 0
                            ELSE IF age[h] < age[g] THEN age[h] + 1 ELSE age[h]]

SetGoal(g, r) == goal' = [goal EXCEPT ![g] = r] /\ Touch(g)

CreateGoal(g) ==
    /\ Request
    /\ goal[g].status = "none"
    /\ \E lock \in BOOLEAN : SetGoal(g, [NewGoal EXCEPT !.locked = lock])
    /\ UNCHANGED <<Purse, line, clobbered, Others, held, clock>>

Reached(n, status) == IF n >= Target THEN "completed" ELSE status

Credited(r, n) ==
    [r EXCEPT !.amount = @ + n, !.status = Reached(r.amount + n, @)]

Contribute(g, n) ==
    /\ Request
    /\ goal[g].status = "active"
    /\ PayInto(OwnerOf[g], g, n)
    /\ SetGoal(g, Credited(goal[g], n))
    /\ UNCHANGED <<clobbered, Others, held, clock>>

Withdrawn(r, n) ==
    [r EXCEPT !.amount = @ - n,
              !.status = IF @ = "completed" /\ r.amount - n < Target
                         THEN "active" ELSE @]

WithdrawGoal(g, n) ==
    /\ Request
    /\ goal[g].status # "none" /\ ~goal[g].locked
    /\ goal[g].amount >= n
    /\ PayBack(g, OwnerOf[g], n)
    /\ SetGoal(g, Withdrawn(goal[g], n))
    /\ UNCHANGED <<clobbered, Others, held, clock>>

\* lock or unlock
UpdateLock(g) ==
    /\ Request
    /\ goal[g].status # "none"
    /\ SetGoal(g, [goal[g] EXCEPT !.locked = ~@])
    /\ UNCHANGED <<Purse, line, clobbered, Others, held, clock>>

ConfigureRoundUp(g, on) ==
    /\ Request
    /\ goal[g].status # "none"
    /\ SetGoal(g, [goal[g] EXCEPT !.roundUp = on])
    /\ UNCHANGED <<Purse, line, clobbered, Others, held, clock>>

ApplyRoundUp(g) ==
    /\ Request
    /\ goal[g].status = "active" /\ goal[g].roundUp
    /\ PayInto(OwnerOf[g], g, Saving)
    /\ SetGoal(g, Credited(goal[g], Saving))
    /\ UNCHANGED <<clobbered, Others, held, clock>>

ConfigureAuto(g, on, next) ==
    /\ Request
    /\ goal[g].status # "none"
    /\ SetGoal(g, [goal[g] EXCEPT !.auto = on, !.next = next])
    /\ UNCHANGED <<Purse, line, clobbered, Others, held, clock>>

\* an automatic contribution: the amount, and the next date
Saved(r) == [Credited(r, Saving) EXCEPT !.next = @ + 1]

\* at the client's request, due or not
RunAuto(g) ==
    /\ Request
    /\ goal[g].status = "active" /\ goal[g].auto
    /\ goal[g].next <= Horizon
    /\ PayInto(OwnerOf[g], g, Saving)
    /\ SetGoal(g, Saved(goal[g]))
    /\ UNCHANGED <<clobbered, Others, held, clock>>

-----------------------------------------------------------------------------
(* Batches of due contributions.                                           *)

IsDue(r) == r.auto /\ r.next <= clock

Active == {g \in Goals : goal[g].status = "active"}

\* the goals a round of the worker takes, due or not: those not touched longest
Selected == {g \in Active : Cardinality({h \in Active : age[h] > age[g]}) < BatchLimit}

\* the columns a contribution changes, written over whatever the row has become
WriteSaved(g, r) ==
    /\ SetGoal(g, [goal[g] EXCEPT !.amount = Saved(r).amount,
                                  !.status = Reached(Saved(r).amount, @),
                                  !.roundUp = r.roundUp,
                                  !.auto = r.auto, !.next = Saved(r).next])
    /\ clobbered' = IF goal[g] = r THEN clobbered ELSE clobbered \union {g}

\* session w saves for g and commits; the rest of its batch is no longer locked
SaveFor(w, g, batch) ==
    /\ batch[g] # Nothing /\ IsDue(batch[g])
    /\ PayInto(OwnerOf[g], g, Saving)
    /\ WriteSaved(g, batch[g])
    /\ held' = [held EXCEPT ![w] = [batch EXCEPT ![g] = Nothing]]
    /\ UNCHANGED <<Others, clock>>

ReadRows(S) == [g \in Goals |-> IF g \in S THEN goal[g] ELSE Nothing]

\* Variant with a mistake: a goal that is not due ends the round.
WorkerRoundBreaks(g) ==
    /\ held[Worker] = NoBatch
    /\ g \in Selected
    /\ \A h \in Selected : age[h] <= age[g]
    /\ SaveFor(Worker, g, ReadRows(Selected))
    /\ UNCHANGED ops

\* The worker's SELECT ... FOR UPDATE SKIP LOCKED and its first contribution, to
\* the due goal not touched longest; if its owner is short of money the round
\* breaks off and has changed nothing.
WorkerRound(g) ==
    /\ held[Worker] = NoBatch
    /\ g \in Selected
    /\ \A h \in Selected : IsDue(goal[h]) => age[h] <= age[g]
    /\ SaveFor(Worker, g, ReadRows(Selected))
    /\ UNCHANGED ops

\* a client has all that is due saved, in the order in which the goals were made
OwnRound(w, g) ==
    /\ Request
    /\ w # Worker /\ held[w] = NoBatch
    /\ g \in Active
    /\ SaveFor(w, g, ReadRows({h \in Active : OwnerOf[h] = OwnerOf[g]}))

\* the next goal of a batch, whose order is left open
NextInRound(w, g) ==
    /\ held[w] # NoBatch
    /\ SaveFor(w, g, held[w])
    /\ UNCHANGED ops

\* the batch is done, breaks off at a goal whose owner is short of money, or dies
EndRound(w) ==
    /\ held[w] # NoBatch
    /\ held' = [held EXCEPT ![w] = NoBatch]
    /\ UNCHANGED <<Purse, line, clobbered, ops, Goalless, Others, clock>>

-----------------------------------------------------------------------------
(* Pots.                                                                   *)

SetPot(p, r) == pot' = [pot EXCEPT ![p] = r]

CreatePot(p) ==
    /\ Request
    /\ pot[p].status = "none"
    /\ \E until \in {clock, Horizon} : SetPot(p, NewPot(until))
    /\ UNCHANGED <<Purse, NotPot>>

SetMember(p, u, status) ==
    /\ pot[p].status # "none" /\ u # OwnerOf[p]
    /\ SetPot(p, [pot[p] EXCEPT !.member[u] = status])
    /\ UNCHANGED <<Purse, NotPot>>

\* added or brought back, also to a pot that is no longer open
AddMember(p, u) == Request /\ SetMember(p, u, "active")

\* paused, removed, gone or active again, by the owner; the member may leave
UpdateMember(p, u, status) ==
    Request /\ pot[p].member[u] # "none" /\ SetMember(p, u, status)

LeavePot(p, u) ==
    Request /\ pot[p].member[u] = "active" /\ SetMember(p, u, "away")

PotAccepts(p, u) ==
    /\ pot[p].status = "active"
    /\ u = OwnerOf[p] \/ pot[p].member[u] = "active"

PotCredited(r, n) ==
    [r EXCEPT !.amount = @ + n, !.status = IF r.amount + n >= Target THEN "funded" ELSE @]

ContributePot(p, u, n) ==
    /\ Request
    /\ PotAccepts(p, u) /\ clock <= pot[p].until
    /\ PayInto(u, p, n)
    /\ SetPot(p, PotCredited(pot[p], n))
    /\ UNCHANGED <<Goalless, sub, open, card, held, clock, clobbered>>

\* a contribution after the deadline, by anybody, closes the pot and is refused
ExpirePot(p) ==
    /\ Request
    /\ pot[p].status = "active" /\ clock > pot[p].until
    /\ SetPot(p, [pot[p] EXCEPT !.status = "expired"])
    /\ UNCHANGED <<Purse, NotPot>>

ClosePot(p) ==
    /\ Request
    /\ pot[p].status \notin {"none", "closed"}
    /\ SetPot(p, [pot[p] EXCEPT !.status = "closed"])
    /\ UNCHANGED <<Purse, NotPot>>

-----------------------------------------------------------------------------
(* Sub-wallets of a business, whose owner alone moves money.               *)

SetBusiness(u) ==
    /\ Request
    /\ open' = [open EXCEPT ![u] = ~@]
    /\ UNCHANGED <<Purse, NotSub, sub>>

SetSub(s, r) == sub' = [sub EXCEPT ![s] = r]

CreateSub(s, ceiling) ==
    /\ Request
    /\ sub[s].status = "none" /\ open[OwnerOf[s]]
    /\ SetSub(s, NewSub(ceiling))
    /\ UNCHANGED <<Purse, NotSub, open>>

UpdateSub(s, ceiling, status) ==
    /\ Request
    /\ sub[s].status # "none" /\ open[OwnerOf[s]]
    /\ ceiling >= sub[s].amount
    /\ SetSub(s, [sub[s] EXCEPT !.status = status, !.ceiling = ceiling])
    /\ UNCHANGED <<Purse, NotSub, open>>

SubUsable(s) == sub[s].status = "active" /\ open[OwnerOf[s]]

FundSub(s, n) ==
    /\ Request
    /\ SubUsable(s)
    /\ n <= Pos(sub[s].ceiling - sub[s].amount)
    /\ PayInto(OwnerOf[s], s, n)
    /\ SetSub(s, [sub[s] EXCEPT !.amount = @ + n])
    /\ UNCHANGED <<Goalless, pot, open, card, held, clock, clobbered>>

ReleaseSub(s, n) ==
    /\ Request
    /\ SubUsable(s)
    /\ sub[s].amount >= n
    /\ PayBack(s, OwnerOf[s], n)
    /\ SetSub(s, [sub[s] EXCEPT !.amount = @ - n])
    /\ UNCHANGED <<Goalless, pot, open, card, held, clock, clobbered>>

-----------------------------------------------------------------------------
(* Virtual cards.                                                          *)

SetCard(k, r) == card' = [card EXCEPT ![k] = r]

CreateCard(k, single) ==
    /\ Request
    /\ card[k].status = "none"
    /\ SetCard(k, NewCard(single))
    /\ UNCHANGED <<Purse, NotCard>>

\* by the client or an administrator; what is consumed or cancelled stays so, and
\* a card that is made active starts to count its refusals anew
UpdateCardStatus(k, status) ==
    /\ Request
    /\ card[k].status \in {"active", "frozen"}
    /\ SetCard(k, [card[k] EXCEPT !.status = status,
                                  !.declines = IF status = "active" THEN 0 ELSE @])
    /\ UNCHANGED <<Purse, NotCard>>

\* what the card itself has against a charge, its own controls left aside
CardBars(r, n) ==
    \/ r.status # "active"
    \/ r.single /\ r.spent > 0
    \/ CardLimit > 0 /\ r.spent + n > CardLimit

CardCharged(r, n) ==
    [r EXCEPT !.spent = @ + n, !.declines = 0,
              !.status = IF r.single THEN "consumed" ELSE @]

ChargeCard(k, n) ==
    /\ Request
    /\ card[k].status # "none" /\ ~CardBars(card[k], n)
    /\ PayInto(OwnerOf[k], k, n)
    /\ SetCard(k, CardCharged(card[k], n))
    /\ UNCHANGED <<Goalless, pot, sub, open, held, clock, clobbered>>

\* Declined by the card, its controls (limits for a charge, a day, a month, the
\* category of the merchant) or for want of money: counted, and an active card is
\* frozen at the last refusal.  Refusals beyond the last change nothing.
DeclineCharge(k) ==
    LET r == card[k]
        n == Least(MaxDeclines, r.declines + 1)
    IN  /\ Request
        /\ r.status # "none"
        /\ SetCard(k, [r EXCEPT
              !.declines = n,
              !.status = IF r.single /\ r.spent > 0 THEN "consumed"
                         ELSE IF @ = "active" /\ n = MaxDeclines THEN "frozen" ELSE @])
        /\ UNCHANGED <<Purse, NotCard>>

-----------------------------------------------------------------------------
GoalStep(g) ==
    \/ CreateGoal(g) \/ UpdateLock(g) \/ ApplyRoundUp(g) \/ RunAuto(g)
    \/ \E n \in Amounts : Contribute(g, n) \/ WithdrawGoal(g, n)
    \/ \E on \in BOOLEAN : ConfigureRoundUp(g, on)
    \/ \E on \in BOOLEAN, next \in {clock, clock + 1} : ConfigureAuto(g, on, next)

BatchStep(g) ==
    \/ WorkerRound(g)
    \/ \E w \in Batches : OwnRound(w, g) \/ NextInRound(w, g)

PotStep(p) ==
    \/ CreatePot(p) \/ ExpirePot(p) \/ ClosePot(p)
    \/ \E u \in Users : AddMember(p, u) \/ LeavePot(p, u)
    \/ \E u \in Users, status \in {"active", "away"} : UpdateMember(p, u, status)
    \/ \E u \in Users, n \in Amounts : ContributePot(p, u, n)

SubStep(s) ==
    \/ \E n \in Ceilings : CreateSub(s, n)
    \/ \E n \in Ceilings, status \in {"active", "suspended"} : UpdateSub(s, n, status)
    \/ \E n \in Amounts : FundSub(s, n) \/ ReleaseSub(s, n)

CardStep(k) ==
    \/ \E single \in BOOLEAN : CreateCard(k, single)
    \/ \E status \in {"active", "frozen", "cancelled"} : UpdateCardStatus(k, status)
    \/ \E n \in Amounts : ChargeCard(k, n)
    \/ DeclineCharge(k)

Tick ==
    /\ clock < Horizon /\ clock' = clock + 1
    /\ UNCHANGED <<Purse, line, clobbered, ops, Goalless, Others, held>>

ProductsNext ==
    \/ \E g \in Goals : GoalStep(g) \/ BatchStep(g)
    \/ \E w \in Batches : EndRound(w)
    \/ \E p \in Pots : PotStep(p)
    \/ \E u \in Users : SetBusiness(u)
    \/ \E s \in SubWallets : SubStep(s)
    \/ \E k \in Cards : CardStep(k)
    \/ Tick

-----------------------------------------------------------------------------
(* Properties.                                                             *)

Short(u) == wallet[u] < Saving

GoalDue(g) == goal[g].status = "active" /\ IsDue(goal[g])

\* what keeps a due goal waiting: a due goal before it whose owner is short of
\* money, at which every round breaks off, or a batch full of goals before it
Waits(g) ==
    \/ g \notin Selected
    \/ \E h \in Selected : GoalDue(h) /\ Short(OwnerOf[h]) /\ age[h] >= age[g]

\* The worker saves for every goal that is due, unless it waits behind others.
DueGoalsAreSaved == \A g \in Goals : GoalDue(g) ~> ~GoalDue(g) \/ Waits(g)
=============================================================================
