---------------------- MODULE ScheduledTransfersProofs ----------------------
(***************************************************************************)
(* Proofs about ScheduledTransfers, for any sets of schedules, users and   *)
(* sessions, any batch limit and any number of faults and changes.         *)
(***************************************************************************)
EXTENDS ScheduledTransfers, FiniteSetTheorems, TLAPS

-----------------------------------------------------------------------------
(* The inductive invariant.                                                *)

\* a row that a run may still take has runs left and failures to spare
RowSteady(r) ==
    /\ r.status \in {"active", "failed", "paused"} /\ r.left # None => r.left >= 1
    /\ Runnable(r) => r.fails < MaxFails

\* the runs there were and those to come, of which p have not been recorded
Counted(r, n, g, p) ==
    /\ r.status = "none" => n = 0
    /\ r.left # None => g \in Nat /\ n + r.left = g + p

\* a batch holds rows that could be run when it was read, and unless the schedule
\* has gone astray they are what the database has
HeldOK ==
    /\ \A w \in Sessions, s \in Schedules :
          held[w][s] # None =>
              /\ Runnable(held[w][s])
              /\ s \notin astray => held[w][s] = sched[s]
    /\ \A w \in Sessions, s \in Schedules : placed[w] = s => held[w][s] # None

Steady ==
    \A s \in Schedules \ astray :
        /\ RowSteady(sched[s])
        /\ (\A w \in Sessions : placed[w] # s)
              => Counted(sched[s], ran[s], granted[s], 0)
        /\ \A w \in Sessions :
              (placed[w] = s /\ \A v \in Sessions \ {w} : placed[v] # s)
                  => Counted(sched[s], ran[s], granted[s], 1)

IInv == TypeOK /\ HeldOK /\ Steady /\ LockedIsFresh /\ OverdraftIsLent

-----------------------------------------------------------------------------
(* Rows.                                                                   *)

LEMMA RowFields ==
    ASSUME NEW r \in RowType
    PROVE  /\ r.status \in Status /\ r.next \in Nat /\ r.left \in Count
           /\ r.fails \in Nat
BY DEF RowType

LEMMA RowIsRow ==
    ASSUME NEW a \in Status, NEW n \in Nat, NEW l \in Count, NEW f \in Nat
    PROVE  /\ Row(a, n, l, f) \in RowType
           /\ Row(a, n, l, f).status = a /\ Row(a, n, l, f).next = n
           /\ Row(a, n, l, f).left = l /\ Row(a, n, l, f).fails = f
BY DEF Row, RowType

LEMMA SaveIsRow ==
    ASSUME NEW c \in RowType, NEW r \in RowType, NEW n \in RowType
    PROVE  /\ Save(c, r, n) \in RowType
           /\ c = r => Save(c, r, n) = n
<1>1. /\ Column(c.status, r.status, n.status) \in Status
      /\ Column(c.next, r.next, n.next) \in Nat
      /\ Column(c.left, r.left, n.left) \in Count
      /\ Column(c.fails, r.fails, n.fails) \in Nat
  BY RowFields DEF Column
<1>2. Save(c, r, n) \in RowType
  BY <1>1, RowIsRow DEF Save
<1>3. ASSUME c = r PROVE Save(c, r, n) = n
  <2>1. n = [status |-> n.status, next |-> n.next, left |-> n.left, fails |-> n.fails]
    BY DEF RowType
  <2>2. Save(c, r, n) = Row(n.status, n.next, n.left, n.fails)
    BY <1>3 DEF Save, Column
  <2> QED
    BY <2>1, <2>2 DEF Row
<1> QED
  BY <1>2, <1>3

LEMMA RanIsRow ==
    ASSUME TypeOK, NEW r \in RowType
    PROVE  Ran(r) \in RowType
<1>1. r.next \in Nat /\ r.left \in Count /\ clock \in Nat
  BY RowFields DEF TypeOK
<1>2. "active" \in Status /\ "completed" \in Status /\ None \in Count
  BY DEF Status, Count
<1>3. CASE r.left = None
  <2>1. Ran(r) = Row("active", r.next + 1, None, 0)
    BY <1>3 DEF Ran
  <2> QED
    BY <1>1, <1>2, <2>1, RowIsRow
<1>4. CASE r.left # None /\ r.left <= 1
  <2>1. Ran(r) = Row("completed", clock, 0, 0)
    BY <1>4 DEF Ran
  <2> QED
    BY <1>1, <1>2, <2>1, RowIsRow DEF Count
<1>5. CASE r.left # None /\ ~(r.left <= 1)
  <2>1. Ran(r) = Row("active", r.next + 1, r.left - 1, 0)
    BY <1>5 DEF Ran
  <2>2. r.left - 1 \in Count
    BY <1>1, <1>5 DEF Count
  <2> QED
    BY <1>1, <1>2, <2>1, <2>2, RowIsRow
<1> QED
  BY <1>3, <1>4, <1>5

\* a run uses up one of the runs left, and leaves a row that may be run
LEMMA RanSteady ==
    ASSUME ScheduledAssumption, NEW r \in RowType, Runnable(r), RowSteady(r),
           NEW n \in Nat, NEW g
    PROVE  /\ RowSteady(Ran(r))
           /\ Counted(r, n, g, 1) => Counted(Ran(r), n, g, 0)
           /\ Counted(r, n, g, 0) => Counted(Ran(r), n + 1, g, 0)
<1>1. r.left \in Count /\ MaxFails \in Nat \ {0}
  BY RowFields DEF ScheduledAssumption
<1>2. /\ r.status # "none"
      /\ r.left # None => r.left \in Nat /\ r.left >= 1
  BY <1>1 DEF Runnable, RowSteady, Count
<1>3. CASE r.left = None
  <2>1. Ran(r).status = "active" /\ Ran(r).left = None /\ Ran(r).fails = 0
    BY <1>3 DEF Ran, Row
  <2> QED
    BY <1>1, <2>1 DEF RowSteady, Runnable, Counted
<1>4. CASE r.left # None /\ r.left <= 1
  <2>1. Ran(r).status = "completed" /\ Ran(r).left = 0 /\ r.left = 1
    BY <1>2, <1>4 DEF Ran, Row
  <2> QED
    BY <1>1, <1>4, <2>1 DEF RowSteady, Runnable, Counted
<1>5. CASE r.left # None /\ ~(r.left <= 1)
  <2>1. Ran(r).status = "active" /\ Ran(r).left = r.left - 1 /\ Ran(r).fails = 0
    BY <1>5 DEF Ran, Row
  <2> QED
    BY <1>1, <1>2, <1>5, <2>1 DEF RowSteady, Runnable, Counted
<1> QED
  BY <1>3, <1>4, <1>5

LEMMA FailedIsRow ==
    ASSUME NEW r \in RowType
    PROVE  Failed(r) \in RowType
<1>1. /\ (IF r.fails + 1 >= MaxFails THEN "paused" ELSE "failed") \in Status
      /\ r.next \in Nat /\ r.left \in Count /\ r.fails + 1 \in Nat
  BY RowFields DEF Status
<1> QED
  BY <1>1, RowIsRow DEF Failed

LEMMA FailedSteady ==
    ASSUME ScheduledAssumption, NEW r \in RowType, Runnable(r), RowSteady(r),
           NEW n \in Nat, NEW g, NEW p
    PROVE  /\ RowSteady(Failed(r))
           /\ Counted(r, n, g, p) => Counted(Failed(r), n, g, p)
<1>1. /\ Failed(r).status = IF r.fails + 1 >= MaxFails THEN "paused" ELSE "failed"
      /\ Failed(r).left = r.left /\ Failed(r).fails = r.fails + 1
  BY DEF Failed, Row
<1>2. r.fails \in Nat /\ MaxFails \in Nat
  BY RowFields DEF ScheduledAssumption
<1> QED
  BY <1>1, <1>2 DEF RowSteady, Runnable, Counted

-----------------------------------------------------------------------------
(* What a run takes.                                                       *)

LEMMA PayKeepsMoney ==
    ASSUME ScheduledAssumption, TypeOK, OverdraftIsLent,
           NEW s \in Schedules, Affords(s), Pay(s)
    PROVE  /\ wallet' \in [Users -> Int] /\ line' \in [Users -> LineType]
           /\ taken' \in [Schedules -> Nat]
           /\ OverdraftIsLent'
<1> DEFINE u == OwnerOf[s]
           a == Amount[s]
           debt == NewDebt(wallet[u], a)
           l == line[u]
<1>1. u \in Users /\ a \in Nat /\ wallet[u] \in Int /\ l \in LineType
  BY DEF ScheduledAssumption, TypeOK
<1>2. l.limit \in Nat /\ l.used \in Nat /\ l.avail \in Nat
  BY <1>1 DEF LineType
<1>3. debt \in Nat /\ debt <= l.avail /\ wallet[u] - a + l.used + debt >= 0
  <2>1. wallet[u] + l.used >= 0
    BY <1>1 DEF OverdraftIsLent
  <2>2. debt <= l.avail
    BY DEF Affords
  <2> QED
    BY <1>1, <1>2, <2>1, <2>2 DEF NewDebt, Pos
<1>4. line' = [line EXCEPT ![u] = Draw(l, debt)]
  <2>1. Mirrored(wallet[u], l.avail, a).credit = debt
    <3>1. Least(l.avail, debt) = debt
      BY <1>2, <1>3 DEF Least
    <3> HIDE DEF debt, u, l
    <3> QED
      BY <3>1 DEF Mirrored, debt
  <2> QED
    BY <1>1, <2>1 DEF Pay, DrawLine, TypeOK
<1>5. /\ Draw(l, debt) \in LineType
      /\ Draw(l, debt).used = l.used + debt
      /\ Draw(l, debt).avail = l.avail - debt
      /\ Draw(l, debt).limit = l.limit
  BY <1>2, <1>3 DEF Draw, LineType, Pos
<1>6. /\ wallet' \in [Users -> Int]
      /\ wallet'[u] = wallet[u] - a
      /\ \A v \in Users : v # u => wallet'[v] >= wallet[v]
  BY <1>1 DEF Pay, PayPayee, TypeOK, ScheduledAssumption
<1>7. taken' \in [Schedules -> Nat]
  BY DEF Pay, TypeOK
<1>8. line' \in [Users -> LineType]
  BY <1>1, <1>4, <1>5 DEF TypeOK
<1>9. OverdraftIsLent'
  <2> SUFFICES ASSUME NEW v \in Users
               PROVE  /\ wallet'[v] + line'[v].used >= 0
                      /\ line'[v].used + line'[v].avail = line'[v].limit
    BY DEF OverdraftIsLent
  <2>1. /\ wallet[v] + line[v].used >= 0
        /\ line[v].used + line[v].avail = line[v].limit
        /\ line[v] \in LineType /\ wallet[v] \in Int /\ wallet'[v] \in Int
    BY <1>6 DEF OverdraftIsLent, TypeOK
  <2>2. CASE v = u
    <3>1. line'[v] = Draw(l, debt)
      BY <1>1, <1>4, <2>2 DEF TypeOK
    <3> HIDE DEF debt, l, a
    <3> QED
      BY <1>1, <1>2, <1>3, <1>5, <1>6, <2>1, <2>2, <3>1 DEF l
  <2>3. CASE v # u
    <3>1. line'[v] = line[v]
      BY <1>4, <2>3 DEF TypeOK
    <3> QED
      BY <1>6, <2>1, <2>3, <3>1 DEF LineType
  <2> QED
    BY <2>2, <2>3
<1> QED
  BY <1>6, <1>7, <1>8, <1>9

-----------------------------------------------------------------------------
(* Steps.                                                                  *)

\* A row written by a request, while no batch has it locked.
LEMMA WriteKeepsInv ==
    ASSUME ScheduledAssumption, IInv,
           NEW s \in Schedules, NEW r \in RowType,
           Write(None, s, r), LockedBy(s) = {},
           UNCHANGED <<wallet, line, taken, held, locking, placed, clock, ran>>,
           events' \in Nat, granted' \in [Schedules -> Count],
           \A o \in Schedules \ {s} : granted'[o] = granted[o],
           s \notin astray /\ (\A w \in Sessions : placed[w] # s)
              => RowSteady(r) /\ Counted(r, ran[s], granted'[s], 0)
    PROVE  IInv'
<1>1. /\ sched' = [sched EXCEPT ![s] = r]
      /\ astray' = IF \E v \in Sessions : held[v][s] # None
                   THEN astray \union {s} ELSE astray
  BY DEF Write, ScheduledAssumption
<1>2. /\ sched \in [Schedules -> RowType] /\ astray \subseteq Schedules
      /\ \A o \in Schedules : sched'[o] = IF o = s THEN r ELSE sched[o]
  BY <1>1 DEF IInv, TypeOK
<1>3. \A o \in Schedules \ astray' :
         /\ o \notin astray
         /\ o = s => \A v \in Sessions : held[v][s] = None /\ placed[v] # s
  BY <1>1 DEF IInv, HeldOK
<1>4. TypeOK'
  <2>1. sched' \in [Schedules -> RowType] /\ astray' \subseteq Schedules
    BY <1>1, <1>2
  <2> QED
    BY <2>1 DEF IInv, TypeOK
<1>5. HeldOK'
  BY <1>2, <1>3 DEF IInv, HeldOK
<1>6. Steady'
  <2> SUFFICES ASSUME NEW o \in Schedules \ astray'
               PROVE  /\ RowSteady(sched'[o])
                      /\ (\A w \in Sessions : placed[w] # o)
                            => Counted(sched'[o], ran[o], granted'[o], 0)
                      /\ \A w \in Sessions :
                            (placed[w] = o /\ \A v \in Sessions \ {w} : placed[v] # o)
                               => Counted(sched'[o], ran[o], granted'[o], 1)
    BY DEF Steady
  <2>1. CASE o = s
    BY <1>2, <1>3, <2>1
  <2>2. CASE o # s
    <3>1. sched'[o] = sched[o] /\ granted'[o] = granted[o] /\ o \notin astray
      BY <1>2, <1>3, <2>2
    <3> QED
      BY <3>1 DEF IInv, Steady
  <2> QED
    BY <2>1, <2>2
<1>7. LockedIsFresh'
  <2> SUFFICES ASSUME NEW w \in locking, NEW o \in Schedules, held[w][o] # None
               PROVE  held[w][o] = sched'[o] /\ LockedBy(o)' = {w}
    BY DEF LockedIsFresh, Batch
  <2>1. held[w][o] = sched[o] /\ LockedBy(o) = {w}
    BY DEF IInv, LockedIsFresh, Batch
  <2> QED
    BY <1>2, <2>1 DEF LockedBy
<1>8. OverdraftIsLent'
  BY DEF IInv, OverdraftIsLent
<1> QED
  BY <1>4, <1>5, <1>6, <1>7, <1>8 DEF IInv

\* An item of a batch that is committed.
LEMMA RecordKeepsInv ==
    ASSUME ScheduledAssumption, IInv,
           NEW w \in Sessions, NEW s \in Schedules, NEW r \in RowType,
           held[w][s] # None, Record(w, s, r),
           UNCHANGED <<clock, events, granted>>,
           wallet' \in [Users -> Int], line' \in [Users -> LineType],
           taken' \in [Schedules -> Nat], OverdraftIsLent',
           ran' \in [Schedules -> Nat],
           \A o \in Schedules \ {s} : ran'[o] = ran[o],
           placed' \in [Sessions -> Schedules \union {None}],
           placed'[w] = None, placed[w] \in {s, None},
           \A v \in Sessions \ {w} : placed'[v] = placed[v],
           (s \notin astray /\ \A v \in Sessions \ {w} : placed[v] # s)
              => RowSteady(r) /\ Counted(r, ran'[s], granted[s], 0)
    PROVE  IInv'
<1> DEFINE new == Save(sched[s], held[w][s], r)
<1>1. /\ sched' = [sched EXCEPT ![s] = new]
      /\ astray' = IF \E v \in Sessions \ {w} : held[v][s] # None
                   THEN astray \union {s} ELSE astray
      /\ held' = [held EXCEPT ![w][s] = None]
      /\ locking' = locking \ {w}
      /\ LockedBy(s) \subseteq {w}
  BY DEF Record, Write
<1>2. /\ sched \in [Schedules -> RowType] /\ astray \subseteq Schedules
      /\ held \in [Sessions -> [Schedules -> RowType \union {None}]]
      /\ locking \subseteq Sessions
      /\ held[w][s] \in RowType
  BY DEF IInv, TypeOK
<1>3. /\ new \in RowType
      /\ sched[s] = held[w][s] => new = r
  BY <1>2, SaveIsRow
<1> HIDE DEF new
<1>4. /\ \A o \in Schedules : sched'[o] = IF o = s THEN new ELSE sched[o]
      /\ \A v \in Sessions, o \in Schedules :
            held'[v][o] = IF v = w /\ o = s THEN None ELSE held[v][o]
  BY <1>1, <1>2
<1>5. \A o \in Schedules \ astray' :
         /\ o \notin astray
         /\ o = s => \A v \in Sessions \ {w} : held[v][s] = None /\ placed[v] # s
  <2>1. \A o \in Schedules \ astray' : o \notin astray
    BY <1>1, <1>2
  <2>2. s \notin astray' => \A v \in Sessions \ {w} : held[v][s] = None /\ placed[v] # s
    BY <1>1, <1>2 DEF IInv, HeldOK
  <2> QED
    BY <2>1, <2>2
<1>6. s \notin astray' => new = r
  BY <1>3, <1>5 DEF IInv, HeldOK
<1>7. TypeOK'
  <2>1. sched' \in [Schedules -> RowType] /\ astray' \subseteq Schedules
    BY <1>1, <1>2, <1>3
  <2>2. held' \in [Sessions -> [Schedules -> RowType \union {None}]]
        /\ locking' \subseteq Sessions
    BY <1>1, <1>2
  <2> QED
    BY <2>1, <2>2 DEF IInv, TypeOK
<1>8. HeldOK'
  <2>1. ASSUME NEW v \in Sessions, NEW o \in Schedules, held'[v][o] # None
        PROVE  Runnable(held'[v][o]) /\ (o \notin astray' => held'[v][o] = sched'[o])
    <3>1. held'[v][o] = held[v][o] /\ (o = s => v # w)
      BY <1>4, <2>1
    <3>2. /\ Runnable(held[v][o])
          /\ o \notin astray => held[v][o] = sched[o]
      BY <2>1, <3>1 DEF IInv, HeldOK
    <3>3. o \notin astray' => o \notin astray /\ o # s
      BY <1>5, <2>1, <3>1
    <3> QED
      BY <1>4, <3>1, <3>2, <3>3
  <2>2. ASSUME NEW v \in Sessions, NEW o \in Schedules, placed'[v] = o
        PROVE  held'[v][o] # None
    <3>1. v # w
      BY <2>2 DEF ScheduledAssumption
    <3> QED
      BY <1>4, <2>2, <3>1 DEF IInv, HeldOK
  <2> QED
    BY <2>1, <2>2 DEF HeldOK
<1>9. Steady'
  <2> SUFFICES ASSUME NEW o \in Schedules \ astray'
               PROVE  /\ RowSteady(sched'[o])
                      /\ (\A v \in Sessions : placed'[v] # o)
                            => Counted(sched'[o], ran'[o], granted[o], 0)
                      /\ \A v \in Sessions :
                            (placed'[v] = o /\ \A x \in Sessions \ {v} : placed'[x] # o)
                               => Counted(sched'[o], ran'[o], granted[o], 1)
    BY DEF Steady
  <2>1. CASE o = s
    <3>1. RowSteady(sched'[o]) /\ Counted(sched'[o], ran'[o], granted[o], 0)
      BY <1>4, <1>5, <1>6, <2>1
    <3>2. \A v \in Sessions : placed'[v] # s
      BY <1>5, <2>1 DEF ScheduledAssumption
    <3> QED
      BY <2>1, <3>1, <3>2
  <2>2. CASE o # s
    <3>1. sched'[o] = sched[o] /\ ran'[o] = ran[o] /\ o \notin astray
      BY <1>4, <1>5, <2>2
    <3>2. \A v \in Sessions : placed'[v] = o <=> placed[v] = o
      BY <2>2 DEF ScheduledAssumption
    <3> QED
      BY <3>1, <3>2 DEF IInv, Steady
  <2> QED
    BY <2>1, <2>2
<1>10. LockedIsFresh'
  <2> SUFFICES ASSUME NEW v \in locking', NEW o \in Schedules, held'[v][o] # None
               PROVE  held'[v][o] = sched'[o] /\ LockedBy(o)' = {v}
    BY DEF LockedIsFresh, Batch
  <2>1. v \in locking /\ v # w /\ v \in Sessions /\ held'[v][o] = held[v][o]
    BY <1>1, <1>2, <1>4
  <2>2. held[v][o] = sched[o] /\ LockedBy(o) = {v}
    BY <2>1 DEF IInv, LockedIsFresh, Batch
  <2>3. o # s
    BY <1>1, <2>1, <2>2
  <2>4. LockedBy(o)' = {v}
    BY <1>1, <1>2, <1>4, <2>1, <2>2, <2>3 DEF LockedBy
  <2> QED
    BY <1>4, <2>1, <2>2, <2>3, <2>4
<1> QED
  BY <1>7, <1>8, <1>9, <1>10 DEF IInv

LEMMA CreateKeepsInv ==
    ASSUME ScheduledAssumption, IInv, NEW s \in Schedules, Create(s)
    PROVE  IInv'
<1>1. PICK next \in clock..Horizon : Write(None, s, Row("active", next, Wanted[s], 0))
  BY DEF Create
<1> DEFINE r == Row("active", next, Wanted[s], 0)
<1>2. /\ sched[s].status = "none"
      /\ granted' = [granted EXCEPT ![s] = Wanted[s]]
      /\ UNCHANGED <<wallet, line, taken, held, locking, placed, clock, events, ran>>
  BY DEF Create, Money, Batches, Bounds
<1>3. /\ clock \in Nat /\ events \in Nat /\ ran[s] \in Nat
      /\ granted \in [Schedules -> Count]
      /\ Wanted[s] \in Count /\ (Wanted[s] # None => Wanted[s] \in Nat \ {0})
      /\ MaxFails \in Nat \ {0} /\ Horizon \in Nat
  BY DEF IInv, TypeOK, ScheduledAssumption, Count
<1>4. next \in Nat /\ "active" \in Status
  BY <1>3 DEF Status
<1>5. /\ r \in RowType /\ r.status = "active" /\ r.left = Wanted[s] /\ r.fails = 0
  BY <1>3, <1>4, RowIsRow
<1> HIDE DEF r
<1>6. LockedBy(s) = {}
  <2> SUFFICES ASSUME NEW w \in locking, held[w][s] # None PROVE FALSE
    BY DEF LockedBy
  <2>1. w \in Sessions
    BY DEF IInv, TypeOK
  <2>2. held[w][s] = sched[s]
    BY DEF IInv, LockedIsFresh, Batch
  <2>3. Runnable(held[w][s])
    BY <2>1 DEF IInv, HeldOK
  <2> QED
    BY <1>2, <2>2, <2>3 DEF Runnable
<1>7. s \notin astray /\ (\A w \in Sessions : placed[w] # s)
         => RowSteady(r) /\ Counted(r, ran[s], Wanted[s], 0)
  <2> SUFFICES ASSUME s \notin astray, \A w \in Sessions : placed[w] # s
               PROVE  RowSteady(r) /\ Counted(r, ran[s], Wanted[s], 0)
    OBVIOUS
  <2>1. Counted(sched[s], ran[s], granted[s], 0)
    BY DEF IInv, Steady
  <2>2. ran[s] = 0
    BY <1>2, <2>1 DEF Counted
  <2> QED
    BY <1>3, <1>5, <2>2 DEF RowSteady, Runnable, Counted
<1>8. /\ granted' \in [Schedules -> Count] /\ granted'[s] = Wanted[s]
      /\ \A o \in Schedules \ {s} : granted'[o] = granted[o]
  BY <1>2, <1>3
<1>9. Write(None, s, r)
  BY <1>1 DEF r
<1> QED
  BY <1>2, <1>3, <1>5, <1>6, <1>7, <1>8, <1>9, WriteKeepsInv

\* what Open and Change give a request that writes a row
LEMMA ChangeFacts ==
    ASSUME ScheduledAssumption, IInv, NEW s \in Schedules, NEW A, Change(s, A)
    PROVE  /\ sched[s] \in RowType /\ sched[s].status \in A
           /\ LockedBy(s) = {} /\ events' \in Nat /\ clock \in Nat
           /\ granted \in [Schedules -> Count] /\ ran[s] \in Nat
           /\ s \notin astray /\ (\A w \in Sessions : placed[w] # s)
                 => /\ RowSteady(sched[s])
                    /\ Counted(sched[s], ran[s], granted[s], 0)
BY DEF Change, Open, IInv, TypeOK, Steady

LEMMA UpdateKeepsInv ==
    ASSUME ScheduledAssumption, IInv, NEW s \in Schedules, Update(s)
    PROVE  IInv'
<1> DEFINE Live == {"active", "failed", "paused"}
<1>1. Change(s, Live)
      /\ UNCHANGED <<wallet, line, taken, held, locking, placed, clock, ran>>
  BY DEF Update, Money, Batches
<1>2. PICK next \in {sched[s].next} \union (clock..Horizon) :
          \/ /\ Write(None, s, Row(sched[s].status, next, sched[s].left, 0))
             /\ UNCHANGED granted
          \/ \E left \in Grants :
                /\ Write(None, s, Row(sched[s].status, next, left, 0))
                /\ granted' = [granted EXCEPT ![s] =
                                 IF left = None THEN None ELSE ran[s] + left]
  BY DEF Update
<1>3. /\ sched[s] \in RowType /\ sched[s].status \in Live
      /\ LockedBy(s) = {} /\ events' \in Nat /\ clock \in Nat
      /\ granted \in [Schedules -> Count] /\ ran[s] \in Nat
      /\ s \notin astray /\ (\A w \in Sessions : placed[w] # s)
            => /\ RowSteady(sched[s])
               /\ Counted(sched[s], ran[s], granted[s], 0)
  BY <1>1, ChangeFacts
<1>4. /\ next \in Nat /\ sched[s].status \in Status /\ sched[s].left \in Count
      /\ MaxFails \in Nat \ {0}
  BY <1>3, RowFields DEF ScheduledAssumption
<1>5. CASE /\ Write(None, s, Row(sched[s].status, next, sched[s].left, 0))
           /\ UNCHANGED granted
  <2> DEFINE r == Row(sched[s].status, next, sched[s].left, 0)
  <2>1. /\ r \in RowType /\ r.status = sched[s].status /\ r.left = sched[s].left
        /\ r.fails = 0
    BY <1>4 DEF Row, RowType
  <2>2. Write(None, s, r)
    BY <1>5
  <2> HIDE DEF r
  <2>3. s \notin astray /\ (\A w \in Sessions : placed[w] # s)
           => RowSteady(r) /\ Counted(r, ran[s], granted[s], 0)
    BY <1>3, <1>4, <2>1 DEF RowSteady, Runnable, Counted
  <2> QED
    BY <1>1, <1>3, <1>5, <2>1, <2>2, <2>3, WriteKeepsInv
<1>6. ASSUME NEW left \in Grants,
             Write(None, s, Row(sched[s].status, next, left, 0)),
             granted' = [granted EXCEPT ![s] =
                           IF left = None THEN None ELSE ran[s] + left]
      PROVE  IInv'
  <2> DEFINE r == Row(sched[s].status, next, left, 0)
             g == IF left = None THEN None ELSE ran[s] + left
  <2>1. left \in Count /\ (left # None => left \in Nat \ {0})
    BY DEF ScheduledAssumption, Count
  <2>2. r \in RowType /\ r.status = sched[s].status /\ r.left = left /\ r.fails = 0
    BY <1>4, <2>1, RowIsRow
  <2>3. g \in Count /\ (left # None => g \in Nat /\ ran[s] + left = g)
    BY <1>3, <2>1 DEF Count
  <2>4. Write(None, s, r) /\ granted' = [granted EXCEPT ![s] = g]
    BY <1>6
  <2> HIDE DEF r, g
  <2>5. RowSteady(r) /\ Counted(r, ran[s], g, 0)
    BY <1>3, <1>4, <2>1, <2>2, <2>3 DEF RowSteady, Runnable, Counted
  <2>6. /\ granted' \in [Schedules -> Count] /\ granted'[s] = g
        /\ \A o \in Schedules \ {s} : granted'[o] = granted[o]
    BY <1>3, <2>3, <2>4
  <2> QED
    BY <1>1, <1>3, <2>2, <2>4, <2>5, <2>6, WriteKeepsInv
<1> QED
  BY <1>2, <1>5, <1>6

LEMMA PauseKeepsInv ==
    ASSUME ScheduledAssumption, IInv, NEW s \in Schedules, Pause(s) \/ Cancel(s)
    PROVE  IInv'
<1>1. PICK status \in {"paused", "cancelled"}, A \in SUBSET Status :
         /\ Change(s, A)
         /\ status = "paused" => A = {"active", "failed", "paused"}
         /\ Write(None, s, [sched[s] EXCEPT !.status = status])
  <2>1. CASE Pause(s)
    BY <2>1 DEF Pause, Status
  <2>2. CASE Cancel(s)
    BY <2>2 DEF Cancel, Status
  <2> QED
    BY <2>1, <2>2
<1> DEFINE r == [sched[s] EXCEPT !.status = status]
<1>2. UNCHANGED <<wallet, line, taken, held, locking, placed, clock, ran, granted>>
  BY DEF Pause, Cancel, Money, Batches
<1>3. /\ sched[s] \in RowType /\ sched[s].status \in A
      /\ LockedBy(s) = {} /\ events' \in Nat
      /\ granted \in [Schedules -> Count]
      /\ s \notin astray /\ (\A w \in Sessions : placed[w] # s)
            => /\ RowSteady(sched[s])
               /\ Counted(sched[s], ran[s], granted[s], 0)
  BY <1>1, ChangeFacts
<1>4. r \in RowType /\ r.status = status /\ r.left = sched[s].left
  BY <1>3 DEF RowType, Status
<1>5. Write(None, s, r)
  BY <1>1
<1> HIDE DEF r
<1>6. s \notin astray /\ (\A w \in Sessions : placed[w] # s)
         => RowSteady(r) /\ Counted(r, ran[s], granted[s], 0)
  BY <1>1, <1>3, <1>4 DEF RowSteady, Runnable, Counted
<1> QED
  BY <1>2, <1>3, <1>4, <1>5, <1>6, WriteKeepsInv

LEMMA ResumeKeepsInv ==
    ASSUME ScheduledAssumption, IInv, NEW s \in Schedules, Resume(s)
    PROVE  IInv'
<1> DEFINE r == Row("active", Later(sched[s].next, clock), sched[s].left, 0)
<1>1. /\ Change(s, {"paused"}) /\ Write(None, s, r)
      /\ UNCHANGED <<wallet, line, taken, held, locking, placed, clock, ran, granted>>
  BY DEF Resume, Money, Batches
<1>2. /\ sched[s] \in RowType /\ sched[s].status \in {"paused"}
      /\ LockedBy(s) = {} /\ events' \in Nat /\ clock \in Nat
      /\ granted \in [Schedules -> Count] /\ ran[s] \in Nat
      /\ s \notin astray /\ (\A w \in Sessions : placed[w] # s)
            => /\ RowSteady(sched[s])
               /\ Counted(sched[s], ran[s], granted[s], 0)
  BY <1>1, ChangeFacts
<1>3. /\ Later(sched[s].next, clock) \in Nat /\ sched[s].left \in Count
      /\ "active" \in Status /\ MaxFails \in Nat \ {0}
  BY <1>2, RowFields DEF Later, Status, ScheduledAssumption
<1>4. r \in RowType /\ r.status = "active" /\ r.left = sched[s].left /\ r.fails = 0
  BY <1>3, RowIsRow
<1> HIDE DEF r
<1>5. s \notin astray /\ (\A w \in Sessions : placed[w] # s)
         => RowSteady(r) /\ Counted(r, ran[s], granted[s], 0)
  BY <1>2, <1>3, <1>4 DEF RowSteady, Runnable, Counted
<1> QED
  BY <1>1, <1>2, <1>4, <1>5, WriteKeepsInv

\* A batch that is read: rows nobody has locked, that may be run.
LEMMA TakeKeepsInv ==
    ASSUME ScheduledAssumption, IInv, NEW w \in Sessions, NEW S \in SUBSET Schedules,
           Take(w, S), \A s \in S : Runnable(sched[s]) /\ LockedBy(s) = {}
    PROVE  IInv'
<1>1. /\ held' = [held EXCEPT ![w] = [s \in Schedules |->
                                        IF s \in S THEN sched[s] ELSE None]]
      /\ locking' = locking \union {w}
      /\ UNCHANGED <<sched, wallet, line, taken, placed, ran, granted, astray, clock,
                     events>>
  BY DEF Take, Money, Bounds
<1>2. /\ held \in [Sessions -> [Schedules -> RowType \union {None}]]
      /\ sched \in [Schedules -> RowType] /\ locking \subseteq Sessions
  BY DEF IInv, TypeOK
<1>3. \A o \in Schedules : held[w][o] = None
  BY DEF Take, Batch
<1>4. \A v \in Sessions, o \in Schedules :
         held'[v][o] = IF v = w THEN (IF o \in S THEN sched[o] ELSE None)
                       ELSE held[v][o]
  BY <1>1, <1>2
<1>5. TypeOK'
  BY <1>1, <1>2 DEF IInv, TypeOK
<1>6. HeldOK'
  <2>1. \A s \in Schedules : placed[w] # s
    BY <1>3 DEF IInv, HeldOK
  <2>2. ASSUME NEW v \in Sessions, NEW o \in Schedules, held'[v][o] # None
        PROVE  Runnable(held'[v][o]) /\ (o \notin astray' => held'[v][o] = sched'[o])
    BY <1>1, <1>4, <2>2 DEF IInv, HeldOK
  <2>3. ASSUME NEW v \in Sessions, NEW o \in Schedules, placed'[v] = o
        PROVE  held'[v][o] # None
    BY <1>1, <1>4, <2>1, <2>3 DEF IInv, HeldOK
  <2> QED
    BY <2>2, <2>3 DEF HeldOK
<1>7. Steady'
  BY <1>1 DEF IInv, Steady
<1>8. LockedIsFresh'
  <2> SUFFICES ASSUME NEW v \in locking', NEW o \in Schedules, held'[v][o] # None
               PROVE  held'[v][o] = sched'[o] /\ LockedBy(o)' = {v}
    BY DEF LockedIsFresh, Batch
  <2>1. CASE v = w
    <3>1. o \in S /\ held'[v][o] = sched[o] /\ sched[o] # None
      BY <1>2, <1>4, <2>1
    <3>2. \A x \in locking : held[x][o] = None
      BY <3>1 DEF LockedBy
    <3> QED
      BY <1>1, <1>2, <1>4, <2>1, <3>1, <3>2 DEF LockedBy
  <2>2. CASE v # w
    <3>1. v \in locking /\ v \in Sessions /\ held'[v][o] = held[v][o]
      BY <1>1, <1>2, <1>4, <2>2
    <3>2. held[v][o] = sched[o] /\ LockedBy(o) = {v}
      BY <3>1 DEF IInv, LockedIsFresh, Batch
    <3>3. o \notin S
      BY <3>2
    <3> QED
      BY <1>1, <1>2, <1>4, <2>2, <3>1, <3>2, <3>3 DEF LockedBy
  <2> QED
    BY <2>1, <2>2
<1>9. OverdraftIsLent'
  BY <1>1 DEF IInv, OverdraftIsLent
<1> QED
  BY <1>5, <1>6, <1>7, <1>8, <1>9 DEF IInv

\* what a session knows of the row it is about to write
LEMMA HeldFacts ==
    ASSUME IInv, NEW w \in Sessions, NEW s \in Batch(w)
    PROVE  /\ held[w][s] \in RowType /\ held[w][s] # None /\ Runnable(held[w][s])
           /\ ran[s] \in Nat
           /\ s \notin astray => held[w][s] = sched[s] /\ RowSteady(held[w][s])
BY DEF IInv, TypeOK, HeldOK, Steady, Batch

LEMMA RunInternalKeepsInv ==
    ASSUME ScheduledAssumption, IInv, NEW w \in Sessions, NEW s \in Schedules,
           RunInternal(w, s)
    PROVE  IInv'
<1> DEFINE h == held[w][s]
<1>1. /\ s \in Batch(w) /\ placed[w] = None /\ Affords(s) /\ Pay(s)
      /\ ran' = [ran EXCEPT ![s] = @ + 1]
      /\ Record(w, s, Ran(h))
      /\ UNCHANGED <<placed, granted, clock, events>>
  BY DEF RunInternal, Turn, Bounds
<1>2. /\ h \in RowType /\ h # None /\ Runnable(h) /\ ran[s] \in Nat
      /\ s \notin astray => h = sched[s] /\ RowSteady(h)
  BY <1>1, HeldFacts
<1>3. Ran(h) \in RowType
  BY <1>2, RanIsRow DEF IInv
<1>4. /\ wallet' \in [Users -> Int] /\ line' \in [Users -> LineType]
      /\ taken' \in [Schedules -> Nat] /\ OverdraftIsLent'
  BY <1>1, PayKeepsMoney DEF IInv
<1>5. /\ ran' \in [Schedules -> Nat] /\ ran'[s] = ran[s] + 1
      /\ \A o \in Schedules \ {s} : ran'[o] = ran[o]
      /\ placed \in [Sessions -> Schedules \union {None}]
  BY <1>1 DEF IInv, TypeOK
<1>6. ASSUME s \notin astray, \A v \in Sessions \ {w} : placed[v] # s
      PROVE  RowSteady(Ran(h)) /\ Counted(Ran(h), ran'[s], granted[s], 0)
  <2>1. \A v \in Sessions : placed[v] # s
    BY <1>1, <1>6 DEF ScheduledAssumption
  <2>2. Counted(h, ran[s], granted[s], 0)
    BY <1>2, <1>6, <2>1 DEF IInv, Steady
  <2> HIDE DEF h
  <2> QED
    BY <1>2, <1>5, <1>6, <2>2, RanSteady
<1> HIDE DEF h
<1> QED
  BY <1>1, <1>2, <1>3, <1>4, <1>5, <1>6, RecordKeepsInv DEF h

LEMMA RunRefusedKeepsInv ==
    ASSUME ScheduledAssumption, IInv, NEW w \in Sessions, NEW s \in Schedules,
           RunRefused(w, s)
    PROVE  IInv'
<1> DEFINE h == held[w][s]
<1>1. /\ s \in Batch(w) /\ placed[w] = None
      /\ Record(w, s, Failed(h))
      /\ UNCHANGED <<wallet, line, taken, placed, ran, granted, clock, events>>
  BY DEF RunRefused, Turn, Money, Bounds
<1>2. /\ h \in RowType /\ h # None /\ Runnable(h) /\ ran[s] \in Nat
      /\ s \notin astray => h = sched[s] /\ RowSteady(h)
  BY <1>1, HeldFacts
<1>3. Failed(h) \in RowType
  BY <1>2, FailedIsRow
<1>4. /\ wallet' \in [Users -> Int] /\ line' \in [Users -> LineType]
      /\ taken' \in [Schedules -> Nat] /\ OverdraftIsLent'
      /\ ran' \in [Schedules -> Nat]
      /\ placed \in [Sessions -> Schedules \union {None}]
  BY <1>1 DEF IInv, TypeOK, OverdraftIsLent
<1>5. ASSUME s \notin astray, \A v \in Sessions \ {w} : placed[v] # s
      PROVE  RowSteady(Failed(h)) /\ Counted(Failed(h), ran'[s], granted[s], 0)
  <2>1. \A v \in Sessions : placed[v] # s
    BY <1>1, <1>5 DEF ScheduledAssumption
  <2>2. Counted(h, ran[s], granted[s], 0) /\ ran'[s] = ran[s]
    BY <1>1, <1>2, <1>5, <2>1 DEF IInv, Steady
  <2> HIDE DEF h
  <2> QED
    BY <1>2, <1>5, <2>2, FailedSteady
<1> HIDE DEF h
<1> QED
  BY <1>1, <1>2, <1>3, <1>4, <1>5, RecordKeepsInv DEF h

LEMMA PlaceExternalKeepsInv ==
    ASSUME ScheduledAssumption, IInv, NEW w \in Sessions, NEW s \in Schedules,
           PlaceExternal(w, s)
    PROVE  IInv'
<1>1. /\ s \in Batch(w) /\ placed[w] = None
      /\ IF Affords(s) THEN Pay(s) ELSE UNCHANGED <<wallet, line, taken>>
      /\ ran' = [ran EXCEPT ![s] = @ + 1]
      /\ placed' = [placed EXCEPT ![w] = s]
      /\ locking' = locking \ {w}
      /\ UNCHANGED <<sched, held, granted, astray, clock, events>>
  BY DEF PlaceExternal, Turn, Money, Bounds
<1>2. /\ held[w][s] # None /\ Runnable(held[w][s]) /\ ran[s] \in Nat
      /\ s \notin astray => held[w][s] = sched[s]
  BY <1>1, HeldFacts
<1>3. /\ wallet' \in [Users -> Int] /\ line' \in [Users -> LineType]
      /\ taken' \in [Schedules -> Nat] /\ OverdraftIsLent'
  <2>1. CASE Affords(s)
    BY <1>1, <2>1, PayKeepsMoney DEF IInv
  <2>2. CASE ~Affords(s)
    BY <1>1, <2>2 DEF IInv, TypeOK, OverdraftIsLent
  <2> QED
    BY <2>1, <2>2
<1>4. /\ placed \in [Sessions -> Schedules \union {None}]
      /\ ran \in [Schedules -> Nat] /\ locking \subseteq Sessions
      /\ granted \in [Schedules -> Count] /\ sched \in [Schedules -> RowType]
  BY DEF IInv, TypeOK
<1>5. /\ \A v \in Sessions : placed'[v] = IF v = w THEN s ELSE placed[v]
      /\ \A o \in Schedules : ran'[o] = IF o = s THEN ran[s] + 1 ELSE ran[o]
  BY <1>1, <1>4
<1>6. TypeOK'
  <2>1. /\ placed' \in [Sessions -> Schedules \union {None}]
        /\ ran' \in [Schedules -> Nat] /\ locking' \subseteq Sessions
    BY <1>1, <1>2, <1>4
  <2> QED
    BY <1>1, <1>3, <2>1 DEF IInv, TypeOK
<1>7. HeldOK'
  BY <1>1, <1>2, <1>5 DEF IInv, HeldOK
<1>8. Steady'
  <2> SUFFICES ASSUME NEW o \in Schedules \ astray
               PROVE  /\ RowSteady(sched[o])
                      /\ (\A v \in Sessions : placed'[v] # o)
                            => Counted(sched[o], ran'[o], granted[o], 0)
                      /\ \A v \in Sessions :
                            (placed'[v] = o /\ \A x \in Sessions \ {v} : placed'[x] # o)
                               => Counted(sched[o], ran'[o], granted[o], 1)
    BY <1>1 DEF Steady
  <2>1. RowSteady(sched[o])
    BY DEF IInv, Steady
  <2>2. CASE o = s
    <3>1. placed'[w] = o
      BY <1>5, <2>2
    <3>2. ASSUME NEW v \in Sessions, placed'[v] = o,
                 \A x \in Sessions \ {v} : placed'[x] # o
          PROVE  Counted(sched[o], ran'[o], granted[o], 1)
      <4>1. \A x \in Sessions : placed[x] # s
        BY <1>1, <1>5, <2>2, <3>1, <3>2 DEF ScheduledAssumption
      <4>2. Counted(sched[s], ran[s], granted[s], 0) /\ sched[s].status # "none"
        BY <1>2, <2>2, <4>1 DEF IInv, Steady, Runnable
      <4>3. sched[s].left # None => sched[s].left \in Nat
        BY <1>4, RowFields DEF Count
      <4> QED
        BY <1>2, <1>5, <2>2, <4>2, <4>3 DEF Counted
    <3> QED
      BY <2>1, <3>1, <3>2
  <2>3. CASE o # s
    <3>1. \A v \in Sessions : placed'[v] = o <=> placed[v] = o
      BY <1>1, <1>5, <2>3 DEF ScheduledAssumption
    <3> QED
      BY <1>5, <2>3, <3>1 DEF IInv, Steady
  <2> QED
    BY <2>2, <2>3
<1>9. LockedIsFresh'
  <2> SUFFICES ASSUME NEW v \in locking', NEW o \in Schedules, held[v][o] # None
               PROVE  held[v][o] = sched[o] /\ LockedBy(o)' = {v}
    BY <1>1 DEF LockedIsFresh, Batch
  <2>1. v \in locking /\ v # w
    BY <1>1
  <2>2. held[v][o] = sched[o] /\ LockedBy(o) = {v}
    BY <2>1 DEF IInv, LockedIsFresh, Batch
  <2> QED
    BY <1>1, <2>1, <2>2 DEF LockedBy
<1> QED
  BY <1>3, <1>6, <1>7, <1>8, <1>9 DEF IInv

LEMMA RecordExternalKeepsInv ==
    ASSUME ScheduledAssumption, IInv, NEW w \in Sessions, NEW s \in Schedules,
           RecordExternal(w, s)
    PROVE  IInv'
<1> DEFINE h == held[w][s]
<1>1. /\ s \in Batch(w) /\ placed[w] = s
      /\ Record(w, s, Ran(h))
      /\ placed' = [placed EXCEPT ![w] = None]
      /\ UNCHANGED <<wallet, line, taken, ran, granted, clock, events>>
  BY DEF RecordExternal, Money, Bounds
<1>2. /\ h \in RowType /\ h # None /\ Runnable(h) /\ ran[s] \in Nat
      /\ s \notin astray => h = sched[s] /\ RowSteady(h)
  BY <1>1, HeldFacts
<1>3. Ran(h) \in RowType
  BY <1>2, RanIsRow DEF IInv
<1>4. /\ wallet' \in [Users -> Int] /\ line' \in [Users -> LineType]
      /\ taken' \in [Schedules -> Nat] /\ OverdraftIsLent'
      /\ ran' \in [Schedules -> Nat]
  BY <1>1 DEF IInv, TypeOK, OverdraftIsLent
<1>5. /\ placed' \in [Sessions -> Schedules \union {None}] /\ placed'[w] = None
      /\ \A v \in Sessions \ {w} : placed'[v] = placed[v]
  BY <1>1 DEF IInv, TypeOK
<1>6. ASSUME s \notin astray, \A v \in Sessions \ {w} : placed[v] # s
      PROVE  RowSteady(Ran(h)) /\ Counted(Ran(h), ran'[s], granted[s], 0)
  <2>1. Counted(h, ran[s], granted[s], 1) /\ ran'[s] = ran[s]
    BY <1>1, <1>2, <1>6 DEF IInv, Steady
  <2> HIDE DEF h
  <2> QED
    BY <1>2, <1>6, <2>1, RanSteady
<1> HIDE DEF h
<1> QED
  BY <1>1, <1>2, <1>3, <1>4, <1>5, <1>6, RecordKeepsInv DEF h

LEMMA AbortKeepsInv ==
    ASSUME ScheduledAssumption, IInv, NEW w \in Sessions, Abort(w)
    PROVE  IInv'
<1>1. /\ events' = events + 1
      /\ held' = [held EXCEPT ![w] = Nothing]
      /\ locking' = locking \ {w}
      /\ placed' = [placed EXCEPT ![w] = None]
      /\ astray' = IF placed[w] = None THEN astray ELSE astray \union {placed[w]}
      /\ UNCHANGED <<sched, wallet, line, taken, clock, ran, granted>>
  BY DEF Abort, Money
<1>2. /\ held \in [Sessions -> [Schedules -> RowType \union {None}]]
      /\ placed \in [Sessions -> Schedules \union {None}]
      /\ astray \subseteq Schedules /\ locking \subseteq Sessions /\ events \in Nat
  BY DEF IInv, TypeOK
<1>3. \A v \in Sessions, o \in Schedules :
         /\ held'[v][o] = IF v = w THEN None ELSE held[v][o]
         /\ placed'[v] = IF v = w THEN None ELSE placed[v]
  BY <1>1, <1>2 DEF Nothing
<1>4. None \notin Schedules
  BY DEF ScheduledAssumption
<1>5. TypeOK'
  <2>1. Nothing \in [Schedules -> RowType \union {None}]
    BY DEF Nothing
  <2>2. held' \in [Sessions -> [Schedules -> RowType \union {None}]]
    BY <1>1, <1>2, <2>1
  <2>3. /\ placed' \in [Sessions -> Schedules \union {None}]
        /\ astray' \subseteq Schedules /\ locking' \subseteq Sessions /\ events' \in Nat
    BY <1>1, <1>2
  <2> QED
    BY <1>1, <2>2, <2>3 DEF IInv, TypeOK
<1>6. HeldOK'
  BY <1>1, <1>3, <1>4 DEF IInv, HeldOK
<1>7. Steady'
  <2>1. \A o \in Schedules \ astray' : o \notin astray /\ placed[w] # o
    BY <1>1, <1>4
  <2> QED
    BY <1>1, <1>3, <1>4, <2>1 DEF IInv, Steady
<1>8. LockedIsFresh'
  <2> SUFFICES ASSUME NEW v \in locking', NEW o \in Schedules, held'[v][o] # None
               PROVE  held'[v][o] = sched'[o] /\ LockedBy(o)' = {v}
    BY DEF LockedIsFresh, Batch
  <2>1. v \in locking /\ v # w /\ v \in Sessions /\ held'[v][o] = held[v][o]
    BY <1>1, <1>2, <1>3
  <2>2. held[v][o] = sched[o] /\ LockedBy(o) = {v}
    BY <2>1 DEF IInv, LockedIsFresh, Batch
  <2> QED
    BY <1>1, <1>2, <1>3, <2>1, <2>2 DEF LockedBy
<1>9. OverdraftIsLent'
  BY <1>1 DEF IInv, OverdraftIsLent
<1> QED
  BY <1>5, <1>6, <1>7, <1>8, <1>9 DEF IInv

-----------------------------------------------------------------------------
LEMMA InitIInv ==
    ASSUME ScheduledAssumption, Init
    PROVE  IInv
<1>1. Blank \in RowType /\ Blank.status = "none" /\ Blank.left = None /\ Blank.fails = 0
  BY DEF Blank, Row, RowType, Status, Count
<1> HIDE DEF Blank
<1>2. TypeOK
  BY <1>1 DEF Init, TypeOK, ScheduledAssumption, Nothing, LineType, Count
<1>3. HeldOK
  BY DEF Init, HeldOK, Nothing, ScheduledAssumption
<1>4. Steady
  BY <1>1 DEF Init, Steady, RowSteady, Counted, Runnable, ScheduledAssumption
<1>5. LockedIsFresh
  BY DEF Init, LockedIsFresh
<1>6. OverdraftIsLent
  BY DEF Init, OverdraftIsLent, ScheduledAssumption
<1> QED
  BY <1>2, <1>3, <1>4, <1>5, <1>6 DEF IInv

LEMMA StutterKeepsInv ==
    ASSUME IInv, UNCHANGED <<sched, wallet, line, held, locking, placed, ran, taken,
                             granted, astray>>,
           clock' \in Nat, events' \in Nat
    PROVE  IInv'
BY DEF IInv, TypeOK, HeldOK, Steady, LockedIsFresh, OverdraftIsLent, Batch, LockedBy

LEMMA NextKeepsInv ==
    ASSUME ScheduledAssumption, IInv, [Next]_vars
    PROVE  IInv'
<1>1. ASSUME NEW s \in Schedules,
             Create(s) \/ Update(s) \/ Pause(s) \/ Resume(s) \/ Cancel(s)
      PROVE  IInv'
  BY <1>1, CreateKeepsInv, UpdateKeepsInv, PauseKeepsInv, ResumeKeepsInv
<1>2. ASSUME Select PROVE IInv'
  <2>1. PICK S \in SUBSET {s \in Unlocked : Due(s)} : Take(Worker, S)
    BY <1>2 DEF Select
  <2>2. S \in SUBSET Schedules /\ \A s \in S : Runnable(sched[s]) /\ LockedBy(s) = {}
    BY DEF Unlocked, Due
  <2>3. Worker \in Sessions
    BY DEF Sessions
  <2> QED
    BY <2>1, <2>2, <2>3, TakeKeepsInv
<1>3. ASSUME NEW c \in Clients, NEW u \in Users, SelectOwn(c, u) PROVE IInv'
  <2> DEFINE S == {s \in Schedules : OwnerOf[s] = u /\ Due(s)}
  <2>1. Take(c, S) /\ S \subseteq Unlocked
    BY <1>3 DEF SelectOwn
  <2>2. S \in SUBSET Schedules /\ \A s \in S : Runnable(sched[s]) /\ LockedBy(s) = {}
    BY <2>1 DEF Unlocked, Due
  <2>3. c \in Sessions
    BY DEF Sessions
  <2> HIDE DEF S
  <2> QED
    BY <2>1, <2>2, <2>3, TakeKeepsInv
<1>4. ASSUME NEW c \in Clients, NEW s \in Schedules, RunNow(c, s) PROVE IInv'
  <2>1. Take(c, {s}) /\ Runnable(sched[s]) /\ LockedBy(s) = {}
    BY <1>4 DEF RunNow, Open, Runnable
  <2>2. c \in Sessions /\ {s} \in SUBSET Schedules
    BY DEF Sessions
  <2> QED
    BY <2>1, <2>2, TakeKeepsInv
<1>5. ASSUME NEW w \in Sessions, NEW s \in Schedules, Run(w, s) PROVE IInv'
  BY <1>5, RunInternalKeepsInv, RunRefusedKeepsInv, PlaceExternalKeepsInv,
     RecordExternalKeepsInv DEF Run
<1>6. ASSUME NEW w \in Sessions, Abort(w) PROVE IInv'
  BY <1>6, AbortKeepsInv
<1>7. clock \in Nat /\ events \in Nat
  BY DEF IInv, TypeOK
<1>8. ASSUME Tick PROVE IInv'
  BY <1>7, <1>8, StutterKeepsInv DEF Tick, Money, Batches
<1>9. ASSUME UNCHANGED vars PROVE IInv'
  BY <1>7, <1>9, StutterKeepsInv DEF vars
<1> QED
  BY <1>1, <1>2, <1>3, <1>4, <1>5, <1>6, <1>8, <1>9 DEF Next

-----------------------------------------------------------------------------
(* Theorems.                                                               *)

\* The inductive invariant holds in every behaviour, with or without fairness.
THEOREM InductiveInvariant == Spec => []IInv
<1>1. Init => IInv
  BY InitIInv, ScheduledAssumption
<1>2. IInv /\ [Next]_vars => IInv'
  BY NextKeepsInv, ScheduledAssumption
<1> QED
  BY <1>1, <1>2, PTL DEF Spec

\* Types: balances, rows, batches and histories stay what TypeOK says.
THEOREM TypesHold == Spec => []TypeOK
<1>1. IInv => TypeOK
  BY DEF IInv
<1> QED
  BY <1>1, InductiveInvariant, PTL

\* The first item of every batch, of whatever session, runs on the row the database
\* has, and no two sessions hold the lock of one row.
THEOREM LocksAreFresh == Spec => []LockedIsFresh
<1>1. IInv => LockedIsFresh
  BY DEF IInv
<1> QED
  BY <1>1, InductiveInvariant, PTL

\* No order of runs, retries and changes takes more from a client than the wallet
\* and the credit line hold: stale rows repeat transfers, never overdraw.
THEOREM OverdraftsAreLent == Spec => []OverdraftIsLent
<1>1. IInv => OverdraftIsLent
  BY DEF IInv
<1> QED
  BY <1>1, InductiveInvariant, PTL

\* A schedule nobody wrote from a stale row is paused by its last failure.
THEOREM FailuresPauseSchedules == Spec => []FailuresPause
<1>1. IInv => FailuresPause
  BY DEF IInv, Steady, RowSteady, FailuresPause
<1> QED
  BY <1>1, InductiveInvariant, PTL

\* A schedule nobody wrote from a stale row runs as often as was asked.
THEOREM RunsAreAsGranted == Spec => []RunsAreGranted
<1>1. ASSUME IInv PROVE RunsAreGranted
  <2> SUFFICES ASSUME NEW s \in Schedules, s \notin astray,
                      \A w \in Sessions : placed[w] # s, sched[s].left # None
               PROVE  ran[s] + sched[s].left = granted[s]
    BY DEF RunsAreGranted
  <2>1. Counted(sched[s], ran[s], granted[s], 0)
    BY <1>1 DEF IInv, Steady
  <2>2. granted[s] \in Nat /\ ran[s] + sched[s].left = granted[s] + 0
    BY <2>1 DEF Counted
  <2> QED
    BY <2>2
<1> QED
  BY <1>1, InductiveInvariant, PTL
-----------------------------------------------------------------------------
(* Sums.                                                                   *)

LEMMA OneTo ==
    ASSUME NEW k \in Nat
    PROVE  IsFiniteSet(1..k) /\ Cardinality(1..k) = k
<1>1. /\ IsFiniteSet(1..k)
      /\ Cardinality(1..k) = IF 1 > k THEN 0 ELSE k - 1 + 1
  BY FS_Interval
<1> QED
  BY <1>1

LEMMA Column1 ==
    ASSUME NEW x, NEW k \in Nat
    PROVE  IsFiniteSet({x} \X (1..k)) /\ Cardinality({x} \X (1..k)) = k
<1>1. IsFiniteSet({x}) /\ Cardinality({x}) = 1
  BY FS_Singleton
<1>2. /\ IsFiniteSet({x} \X (1..k))
      /\ Cardinality({x} \X (1..k)) = Cardinality({x}) * Cardinality(1..k)
  BY <1>1, OneTo, FS_Product, Zenon
<1> QED
  BY <1>1, <1>2, OneTo

\* the pairs that Total counts
Pairs(f, S) == UNION {{x} \X (1..f[x]) : x \in S}

LEMMA PairsOf ==
    ASSUME NEW f, NEW S
    PROVE  \A z : z \in Pairs(f, S) <=> \E x \in S : z \in {x} \X (1..f[x])
BY DEF Pairs

LEMMA PairsAreFinite ==
    ASSUME NEW S, IsFiniteSet(S), NEW f, \A x \in S : f[x] \in Nat
    PROVE  IsFiniteSet(Pairs(f, S)) /\ Total(f, S) \in Nat
<1> DEFINE C(x) == {x} \X (1..f[x])
           T == {C(x) : x \in S}
<1>1. IsFiniteSet(T)
  <2> DEFINE g == [x \in S |-> C(x)]
  <2>1. g \in Surjection(S, T)
    BY DEF Surjection
  <2> HIDE DEF g, T
  <2> QED
    BY <2>1, FS_Surjection
<1>2. \A c \in T : IsFiniteSet(c)
  <2>1. ASSUME NEW x \in S PROVE IsFiniteSet(C(x))
    BY Column1
  <2> HIDE DEF C
  <2> QED
    BY <2>1
<1>3. IsFiniteSet(UNION T)
  <2> HIDE DEF T
  <2> QED
    BY <1>1, <1>2, FS_UNION
<1> QED
  BY <1>3, FS_CardinalityType DEF Pairs, Total

LEMMA TotalOfNone ==
    ASSUME NEW f
    PROVE  Total(f, {}) = 0
<1>1. Pairs(f, {}) = {}
  BY DEF Pairs
<1> QED
  BY <1>1, FS_EmptySet DEF Pairs, Total

LEMMA TotalSame ==
    ASSUME NEW S, NEW f, NEW g, \A x \in S : f[x] = g[x]
    PROVE  Total(f, S) = Total(g, S)
<1>1. Pairs(f, S) = Pairs(g, S)
  BY PairsOf
<1> QED
  BY <1>1 DEF Pairs, Total

LEMMA TotalAdds ==
    ASSUME NEW S, IsFiniteSet(S), NEW x, x \notin S, NEW f,
           \A y \in S \union {x} : f[y] \in Nat
    PROVE  Total(f, S \union {x}) = Total(f, S) + f[x]
<1> DEFINE P == Pairs(f, S)
           N == {x} \X (1..f[x])
<1>1. /\ IsFiniteSet(P) /\ Cardinality(P) = Total(f, S) /\ Cardinality(P) \in Nat
  BY PairsAreFinite DEF Pairs, Total
<1>2. IsFiniteSet(N) /\ Cardinality(N) = f[x] /\ f[x] \in Nat
  BY Column1
<1>3. Pairs(f, S \union {x}) = P \union N
  BY DEF Pairs
<1>4. P \intersect N = {}
  BY DEF Pairs
<1>5. Cardinality(P \intersect N) = 0
  BY <1>4, FS_EmptySet
<1>6. Cardinality(P \union N) = Cardinality(P) + Cardinality(N) - Cardinality(P \intersect N)
  <2> HIDE DEF P, N
  <2> QED
    BY <1>1, <1>2, FS_Union
<1>7. Total(f, S \union {x}) = Cardinality(P \union N)
  BY <1>3 DEF Pairs, Total
<1> HIDE DEF P, N
<1> QED
  BY <1>1, <1>2, <1>5, <1>6, <1>7

\* one term grows by d
Grown(f, g, x, d, T) ==
    \A y \in T : f[y] \in Nat /\ g[y] = IF y = x THEN f[y] + d ELSE f[y]

LEMMA TermGrows ==
    ASSUME NEW T, IsFiniteSet(T), NEW S, S \subseteq T, NEW x, x \in T, NEW d, d \in Nat,
           NEW f, NEW g, Grown(f, g, x, d, T)
    PROVE  /\ x \in S => Total(g, S) = Total(f, S) + d
           /\ x \notin S => Total(g, S) = Total(f, S)
           /\ Total(f, S) \in Nat
<1>1. IsFiniteSet(S) /\ \A y \in S : f[y] \in Nat /\ g[y] \in Nat
  BY FS_Subset DEF Grown
<1>2. Total(f, S) \in Nat
  BY <1>1, PairsAreFinite
<1>3. CASE x \notin S
  BY <1>2, <1>3, TotalSame DEF Grown
<1>4. CASE x \in S
  <2> DEFINE R == S \ {x}
  <2>1. IsFiniteSet(R) /\ x \notin R /\ R \union {x} = S /\ R \subseteq S
    BY <1>1, <1>4, FS_Subset
  <2>2. \A y \in R : f[y] = g[y]
    BY DEF Grown
  <2> HIDE DEF R
  <2>3. \A y \in R \union {x} : f[y] \in Nat /\ g[y] \in Nat
    BY <1>1, <2>1
  <2>4. /\ Total(f, R \union {x}) = Total(f, R) + f[x]
        /\ Total(g, R \union {x}) = Total(g, R) + g[x]
    BY <2>1, <2>3, TotalAdds
  <2>5. Total(f, R) = Total(g, R) /\ Total(f, R) \in Nat
    BY <1>1, <2>1, <2>2, TotalSame, PairsAreFinite
  <2>6. g[x] = f[x] + d /\ f[x] \in Nat
    BY <1>1 DEF Grown
  <2> QED
    BY <1>4, <2>1, <2>4, <2>5, <2>6
<1> QED
  BY <1>3, <1>4

-----------------------------------------------------------------------------
(* Money and runs.                                                         *)

\* only a payment moves money, and it is counted
LEMMA PayIsCounted ==
    ASSUME ScheduledAssumption, TypeOK, MoneyMatchesRuns, NEW s \in Schedules, Pay(s)
    PROVE  MoneyMatchesRuns'
<1> DEFINE f == RunTotals
           g == RunTotals'
<1>1. /\ wallet' = PayPayee(s) /\ taken' = [taken EXCEPT ![s] = @ + 1]
      /\ wallet \in [Users -> Int] /\ taken \in [Schedules -> Nat]
      /\ Amount \in [Schedules -> Nat \ {0}] /\ Start0 \in [Users -> Nat]
      /\ OwnerOf[s] \in Users /\ PayeeOf[s] # OwnerOf[s]
  BY DEF Pay, TypeOK, ScheduledAssumption
<1>2. \A y \in Schedules : /\ f[y] = taken[y] * Amount[y]
                            /\ g[y] = taken'[y] * Amount[y]
  BY DEF RunTotals
<1>3. /\ \A y \in Schedules : f[y] \in Nat /\ g[y] \in Nat
      /\ \A y \in Schedules \ {s} : g[y] = f[y]
      /\ g[s] = f[s] + Amount[s] /\ Amount[s] \in Nat
  <2>1. \A y \in Schedules : taken[y] \in Nat /\ taken'[y] \in Nat /\ Amount[y] \in Nat
    BY <1>1
  <2>2. \A y \in Schedules : f[y] \in Nat /\ g[y] \in Nat
    BY <1>2, <2>1
  <2>3. \A y \in Schedules \ {s} : g[y] = f[y]
    BY <1>1, <1>2
  <2>4. taken'[s] = taken[s] + 1
    BY <1>1
  <2>5. (taken[s] + 1) * Amount[s] = taken[s] * Amount[s] + Amount[s]
    BY <2>1
  <2>6. g[s] = f[s] + Amount[s]
    BY <1>2, <2>4, <2>5
  <2> QED
    BY <2>1, <2>2, <2>3, <2>6
<1> HIDE DEF f, g
<1>4. ASSUME NEW S \in SUBSET Schedules
      PROVE  /\ s \in S => Total(g, S) = Total(f, S) + Amount[s]
             /\ s \notin S => Total(g, S) = Total(f, S)
             /\ Total(f, S) \in Nat
  <2>1. Grown(f, g, s, Amount[s], Schedules)
    BY <1>3 DEF Grown
  <2>2. IsFiniteSet(Schedules) /\ Amount[s] \in Nat
    BY <1>3, SchedulesAreFinite
  <2> QED
    BY <2>1, <2>2, TermGrows
<1>5. ASSUME NEW u \in Users
      PROVE  wallet'[u] = Start0[u] + Total(g, {o \in Schedules : PayeeOf[o] = u})
                                    - Total(g, {o \in Schedules : OwnerOf[o] = u})
  <2> DEFINE P == {o \in Schedules : PayeeOf[o] = u}
             O == {o \in Schedules : OwnerOf[o] = u}
  <2>1. wallet[u] = Start0[u] + Total(f, P) - Total(f, O)
    BY DEF MoneyMatchesRuns, f
  <2>2. /\ Total(g, P) = Total(f, P) + (IF PayeeOf[s] = u THEN Amount[s] ELSE 0)
        /\ Total(g, O) = Total(f, O) + (IF OwnerOf[s] = u THEN Amount[s] ELSE 0)
        /\ Total(f, P) \in Nat /\ Total(f, O) \in Nat
    <3>1. P \in SUBSET Schedules /\ O \in SUBSET Schedules
      OBVIOUS
    <3>2. (s \in P <=> PayeeOf[s] = u) /\ (s \in O <=> OwnerOf[s] = u)
      OBVIOUS
    <3> HIDE DEF P, O
    <3> QED
      BY <1>4, <3>1, <3>2
  <2>3. wallet'[u] = IF u = OwnerOf[s] THEN wallet[u] - Amount[s]
                     ELSE IF u = PayeeOf[s] THEN wallet[u] + Amount[s] ELSE wallet[u]
    BY <1>1 DEF PayPayee
  <2> HIDE DEF P, O
  <2>4. wallet'[u] = Start0[u] + Total(g, P) - Total(g, O)
    BY <1>1, <1>3, <2>1, <2>2, <2>3
  <2> QED
    BY <2>4 DEF P, O
<1> QED
  BY <1>5 DEF MoneyMatchesRuns, g

LEMMA NextKeepsMoney ==
    ASSUME ScheduledAssumption, TypeOK, MoneyMatchesRuns, [Next]_vars
    PROVE  MoneyMatchesRuns'
<1>1. ASSUME UNCHANGED <<wallet, taken>> PROVE MoneyMatchesRuns'
  BY <1>1 DEF MoneyMatchesRuns, RunTotals
<1>2. ASSUME NEW s \in Schedules,
             Create(s) \/ Update(s) \/ Pause(s) \/ Resume(s) \/ Cancel(s)
      PROVE  MoneyMatchesRuns'
  BY <1>1, <1>2 DEF Create, Update, Pause, Resume, Cancel, Money
<1>3. ASSUME NEW w, NEW S, Take(w, S) PROVE MoneyMatchesRuns'
  BY <1>1, <1>3 DEF Take, Money
<1>4. ASSUME Select PROVE MoneyMatchesRuns'
  BY <1>3, <1>4 DEF Select
<1>5. ASSUME NEW c \in Clients, NEW u \in Users, SelectOwn(c, u) PROVE MoneyMatchesRuns'
  BY <1>3, <1>5 DEF SelectOwn
<1>6. ASSUME NEW c \in Clients, NEW s \in Schedules, RunNow(c, s) PROVE MoneyMatchesRuns'
  BY <1>3, <1>6 DEF RunNow
<1>7. ASSUME NEW w \in Sessions, NEW s \in Schedules, Run(w, s) PROVE MoneyMatchesRuns'
  <2>1. Pay(s) \/ UNCHANGED <<wallet, taken>>
    BY <1>7 DEF Run, RunInternal, RunRefused, PlaceExternal, RecordExternal, Money
  <2> QED
    BY <1>1, <2>1, PayIsCounted
<1>8. ASSUME NEW w \in Sessions, Abort(w) PROVE MoneyMatchesRuns'
  BY <1>1, <1>8 DEF Abort, Money
<1>9. ASSUME Tick \/ UNCHANGED vars PROVE MoneyMatchesRuns'
  BY <1>1, <1>9 DEF Tick, vars, Money
<1> QED
  BY <1>2, <1>4, <1>5, <1>6, <1>7, <1>8, <1>9 DEF Next

LEMMA InitMoney ==
    ASSUME ScheduledAssumption, Init
    PROVE  MoneyMatchesRuns
<1>1. \A s \in Schedules : RunTotals[s] = 0
  BY DEF Init, RunTotals, ScheduledAssumption
<1>2. ASSUME NEW S \in SUBSET Schedules PROVE Total(RunTotals, S) = 0
  <2>1. Pairs(RunTotals, S) = {}
    BY <1>1 DEF Pairs
  <2> QED
    BY <2>1, FS_EmptySet DEF Pairs, Total
<1>3. ASSUME NEW u \in Users
      PROVE  /\ Total(RunTotals, {s \in Schedules : PayeeOf[s] = u}) = 0
             /\ Total(RunTotals, {s \in Schedules : OwnerOf[s] = u}) = 0
             /\ wallet[u] = Start0[u] /\ Start0[u] \in Nat
  BY <1>2 DEF Init, ScheduledAssumption
<1> QED
  BY <1>3 DEF MoneyMatchesRuns

\* However often a stale row repeats a run, and whatever becomes of its record, the
\* wallets hold what the runs that moved money have left in them.
THEOREM MoneyIsWhatRan == Spec => []MoneyMatchesRuns
<1>1. Init => MoneyMatchesRuns
  BY InitMoney, ScheduledAssumption
<1>2. TypeOK /\ MoneyMatchesRuns /\ [Next]_vars => MoneyMatchesRuns'
  BY NextKeepsMoney, ScheduledAssumption
<1> QED
  BY <1>1, <1>2, TypesHold, PTL DEF Spec
=============================================================================
