----------------------------- MODULE Idempotency -----------------------------
(***************************************************************************)
(* The Idempotency-Key protocol of the money-moving endpoints.             *)
(*                                                                         *)
(* services/idempotency_service.py claims a key in                         *)
(* paylink.idempotency_keys, the endpoint does its work, and the response  *)
(* is stored under the key for later replays.  A session is one request in *)
(* a transaction at READ COMMITTED; where its handler commits decides what *)
(* the key is worth:                                                       *)
(*   "one"    claim, work and response in a single commit: the cash        *)
(*            requests of a user, the direct cash operations of an admin,  *)
(*            the cash deposit of an agent, the external transfer;         *)
(*   "early"  the claim is committed before the work: update_risk_score    *)
(*            commits in the middle of agent_cashin and agent_cashout;     *)
(*   "late"   claim and work are committed before the response:            *)
(*            approve_cash_request, and mark_paid when it posts a journal. *)
(* A key is scoped by operation and user, so a key fixes its endpoint.     *)
(***************************************************************************)
EXTENDS Naturals, FiniteSets

CONSTANTS
    Keys, Sessions,
    Hashes,       \* request hashes: the payloads sent under a key
    Shape,        \* [Keys -> {"one", "early", "late"}]
    MaxFaults,    \* bound on exceptions and crashes
    MaxPurges,    \* bound on the deletions by the cleanup worker
    None

Shapes == {"one", "early", "late"}

ASSUME IdempotencyAssumption ==
    /\ Shape \in [Keys -> Shapes]
    /\ MaxFaults \in Nat /\ MaxPurges \in Nat
    /\ None \notin Hashes
    /\ IsFiniteSet(Sessions)

VARIABLES
    row,       \* paylink.idempotency_keys, committed
    sess,      \* the sessions
    effect,    \* committed executions of the operation behind a key
    takeovers, \* claims of a stale key
    purged,    \* deletions of a key by the cleanup worker
    faults

vars == <<row, sess, effect, takeovers, purged, faults>>

-----------------------------------------------------------------------------
\* created_at: "stale" after 120 s
Ages == {"fresh", "stale"}

\* response = None: in progress; otherwise the hash of the request answered
Absent == [present |-> FALSE]
Row(h, r, a) == [present |-> TRUE, hash |-> h, response |-> r, age |-> a]

RowType == {Absent} \union
           [present : {TRUE}, hash : Hashes, response : Hashes \union {None}, age : Ages]

\* claim: how the session got the key (keyless: it goes on without one);
\* open: its claim is not committed and locks the row
Points == {"idle", "look", "claimed", "work", "store"}

SessionType == [at : Points, key : Keys \union {None}, hash : Hashes \union {None},
                keyless : BOOLEAN, open : BOOLEAN]

Idle == [at |-> "idle", key |-> None, hash |-> None, keyless |-> FALSE, open |-> FALSE]

TypeOK ==
    /\ row \in [Keys -> RowType]
    /\ sess \in [Sessions -> SessionType]
    /\ effect \in [Keys -> Nat]
    /\ takeovers \in [Keys -> Nat]
    /\ purged \in [Keys -> Nat]
    /\ faults \in Nat

Init ==
    /\ row = [k \in Keys |-> Absent]
    /\ sess = [p \in Sessions |-> Idle]
    /\ effect = [k \in Keys |-> 0]
    /\ takeovers = [k \in Keys |-> 0]
    /\ purged = [k \in Keys |-> 0]
    /\ faults = 0

At(p, l) == sess[p].at = l

Finish(p) == sess' = [sess EXCEPT ![p] = Idle]

\* another session has an uncommitted write on the key: INSERT and UPDATE wait
Locked(k) == \E q \in Sessions : sess[q].open /\ sess[q].key = k

\* where a handler goes once it may work
Claimed(p, k, h, keyless) ==
    sess' = [sess EXCEPT ![p] = [at |-> IF Shape[k] = "early" THEN "claimed" ELSE "work",
                                 key |-> k, hash |-> h, keyless |-> keyless,
                                 open |-> ~keyless]]

-----------------------------------------------------------------------------
(* Variants: each repeats one of the definitions below with a plausible      *)
(* mistake.  They are used by no action; PROJECT.json names the property that *)
(* must notice each of them.                                                 *)

\* a stored response is not looked at before a stale key is taken over
LookIgnoresResponse(p) ==
    LET k == sess[p].key
        h == sess[p].hash
    IN  /\ At(p, "look")
        /\ ~Locked(k)
        /\ row[k].present
        /\ IF row[k].hash = h /\ row[k].age # "fresh"
           THEN /\ Claimed(p, k, h, FALSE)
                /\ takeovers' = [takeovers EXCEPT ![k] = @ + 1]
           ELSE Finish(p) /\ UNCHANGED takeovers
        /\ UNCHANGED <<row, effect, purged, faults>>

\* the request hash is not compared
LookIgnoresHash(p) ==
    LET k == sess[p].key
        h == sess[p].hash
    IN  /\ At(p, "look")
        /\ ~Locked(k)
        /\ row[k].present
        /\ IF row[k].response = None /\ row[k].age # "fresh"
           THEN /\ Claimed(p, k, h, FALSE)
                /\ takeovers' = [takeovers EXCEPT ![k] = @ + 1]
           ELSE Finish(p) /\ UNCHANGED takeovers
        /\ UNCHANGED <<row, effect, purged, faults>>

\* in_progress is not looked at by the handler
LookInProgress(p) ==
    LET k == sess[p].key
        h == sess[p].hash
    IN  /\ At(p, "look")
        /\ ~Locked(k)
        /\ row[k].present
        /\ IF row[k].hash = h /\ row[k].response = None
           THEN Claimed(p, k, h, FALSE)
           ELSE Finish(p)
        /\ UNCHANGED <<row, effect, takeovers, purged, faults>>

-----------------------------------------------------------------------------
(* acquire_idempotency *)

\* INSERT ... ON CONFLICT DO NOTHING
Insert(p, k, h) ==
    /\ At(p, "idle")
    /\ ~Locked(k)
    /\ IF row[k].present
       THEN sess' = [sess EXCEPT ![p] = [Idle EXCEPT !.at = "look", !.key = k, !.hash = h]]
       ELSE Claimed(p, k, h, FALSE)
    /\ UNCHANGED <<row, effect, takeovers, purged, faults>>

\* SELECT, then the UPDATE of a stale key.  (A SELECT that needs no UPDATE
\* does not wait for the lock; it changes nothing either.)
Look(p) ==
    LET k == sess[p].key
        h == sess[p].hash
    IN  /\ At(p, "look")
        /\ ~Locked(k)
        /\ row[k].present
        /\ IF row[k].hash = h /\ row[k].response = None /\ row[k].age # "fresh"
           THEN /\ Claimed(p, k, h, FALSE)
                /\ takeovers' = [takeovers EXCEPT ![k] = @ + 1]
           ELSE \* conflict, replay, or in progress
                Finish(p) /\ UNCHANGED takeovers
        /\ UNCHANGED <<row, effect, purged, faults>>

\* the row is gone since the INSERT: accepted is FALSE but neither conflict,
\* replay nor in_progress is set, so the handler goes on
Vanished(p) ==
    /\ At(p, "look")
    /\ ~row[sess[p].key].present
    /\ Claimed(p, sess[p].key, sess[p].hash, TRUE)
    /\ UNCHANGED <<row, effect, takeovers, purged, faults>>

-----------------------------------------------------------------------------
(* The handler *)

\* a COMMIT of session p before its response is stored: the claim reaches the
\* table, created_at is now
CommitClaim(p) ==
    row' = IF sess[p].open
           THEN [row EXCEPT ![sess[p].key] = Row(sess[p].hash, None, "fresh")]
           ELSE row

\* store_idempotency_response: UPDATE ... WHERE client_key, whoever claimed it
Store(p) ==
    LET k == sess[p].key
    IN  row' = IF sess[p].open
               THEN [row EXCEPT ![k] = Row(sess[p].hash, sess[p].hash, "fresh")]
               ELSE IF row[k].present
               THEN [row EXCEPT ![k].response = sess[p].hash]
               ELSE row

\* "early": the commit of update_risk_score
EarlyCommit(p) ==
    /\ At(p, "claimed")
    /\ CommitClaim(p)
    /\ sess' = [sess EXCEPT ![p] = [@ EXCEPT !.at = "work", !.open = FALSE]]
    /\ UNCHANGED <<effect, takeovers, purged, faults>>

\* "one" and "early": the work and the response in the last commit
WorkAndStore(p) ==
    LET k == sess[p].key
    IN  /\ At(p, "work")
        /\ Shape[k] # "late"
        /\ sess[p].open \/ ~Locked(k)
        /\ effect' = [effect EXCEPT ![k] = @ + 1]
        /\ Store(p)
        /\ Finish(p)
        /\ UNCHANGED <<takeovers, purged, faults>>

\* "late": the work is committed, the response is not
WorkThenStore(p) ==
    LET k == sess[p].key
    IN  /\ At(p, "work")
        /\ Shape[k] = "late"
        /\ effect' = [effect EXCEPT ![k] = @ + 1]
        /\ CommitClaim(p)
        /\ sess' = [sess EXCEPT ![p] = [@ EXCEPT !.at = "store", !.open = FALSE]]
        /\ UNCHANGED <<takeovers, purged, faults>>

StoreLate(p) ==
    /\ At(p, "store")
    /\ ~Locked(sess[p].key)
    /\ Store(p)
    /\ Finish(p)
    /\ UNCHANGED <<effect, takeovers, purged, faults>>

\* an HTTP error, an exception or a crash: what is not committed is gone
Fail(p) ==
    /\ ~At(p, "idle")
    /\ faults < MaxFaults
    /\ faults' = faults + 1
    /\ Finish(p)
    /\ UNCHANGED <<row, effect, takeovers, purged>>

-----------------------------------------------------------------------------
\* 120 seconds pass over a committed row
Older(k) ==
    /\ row[k].present
    /\ row' = [row EXCEPT ![k].age = "stale"]
    /\ UNCHANGED <<sess, effect, takeovers, purged, faults>>

\* idempotency_cleanup_worker, 72 hours later: no request takes that long, but
\* one may have met the row in its INSERT just before
Cleanup(k) ==
    /\ row[k].present
    /\ row[k].age = "stale"
    /\ \A p \in Sessions : sess[p].key = k => At(p, "look")
    /\ \A j \in Keys : purged[j] < MaxPurges
    /\ row' = [row EXCEPT ![k] = Absent]
    /\ purged' = [purged EXCEPT ![k] = @ + 1]
    /\ UNCHANGED <<sess, effect, takeovers, faults>>

Next ==
    \/ \E p \in Sessions :
          \/ \E k \in Keys, h \in Hashes : Insert(p, k, h)
          \/ Look(p) \/ Vanished(p)
          \/ EarlyCommit(p) \/ WorkAndStore(p) \/ WorkThenStore(p) \/ StoreLate(p)
          \/ Fail(p)
    \/ \E k \in Keys : Older(k) \/ Cleanup(k)

Spec == Init /\ [][Next]_vars

-----------------------------------------------------------------------------
(* Properties *)

\* As long as the cleanup has not deleted the key, an operation whose handler
\* commits once is executed at most once, however often the request is sent,
\* fails, or races with its own copies.
AtMostOnce ==
    \A k \in Keys : Shape[k] = "one" /\ purged[k] = 0 => effect[k] <= 1

\* For every handler, an operation is executed at most once more than its key
\* was taken over as stale.
OncePerClaim == \A k \in Keys : purged[k] = 0 => effect[k] <= 1 + takeovers[k]

\* A response is replayed only to a request with the payload it answers.
ReplayMatches ==
    \A k \in Keys : purged[k] = 0 /\ row[k].present =>
        row[k].response \in {None, row[k].hash}

-----------------------------------------------------------------------------
(* The inductive invariant behind AtMostOnce *)

One(k) == Shape[k] = "one"

\* what a session knows fits the point it is at
Fits(r) ==
    /\ r.at # "idle" => r.key \in Keys /\ r.hash \in Hashes
    /\ r.at = "claimed" => Shape[r.key] = "early"
    /\ r.at = "store" => Shape[r.key] = "late"
    /\ r.open => r.at \in {"claimed", "work"}
    /\ r.at = "work" /\ One(r.key) => r.open \/ r.keyless

SessionsFit == \A p \in Sessions : Fits(sess[p])

\* the uncommitted claim of a key belongs to one session
ClaimsExclusive ==
    \A p, q \in Sessions :
        sess[p].open /\ sess[q].open /\ sess[p].key = sess[q].key => p = q

\* only the cleanup makes a session go on without its key
KeylessIsPurged ==
    \A p \in Sessions :
        /\ sess[p].keyless => sess[p].at # "idle" /\ purged[sess[p].key] > 0
        /\ At(p, "look") /\ ~row[sess[p].key].present => purged[sess[p].key] > 0

\* A committed key of a handler with one commit has a response and stands for
\* an operation that was executed; no session is executing it any more.
StoredIsDone ==
    \A k \in Keys : One(k) /\ row[k].present =>
        /\ row[k].response # None
        /\ \A p \in Sessions : sess[p].open => sess[p].key # k

\* ... and the table says how often it was executed
TableCounts ==
    \A k \in Keys : One(k) /\ purged[k] = 0 =>
        effect[k] = IF row[k].present THEN 1 ELSE 0

IdempotencyInv == /\ SessionsFit /\ ClaimsExclusive /\ KeylessIsPurged
                  /\ StoredIsDone /\ TableCounts

-----------------------------------------------------------------------------
(* ... and behind OncePerClaim and ReplayMatches, for every shape of handler *)

\* the sessions that have the key, and those that have yet to execute under it
Holds(p, k) == sess[p].key = k /\ sess[p].at \in {"claimed", "work", "store"}

Executing(k) == {p \in Sessions : sess[p].key = k /\ sess[p].at \in {"claimed", "work"}}

\* Until it is purged, a key stands for the payload of its first claim: whoever
\* holds it has that payload, and has it locked or in the table.
Fixed(k) ==
    /\ row[k].present => row[k].response \in {None, row[k].hash}
    /\ \A p \in Sessions : Holds(p, k) =>
          /\ sess[p].open \/ row[k].present
          /\ row[k].present => row[k].hash = sess[p].hash

KeyFixesHash == \A k \in Keys : purged[k] = 0 => Fixed(k)

\* every execution, done or to come, has a claim: the first one, in the table or
\* under a lock, or a takeover
Claims(k) == takeovers[k] + (IF row[k].present \/ Locked(k) THEN 1 ELSE 0)

ExecutionsAreClaimed ==
    \A k \in Keys : purged[k] = 0 => effect[k] + Cardinality(Executing(k)) <= Claims(k)

ClaimInv == KeyFixesHash /\ ExecutionsAreClaimed

=============================================================================
