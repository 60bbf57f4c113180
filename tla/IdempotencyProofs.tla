-------------------------- MODULE IdempotencyProofs --------------------------
(***************************************************************************)
(* Proofs about Idempotency, for every set of keys, sessions and payloads, *)
(* every assignment of handler shapes to keys and every bound on faults    *)
(* and purges.                                                             *)
(***************************************************************************)
EXTENDS Idempotency, FiniteSetTheorems, TLAPS

(***************************************************************************)
(* The records of the model.                                               *)
(***************************************************************************)

LEMMA IdleFits == Idle \in SessionType /\ Fits(Idle) /\ ~Idle.open /\ ~Idle.keyless
BY DEF Idle, SessionType, Points, Fits

LEMMA RowFacts ==
    ASSUME NEW h \in Hashes, NEW r \in Hashes \union {None}
    PROVE  /\ Row(h, r, "fresh") \in RowType
           /\ Row(h, r, "fresh").present
           /\ Row(h, r, "fresh").response = r
BY DEF Row, RowType, Ages

LEMMA PresentIsBoolean ==
    ASSUME NEW r \in RowType
    PROVE  r.present \in BOOLEAN
<1>1. Absent.present = FALSE
  BY DEF Absent
<1>2. CASE r = Absent
  BY <1>1, <1>2
<1>3. CASE r # Absent
  <2>1. r.present \in {TRUE}
    BY <1>3 DEF RowType
  <2> QED BY <2>1
<1> QED BY <1>2, <1>3

LEMMA RowUpdates ==
    ASSUME NEW r \in RowType, r.present
    PROVE  /\ \A a \in Ages : /\ [r EXCEPT !.age = a] \in RowType
                              /\ [r EXCEPT !.age = a].present
                              /\ [r EXCEPT !.age = a].response = r.response
           /\ \A h \in Hashes : /\ [r EXCEPT !.response = h] \in RowType
                                /\ [r EXCEPT !.response = h].present
                                /\ [r EXCEPT !.response = h].response = h
<1>1. r \in [present : {TRUE}, hash : Hashes, response : Hashes \union {None}, age : Ages]
  <2>1. ~Absent.present
    BY DEF Absent
  <2>2. r # Absent
    BY <2>1
  <2> QED BY <2>2 DEF RowType
<1> QED BY <1>1 DEF RowType

\* where Claimed leaves the session
LEMMA ClaimedFacts ==
    ASSUME TypeOK, NEW p \in Sessions, NEW k \in Keys, NEW h \in Hashes,
           NEW b \in BOOLEAN, Claimed(p, k, h, b)
    PROVE  /\ sess' \in [Sessions -> SessionType]
           /\ Fits(sess'[p])
           /\ sess'[p].key = k /\ sess'[p].at # "idle" /\ sess'[p].at # "look"
           /\ sess'[p].keyless = b /\ sess'[p].open = ~b
           /\ \A q \in Sessions : q # p => sess'[q] = sess[q]
<1> DEFINE r == [at |-> IF Shape[k] = "early" THEN "claimed" ELSE "work",
                 key |-> k, hash |-> h, keyless |-> b, open |-> ~b]
<1>1. r \in SessionType
  BY DEF SessionType, Points
<1>2. Fits(r)
  BY DEF Fits, One
<1>3. sess' = [sess EXCEPT ![p] = r]
  BY DEF Claimed
<1>4. r.key = k /\ r.at # "idle" /\ r.at # "look" /\ r.keyless = b /\ r.open = ~b
  OBVIOUS
<1> HIDE DEF r
<1> QED BY <1>1, <1>2, <1>3, <1>4 DEF TypeOK

LEMMA FinishFacts ==
    ASSUME TypeOK, NEW p \in Sessions, Finish(p)
    PROVE  /\ sess' \in [Sessions -> SessionType]
           /\ sess'[p] = Idle
           /\ \A q \in Sessions : q # p => sess'[q] = sess[q]
BY IdleFits DEF Finish, TypeOK

\* a commit of the claim alone, and of the claim with its response
LEMMA CommitClaimFacts ==
    ASSUME TypeOK, SessionsFit, NEW p \in Sessions, sess[p].at # "idle", CommitClaim(p)
    PROVE  /\ row' \in [Keys -> RowType]
           /\ \A k \in Keys : k # sess[p].key => row'[k] = row[k]
           /\ row[sess[p].key].present => row'[sess[p].key].present
<1>1. sess[p].key \in Keys /\ sess[p].hash \in Hashes
  BY DEF SessionsFit, Fits
<1>2. Row(sess[p].hash, None, "fresh") \in RowType /\ Row(sess[p].hash, None, "fresh").present
  BY <1>1, RowFacts
<1> QED BY <1>1, <1>2 DEF CommitClaim, TypeOK

LEMMA StoreFacts ==
    ASSUME TypeOK, SessionsFit, NEW p \in Sessions, sess[p].at # "idle", Store(p)
    PROVE  /\ row' \in [Keys -> RowType]
           /\ \A k \in Keys : k # sess[p].key => row'[k] = row[k]
           /\ row[sess[p].key].present => row'[sess[p].key].present
           /\ sess[p].open => row'[sess[p].key].present
           /\ row'[sess[p].key].present => row'[sess[p].key].response = sess[p].hash
           /\ ~sess[p].open /\ ~row[sess[p].key].present => row' = row
<1> DEFINE k == sess[p].key
           h == sess[p].hash
<1>1. k \in Keys /\ h \in Hashes /\ row \in [Keys -> RowType]
  BY DEF SessionsFit, Fits, TypeOK
<1>2. CASE sess[p].open
  <2>1. row' = [row EXCEPT ![k] = Row(h, h, "fresh")]
    BY <1>2 DEF Store
  <2> QED BY <1>1, <1>2, <2>1, RowFacts
<1>3. CASE ~sess[p].open /\ row[k].present
  <2>1. row' = [row EXCEPT ![k] = [@ EXCEPT !.response = h]]
    BY <1>3 DEF Store
  <2>2. /\ [row[k] EXCEPT !.response = h] \in RowType
        /\ [row[k] EXCEPT !.response = h].present
        /\ [row[k] EXCEPT !.response = h].response = h
    BY <1>1, <1>3, RowUpdates
  <2> QED BY <1>1, <1>3, <2>1, <2>2
<1>4. CASE ~sess[p].open /\ ~row[k].present
  BY <1>1, <1>4 DEF Store
<1> QED BY <1>2, <1>3, <1>4

\* time passing changes neither which keys exist nor their responses
LEMMA OlderFacts ==
    ASSUME TypeOK, NEW k \in Keys, Older(k)
    PROVE  /\ row' \in [Keys -> RowType]
           /\ \A j \in Keys : /\ row'[j].present = row[j].present
                              /\ row'[j].present => row'[j].response = row[j].response
<1>1. row[k] \in RowType /\ row[k].present
  BY DEF TypeOK, Older
<1>2. PICK a \in Ages : row' = [row EXCEPT ![k] = [@ EXCEPT !.age = a]]
  BY DEF Older, Ages
<1>3. /\ [row[k] EXCEPT !.age = a] \in RowType
      /\ [row[k] EXCEPT !.age = a].present
      /\ [row[k] EXCEPT !.age = a].response = row[k].response
  BY <1>1, RowUpdates
<1>4. row[k].present = TRUE /\ [row[k] EXCEPT !.age = a].present = TRUE
  BY <1>1, <1>3, PresentIsBoolean
<1>5. row' \in [Keys -> RowType]
  BY <1>2, <1>3 DEF TypeOK
<1>6. ASSUME NEW j \in Keys
      PROVE  /\ row'[j].present = row[j].present
             /\ row'[j].present => row'[j].response = row[j].response
  BY <1>2, <1>3, <1>4 DEF TypeOK
<1> QED BY <1>5, <1>6

(***************************************************************************)
(* Type correctness.  Only SessionsFit is needed beside it.                *)
(***************************************************************************)

LEMMA TypeStep == TypeOK /\ SessionsFit /\ [Next]_vars => TypeOK' /\ SessionsFit'
<1> SUFFICES ASSUME TypeOK, SessionsFit, [Next]_vars PROVE TypeOK' /\ SessionsFit'
  OBVIOUS
<1> DEFINE K(p) == sess[p].key
<1>a. \A p \in Sessions : sess[p].at # "idle" => K(p) \in Keys /\ sess[p].hash \in Hashes
  BY DEF SessionsFit, Fits
<1>0. ASSUME NEW p \in Sessions, sess' \in [Sessions -> SessionType], Fits(sess'[p]),
             \A q \in Sessions : q # p => sess'[q] = sess[q]
      PROVE  SessionsFit'
  <2>1. ASSUME NEW q \in Sessions PROVE Fits(sess'[q])
    BY <1>0 DEF SessionsFit
  <2>2. SessionsFit' = (\A q \in Sessions : Fits(sess'[q]))
    BY DEF SessionsFit, Fits, One
  <2> QED BY <2>1, <2>2
<1>1. ASSUME NEW p \in Sessions, NEW k \in Keys, NEW h \in Hashes, Insert(p, k, h)
      PROVE TypeOK' /\ SessionsFit'
  <2>1. CASE row[k].present
    <3> DEFINE r == [Idle EXCEPT !.at = "look", !.key = k, !.hash = h]
    <3>1. r \in SessionType /\ Fits(r)
      BY DEF Idle, SessionType, Points, Fits
    <3>2. sess' = [sess EXCEPT ![p] = r]
      BY <1>1, <2>1 DEF Insert
    <3> HIDE DEF r
    <3>3. sess' \in [Sessions -> SessionType] /\ sess'[p] = r
      BY <3>1, <3>2 DEF TypeOK
    <3>4. \A q \in Sessions : q # p => sess'[q] = sess[q]
      BY <3>2 DEF TypeOK
    <3> QED BY <1>0, <1>1, <3>1, <3>3, <3>4 DEF Insert, TypeOK
  <2>2. CASE ~row[k].present
    BY <1>0, <1>1, <2>2, ClaimedFacts DEF Insert, TypeOK
  <2> QED BY <2>1, <2>2
<1>2. ASSUME NEW p \in Sessions, Look(p) PROVE TypeOK' /\ SessionsFit'
  <2>1. /\ K(p) \in Keys /\ sess[p].hash \in Hashes
        /\ row' = row /\ effect' = effect /\ purged' = purged /\ faults' = faults
        /\ \/ /\ Claimed(p, K(p), sess[p].hash, FALSE)
              /\ takeovers' = [takeovers EXCEPT ![K(p)] = @ + 1]
           \/ Finish(p) /\ takeovers' = takeovers
    BY <1>2, <1>a DEF Look, At
  <2>2. takeovers' \in [Keys -> Nat]
    <3>1. [takeovers EXCEPT ![K(p)] = @ + 1] \in [Keys -> Nat]
      BY <2>1 DEF TypeOK
    <3>2. takeovers' \in {takeovers, [takeovers EXCEPT ![K(p)] = @ + 1]}
      BY <2>1
    <3> QED BY <3>1, <3>2 DEF TypeOK
  <2>3. sess' \in [Sessions -> SessionType] /\ Fits(sess'[p])
    BY <2>1, ClaimedFacts, FinishFacts, IdleFits
  <2>4. \A q \in Sessions : q # p => sess'[q] = sess[q]
    BY <2>1, ClaimedFacts, FinishFacts
  <2> QED BY <1>0, <2>1, <2>2, <2>3, <2>4 DEF TypeOK
<1>3. ASSUME NEW p \in Sessions, Vanished(p) PROVE TypeOK' /\ SessionsFit'
  <2>1. K(p) \in Keys /\ sess[p].hash \in Hashes
    BY <1>3, <1>a DEF Vanished, At
  <2> QED BY <1>0, <1>3, <2>1, ClaimedFacts DEF Vanished, TypeOK
<1>4. ASSUME NEW p \in Sessions, EarlyCommit(p) PROVE TypeOK' /\ SessionsFit'
  <2>1. sess[p].at = "claimed" /\ sess[p] \in SessionType /\ Fits(sess[p])
    BY <1>4 DEF EarlyCommit, At, TypeOK, SessionsFit
  <2> DEFINE r == [sess[p] EXCEPT !.at = "work", !.open = FALSE]
  <2>2. r \in SessionType /\ Fits(r)
    BY <2>1 DEF SessionType, Points, Fits, One
  <2>3. sess' = [sess EXCEPT ![p] = r]
    BY <1>4 DEF EarlyCommit
  <2> HIDE DEF r
  <2>4. sess' \in [Sessions -> SessionType] /\ sess'[p] = r
    BY <2>2, <2>3 DEF TypeOK
  <2>5. \A q \in Sessions : q # p => sess'[q] = sess[q]
    BY <2>3 DEF TypeOK
  <2>6. row' \in [Keys -> RowType]
    BY <1>4, <2>1, CommitClaimFacts DEF EarlyCommit
  <2> QED BY <1>0, <1>4, <2>2, <2>4, <2>5, <2>6 DEF EarlyCommit, TypeOK
<1>5. ASSUME NEW p \in Sessions, WorkAndStore(p) PROVE TypeOK' /\ SessionsFit'
  <2>1. row' \in [Keys -> RowType]
    BY <1>5, StoreFacts DEF WorkAndStore, At
  <2>2. effect' \in [Keys -> Nat]
    BY <1>5, <1>a DEF WorkAndStore, At, TypeOK
  <2> QED BY <1>0, <1>5, <2>1, <2>2, FinishFacts, IdleFits DEF WorkAndStore, TypeOK
<1>6. ASSUME NEW p \in Sessions, WorkThenStore(p) PROVE TypeOK' /\ SessionsFit'
  <2>1. sess[p].at = "work" /\ Shape[K(p)] = "late" /\ sess[p] \in SessionType /\ Fits(sess[p])
    BY <1>6 DEF WorkThenStore, At, TypeOK, SessionsFit
  <2> DEFINE r == [sess[p] EXCEPT !.at = "store", !.open = FALSE]
  <2>2. r \in SessionType /\ Fits(r)
    BY <2>1 DEF SessionType, Points, Fits, One
  <2>3. sess' = [sess EXCEPT ![p] = r]
    BY <1>6 DEF WorkThenStore
  <2> HIDE DEF r
  <2>4. sess' \in [Sessions -> SessionType] /\ sess'[p] = r
    BY <2>2, <2>3 DEF TypeOK
  <2>5. \A q \in Sessions : q # p => sess'[q] = sess[q]
    BY <2>3 DEF TypeOK
  <2>6. row' \in [Keys -> RowType]
    BY <1>6, <2>1, CommitClaimFacts DEF WorkThenStore
  <2>7. effect' \in [Keys -> Nat]
    BY <1>6, <1>a, <2>1 DEF WorkThenStore, TypeOK
  <2> QED BY <1>0, <1>6, <2>2, <2>4, <2>5, <2>6, <2>7 DEF WorkThenStore, TypeOK
<1>7. ASSUME NEW p \in Sessions, StoreLate(p) PROVE TypeOK' /\ SessionsFit'
  <2>1. row' \in [Keys -> RowType]
    BY <1>7, StoreFacts DEF StoreLate, At
  <2> QED BY <1>0, <1>7, <2>1, FinishFacts, IdleFits DEF StoreLate, TypeOK
<1>8. ASSUME NEW p \in Sessions, Fail(p) PROVE TypeOK' /\ SessionsFit'
  BY <1>0, <1>8, FinishFacts, IdleFits DEF Fail, TypeOK
<1>9. ASSUME NEW k \in Keys, Older(k) PROVE TypeOK' /\ SessionsFit'
  <2>1. SessionsFit'
    BY <1>9 DEF Older, SessionsFit, Fits, One
  <2> QED BY <1>9, <2>1, OlderFacts DEF Older, TypeOK
<1>10. ASSUME NEW k \in Keys, Cleanup(k) PROVE TypeOK' /\ SessionsFit'
  <2>1. SessionsFit'
    BY <1>10 DEF Cleanup, SessionsFit, Fits, One
  <2>2. row' \in [Keys -> RowType] /\ purged' \in [Keys -> Nat]
    <3>1. Absent \in RowType
      BY DEF RowType
    <3> QED BY <1>10, <3>1 DEF Cleanup, TypeOK
  <2> QED BY <1>10, <2>1, <2>2 DEF Cleanup, TypeOK
<1>11. CASE UNCHANGED vars
  BY <1>11 DEF vars, TypeOK, SessionsFit, Fits, One
<1> QED BY <1>1, <1>2, <1>3, <1>4, <1>5, <1>6, <1>7, <1>8, <1>9, <1>10, <1>11 DEF Next

(***************************************************************************)
(* The other conjuncts.  What a step of session p must establish when the  *)
(* other sessions stay as they are:                                        *)
(***************************************************************************)

LEMMA ExclusiveStep ==
    ASSUME ClaimsExclusive, NEW p \in Sessions,
           \A q \in Sessions : q # p => sess'[q] = sess[q],
           sess'[p].open => \A q \in Sessions \ {p} : sess[q].open => sess[q].key # sess'[p].key
    PROVE  ClaimsExclusive'
<1> SUFFICES ASSUME NEW q \in Sessions, NEW r \in Sessions,
                    sess'[q].open, sess'[r].open, sess'[q].key = sess'[r].key
             PROVE  q = r
  BY DEF ClaimsExclusive
<1>1. CASE q = p \/ r = p
  BY <1>1
<1>2. CASE q # p /\ r # p
  BY <1>2 DEF ClaimsExclusive
<1> QED BY <1>1, <1>2

LEMMA KeylessStep ==
    ASSUME KeylessIsPurged, NEW p \in Sessions,
           \A q \in Sessions : q # p => sess'[q] = sess[q],
           purged' = purged,
           \A k \in Keys : row[k].present => row'[k].present,
           SessionsFit,
           sess'[p].keyless => sess'[p].at # "idle" /\ purged[sess'[p].key] > 0,
           sess'[p].at = "look" => row'[sess'[p].key].present
    PROVE  KeylessIsPurged'
<1> SUFFICES ASSUME NEW q \in Sessions
             PROVE  /\ sess'[q].keyless => sess'[q].at # "idle" /\ purged'[sess'[q].key] > 0
                    /\ sess'[q].at = "look" /\ ~row'[sess'[q].key].present
                         => purged'[sess'[q].key] > 0
  BY DEF KeylessIsPurged, At
<1>1. CASE q = p
  BY <1>1
<1>2. CASE q # p
  <2>1. sess[q].at = "look" => sess[q].key \in Keys
    BY DEF SessionsFit, Fits
  <2> QED BY <1>2, <2>1 DEF KeylessIsPurged, At
<1> QED BY <1>1, <1>2

\* a step of a session that holds no claim of a "one" key, and leaves the
\* "one" keys and their counts alone
LEMMA TableStep ==
    ASSUME StoredIsDone, TableCounts, NEW p \in Sessions,
           \A q \in Sessions : q # p => sess'[q] = sess[q],
           purged' = purged,
           \A k \in Keys : One(k) =>
               /\ row'[k].present <=> row[k].present
               /\ row'[k].present => row'[k].response # None
               /\ purged[k] = 0 => effect'[k] = effect[k]
               /\ row[k].present => ~(sess'[p].open /\ sess'[p].key = k)
    PROVE  StoredIsDone' /\ TableCounts'
<1>1. ASSUME NEW k \in Keys, One(k), row'[k].present
      PROVE  row'[k].response # None /\ \A q \in Sessions : sess'[q].open => sess'[q].key # k
  BY <1>1 DEF StoredIsDone
<1>2. ASSUME NEW k \in Keys, One(k), purged[k] = 0
      PROVE  effect'[k] = IF row'[k].present THEN 1 ELSE 0
  BY <1>2 DEF TableCounts
<1>3. StoredIsDone'
  BY <1>1 DEF StoredIsDone, One
<1>4. TableCounts'
  BY <1>2 DEF TableCounts, One
<1> QED BY <1>3, <1>4

LEMMA InvInit == Init => TypeOK /\ IdempotencyInv
<1> SUFFICES ASSUME Init PROVE TypeOK /\ IdempotencyInv
  OBVIOUS
<1>1. \A k \in Keys : ~row[k].present /\ row[k] \in RowType
  <2>1. ~Absent.present
    BY DEF Absent
  <2> QED BY <2>1 DEF Init, RowType
<1>2. \A p \in Sessions : sess[p] = Idle
  BY DEF Init
<1>3. TypeOK
  BY <1>1, IdleFits DEF Init, TypeOK
<1>4. SessionsFit /\ ClaimsExclusive
  BY <1>2, IdleFits DEF SessionsFit, ClaimsExclusive
<1>5. KeylessIsPurged
  BY <1>2, IdleFits DEF KeylessIsPurged, At, Idle
<1>6. StoredIsDone /\ TableCounts
  BY <1>1 DEF StoredIsDone, TableCounts, Init
<1> QED BY <1>3, <1>4, <1>5, <1>6 DEF IdempotencyInv

LEMMA InvStep == TypeOK /\ IdempotencyInv /\ [Next]_vars => IdempotencyInv'
<1> SUFFICES ASSUME TypeOK, IdempotencyInv, [Next]_vars PROVE IdempotencyInv'
  OBVIOUS
<1> USE DEF IdempotencyInv
<1> DEFINE K(p) == sess[p].key
           Rest == ClaimsExclusive' /\ KeylessIsPurged' /\ StoredIsDone' /\ TableCounts'
<1>a. \A p \in Sessions : sess[p].at # "idle" => K(p) \in Keys /\ sess[p].hash \in Hashes
  BY DEF SessionsFit, Fits
<1>b. \A h \in Hashes : h # None
  BY IdempotencyAssumption
<1>c. \A k \in Keys : One(k) /\ row[k].present => row[k].response # None
  BY DEF StoredIsDone
\* a session that finishes and leaves the table and the counts alone
<1>d. ASSUME NEW p \in Sessions, Finish(p), row' = row, effect' = effect, purged' = purged
      PROVE Rest
  <2>1. sess'[p] = Idle /\ \A q \in Sessions : q # p => sess'[q] = sess[q]
    BY <1>d, FinishFacts
  <2>2. ClaimsExclusive'
    BY <2>1, IdleFits, ExclusiveStep
  <2>3. KeylessIsPurged'
    <3>1. Idle.at # "look"
      BY DEF Idle
    <3> QED BY <1>d, <2>1, <3>1, IdleFits, KeylessStep
  <2>4. StoredIsDone' /\ TableCounts'
    BY <1>c, <1>d, <2>1, IdleFits, TableStep
  <2> QED BY <2>2, <2>3, <2>4
<1>1. ASSUME NEW p \in Sessions, NEW k \in Keys, NEW h \in Hashes, Insert(p, k, h) PROVE Rest
  <2>0. row' = row /\ effect' = effect /\ purged' = purged /\ ~Locked(k)
    BY <1>1 DEF Insert
  <2>1. CASE row[k].present
    <3> DEFINE r == [Idle EXCEPT !.at = "look", !.key = k, !.hash = h]
    <3>1. r.key = k /\ ~r.open /\ ~r.keyless
      BY DEF Idle
    <3>2. sess' = [sess EXCEPT ![p] = r]
      BY <1>1, <2>1 DEF Insert
    <3> HIDE DEF r
    <3>3. sess'[p] = r /\ \A q \in Sessions : q # p => sess'[q] = sess[q]
      BY <3>2 DEF TypeOK
    <3>4. ClaimsExclusive'
      BY <3>1, <3>3, ExclusiveStep
    <3>5. KeylessIsPurged'
      BY <2>0, <2>1, <3>1, <3>3, KeylessStep
    <3>6. StoredIsDone' /\ TableCounts'
      BY <1>c, <2>0, <3>1, <3>3, TableStep
    <3> QED BY <3>4, <3>5, <3>6
  <2>2. CASE ~row[k].present
    <3>1. /\ sess'[p].key = k /\ sess'[p].at # "look" /\ ~sess'[p].keyless
          /\ \A q \in Sessions : q # p => sess'[q] = sess[q]
      BY <1>1, <2>2, ClaimedFacts DEF Insert
    <3>2. ClaimsExclusive'
      BY <2>0, <3>1, ExclusiveStep DEF Locked
    <3>3. KeylessIsPurged'
      BY <2>0, <3>1, KeylessStep
    <3>4. StoredIsDone' /\ TableCounts'
      BY <1>c, <2>0, <2>2, <3>1, TableStep
    <3> QED BY <3>2, <3>3, <3>4
  <2> QED BY <2>1, <2>2
<1>2. ASSUME NEW p \in Sessions, Look(p) PROVE Rest
  <2>0. /\ row' = row /\ effect' = effect /\ purged' = purged /\ ~Locked(K(p))
        /\ row[K(p)].present
        /\ K(p) \in Keys /\ sess[p].hash \in Hashes
    BY <1>2, <1>a DEF Look, At
  <2>1. CASE row[K(p)].response = None /\ Claimed(p, K(p), sess[p].hash, FALSE)
    <3>0. ~One(K(p))
      BY <2>0, <2>1, <1>c
    <3>1. /\ sess'[p].key = K(p) /\ sess'[p].at # "look" /\ ~sess'[p].keyless
          /\ \A q \in Sessions : q # p => sess'[q] = sess[q]
      BY <2>0, <2>1, ClaimedFacts
    <3>2. ClaimsExclusive'
      BY <2>0, <3>1, ExclusiveStep DEF Locked
    <3>3. KeylessIsPurged'
      BY <2>0, <3>1, KeylessStep
    <3>4. StoredIsDone' /\ TableCounts'
      BY <1>c, <2>0, <3>0, <3>1, TableStep
    <3> QED BY <3>2, <3>3, <3>4
  <2>2. CASE Finish(p)
    BY <1>d, <2>0, <2>2
  <2> QED BY <1>2, <2>1, <2>2 DEF Look
<1>3. ASSUME NEW p \in Sessions, Vanished(p) PROVE Rest
  <2>0. /\ row' = row /\ effect' = effect /\ purged' = purged
        /\ K(p) \in Keys /\ sess[p].hash \in Hashes
        /\ purged[K(p)] > 0
    BY <1>3, <1>a DEF Vanished, At, KeylessIsPurged
  <2>1. /\ sess'[p].key = K(p) /\ sess'[p].at # "look" /\ sess'[p].at # "idle"
        /\ ~sess'[p].open
        /\ \A q \in Sessions : q # p => sess'[q] = sess[q]
    BY <1>3, <2>0, ClaimedFacts DEF Vanished
  <2>2. ClaimsExclusive'
    BY <2>1, ExclusiveStep
  <2>3. KeylessIsPurged'
    BY <2>0, <2>1, KeylessStep
  <2>4. StoredIsDone' /\ TableCounts'
    BY <1>c, <2>0, <2>1, TableStep
  <2> QED BY <2>2, <2>3, <2>4
\* a commit of session p that is not its last: p keeps its key, which is not
\* the key of a handler with one commit
<1>e. ASSUME NEW p \in Sessions, NEW l \in {"work", "store"},
             sess[p].at \in {"claimed", "work"}, ~One(K(p)),
             CommitClaim(p), purged' = purged,
             sess' = [sess EXCEPT ![p] = [@ EXCEPT !.at = l, !.open = FALSE]],
             \A k \in Keys : k # K(p) => effect'[k] = effect[k]
      PROVE Rest
  <2>1. /\ sess'[p].key = K(p) /\ ~sess'[p].open /\ sess'[p].at = l
        /\ sess'[p].keyless = sess[p].keyless
        /\ \A q \in Sessions : q # p => sess'[q] = sess[q]
    BY <1>e DEF TypeOK, SessionType
  <2>2. /\ \A k \in Keys : k # K(p) => row'[k] = row[k]
        /\ row[K(p)].present => row'[K(p)].present
    BY <1>e, CommitClaimFacts
  <2>3. ClaimsExclusive'
    BY <2>1, ExclusiveStep
  <2>4. KeylessIsPurged'
    <3>1. sess[p].keyless => purged[K(p)] > 0
      BY DEF KeylessIsPurged
    <3>2. \A k \in Keys : row[k].present => row'[k].present
      BY <2>2
    <3>3. sess'[p].at \notin {"idle", "look"}
      BY <2>1
    <3> QED BY <1>e, <2>1, <3>1, <3>2, <3>3, KeylessStep
  <2>5. StoredIsDone' /\ TableCounts'
    BY <1>c, <1>e, <2>1, <2>2, TableStep
  <2> QED BY <2>3, <2>4, <2>5
<1>4. ASSUME NEW p \in Sessions, EarlyCommit(p) PROVE Rest
  <2>1. ~One(K(p))
    BY <1>4 DEF EarlyCommit, At, SessionsFit, Fits, One
  <2> QED BY <1>4, <1>e, <2>1 DEF EarlyCommit, At
<1>5. ASSUME NEW p \in Sessions, WorkAndStore(p) PROVE Rest
  <2>0. /\ K(p) \in Keys /\ sess[p].hash \in Hashes /\ sess[p].at = "work" /\ Fits(sess[p])
        /\ sess[p].open \/ ~Locked(K(p))
        /\ effect' = [effect EXCEPT ![K(p)] = @ + 1] /\ purged' = purged
    BY <1>5, <1>a DEF WorkAndStore, At, SessionsFit
  <2>1. sess'[p] = Idle /\ \A q \in Sessions : q # p => sess'[q] = sess[q]
    BY <1>5, FinishFacts DEF WorkAndStore
  <2>2. /\ \A k \in Keys : k # K(p) => row'[k] = row[k]
        /\ row[K(p)].present => row'[K(p)].present
        /\ sess[p].open => row'[K(p)].present
        /\ row'[K(p)].present => row'[K(p)].response # None
    BY <1>5, <1>b, <2>0, StoreFacts DEF WorkAndStore
  <2>3. ClaimsExclusive'
    BY <2>1, IdleFits, ExclusiveStep
  <2>4. KeylessIsPurged'
    <3>1. Idle.at # "look"
      BY DEF Idle
    <3> QED BY <2>0, <2>1, <2>2, <3>1, IdleFits, KeylessStep
  <2>5. StoredIsDone'
    <3> SUFFICES ASSUME NEW k \in Keys, One(k), row'[k].present
                 PROVE  /\ row'[k].response # None
                        /\ \A q \in Sessions : sess'[q].open => sess'[q].key # k
      BY DEF StoredIsDone, One
    <3>1. CASE k # K(p)
      BY <2>1, <2>2, <3>1, IdleFits DEF StoredIsDone
    <3>2. CASE k = K(p)
      <4>1. \A q \in Sessions : q # p /\ sess[q].open => sess[q].key # k
        BY <2>0, <3>2 DEF ClaimsExclusive, Locked
      <4> QED BY <2>1, <2>2, <3>2, <4>1, IdleFits
    <3> QED BY <3>1, <3>2
  <2>6. TableCounts'
    <3> SUFFICES ASSUME NEW k \in Keys, One(k), purged[k] = 0
                 PROVE  effect'[k] = IF row'[k].present THEN 1 ELSE 0
      BY <2>0 DEF TableCounts, One
    <3>1. CASE k # K(p)
      BY <2>0, <2>2, <3>1 DEF TableCounts
    <3>2. CASE k = K(p)
      <4>1. sess[p].open
        BY <2>0, <3>2 DEF Fits, KeylessIsPurged
      <4>2. ~row[k].present
        BY <3>2, <4>1 DEF StoredIsDone
      <4>3. effect[k] = 0
        BY <4>2 DEF TableCounts
      <4> QED BY <2>0, <2>2, <3>2, <4>1, <4>3 DEF TypeOK
    <3> QED BY <3>1, <3>2
  <2> QED BY <2>3, <2>4, <2>5, <2>6
<1>6. ASSUME NEW p \in Sessions, WorkThenStore(p) PROVE Rest
  <2>1. ~One(K(p)) /\ \A k \in Keys : k # K(p) => effect'[k] = effect[k]
    BY <1>6 DEF WorkThenStore, One, TypeOK
  <2> QED BY <1>6, <1>e, <2>1 DEF WorkThenStore, At
<1>7. ASSUME NEW p \in Sessions, StoreLate(p) PROVE Rest
  <2>0. /\ K(p) \in Keys /\ sess[p].hash \in Hashes /\ ~One(K(p))
        /\ effect' = effect /\ purged' = purged
    BY <1>7, <1>a DEF StoreLate, At, SessionsFit, Fits, One
  <2>1. sess'[p] = Idle /\ \A q \in Sessions : q # p => sess'[q] = sess[q]
    BY <1>7, FinishFacts DEF StoreLate
  <2>2. /\ \A k \in Keys : k # K(p) => row'[k] = row[k]
        /\ row[K(p)].present => row'[K(p)].present
    BY <1>7, StoreFacts DEF StoreLate, At
  <2>3. ClaimsExclusive'
    BY <2>1, IdleFits, ExclusiveStep
  <2>4. KeylessIsPurged'
    <3>1. Idle.at # "look"
      BY DEF Idle
    <3> QED BY <2>0, <2>1, <2>2, <3>1, IdleFits, KeylessStep
  <2>5. StoredIsDone' /\ TableCounts'
    BY <1>c, <2>0, <2>1, <2>2, IdleFits, TableStep
  <2> QED BY <2>3, <2>4, <2>5
<1>8. ASSUME NEW p \in Sessions, Fail(p) PROVE Rest
  BY <1>8, <1>d DEF Fail
<1>9. ASSUME NEW k \in Keys, Older(k) PROVE Rest
  <2>1. /\ \A j \in Keys : /\ row'[j].present = row[j].present
                           /\ row'[j].present => row'[j].response = row[j].response
        /\ sess' = sess /\ effect' = effect /\ purged' = purged
    BY <1>9, OlderFacts DEF Older
  <2>2. ClaimsExclusive'
    BY <2>1 DEF ClaimsExclusive
  <2>3. KeylessIsPurged'
    <3> SUFFICES ASSUME NEW p \in Sessions
                 PROVE  /\ sess[p].keyless => sess[p].at # "idle" /\ purged[K(p)] > 0
                        /\ sess[p].at = "look" /\ ~row'[K(p)].present => purged[K(p)] > 0
      BY <2>1 DEF KeylessIsPurged, At
    <3> QED BY <1>a, <2>1 DEF KeylessIsPurged, At
  <2>4. StoredIsDone'
    BY <1>c, <2>1 DEF StoredIsDone, One
  <2>5. TableCounts'
    BY <2>1 DEF TableCounts, One
  <2> QED BY <2>2, <2>3, <2>4, <2>5
<1>10. ASSUME NEW k \in Keys, Cleanup(k) PROVE Rest
  <2>0. ~Absent.present
    BY DEF Absent
  <2>1. /\ row'[k] = Absent /\ \A j \in Keys : j # k => row'[j] = row[j]
        /\ purged' = [purged EXCEPT ![k] = @ + 1]
        /\ sess' = sess /\ effect' = effect
    BY <1>10 DEF Cleanup, TypeOK
  <2>2. ClaimsExclusive'
    BY <2>1 DEF ClaimsExclusive
  <2>3. \A j \in Keys : /\ purged[j] > 0 => purged'[j] > 0
                        /\ purged'[j] = 0 => purged[j] = 0 /\ j # k
    BY <2>1 DEF TypeOK
  <2>4. KeylessIsPurged'
    <3> SUFFICES ASSUME NEW p \in Sessions
                 PROVE  /\ sess[p].keyless => sess[p].at # "idle" /\ purged'[K(p)] > 0
                        /\ sess[p].at = "look" /\ ~row'[K(p)].present => purged'[K(p)] > 0
      BY <2>1 DEF KeylessIsPurged, At
    <3>1. purged'[k] > 0
      BY <2>1 DEF TypeOK
    <3> QED BY <1>a, <2>1, <2>3, <3>1 DEF KeylessIsPurged, At
  <2>5. StoredIsDone'
    BY <2>0, <2>1 DEF StoredIsDone, One
  <2>6. TableCounts'
    BY <2>1, <2>3 DEF TableCounts, One
  <2> QED BY <2>2, <2>4, <2>5, <2>6
<1>11. ASSUME UNCHANGED vars PROVE Rest
  BY <1>11 DEF vars, ClaimsExclusive, KeylessIsPurged, StoredIsDone, TableCounts, At, One
<1>12. Rest
  BY <1>1, <1>2, <1>3, <1>4, <1>5, <1>6, <1>7, <1>8, <1>9, <1>10, <1>11 DEF Next
<1> QED BY <1>12, TypeStep

(***************************************************************************)
(* A key stands for one payload.                                           *)
(***************************************************************************)

LEMMA RowHash ==
    ASSUME NEW h \in Hashes, NEW r \in Hashes \union {None}
    PROVE  /\ Row(h, r, "fresh").present
           /\ Row(h, r, "fresh").hash = h
           /\ Row(h, r, "fresh").response = r
BY DEF Row

LEMMA RowHashKept ==
    ASSUME NEW r \in RowType, r.present
    PROVE  /\ \A a \in Ages : [r EXCEPT !.age = a].hash = r.hash
           /\ \A h \in Hashes : [r EXCEPT !.response = h].hash = r.hash
<1>1. r \in [present : {TRUE}, hash : Hashes, response : Hashes \union {None}, age : Ages]
  <2>1. ~Absent.present
    BY DEF Absent
  <2>2. r # Absent
    BY <2>1
  <2> QED BY <2>2 DEF RowType
<1> QED BY <1>1 DEF RowType

LEMMA ClaimInit == Init => ClaimInv
<1> SUFFICES ASSUME Init PROVE ClaimInv
  OBVIOUS
<1>1. \A k \in Keys : ~row[k].present
  BY DEF Init, Absent
<1>2. \A p \in Sessions : sess[p].at = "idle" /\ ~sess[p].open
  BY DEF Init, Idle
<1>3. KeyFixesHash
  BY <1>1, <1>2 DEF KeyFixesHash, Fixed, Holds
<1>4. \A k \in Keys : Executing(k) = {} /\ Claims(k) = 0
  BY <1>1, <1>2 DEF Executing, Claims, Locked, Init
<1>5. ExecutionsAreClaimed
  BY <1>4, FS_EmptySet DEF ExecutionsAreClaimed, Init
<1> QED BY <1>3, <1>5 DEF ClaimInv

\* a key whose row stays and that the moving session does not hold afterwards
LEMMA FixedKept ==
    ASSUME NEW k \in Keys, Fixed(k), row'[k] = row[k], NEW p \in Sessions,
           \A q \in Sessions : q # p => sess'[q] = sess[q],
           ~(sess'[p].key = k /\ sess'[p].at \in {"claimed", "work", "store"})
    PROVE  Fixed(k)'
BY DEF Fixed, Holds

\* a key whose row stays and that the moving session has afterwards
LEMMA FixedHeld ==
    ASSUME NEW k \in Keys, Fixed(k), row'[k] = row[k], NEW p \in Sessions,
           \A q \in Sessions : q # p => sess'[q] = sess[q],
           sess'[p].open \/ row[k].present,
           row[k].present => row[k].hash = sess'[p].hash
    PROVE  Fixed(k)'
BY DEF Fixed, Holds

\* a key whose row the moving session writes, with its payload
LEMMA FixedWritten ==
    ASSUME SessionsFit, ClaimsExclusive, NEW p \in Sessions, NEW k \in Keys,
           sess[p].key = k, Holds(p, k), Fixed(k),
           \A q \in Sessions : q # p => sess'[q] = sess[q],
           sess'[p].hash = sess[p].hash \/ sess'[p].at = "idle",
           row'[k].present, row'[k].hash = sess[p].hash,
           row'[k].response \in {None, row'[k].hash},
           sess[p].open \/ row[k].present
    PROVE  Fixed(k)'
<1>1. ASSUME NEW q \in Sessions, q # p, Holds(q, k) PROVE row'[k].hash = sess[q].hash
  <2>1. CASE row[k].present
    BY <1>1, <2>1 DEF Fixed
  <2>2. CASE ~row[k].present
    BY <1>1, <2>2 DEF Fixed, ClaimsExclusive, Holds
  <2> QED BY <2>1, <2>2
<1>2. ASSUME NEW q \in Sessions, sess'[q].key = k,
             sess'[q].at \in {"claimed", "work", "store"}
      PROVE  row'[k].hash = sess'[q].hash
  BY <1>1, <1>2 DEF Holds
<1> QED BY <1>2 DEF Fixed, Holds

LEMMA HashStep ==
    TypeOK /\ IdempotencyInv /\ KeyFixesHash /\ [Next]_vars => KeyFixesHash'
<1> SUFFICES ASSUME TypeOK, IdempotencyInv, KeyFixesHash, [Next]_vars,
                    NEW j \in Keys, purged'[j] = 0
             PROVE  Fixed(j)'
  BY DEF KeyFixesHash
<1>i. SessionsFit /\ ClaimsExclusive /\ KeylessIsPurged
  BY DEF IdempotencyInv
<1>a. \A p \in Sessions : sess[p].at # "idle" => sess[p].key \in Keys /\ sess[p].hash \in Hashes
  BY <1>i DEF SessionsFit, Fits
<1>p. purged[j] = 0
  <2>1. ASSUME NEW k \in Keys, Cleanup(k) PROVE purged[j] = 0
    BY <2>1 DEF Cleanup, TypeOK
  <2>2. CASE UNCHANGED purged
    BY <2>2
  <2> QED BY <2>1, <2>2 DEF Next, Insert, Look, Vanished, EarlyCommit, WorkAndStore,
                            WorkThenStore, StoreLate, Fail, Older, vars
<1>f. Fixed(j)
  BY <1>p DEF KeyFixesHash
<1>d. ASSUME NEW p \in Sessions, Finish(p), row'[j] = row[j] PROVE Fixed(j)'
  <2>1. sess'[p].at = "idle" /\ \A q \in Sessions : q # p => sess'[q] = sess[q]
    BY <1>d, FinishFacts DEF Idle
  <2> QED BY <1>d, <1>f, <2>1, FixedKept
<1>1. ASSUME NEW p \in Sessions, NEW k \in Keys, NEW h \in Hashes, Insert(p, k, h)
      PROVE  Fixed(j)'
  <2>1. CASE row[k].present
    <3>1. sess'[p].at = "look" /\ \A q \in Sessions : q # p => sess'[q] = sess[q]
      BY <1>1, <2>1, ZenonT(60) DEF Insert, TypeOK, Idle
    <3>2. row' = row
      BY <1>1 DEF Insert
    <3> QED BY <1>f, <3>1, <3>2, FixedKept
  <2>2. CASE ~row[k].present
    <3>1. /\ sess'[p].key = k /\ sess'[p].open /\ row' = row
          /\ \A q \in Sessions : q # p => sess'[q] = sess[q]
      BY <1>1, <2>2, ClaimedFacts DEF Insert
    <3>2. CASE j = k
      BY <1>f, <2>2, <3>1, <3>2, FixedHeld
    <3>3. CASE j # k
      BY <1>f, <3>1, <3>3, FixedKept
    <3> QED BY <3>2, <3>3
  <2> QED BY <2>1, <2>2
<1>2. ASSUME NEW p \in Sessions, Look(p) PROVE Fixed(j)'
  <2>1. CASE Finish(p)
    BY <1>2, <1>d, <2>1 DEF Look
  <2>2. CASE row[sess[p].key].hash = sess[p].hash /\ Claimed(p, sess[p].key, sess[p].hash, FALSE)
    <3>1. PICK k \in Keys, h \in Hashes : k = sess[p].key /\ h = sess[p].hash
      BY <1>2, <1>a DEF Look, At
    <3>2. /\ sess'[p].key = k /\ sess'[p].open /\ row' = row
          /\ \A q \in Sessions : q # p => sess'[q] = sess[q]
      BY <1>2, <2>2, <3>1, ClaimedFacts DEF Look
    <3>3. sess'[p].hash = h
      BY <2>2, <3>1 DEF Claimed, TypeOK
    <3>4. CASE j = k
      BY <1>f, <2>2, <3>1, <3>2, <3>3, <3>4, FixedHeld
    <3>5. CASE j # k
      BY <1>f, <3>2, <3>5, FixedKept
    <3> QED BY <3>4, <3>5
  <2> QED BY <1>2, <2>1, <2>2 DEF Look
<1>3. ASSUME NEW p \in Sessions, Vanished(p) PROVE Fixed(j)'
  <2>1. PICK k \in Keys, h \in Hashes : k = sess[p].key /\ h = sess[p].hash
    BY <1>3, <1>a DEF Vanished, At
  <2>2. j # k
    BY <1>3, <1>i, <1>p, <2>1 DEF Vanished, KeylessIsPurged
  <2>3. /\ sess'[p].key = k /\ row' = row
        /\ \A q \in Sessions : q # p => sess'[q] = sess[q]
    BY <1>3, <2>1, ClaimedFacts DEF Vanished
  <2> QED BY <1>f, <2>2, <2>3, FixedKept
\* a commit that leaves the session at work or at store
<1>e. ASSUME NEW p \in Sessions, NEW l \in {"work", "store"},
             sess[p].at \in {"claimed", "work"}, CommitClaim(p),
             sess' = [sess EXCEPT ![p] = [@ EXCEPT !.at = l, !.open = FALSE]]
      PROVE  Fixed(j)'
  <2>1. PICK k \in Keys, h \in Hashes : k = sess[p].key /\ h = sess[p].hash
    BY <1>e, <1>a
  <2>2. /\ sess'[p].key = k /\ sess'[p].hash = h
        /\ \A q \in Sessions : q # p => sess'[q] = sess[q]
    BY <1>e, <2>1 DEF TypeOK, SessionType
  <2>3. CASE j # k
    <3>1. row'[j] = row[j]
      BY <1>e, <1>i, <2>1, <2>3, CommitClaimFacts
    <3> QED BY <1>f, <2>2, <2>3, <3>1, FixedKept
  <2>4. CASE j = k /\ sess[p].open
    <3>1. row'[k] = Row(h, None, "fresh")
      BY <1>e, <2>1, <2>4 DEF CommitClaim, TypeOK
    <3>2. row'[k].present /\ row'[k].hash = h /\ row'[k].response = None
      BY <3>1, RowHash
    <3>3. Holds(p, k)
      BY <1>e, <2>1 DEF Holds
    <3> QED BY <1>f, <1>i, <2>1, <2>2, <2>4, <3>2, <3>3, FixedWritten
  <2>5. CASE j = k /\ ~sess[p].open
    <3>1. row' = row
      BY <1>e, <2>5 DEF CommitClaim
    <3>2. Holds(p, k)
      BY <1>e, <2>1 DEF Holds
    <3>3. row[k].present /\ row[k].hash = h
      BY <1>f, <2>1, <2>5, <3>2 DEF Fixed
    <3> QED BY <1>f, <2>2, <2>5, <3>1, <3>3, FixedHeld
  <2> QED BY <2>3, <2>4, <2>5
\* the response is stored, and the session finishes
<1>s. ASSUME NEW p \in Sessions, sess[p].at \in {"work", "store"}, Store(p), Finish(p)
      PROVE  Fixed(j)'
  <2>1. PICK k \in Keys, h \in Hashes : k = sess[p].key /\ h = sess[p].hash
    BY <1>s, <1>a
  <2>2. /\ sess'[p].at = "idle"
        /\ \A q \in Sessions : q # p => sess'[q] = sess[q]
    BY <1>s, FinishFacts DEF Idle
  <2>3. CASE j # k
    <3>1. row'[j] = row[j]
      BY <1>s, <1>i, <2>1, <2>3, StoreFacts
    <3> QED BY <1>d, <1>s, <3>1
  <2>4. CASE j = k
    <3>1. Holds(p, k)
      BY <1>s, <2>1 DEF Holds
    <3>2. /\ sess[p].open \/ row[k].present
          /\ row[k].present => row[k].hash = h
      BY <1>f, <2>1, <2>4, <3>1 DEF Fixed
    <3>3. row'[k].present /\ row'[k].hash = h /\ row'[k].response = h
      <4>1. CASE sess[p].open
        <5>1. row'[k] = Row(h, h, "fresh")
          BY <1>s, <2>1, <4>1 DEF Store, TypeOK
        <5> QED BY <5>1, RowHash
      <4>2. CASE ~sess[p].open
        <5>1. row[k] \in RowType /\ row[k].present
          BY <3>2, <4>2 DEF TypeOK
        <5>2. row'[k] = [row[k] EXCEPT !.response = h]
          BY <1>s, <2>1, <4>2, <5>1 DEF Store, TypeOK
        <5> QED BY <3>2, <5>1, <5>2, RowUpdates, RowHashKept
      <4> QED BY <4>1, <4>2
    <3> QED BY <1>f, <1>i, <2>1, <2>2, <2>4, <3>1, <3>2, <3>3, FixedWritten
  <2> QED BY <2>3, <2>4
<1>4. ASSUME NEW p \in Sessions, EarlyCommit(p) \/ WorkThenStore(p) PROVE Fixed(j)'
  BY <1>4, <1>e DEF EarlyCommit, WorkThenStore, At
<1>5. ASSUME NEW p \in Sessions, WorkAndStore(p) \/ StoreLate(p) PROVE Fixed(j)'
  BY <1>5, <1>s DEF WorkAndStore, StoreLate, At
<1>6. ASSUME NEW p \in Sessions, Fail(p) PROVE Fixed(j)'
  BY <1>6, <1>d DEF Fail
<1>7. ASSUME NEW k \in Keys, Older(k) PROVE Fixed(j)'
  <2>1. sess' = sess /\ row[k].present /\ row[k] \in RowType
        /\ row' = [row EXCEPT ![k] = [@ EXCEPT !.age = "stale"]]
    BY <1>7 DEF Older, TypeOK
  <2>2. CASE j = k
    <3>1. row'[j] = [row[j] EXCEPT !.age = "stale"]
      BY <2>1, <2>2 DEF TypeOK
    <3>2. /\ row'[j].present /\ row'[j].hash = row[j].hash
          /\ row'[j].response = row[j].response
      BY <2>1, <2>2, <3>1, RowUpdates, RowHashKept DEF Ages
    <3> QED BY <1>f, <2>1, <2>2, <3>2 DEF Fixed, Holds
  <2>3. CASE j # k
    BY <1>f, <2>1, <2>3 DEF Fixed, Holds, TypeOK
  <2> QED BY <2>2, <2>3
<1>8. ASSUME NEW k \in Keys, Cleanup(k) PROVE Fixed(j)'
  <2>1. j # k
    BY <1>8 DEF Cleanup, TypeOK
  <2>2. sess' = sess /\ row'[j] = row[j]
    BY <1>8, <2>1 DEF Cleanup, TypeOK
  <2> QED BY <1>f, <2>2 DEF Fixed, Holds
<1>9. CASE UNCHANGED vars
  BY <1>9, <1>f DEF vars, Fixed, Holds
<1> QED BY <1>1, <1>2, <1>3, <1>4, <1>5, <1>6, <1>7, <1>8, <1>9 DEF Next

(***************************************************************************)
(* Every execution has its claim.                                          *)
(***************************************************************************)

LEMMA ExecutingFinite ==
    ASSUME NEW k
    PROVE  /\ IsFiniteSet(Executing(k)) /\ Cardinality(Executing(k)) \in Nat
           /\ IsFiniteSet(Executing(k)') /\ Cardinality(Executing(k)') \in Nat
<1>1. Executing(k) \subseteq Sessions /\ Executing(k)' \subseteq Sessions
  BY DEF Executing
<1> QED BY <1>1, IdempotencyAssumption, FS_Subset, FS_CardinalityType

LEMMA ClaimsType ==
    ASSUME TypeOK, NEW k \in Keys
    PROVE  Claims(k) \in Nat /\ Claims(k) \in {takeovers[k], takeovers[k] + 1}
BY DEF Claims, TypeOK

\* what a session executes it has not released
LEMMA LockedExecutes ==
    ASSUME SessionsFit, NEW k, Locked(k)
    PROVE  \E p \in Executing(k) : sess[p].open
BY DEF SessionsFit, Fits, Locked, Executing

\* the claims of a key that is not given up
LEMMA ClaimsKept ==
    ASSUME TypeOK, TypeOK', NEW k \in Keys, takeovers'[k] = takeovers[k],
           row[k].present => row'[k].present,
           Locked(k) => Locked(k)' \/ row'[k].present
    PROVE  Claims(k)' >= Claims(k)
BY DEF Claims, TypeOK

\* a step that neither begins nor ends an execution under key k
LEMMA OtherKey ==
    ASSUME SessionsFit, SessionsFit', NEW k \in Keys, NEW p \in Sessions,
           \A q \in Sessions : q # p => sess'[q] = sess[q],
           p \notin Executing(k), p \notin Executing(k)'
    PROVE  Executing(k)' = Executing(k) /\ (Locked(k)' <=> Locked(k))
<1>1. Executing(k)' = Executing(k)
  BY DEF Executing
<1>2. ~(sess[p].open /\ sess[p].key = k)
  BY DEF SessionsFit, Fits, Executing
<1>3. ~(sess'[p].open /\ sess'[p].key = k)
  BY DEF SessionsFit, Fits, Executing
<1>4. Locked(k)' <=> Locked(k)
  BY <1>2, <1>3 DEF Locked
<1> QED BY <1>1, <1>4

LEMMA ExecutionStep ==
    TypeOK /\ IdempotencyInv /\ ExecutionsAreClaimed /\ [Next]_vars => ExecutionsAreClaimed'
<1> SUFFICES ASSUME TypeOK, IdempotencyInv, ExecutionsAreClaimed, [Next]_vars,
                    NEW j \in Keys, purged'[j] = 0
             PROVE  effect'[j] + Cardinality(Executing(j)') <= Claims(j)'
  BY DEF ExecutionsAreClaimed
<1> DEFINE Goal == effect'[j] + Cardinality(Executing(j)') <= Claims(j)'
<1>i. SessionsFit /\ ClaimsExclusive /\ KeylessIsPurged
  BY DEF IdempotencyInv
<1>t. TypeOK' /\ SessionsFit'
  BY <1>i, TypeStep
<1>n. /\ Claims(j) \in Nat /\ Claims(j)' \in Nat
      /\ effect[j] \in Nat /\ effect'[j] \in Nat
      /\ takeovers[j] \in Nat /\ takeovers'[j] \in Nat
      /\ Claims(j) \in {takeovers[j], takeovers[j] + 1}
      /\ Claims(j)' \in {takeovers'[j], takeovers'[j] + 1}
  BY <1>t DEF Claims, TypeOK
<1>x. /\ IsFiniteSet(Executing(j)) /\ Cardinality(Executing(j)) \in Nat
      /\ IsFiniteSet(Executing(j)') /\ Cardinality(Executing(j)') \in Nat
  BY ExecutingFinite
<1>a. \A p \in Sessions : sess[p].at # "idle" => sess[p].key \in Keys /\ sess[p].hash \in Hashes
  BY <1>i DEF SessionsFit, Fits
<1>p. purged[j] = 0
  <2>1. ASSUME NEW k \in Keys, Cleanup(k) PROVE purged[j] = 0
    BY <2>1 DEF Cleanup, TypeOK
  <2>2. CASE UNCHANGED purged
    BY <2>2
  <2> QED BY <2>1, <2>2 DEF Next, Insert, Look, Vanished, EarlyCommit, WorkAndStore,
                            WorkThenStore, StoreLate, Fail, Older, vars
<1>f. effect[j] + Cardinality(Executing(j)) <= Claims(j)
  BY <1>p DEF ExecutionsAreClaimed
\* nothing happens under key j
<1>o. ASSUME NEW p \in Sessions, \A q \in Sessions : q # p => sess'[q] = sess[q],
             p \notin Executing(j), p \notin Executing(j)',
             row[j].present => row'[j].present,
             effect'[j] = effect[j], takeovers'[j] = takeovers[j]
      PROVE  Goal
  <2>1. Executing(j)' = Executing(j) /\ (Locked(j)' <=> Locked(j))
    BY <1>i, <1>o, <1>t, OtherKey
  <2>2. Claims(j)' >= Claims(j)
    BY <1>o, <1>t, <2>1, ClaimsKept
  <2> QED BY <1>f, <1>n, <1>o, <1>x, <2>1, <2>2
\* session p begins an execution under key j, with a new claim
<1>b. ASSUME NEW p \in Sessions, p \notin Executing(j), Executing(j)' = Executing(j) \union {p},
             effect'[j] = effect[j], Claims(j)' = Claims(j) + 1
      PROVE  Goal
  <2>1. Cardinality(Executing(j)') = Cardinality(Executing(j)) + 1
    BY <1>b, <1>x, FS_AddElement
  <2> QED BY <1>b, <1>f, <1>n, <1>x, <2>1
\* session p ends an execution under key j
<1>e. ASSUME NEW p \in Sessions, p \in Executing(j), Executing(j)' = Executing(j) \ {p},
             effect'[j] - effect[j] <= 1 + Claims(j)' - Claims(j)
      PROVE  Goal
  <2>1. Cardinality(Executing(j)') = Cardinality(Executing(j)) - 1
    BY <1>e, <1>x, FS_RemoveElement
  <2> QED BY <1>e, <1>f, <1>n, <1>x, <2>1
\* a commit of session p, which executes under key j, gives up no claim
<1>k. ASSUME NEW p \in Sessions, \A q \in Sessions : q # p => sess'[q] = sess[q],
             row[j].present => row'[j].present,
             sess[p].open => row'[j].present,
             takeovers'[j] = takeovers[j]
      PROVE  Claims(j)' >= Claims(j)
  <2>1. Locked(j) => Locked(j)' \/ row'[j].present
    BY <1>k DEF Locked
  <2> QED BY <1>k, <1>t, <2>1, ClaimsKept
<1>1. ASSUME NEW p \in Sessions, NEW k \in Keys, NEW h \in Hashes, Insert(p, k, h)
      PROVE  Goal
  <2>0. /\ sess[p].at = "idle" /\ ~Locked(k)
        /\ UNCHANGED <<row, effect, takeovers>>
    BY <1>1 DEF Insert, At
  <2>1. p \notin Executing(j)
    BY <2>0 DEF Executing
  <2>2. CASE row[k].present
    <3>1. sess'[p].at = "look" /\ \A q \in Sessions : q # p => sess'[q] = sess[q]
      BY <1>1, <2>2, ZenonT(60) DEF Insert, TypeOK, Idle
    <3>2. p \notin Executing(j)'
      BY <3>1 DEF Executing
    <3> QED BY <1>o, <2>0, <2>1, <3>1, <3>2
  <2>3. CASE ~row[k].present
    <3>1. /\ sess'[p].key = k /\ sess'[p].open /\ sess'[p].at \in {"claimed", "work"}
          /\ \A q \in Sessions : q # p => sess'[q] = sess[q]
      <4>1. Claimed(p, k, h, FALSE)
        BY <1>1, <2>3 DEF Insert
      <4>2. sess'[p].at \in {"claimed", "work"}
        BY <4>1 DEF Claimed, TypeOK
      <4> QED BY <4>1, <4>2, ClaimedFacts
    <3>2. CASE j = k
      <4>1. Executing(j)' = Executing(j) \union {p}
        BY <3>1, <3>2 DEF Executing
      <4>2. Locked(j)'
        BY <3>1, <3>2 DEF Locked
      <4>3. Claims(j)' = Claims(j) + 1
        BY <1>n, <2>0, <2>3, <3>2, <4>2 DEF Claims
      <4> QED BY <1>b, <2>0, <2>1, <4>1, <4>3
    <3>3. CASE j # k
      <4>1. p \notin Executing(j)'
        BY <3>1, <3>3 DEF Executing
      <4> QED BY <1>o, <2>0, <2>1, <3>1, <4>1
    <3> QED BY <3>2, <3>3
  <2> QED BY <2>2, <2>3
<1>2. ASSUME NEW p \in Sessions, Look(p) PROVE Goal
  <2>0. /\ sess[p].at = "look" /\ row[sess[p].key].present
        /\ UNCHANGED <<row, effect>>
    BY <1>2 DEF Look, At
  <2>1. p \notin Executing(j)
    BY <2>0 DEF Executing
  <2>2. CASE Finish(p) /\ takeovers' = takeovers
    <3>1. sess'[p].at = "idle" /\ \A q \in Sessions : q # p => sess'[q] = sess[q]
      BY <2>2, FinishFacts DEF Idle
    <3>2. p \notin Executing(j)'
      BY <3>1 DEF Executing
    <3> QED BY <1>o, <2>0, <2>1, <2>2, <3>1, <3>2
  <2>3. CASE /\ Claimed(p, sess[p].key, sess[p].hash, FALSE)
             /\ takeovers' = [takeovers EXCEPT ![sess[p].key] = @ + 1]
    <3>0. PICK k \in Keys, h \in Hashes : k = sess[p].key /\ h = sess[p].hash
      BY <1>a, <2>0
    <3>1. /\ sess'[p].key = k /\ sess'[p].at \in {"claimed", "work"}
          /\ \A q \in Sessions : q # p => sess'[q] = sess[q]
      BY <2>3, <3>0, ClaimedFacts DEF Claimed, TypeOK
    <3>2. CASE j = k
      <4>1. Executing(j)' = Executing(j) \union {p}
        BY <3>1, <3>2 DEF Executing
      <4>2. takeovers'[j] = takeovers[j] + 1
        BY <2>3, <3>0, <3>2 DEF TypeOK
      <4>3. Claims(j)' = Claims(j) + 1
        BY <1>n, <2>0, <3>0, <3>2, <4>2 DEF Claims
      <4> QED BY <1>b, <2>0, <2>1, <4>1, <4>3
    <3>3. CASE j # k
      <4>1. p \notin Executing(j)'
        BY <3>1, <3>3 DEF Executing
      <4>2. takeovers'[j] = takeovers[j]
        BY <2>3, <3>0, <3>3 DEF TypeOK
      <4> QED BY <1>o, <2>0, <2>1, <3>1, <4>1, <4>2
    <3> QED BY <3>2, <3>3
  <2> QED BY <1>2, <2>2, <2>3 DEF Look
<1>3. ASSUME NEW p \in Sessions, Vanished(p) PROVE Goal
  <2>1. PICK k \in Keys, h \in Hashes : k = sess[p].key /\ h = sess[p].hash
    BY <1>3, <1>a DEF Vanished, At
  <2>2. j # k
    BY <1>3, <1>i, <1>p, <2>1 DEF Vanished, KeylessIsPurged
  <2>3. /\ sess'[p].key = k /\ sess[p].at = "look"
        /\ \A q \in Sessions : q # p => sess'[q] = sess[q]
        /\ UNCHANGED <<row, effect, takeovers>>
    BY <1>3, <2>1, ClaimedFacts DEF Vanished, At
  <2>4. p \notin Executing(j) /\ p \notin Executing(j)'
    BY <2>2, <2>3 DEF Executing
  <2> QED BY <1>o, <2>3, <2>4
\* steps that write the table
<1>w. ASSUME NEW p \in Sessions, EarlyCommit(p) \/ WorkAndStore(p) \/ WorkThenStore(p)
      PROVE  /\ sess[p].key \in Keys /\ sess[p].at \in {"claimed", "work"}
             /\ \A q \in Sessions : q # p => sess'[q] = sess[q]
             /\ row[j].present => row'[j].present
             /\ sess[p].key = j /\ sess[p].open => row'[j].present
             /\ takeovers' = takeovers
             /\ sess[p].key # j => effect'[j] = effect[j]
             /\ sess'[p].at \in {"idle", "work", "store"}
             /\ sess'[p].at # "idle" => sess'[p].key = sess[p].key
  <2>1. sess[p].key \in Keys /\ sess[p].hash \in Hashes /\ sess[p].at \in {"claimed", "work"}
    BY <1>w, <1>a DEF EarlyCommit, WorkAndStore, WorkThenStore, At
  <2>2. takeovers' = takeovers
    BY <1>w DEF EarlyCommit, WorkAndStore, WorkThenStore
  <2>3. sess[p].key # j => effect'[j] = effect[j]
    BY <1>w DEF EarlyCommit, WorkAndStore, WorkThenStore, TypeOK
  <2>4. CASE WorkAndStore(p)
    <3>1. Store(p) /\ Finish(p)
      BY <2>4 DEF WorkAndStore
    <3>2. /\ sess'[p].at = "idle"
          /\ \A q \in Sessions : q # p => sess'[q] = sess[q]
      BY <3>1, FinishFacts DEF Idle
    <3>3. /\ row[j].present => row'[j].present
          /\ sess[p].key = j /\ sess[p].open => row'[j].present
      BY <1>i, <2>1, <3>1, StoreFacts
    <3> QED BY <2>1, <2>2, <2>3, <3>2, <3>3
  <2>5. CASE EarlyCommit(p) \/ WorkThenStore(p)
    <3>1. CommitClaim(p)
      BY <2>5 DEF EarlyCommit, WorkThenStore
    <3>2. PICK l \in {"work", "store"} :
            sess' = [sess EXCEPT ![p] = [@ EXCEPT !.at = l, !.open = FALSE]]
      BY <2>5 DEF EarlyCommit, WorkThenStore
    <3>3. /\ sess'[p].at = l /\ sess'[p].key = sess[p].key
          /\ \A q \in Sessions : q # p => sess'[q] = sess[q]
      BY <3>2 DEF TypeOK, SessionType
    <3>4. row[j].present => row'[j].present
      BY <1>i, <2>1, <3>1, CommitClaimFacts
    <3>5. sess[p].key = j /\ sess[p].open => row'[j].present
      BY <2>1, <3>1, RowHash DEF CommitClaim, TypeOK
    <3> QED BY <2>1, <2>2, <2>3, <3>3, <3>4, <3>5
  <2> QED BY <1>w, <2>4, <2>5
<1>4. ASSUME NEW p \in Sessions, EarlyCommit(p) \/ WorkAndStore(p) \/ WorkThenStore(p),
             sess[p].key # j
      PROVE  Goal
  <2>1. p \notin Executing(j) /\ p \notin Executing(j)'
    BY <1>4, <1>w DEF Executing
  <2> QED BY <1>4, <1>o, <1>w, <2>1
<1>5. ASSUME NEW p \in Sessions, EarlyCommit(p), sess[p].key = j PROVE Goal
  <2>1. sess'[p].at = "work" /\ sess'[p].key = j /\ effect' = effect
    BY <1>5 DEF EarlyCommit, TypeOK, SessionType
  <2>2. Executing(j)' = Executing(j)
    BY <1>5, <1>w, <2>1 DEF Executing
  <2>3. Claims(j)' >= Claims(j)
    BY <1>5, <1>k, <1>w
  <2> QED BY <1>f, <1>n, <1>x, <2>1, <2>2, <2>3
<1>6. ASSUME NEW p \in Sessions, WorkAndStore(p) \/ WorkThenStore(p), sess[p].key = j
      PROVE  Goal
  <2>1. sess'[p].at \in {"idle", "store"}
    <3>1. CASE WorkAndStore(p)
      BY <3>1, FinishFacts DEF WorkAndStore, Idle
    <3>2. CASE WorkThenStore(p)
      BY <3>2 DEF WorkThenStore, TypeOK, SessionType
    <3> QED BY <1>6, <3>1, <3>2
  <2>2. effect'[j] = effect[j] + 1
    BY <1>6 DEF WorkAndStore, WorkThenStore, TypeOK
  <2>3. p \in Executing(j) /\ Executing(j)' = Executing(j) \ {p}
    BY <1>6, <1>w, <2>1 DEF Executing
  <2>4. Claims(j)' >= Claims(j)
    BY <1>6, <1>k, <1>w
  <2> QED BY <1>e, <1>n, <2>2, <2>3, <2>4
<1>7. ASSUME NEW p \in Sessions, StoreLate(p) PROVE Goal
  <2>1. /\ sess[p].at = "store" /\ Store(p) /\ Finish(p)
        /\ UNCHANGED <<effect, takeovers>>
    BY <1>7 DEF StoreLate, At
  <2>2. sess'[p].at = "idle" /\ \A q \in Sessions : q # p => sess'[q] = sess[q]
    BY <2>1, FinishFacts DEF Idle
  <2>3. row[j].present => row'[j].present
    BY <1>a, <1>i, <2>1, StoreFacts
  <2>4. p \notin Executing(j) /\ p \notin Executing(j)'
    BY <2>1, <2>2 DEF Executing
  <2> QED BY <1>o, <2>1, <2>2, <2>3, <2>4
<1>8. ASSUME NEW p \in Sessions, Fail(p) PROVE Goal
  <2>1. Finish(p) /\ UNCHANGED <<row, effect, takeovers>>
    BY <1>8 DEF Fail
  <2>2. sess'[p].at = "idle" /\ \A q \in Sessions : q # p => sess'[q] = sess[q]
    BY <2>1, FinishFacts DEF Idle
  <2>3. CASE p \notin Executing(j)
    <3>1. p \notin Executing(j)'
      BY <2>2 DEF Executing
    <3> QED BY <1>o, <2>1, <2>2, <2>3, <3>1
  <2>4. CASE p \in Executing(j)
    <3>1. Executing(j)' = Executing(j) \ {p}
      BY <2>2 DEF Executing
    <3>2. takeovers'[j] = takeovers[j] /\ effect'[j] = effect[j]
      BY <2>1
    <3>3. effect'[j] - effect[j] <= 1 + Claims(j)' - Claims(j)
      <4> DEFINE c == Claims(j)
                 d == Claims(j)'
      <4>1. c \in {takeovers[j], takeovers[j] + 1} /\ d \in {takeovers[j], takeovers[j] + 1}
        BY <1>n, <3>2
      <4> HIDE DEF c, d
      <4>2. d + 1 >= c /\ d \in Nat /\ c \in Nat
        BY <1>n, <4>1
      <4>3. effect'[j] - effect[j] = 0
        BY <1>n, <3>2
      <4>4. 0 <= 1 + d - c
        BY <4>2
      <4> QED BY <4>3, <4>4 DEF c, d
    <3> QED BY <1>e, <2>4, <3>1, <3>3
  <2> QED BY <2>3, <2>4
<1>9. ASSUME NEW k \in Keys, Older(k) PROVE Goal
  <2>1. /\ row'[j].present = row[j].present
        /\ UNCHANGED <<sess, effect, takeovers>>
    BY <1>9, OlderFacts DEF Older
  <2>2. Executing(j)' = Executing(j) /\ Claims(j)' = Claims(j)
    BY <2>1 DEF Executing, Claims, Locked
  <2> QED BY <1>f, <2>1, <2>2
<1>10. ASSUME NEW k \in Keys, Cleanup(k) PROVE Goal
  <2>1. j # k
    BY <1>10 DEF Cleanup, TypeOK
  <2>2. row'[j] = row[j] /\ UNCHANGED <<sess, effect, takeovers>>
    BY <1>10, <2>1 DEF Cleanup, TypeOK
  <2>3. Executing(j)' = Executing(j) /\ Claims(j)' = Claims(j)
    BY <2>2 DEF Executing, Claims, Locked
  <2> QED BY <1>f, <2>2, <2>3
<1>11. CASE UNCHANGED vars
  <2>1. UNCHANGED <<row, sess, effect, takeovers>>
    BY <1>11 DEF vars
  <2>2. Executing(j)' = Executing(j) /\ Claims(j)' = Claims(j)
    BY <2>1 DEF Executing, Claims, Locked
  <2> QED BY <1>f, <2>1, <2>2
<1>12. \A p \in Sessions : EarlyCommit(p) \/ WorkAndStore(p) \/ WorkThenStore(p) => Goal
  BY <1>4, <1>5, <1>6
<1> QED BY <1>1, <1>2, <1>3, <1>7, <1>8, <1>9, <1>10, <1>11, <1>12 DEF Next

(***************************************************************************)
(* The theorems.                                                           *)
(***************************************************************************)

\* Every variable keeps its type.
THEOREM TypeCorrect == Spec => []TypeOK
<1>1. Init => TypeOK /\ SessionsFit
  BY InvInit DEF IdempotencyInv
<1>2. TypeOK /\ SessionsFit /\ [Next]_vars => TypeOK' /\ SessionsFit'
  BY TypeStep
<1> QED BY <1>1, <1>2, PTL DEF Spec

\* A claim in progress is known to its session only, the sessions that go on
\* without a key do so because the cleanup deleted it, and the key table says
\* which operations of the handlers with one commit were executed.
THEOREM Invariance == Spec => []IdempotencyInv
<1>1. Init => TypeOK /\ IdempotencyInv
  BY InvInit
<1>2. TypeOK /\ IdempotencyInv /\ [Next]_vars => TypeOK' /\ IdempotencyInv'
  BY InvStep, TypeStep DEF IdempotencyInv
<1> QED BY <1>1, <1>2, PTL DEF Spec

\* A cash request, an agent deposit or an external transfer is executed at most
\* once under its key, whatever is retried, duplicated, interleaved or lost, as
\* long as the key has not been deleted by the cleanup worker.
THEOREM ExecutedAtMostOnce == Spec => []AtMostOnce
<1>1. IdempotencyInv => AtMostOnce
  BY DEF IdempotencyInv, TableCounts, AtMostOnce, One
<1> QED BY <1>1, Invariance, PTL

\* The invariant of the keys of every shape of handler: a key stands for one
\* payload, and every execution under it for one claim.
THEOREM ClaimInvariance == Spec => []ClaimInv
<1>1. IdempotencyInv /\ TypeOK /\ ClaimInv /\ [Next]_vars => ClaimInv'
  BY HashStep, ExecutionStep DEF ClaimInv
<1> QED BY <1>1, ClaimInit, Invariance, TypeCorrect, PTL DEF Spec

\* Whatever its handler commits and when, an operation is executed at most once
\* more than its key was taken over as stale.
THEOREM ExecutedOncePerClaim == Spec => []OncePerClaim
<1>1. TypeOK /\ ClaimInv => OncePerClaim
  <2> SUFFICES ASSUME TypeOK, ExecutionsAreClaimed, NEW k \in Keys, purged[k] = 0
               PROVE  effect[k] <= 1 + takeovers[k]
    BY DEF ClaimInv, OncePerClaim
  <2>1. effect[k] + Cardinality(Executing(k)) <= Claims(k)
    BY DEF ExecutionsAreClaimed
  <2>2. Cardinality(Executing(k)) \in Nat /\ effect[k] \in Nat /\ takeovers[k] \in Nat
    BY ExecutingFinite DEF TypeOK
  <2>3. Claims(k) \in {takeovers[k], takeovers[k] + 1}
    BY ClaimsType
  <2> QED BY <2>1, <2>2, <2>3
<1> QED BY <1>1, ClaimInvariance, TypeCorrect, PTL

\* A stored response answers the payload its key was claimed with.
THEOREM ReplaysMatch == Spec => []ReplayMatches
<1>1. ClaimInv => ReplayMatches
  BY DEF ClaimInv, KeyFixesHash, Fixed, ReplayMatches
<1> QED BY <1>1, ClaimInvariance, PTL

=============================================================================
