---------------------------- MODULE MCIdempotency ----------------------------
(* Instances of Idempotency for TLC. *)
EXTENDS Idempotency, TLC

CONSTANTS k1, k2, k3, p1, p2, h1, h2

AllShapes == k1 :> "one" @@ k2 :> "early" @@ k3 :> "late"

Alike == Permutations({p1, p2}) \union Permutations({h1, h2})
=============================================================================
