------------------------------ MODULE MCP2PTrades ------------------------------
(* Instances of P2PTrades for TLC. *)
EXTENDS P2PTrades, TLC

CONSTANTS o1, t1, t2, x1, x2, r1, r2, d1, d2

\* both trades on one offer; the second is larger
OneOffer == t1 :> o1 @@ t2 :> o1
Sizes    == t1 :> 1 @@ t2 :> 2

\* x1 pays exactly t1; x2 pays neither; webhooks quote a trade for x1 only
Payments == x1 :> 1 @@ x2 :> 3
Quoted   == x1 :> t2 @@ x2 :> None
OnePayment == x1 :> 1
OneQuoted  == x1 :> t1

\* one custody address for all trades
Shared     == x1 :> {t1, t2} @@ x2 :> {t1, t2}
OneAddress == x1 :> {t1, t2}

Two   == o1 :> 2
Three == o1 :> 3

Twins == Permutations({r1, r2})
=============================================================================
