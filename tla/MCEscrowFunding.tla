--------------------------- MODULE MCEscrowFunding ---------------------------
(* Instances of EscrowFunding for TLC. *)
EXTENDS EscrowFunding, TLC

CONSTANTS o1, o2, x1, x2, t1, t2, w1, w2

\* two transfers pay the same order
SameOrder == x1 :> o1 @@ x2 :> o1
OwnTx     == x1 :> t1 @@ x2 :> t2

\* each transfer pays an order of its own
TwoOrders == x1 :> o1 @@ x2 :> o2

\* a transfer to an address of no order
OneLost   == x1 :> o1 @@ x2 :> NoOrder

Sessions  == Permutations({w1, w2})
=============================================================================
