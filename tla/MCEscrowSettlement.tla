-------------------------- MODULE MCEscrowSettlement --------------------------
(* Instances of EscrowSettlement for TLC. *)
EXTENDS EscrowSettlement

CONSTANTS o1, o2, a1, p1, p2

TwoIds   == 1..2
ThreeIds == 1..3
=============================================================================
