------------------------- MODULE MCExternalTransfers -------------------------
(* Instances of ExternalTransfers for TLC. *)
EXTENDS ExternalTransfers, TLC

CONSTANTS t1, t2, t3, u1, u2, a1, s1, s2

\* a client in EUR with two transfers, a client in BIF with one
Clients == [t \in Transfers |-> IF t = t3 THEN u2 ELSE u1]
Sizes   == [t \in Transfers |-> IF t = t3 THEN 3 ELSE 2]
Purse   == [u \in Users |-> 1]
Granted == [u \in Users |-> IF u = u2 THEN 3 ELSE 2]
NoBonus == [u \in Users |-> 0]
Cash    == a1 :> 6
=============================================================================
