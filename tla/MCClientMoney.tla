---------------------------- MODULE MCClientMoney ----------------------------
(* Instances of ClientMoney for TLC. *)
EXTENDS ClientMoney, TLC

CONSTANTS u1, u2, g1, g2, p1, s1, k1, r1, i1, c1, c2, b1, w1, t1, l1, o1, o2

\* u1 has everything, u2 is a member of the pot
Owners  == [a \in Products |-> u1]
Clients == [r \in Requests \union Items |-> u1]
Starts  == {{l1}, Products \ {g2}}
Borrower == [l \in Loans |-> u1]
Ages    == g1 :> 0 @@ g2 :> 1
Wallets == u1 :> 3 @@ u2 :> 1
Credit  == u1 :> 3 @@ u2 :> 0
=============================================================================
