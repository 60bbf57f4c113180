------------------------ MODULE MCScheduledTransfers ------------------------
(* Instances of ScheduledTransfers for TLC. *)
EXTENDS ScheduledTransfers, TLC

CONSTANTS s1, s2, u1, u2, c1, w1

\* u1 pays u2 and somebody abroad
Owners == [s \in Schedules |-> u1]
Payees == [s \in Schedules |-> IF s = s1 THEN u2 ELSE None]
Sizes  == [s \in Schedules |-> IF s = s1 THEN 2 ELSE 1]
Runs   == [s \in Schedules |-> IF s = s1 THEN 2 ELSE None]
Purse  == u1 :> 3 @@ u2 :> 0
Credit == u1 :> 1 @@ u2 :> 0
=============================================================================
