---------------------------- MODULE DepositLedger ----------------------------
(***************************************************************************)
(* What the funding of escrow orders promises about on-chain money,        *)
(* whatever sessions, retries, replays and crashes do underneath: a        *)
(* transaction hash is recorded at most once, a transfer is credited to    *)
(* the user at most once, and only once it is recorded.  Records and       *)
(* credits are never taken back.  A batch of the retry worker may commit   *)
(* several of them in one step.                                            *)
(***************************************************************************)
EXTENDS Naturals

CONSTANTS Transfers, TxOf

VARIABLES recorded, credited

Init ==
    /\ recorded = {}
    /\ credited = [x \in Transfers |-> 0]

\* every transfer of R carries a transaction hash that is not recorded yet
Fresh(R) ==
    \A x \in R : \A y \in recorded \union R : x # y => TxOf[x] # TxOf[y]

Advance(R, C) ==
    /\ R \intersect recorded = {}
    /\ Fresh(R)
    /\ C \subseteq recorded \union R
    /\ \A x \in C : credited[x] = 0
    /\ recorded' = recorded \union R
    /\ credited' = [x \in Transfers |-> IF x \in C THEN 1 ELSE credited[x]]

Next == \E R, C \in SUBSET Transfers : Advance(R, C)

Spec == Init /\ [][Next]_<<recorded, credited>>
=============================================================================
