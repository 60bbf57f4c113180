-------------------------- MODULE MCPaymentRequests --------------------------
(* Instances of PaymentRequests for TLC. *)
EXTENDS PaymentRequests, TLC

CONSTANTS u1, u2, c1, c2

\* u1 asks twice by a link, and u2 until some time
Asked ==
    {[requester |-> u1, payer |-> None, amount |-> 2, due |-> 0, expires |-> None,
      count |-> 2, until |-> None],
     [requester |-> u1, payer |-> u2, amount |-> 1, due |-> 1, expires |-> 2,
      count |-> 1, until |-> None]}

Purse  == [u \in Users |-> IF u = u1 THEN 0 ELSE 3]
Credit == [u \in Users |-> IF u = u1 THEN 1 ELSE 0]
=============================================================================
