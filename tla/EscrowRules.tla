----------------------------- MODULE EscrowRules -----------------------------
(***************************************************************************)
(* The life cycle of an escrow order: the statuses of EscrowOrderStatus,   *)
(* the transition table every service is meant to obey, and the check it   *)
(* performs on it (services/escrow_order_rules.py).  Pure definitions,     *)
(* shared by the modules of the escrow subsystem.                          *)
(***************************************************************************)

Status == {"CREATED", "FUNDED", "SWAPPED", "PAYOUT_PENDING", "PAID_OUT",
           "REFUND_PENDING", "REFUNDED", "CANCELLED", "EXPIRED", "FAILED"}

\* ALLOWED_ESCROW_TRANSITIONS, as a set of pairs
Allowed ==
    ({"CREATED"} \X {"FUNDED", "CANCELLED", "EXPIRED", "FAILED", "PAYOUT_PENDING"})
    \union ({"FUNDED"} \X {"SWAPPED", "CANCELLED", "FAILED", "REFUND_PENDING"})
    \union ({"SWAPPED"} \X {"PAYOUT_PENDING", "PAID_OUT", "CANCELLED", "FAILED",
                            "REFUND_PENDING"})
    \union ({"PAYOUT_PENDING"} \X {"PAID_OUT", "CANCELLED", "FAILED",
                                   "REFUND_PENDING"})
    \union ({"REFUND_PENDING"} \X {"REFUNDED", "FAILED"})

\* validate_escrow_transition does not raise: a no-op is always accepted
Valid(from, to) == from = to \/ <<from, to>> \in Allowed

\* the statuses with an empty row in the table
Terminal == {s \in Status : \A t \in Status : <<s, t>> \notin Allowed}

=============================================================================
