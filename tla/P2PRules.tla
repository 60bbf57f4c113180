------------------------------- MODULE P2PRules -------------------------------
(***************************************************************************)
(* The life cycle of a P2P trade: the statuses of TradeStatus, the table   *)
(* ALLOWED_P2P_TRANSITIONS and the check set_trade_status performs on it   *)
(* (services/p2p_trade_rules.py).  Pure definitions.                       *)
(***************************************************************************)

TradeStatus == {"CREATED", "AWAITING_CRYPTO", "CRYPTO_LOCKED", "AWAITING_FIAT",
                "FIAT_SENT", "FIAT_CONFIRMED", "RELEASED", "CANCELLED", "EXPIRED",
                "DISPUTED", "RESOLVED"}

\* ALLOWED_P2P_TRANSITIONS, as a set of pairs
AllowedTrade ==
    ({"CREATED"} \X {"AWAITING_CRYPTO", "CANCELLED", "EXPIRED"})
    \union ({"AWAITING_CRYPTO"} \X {"CRYPTO_LOCKED", "EXPIRED", "CANCELLED", "DISPUTED"})
    \union ({"CRYPTO_LOCKED"} \X {"AWAITING_FIAT", "CANCELLED", "DISPUTED"})
    \union ({"AWAITING_FIAT"} \X {"FIAT_SENT", "EXPIRED", "CANCELLED", "DISPUTED"})
    \union ({"FIAT_SENT"} \X {"FIAT_CONFIRMED", "CANCELLED", "DISPUTED"})
    \union ({"FIAT_CONFIRMED"} \X {"RELEASED", "DISPUTED"})
    \union ({"DISPUTED"} \X {"RESOLVED", "CANCELLED", "RELEASED"})
    \union ({"RESOLVED"} \X {"RELEASED", "CANCELLED"})

\* validate_trade_transition does not raise: a no-op is always accepted
CanMove(from, to) == from = to \/ <<from, to>> \in AllowedTrade

\* the statuses of an offer's trades that block its owner from changing it
Blocking == {"CREATED", "AWAITING_CRYPTO", "CRYPTO_LOCKED", "AWAITING_FIAT",
             "FIAT_SENT", "FIAT_CONFIRMED", "DISPUTED"}

\* a plausible mistake, used by no action: PROJECT.json names the property that shows it
ExpirableFiat == {"AWAITING_FIAT"}

\* the statuses the expiration worker looks for
Expirable == {"AWAITING_CRYPTO", "AWAITING_FIAT"}

=============================================================================
