---------------------------- MODULE CreditFunding ----------------------------
(***************************************************************************)
(* The arithmetic by which a client pays: from the wallet, which may go    *)
(* negative, and from a credit line.  A line is [limit, used, avail]       *)
(* (initial_amount, used_amount, outstanding_amount of credit_lines).      *)
(* A client is taken to have one active line; a line with limit 0 stands   *)
(* for a client the desk has granted nothing yet.                          *)
(***************************************************************************)
EXTENDS Integers

Pos(n) == IF n > 0 THEN n ELSE 0

Least(a, b) == IF a < b THEN a ELSE b

LineType == [limit : Nat, used : Nat, avail : Nat]

-----------------------------------------------------------------------------
(* What a payment takes.                                                   *)

\* what a client can pay without a review
Capacity(wallet, avail) == IF wallet < 0 THEN avail ELSE wallet + avail

\* a BIF wallet is not touched: the credit line pays what it can
CreditOnly(avail, total) == [debit |-> 0, credit |-> Least(avail, total)]

\* the debt a payment adds to a wallet
NewDebt(wallet, total) == Pos(total - wallet) - Pos(-wallet)

\* any other wallet pays everything, and the credit used mirrors the new debt
Mirrored(wallet, avail, total) ==
    [debit |-> total, credit |-> Least(avail, NewDebt(wallet, total))]

Funding(wallet, avail, total, bif) ==
    IF bif THEN CreditOnly(avail, total) ELSE Mirrored(wallet, avail, total)

-----------------------------------------------------------------------------
(* What happens to the line.                                               *)

Draw(line, n) ==
    [limit |-> line.limit, used |-> line.used + n, avail |-> Pos(line.avail - n)]

TopUp(line, n) ==
    [limit |-> line.limit + n, used |-> line.used, avail |-> line.avail + n]

\* Variant with a mistake: a refund that may exceed the limit.
GiveBackUnclipped(line, n) ==
    [limit |-> line.limit, used |-> Pos(line.used - n), avail |-> line.avail + n]

\* the provider failed: the credit comes back, at most up to the limit
GiveBack(line, n) ==
    [limit |-> line.limit, used |-> Pos(line.used - n),
     avail |-> IF line.limit > 0 THEN Least(line.limit, line.avail + n)
                                 ELSE line.avail + n]

\* a cash deposit repays credit first
Recovered(line, deposit) == Least(deposit, line.used)

\* Variant with a mistake: the repayment frees credit and leaves the debt.
RecoverAvailOnly(line, deposit) ==
    [limit |-> line.limit, used |-> line.used,
     avail |-> line.avail + Recovered(line, deposit)]

Recover(line, deposit) ==
    [limit |-> line.limit, used |-> line.used - Recovered(line, deposit),
     avail |-> line.avail + Recovered(line, deposit)]
=============================================================================
