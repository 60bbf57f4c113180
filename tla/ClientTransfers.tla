--------------------------- MODULE ClientTransfers ---------------------------
(***************************************************************************)
(* Transfers from the wallet of one client to that of another, and the     *)
(* top-ups clients make themselves.  A handler reads the wallets without a *)
(* lock, waits for the credit line of the payer, which it locks, and       *)
(* writes at its COMMIT the balances it has computed from what it read.    *)
(* Nothing keeps a client from a transfer to himself.                      *)
(*                                                                         *)
(* The limits of a day that two of the handlers look at (users.used_daily) *)
(* and a frozen account are refusals that may come at any time (HangUp).   *)
(***************************************************************************)
EXTENDS ClientBooks

CONSTANTS
    Payers,   \* the sessions
    Senders,  \* the clients who send money
    Sent      \* the amount of a transfer and of a top-up

ASSUME TransfersAssumption == Senders \subseteq Users /\ Sent \in Nat \ {0}

VARIABLE paying   \* what each session is doing

transfersVars == <<paying>>

\* at: payee (the payer's wallet was read), pay (both were), topup
PaymentType == [at : {"payee", "pay", "topup"}, from : Users, to : Users,
                read : Int, got : Int]

Waiting == [at |-> "waiting"]

TransfersTypeOK == paying \in [Payers -> PaymentType \union {Waiting}]

TransfersInit == paying = [t \in Payers |-> Waiting]

Start(t, at, u, v) ==
    /\ Request
    /\ paying[t] = Waiting
    /\ paying' = [paying EXCEPT ![t] =
                    [at |-> at, from |-> u, to |-> v, read |-> wallet[u], got |-> 0]]
    /\ UNCHANGED <<wallet, line, book, clobbered>>

HangUp(t) ==
    /\ paying[t] # Waiting
    /\ paying' = [paying EXCEPT ![t] = Waiting]
    /\ UNCHANGED booksVars

-----------------------------------------------------------------------------
(* Transfers.                                                              *)

OpenTransfer(t, u, v) == Start(t, "payee", u, v)

ReadPayee(t) ==
    /\ paying[t].at = "payee"
    /\ paying' = [paying EXCEPT ![t].at = "pay", ![t].got = wallet[paying[t].to]]
    /\ UNCHANGED booksVars

\* one row when a client pays himself: taken from, then added to
Moved(u, v, read, got) ==
    IF u = v THEN [wallet EXCEPT ![u] = read - Sent + Sent]
             ELSE [wallet EXCEPT ![u] = read - Sent, ![v] = got + Sent]

\* the clients whose balance is not the one that was read
Outdated(u, v, read, got) ==
    {x \in {u, v} : wallet[x] # IF x = u THEN read ELSE got}

\* Variant with a mistake: a client who owes already owes no more.
OwedOnce(read) == IF read < 0 THEN 0 ELSE NewDebt(read, Sent)

\* what the wallet lacks is drawn on the line, which must cover it
Owed(read) == NewDebt(read, Sent)

Pay(t) ==
    LET w == paying[t]
        owed == Owed(w.read)
    IN  /\ w.at = "pay"
        /\ owed <= line[w.from].avail
        /\ wallet' = Moved(w.from, w.to, w.read, w.got)
        /\ line' = [line EXCEPT ![w.from] = Draw(@, owed)]
        /\ book' = IF w.from = w.to THEN book ELSE Posted(w.from, w.to, Sent)
        /\ clobbered' = clobbered \union Outdated(w.from, w.to, w.read, w.got)
        /\ paying' = [paying EXCEPT ![t] = Waiting]
        /\ UNCHANGED ops

-----------------------------------------------------------------------------
(* Top-ups.                                                                *)

OpenTopUp(t, u) == Start(t, "topup", u, u)

\* The line is not repaid.  A top-up by mobile money answers with an error after
\* it has committed.
TopUpWallet(t) ==
    LET w == paying[t] IN
    /\ w.at = "topup"
    /\ wallet' = [wallet EXCEPT ![w.from] = w.read + Sent]
    /\ book' = Posted(Cash, w.from, Sent)
    /\ clobbered' = clobbered \union {x \in {w.from} : wallet[x] # w.read}
    /\ paying' = [paying EXCEPT ![t] = Waiting]
    /\ UNCHANGED <<line, ops>>

-----------------------------------------------------------------------------
TransfersNext ==
    \E t \in Payers :
        \/ ReadPayee(t) \/ Pay(t) \/ TopUpWallet(t) \/ HangUp(t)
        \/ \E u \in Senders : OpenTopUp(t, u)
        \/ \E u \in Senders, v \in Users : OpenTransfer(t, u, v)

-----------------------------------------------------------------------------
(* Properties.                                                             *)

\* A wallet is overdrawn by no more than its owner has drawn on the credit line,
\* whatever has moved it: cash, transfers, products or loans, unless its balance
\* was written from a row that had changed.
OverdraftsAreLent ==
    \A u \in Users \ clobbered : wallet[u] < 0 => -wallet[u] <= line[u].used
=============================================================================
