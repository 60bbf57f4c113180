----------------------------- MODULE ClientMoney -----------------------------
(***************************************************************************)
(* The cash desk, the client products, transfers between clients and loans *)
(* over the same wallets, credit lines and ledger.                         *)
(***************************************************************************)
EXTENDS CashDesk, ClientProducts, ClientTransfers, ClientLoans

CONSTANT Existing   \* the sets of products and loans there may be at the start

ASSUME ExistingAssumption == Existing \subseteq SUBSET (Products \union Loans)

vars == <<booksVars, deskVars, productsVars, transfersVars, loansVars>>

Init ==
    /\ BooksInit /\ DeskInit /\ TransfersInit
    /\ \E S \in Existing : ProductsInit(S) /\ LoansInit(S)

Next ==
    \/ DeskNext /\ UNCHANGED <<productsVars, transfersVars, loansVars>>
    \/ ProductsNext /\ UNCHANGED <<deskVars, transfersVars, loansVars>>
    \/ TransfersNext /\ UNCHANGED <<deskVars, productsVars, loansVars>>
    \/ LoansNext /\ UNCHANGED <<deskVars, productsVars, transfersVars>>

Spec == Init /\ [][Next]_vars

\* the worker comes back every few seconds, and its round goes on
Fairness ==
    /\ WF_vars(\E g \in Goals :
                  WorkerRound(g) /\ UNCHANGED <<deskVars, transfersVars, loansVars>>)
    /\ WF_vars(EndRound(Worker) /\ UNCHANGED <<deskVars, transfersVars, loansVars>>)

FairSpec == Spec /\ Fairness

TypeOK ==
    BooksTypeOK /\ DeskTypeOK /\ ProductsTypeOK /\ TransfersTypeOK /\ LoansTypeOK

-----------------------------------------------------------------------------
(* Properties.                                                             *)

\* A wallet is what it was at the start and what its account and its loans have
\* brought, except for the wallets somebody wrote from a balance that had changed.
WalletsMatch ==
    \A u \in Users \ clobbered : wallet[u] = Start0[u] + book[u] + lent[u]

\* A product holds what its account holds, with the same exception.
ProductsMatch ==
    /\ \A g \in Goals \ clobbered : goal[g].amount = book[g]
    /\ \A p \in Pots : pot[p].amount = book[p]
    /\ \A s \in SubWallets : sub[s].amount = book[s]
    /\ \A k \in Cards : card[k].spent = book[k]

\* The books say what the balances say: those of wallets and products in the
\* ledger, and those of loans in their installments.
BooksMatch == WalletsMatch /\ ProductsMatch /\ LoansMatch
=============================================================================
