----------------------------- MODULE ClientBooks -----------------------------
(***************************************************************************)
(* What the cash desk and the client products share: the wallet of each    *)
(* client, the credit line, and the ledger, here the balance of one        *)
(* account for each wallet, for each product, and for cash.  A handler     *)
(* posts its journal with LedgerService, in the transaction that moves the *)
(* money, so wallet and ledger change in one COMMIT; they part only where  *)
(* a balance is written that was read before another session changed it.   *)
(* A client has one wallet, and all amounts are in its currency.           *)
(***************************************************************************)
EXTENDS CreditFunding, FiniteSets

CONSTANTS
    Users,
    Products,   \* savings goals, pots, sub-wallets and cards
    Cash,       \* the desk's accounts of cash received and paid out
    Start0,     \* [Users -> Nat], the wallets
    Limit0,     \* [Users -> Nat], the credit lines
    MaxOps      \* bound on the requests of clients, agents and administrators

Accounts == Users \union Products \union {Cash}

ASSUME BooksAssumption ==
    /\ Start0 \in [Users -> Nat] /\ Limit0 \in [Users -> Nat]
    /\ Users \intersect Products = {}
    /\ Cash \notin Users \union Products
    /\ MaxOps \in Nat

VARIABLES
    wallet,     \* wallets.available
    line,       \* credit_lines
    book,       \* ledger: credits less debits of each account
    clobbered,  \* history: the clients and products whose balance was written
                \* from a row that had changed since it was read
    ops         \* the requests made so far

booksVars == <<wallet, line, book, clobbered, ops>>

BooksTypeOK ==
    /\ wallet \in [Users -> Int]
    /\ line \in [Users -> LineType]
    /\ book \in [Accounts -> Int]
    /\ clobbered \subseteq Users \union Products
    /\ ops \in Nat

BooksInit ==
    /\ wallet = Start0
    /\ line = [u \in Users |-> [limit |-> Limit0[u], used |-> 0, avail |-> Limit0[u]]]
    /\ book = [a \in Accounts |-> 0]
    /\ clobbered = {}
    /\ ops = 0

Request == ops < MaxOps /\ ops' = ops + 1

\* a balanced journal of two lines
Posted(from, to, n) == [book EXCEPT ![from] = @ - n, ![to] = @ + n]

\* a wallet locked and read in this transaction pays into a product
PayInto(u, a, n) ==
    /\ wallet[u] >= n
    /\ wallet' = [wallet EXCEPT ![u] = @ - n]
    /\ book' = Posted(u, a, n)
    /\ UNCHANGED line

\* a product pays back into a wallet locked and read in this transaction
PayBack(a, u, n) ==
    /\ wallet' = [wallet EXCEPT ![u] = @ + n]
    /\ book' = Posted(a, u, n)
    /\ UNCHANGED line
=============================================================================
