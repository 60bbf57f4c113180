-------------------------- MODULE ClientMoneyProofs --------------------------
(***************************************************************************)
(* Theorems about ClientMoney: the types, the rows of the cash desk and of *)
(* the agents' queue, the agreement of books, balances and installments,   *)
(* and the overdrafts.  The inductive invariant adds what sessions know    *)
(* while they work: at the desk, the status a row had when it was read; of *)
(* a loan, the statuses with which a handler may have passed its check.    *)
(***************************************************************************)
EXTENDS ClientMoney, SequenceTheorems, FiniteSetTheorems, TLAPS

\* what a session has read
Knows(w) ==
    /\ w.at = "reject" => w.row \in Rows /\ w.was = "pending"
    /\ w.at = "cancel" => w.row \in Rows /\ w.was \in {"queued", "syncing"}
    /\ w.at = "retry"  => w.row \in Rows /\ w.was = "queued"
    /\ w.at \in {"usage", "sync"} => w.row \in Rows /\ w.was = "syncing"
    /\ w.at = "guard" => w.read \in Nat /\ (w.row # None => w.was = "syncing")

Sessions == \A c \in Desks : Knows(desk[c])

\* a product that does not exist holds nothing, and no batch has read it
Made ==
    /\ \A g \in Goals : goal[g].status = "none" => goal[g].amount = 0
    /\ \A p \in Pots : pot[p].status = "none" => pot[p].amount = 0
    /\ \A s \in SubWallets : sub[s].status = "none" => sub[s].amount = 0
    /\ \A k \in Cards : card[k].status = "none" => card[k].spent = 0
    /\ \A w \in Batches, g \in Goals : held[w][g] # Nothing => goal[g].status # "none"

CoreTypes ==
    BooksTypeOK /\ DeskTypeOK /\ ProductsTypeOK /\ lent \in [Users -> Int]

\* the desk and the products, and the wallets that all share
Core == CoreTypes /\ Sessions /\ RowsMatchMoney /\ WalletsMatch /\ ProductsMatch /\ Made

-----------------------------------------------------------------------------
(* Money.                                                                  *)

LEMMA AccountKinds ==
    /\ Goals \subseteq Products /\ Pots \subseteq Products
    /\ SubWallets \subseteq Products /\ Cards \subseteq Products
    /\ Users \subseteq Accounts /\ Products \subseteq Accounts /\ Cash \in Accounts
    /\ \A u \in Users, a \in Products : u # a
    /\ \A a \in Users \union Products : a # Cash
BY BooksAssumption, ProductsAssumption DEF Accounts

LEMMA LineKept ==
    ASSUME NEW l \in LineType, NEW n \in Nat
    PROVE  Recover(l, n) \in LineType /\ Draw(l, Least(n, l.avail)) \in LineType
BY DEF LineType, Recover, Recovered, Draw, Least, Pos

LEMMA PayIntoBooks ==
    ASSUME BooksTypeOK, WalletsMatch, lent \in [Users -> Int], NEW u \in Users, NEW a \in Products,
           NEW n \in Nat, PayInto(u, a, n)
    PROVE  /\ wallet' \in [Users -> Int] /\ line' = line
           /\ book' \in [Accounts -> Int]
           /\ \A b \in Products : book'[b] = IF b = a THEN book[b] + n ELSE book[b]
           /\ \A v \in Users \ clobbered : wallet'[v] = Start0[v] + book'[v] + lent[v]
<1>1. book' = [book EXCEPT ![u] = @ - n, ![a] = @ + n] /\ line' = line
      /\ wallet' = [wallet EXCEPT ![u] = @ - n]
  BY DEF PayInto, Posted
<1>2. wallet \in [Users -> Int] /\ book \in [Accounts -> Int]
  BY DEF BooksTypeOK
<1>3. u # a /\ u \in Accounts /\ a \in Accounts /\ a \notin Users /\ u \notin Products
      /\ Users \subseteq Accounts /\ Products \subseteq Accounts
  BY AccountKinds
<1>4. \A v \in Users : Start0[v] \in Int
  BY BooksAssumption
<1> QED BY <1>1, <1>2, <1>3, <1>4 DEF WalletsMatch

LEMMA PayBackBooks ==
    ASSUME BooksTypeOK, WalletsMatch, lent \in [Users -> Int], NEW u \in Users, NEW a \in Products,
           NEW n \in Nat, PayBack(a, u, n)
    PROVE  /\ wallet' \in [Users -> Int] /\ line' = line
           /\ book' \in [Accounts -> Int]
           /\ \A b \in Products : book'[b] = IF b = a THEN book[b] - n ELSE book[b]
           /\ \A v \in Users \ clobbered : wallet'[v] = Start0[v] + book'[v] + lent[v]
<1>1. book' = [book EXCEPT ![a] = @ - n, ![u] = @ + n] /\ line' = line
      /\ wallet' = [wallet EXCEPT ![u] = @ + n]
  BY DEF PayBack, Posted
<1>2. wallet \in [Users -> Int] /\ book \in [Accounts -> Int]
  BY DEF BooksTypeOK
<1>3. u # a /\ u \in Accounts /\ a \in Accounts /\ a \notin Users /\ u \notin Products
      /\ Users \subseteq Accounts /\ Products \subseteq Accounts
  BY AccountKinds
<1>4. \A v \in Users : Start0[v] \in Int
  BY BooksAssumption
<1> QED BY <1>1, <1>2, <1>3, <1>4 DEF WalletsMatch

\* The desk moves money between cash and a wallet, and says so when it computed
\* the wallet from a balance that had changed.
LEMMA TransferBooks ==
    ASSUME BooksTypeOK, WalletsMatch, lent \in [Users -> Int], NEW u \in Users, NEW k \in Kinds,
           NEW read \in Int, Transfer(u, k, read), ops' = ops, lent' = lent
    PROVE  /\ BooksTypeOK' /\ WalletsMatch'
           /\ clobbered \subseteq clobbered'
           /\ \A b \in Products : book'[b] = book[b]
<1>0. PICK n \in Nat :
         /\ \/ /\ wallet' = [wallet EXCEPT ![u] = read + n]
               /\ book' = [book EXCEPT ![Cash] = @ - n, ![u] = @ + n]
               /\ line' = [line EXCEPT ![u] = Recover(@, n)]
            \/ /\ wallet' = [wallet EXCEPT ![u] = read - n]
               /\ book' = [book EXCEPT ![u] = @ - n, ![Cash] = @ + n]
               /\ line' = [line EXCEPT ![u] = Draw(@, Least(n, line[u].avail))]
            \/ /\ wallet' = [wallet EXCEPT ![u] = read - n]
               /\ book' = [book EXCEPT ![u] = @ - n, ![Cash] = @ + n]
               /\ line' = line
  <2>1. In \in Nat /\ Out \in Nat
    BY DeskAssumption
  <2>2. CASE k = "deposit" /\ Deposit(u, read, In)
    BY <2>1, <2>2 DEF Deposit, Deposited, Posted
  <2>3. CASE k = "withdraw" /\ Withdraw(u, read, Out)
    BY <2>1, <2>3 DEF Withdraw, Posted
  <2>4. CASE k = "cash_out" /\ CashOut(u, read, Out)
    BY <2>1, <2>4 DEF CashOut, Posted
  <2> QED BY <2>2, <2>3, <2>4 DEF Transfer
<1>1. /\ wallet \in [Users -> Int] /\ line \in [Users -> LineType]
      /\ book \in [Accounts -> Int] /\ clobbered \subseteq Users \union Products
      /\ ops \in Nat
  BY DEF BooksTypeOK
<1>2. /\ u \in Accounts /\ Cash \in Accounts /\ Cash # u /\ Cash \notin Users
      /\ Cash \notin Products /\ u \notin Products /\ Users \subseteq Accounts
      /\ Products \subseteq Accounts
  BY AccountKinds
<1>3. clobbered' = IF read = wallet[u] THEN clobbered ELSE clobbered \union {u}
  BY DEF Transfer
<1>4. line' \in [Users -> LineType]
  <2>1. line[u] \in LineType
    BY <1>1
  <2>2. Recover(line[u], n) \in LineType /\ Draw(line[u], Least(n, line[u].avail)) \in LineType
    BY <2>1, LineKept
  <2> QED BY <1>0, <1>1, <2>2
<1>5. wallet' \in [Users -> Int] /\ book' \in [Accounts -> Int]
  BY <1>0, <1>1, <1>2
<1>6. BooksTypeOK'
  BY <1>1, <1>3, <1>4, <1>5 DEF BooksTypeOK
<1>7. WalletsMatch'
  <2> SUFFICES ASSUME NEW v \in Users, v \notin clobbered'
               PROVE  wallet'[v] = Start0[v] + book'[v] + lent[v]
    BY DEF WalletsMatch
  <2>1. v \notin clobbered /\ wallet[v] = Start0[v] + book[v] + lent[v] /\ Start0[v] \in Int
    BY <1>3, BooksAssumption DEF WalletsMatch
  <2>2. CASE v = u
    <3>1. read = wallet[u]
      BY <1>3, <2>2
    <3> QED BY <1>0, <1>1, <1>2, <2>1, <2>2, <3>1
  <2>3. CASE v # u
    BY <1>0, <1>1, <1>2, <2>1, <2>3
  <2> QED BY <2>2, <2>3
<1>8. \A b \in Products : book'[b] = book[b]
  BY <1>0, <1>1, <1>2
<1> QED BY <1>3, <1>6, <1>7, <1>8

-----------------------------------------------------------------------------
(* Sessions and rows of the desk.                                          *)

DeskInv == DeskTypeOK /\ Sessions /\ RowsMatchMoney

LEMMA Busy ==
    ASSUME DeskInv, NEW c \in Desks, desk[c].at # "idle"
    PROVE  desk[c] \in WorkType /\ Knows(desk[c])
BY DEF DeskInv, DeskTypeOK, Sessions, Idle

LEMMA WorkSet ==
    ASSUME NEW c \in Desks, NEW w \in WorkType \union {Idle}, Knows(w) \/ w = Idle,
           DeskInv, desk' = [desk EXCEPT ![c] = w]
    PROVE  desk' \in [Desks -> WorkType \union {Idle}] /\ Sessions'
<1>1. Knows(w)
  BY DEF Knows, Idle
<1>2. desk \in [Desks -> WorkType \union {Idle}] /\ \A d \in Desks : Knows(desk[d])
  BY DEF DeskInv, DeskTypeOK, Sessions
<1>3. desk' \in [Desks -> WorkType \union {Idle}]
  BY <1>2
<1>4. \A d \in Desks : Knows(desk'[d])
  BY <1>1, <1>2
<1> QED BY <1>3, <1>4 DEF Sessions, Knows

\* A session that only changes what it does keeps the invariant.
LEMMA WorkOnly ==
    ASSUME NEW c \in Desks, NEW w \in WorkType \union {Idle}, Knows(w) \/ w = Idle,
           DeskInv, desk' = [desk EXCEPT ![c] = w],
           UNCHANGED <<rows, usage, granted, moved, raced>>
    PROVE  DeskInv'
<1>1. desk' \in [Desks -> WorkType \union {Idle}] /\ Sessions'
  BY WorkSet
<1>2. DeskTypeOK'
  BY <1>1 DEF DeskInv, DeskTypeOK
<1>3. RowsMatchMoney'
  BY DEF DeskInv, RowsMatchMoney
<1> QED BY <1>1, <1>2, <1>3 DEF DeskInv

\* A row is given a status that agrees with what it has moved.
LEMMA StatusSet ==
    ASSUME DeskInv, NEW r \in Rows, NEW was \in Statuses, NEW status \in Statuses,
           SetStatus(r, was, status),
           \/ /\ was \in {"pending", "queued", "syncing"}
              /\ status \in {"rejected", "syncing", "cancelled"}
              /\ moved' = moved
           \/ /\ status = "approved" \/ (status = "synced" /\ was = "syncing")
              /\ moved' = [moved EXCEPT ![r] = @ + 1]
    PROVE  /\ rows' \in [Rows -> RowType] /\ moved' \in [Rows -> Nat]
           /\ raced' \subseteq Rows /\ RowsMatchMoney'
<1>1. rows \in [Rows -> RowType] /\ moved \in [Rows -> Nat] /\ raced \subseteq Rows
  BY DEF DeskInv, DeskTypeOK
<1>2. rows' = [rows EXCEPT ![r].status = IF status = was THEN rows[r].status ELSE status]
  BY <1>1 DEF SetStatus
<1>3. raced' = IF rows[r].status = was THEN raced ELSE raced \union {r}
  BY DEF SetStatus
<1>4. rows' \in [Rows -> RowType]
  BY <1>1, <1>2 DEF RowType
<1>5. moved' \in [Rows -> Nat] /\ raced' \subseteq Rows
  BY <1>1, <1>3
<1>6. RowsMatchMoney'
  <2> SUFFICES ASSUME NEW q \in Rows, q \notin raced'
               PROVE  /\ rows'[q].status \in {"none", "pending", "rejected", "queued",
                                              "syncing", "cancelled"} => moved'[q] = 0
                      /\ rows'[q].status = "approved" => moved'[q] > 0
                      /\ rows'[q].status = "synced" => moved'[q] = 1
    BY DEF RowsMatchMoney
  <2>1. /\ rows[q].status \in {"none", "pending", "rejected", "queued", "syncing",
                               "cancelled"} => moved[q] = 0
        /\ rows[q].status = "approved" => moved[q] > 0
        /\ rows[q].status = "synced" => moved[q] = 1
    BY <1>3 DEF DeskInv, RowsMatchMoney
  <2>2. CASE q # r
    <3>1. rows'[q] = rows[q] /\ moved'[q] = moved[q]
      BY <1>1, <1>2, <2>2
    <3> QED BY <2>1, <3>1
  <2>3. CASE q = r
    <3>1. rows[r].status = was
      BY <1>3, <2>3
    <3>2. rows'[r].status = status
      BY <1>1, <1>2, <3>1 DEF RowType
    <3> QED BY <1>1, <2>1, <2>3, <3>1, <3>2
  <2> QED BY <2>2, <2>3
<1> QED BY <1>4, <1>5, <1>6

LEMMA WorkTyped ==
    ASSUME NEW at \in {"reject", "cancel", "retry", "usage", "guard", "wallet",
                       "money", "sync"},
           NEW u \in Users, NEW k \in Kinds, NEW r \in Rows \union {None},
           NEW was \in Statuses, NEW read \in Int
    PROVE  Work(at, u, k, r, was, read) \in WorkType
BY DEF Work, WorkType

LEMMA RowTyped ==
    ASSUME DeskInv, NEW r \in Rows
    PROVE  /\ ClientOf[r] \in Users
           /\ rows[r].kind \in Kinds /\ rows[r].status \in Statuses
<1>1. rows[r] \in RowType
  BY DEF DeskInv, DeskTypeOK
<1> QED BY <1>1, DeskAssumption DEF RowType

\* A row that was not there before has moved nothing.
LEMMA RowMade ==
    ASSUME DeskInv, NEW r \in Rows, rows[r].status = "none",
           NEW w \in RowType, w.status \in {"pending", "queued"},
           rows' = [rows EXCEPT ![r] = w],
           UNCHANGED <<desk, usage, granted, moved, raced>>
    PROVE  DeskInv'
<1>1. rows \in [Rows -> RowType] /\ moved \in [Rows -> Nat]
  BY DEF DeskInv, DeskTypeOK
<1>2. DeskTypeOK'
  BY <1>1 DEF DeskInv, DeskTypeOK
<1>3. Sessions'
  BY DEF DeskInv, Sessions, Knows
<1>4. RowsMatchMoney'
  <2> SUFFICES ASSUME NEW q \in Rows, q \notin raced
               PROVE  /\ rows'[q].status \in {"none", "pending", "rejected", "queued",
                                              "syncing", "cancelled"} => moved[q] = 0
                      /\ rows'[q].status = "approved" => moved[q] > 0
                      /\ rows'[q].status = "synced" => moved[q] = 1
    BY DEF RowsMatchMoney
  <2>1. CASE q # r
    <3>1. rows'[q] = rows[q]
      BY <1>1, <2>1
    <3> QED BY <3>1 DEF DeskInv, RowsMatchMoney
  <2>2. CASE q = r
    <3>1. rows'[q] = w /\ moved[q] = 0
      BY <1>1, <2>2 DEF DeskInv, RowsMatchMoney
    <3> QED BY <3>1
  <2> QED BY <2>1, <2>2
<1> QED BY <1>2, <1>3, <1>4 DEF DeskInv

LEMMA RequestCashKeeps ==
    ASSUME DeskInv, NEW r \in Requests, NEW k \in {"deposit", "withdraw"},
           RequestCash(r, k)
    PROVE  DeskInv'
<1>1. Row("pending", k, 0) \in RowType /\ Row("pending", k, 0).status = "pending"
  BY DEF Row, RowType, Statuses, Kinds
<1> QED BY <1>1, RowMade DEF RequestCash, Limits, Rows

LEMMA QueueItemKeeps ==
    ASSUME DeskInv, BooksTypeOK, NEW i \in Items, NEW k \in {"deposit", "cash_out"},
           QueueItem(i, k)
    PROVE  DeskInv'
<1>1. wallet[ClientOf[i]] \in Int
  BY DeskAssumption DEF BooksTypeOK, Rows
<1>2. /\ Row("queued", k, wallet[ClientOf[i]]) \in RowType
      /\ Row("queued", k, wallet[ClientOf[i]]).status = "queued"
  BY <1>1 DEF Row, RowType, Statuses, Kinds
<1> QED BY <1>2, RowMade DEF QueueItem, Limits, Rows

LEMMA OpenApprovalKeeps ==
    ASSUME DeskInv, NEW c \in Desks, NEW r \in Requests, OpenApproval(c, r)
    PROVE  DeskInv'
<1> DEFINE w == Work("wallet", ClientOf[r], rows[r].kind, r, rows[r].status, 0)
<1>1. w \in WorkType
  BY RowTyped, WorkTyped DEF Rows
<1>2. Knows(w)
  BY DEF Knows, Work
<1> QED BY <1>1, <1>2, WorkOnly DEF OpenApproval, Begin, Limits

LEMMA OpenRejectionKeeps ==
    ASSUME DeskInv, NEW c \in Desks, NEW r \in Requests, OpenRejection(c, r)
    PROVE  DeskInv'
<1> DEFINE w == Work("reject", ClientOf[r], rows[r].kind, r, rows[r].status, 0)
<1>1. w \in WorkType
  BY RowTyped, WorkTyped DEF Rows
<1>2. Knows(w)
  BY DEF Knows, Work, OpenRejection, Decision, Rows
<1> QED BY <1>1, <1>2, WorkOnly DEF OpenRejection, Begin, Limits

LEMMA HandOverKeeps ==
    ASSUME DeskInv, BooksTypeOK, NEW c \in Desks, NEW u \in Users, NEW k \in Kinds,
           HandOver(c, u, k)
    PROVE  DeskInv'
<1> DEFINE w == Work("money", u, k, None, "none", wallet[u])
<1>1. wallet[u] \in Int
  BY DEF BooksTypeOK
<1>2. w \in WorkType
  BY <1>1, WorkTyped DEF Statuses
<1>3. Knows(w)
  BY DEF Knows, Work
<1> QED BY <1>2, <1>3, WorkOnly DEF HandOver, Begin, Limits

LEMMA AgentCashKeeps ==
    ASSUME DeskInv, NEW c \in Desks, NEW u \in Users, NEW k \in Kinds, AgentCash(c, u, k)
    PROVE  DeskInv'
<1> DEFINE w == Work("guard", u, k, None, "none", Len(usage[u]))
<1>1. usage[u] \in Seq(Nat)
  BY DEF DeskInv, DeskTypeOK
<1>2. Len(usage[u]) \in Nat
  BY <1>1, LenProperties
<1>3. w \in WorkType
  BY <1>2, WorkTyped DEF Statuses
<1>4. Knows(w)
  BY <1>2 DEF Knows, Work
<1> QED BY <1>3, <1>4, WorkOnly DEF AgentCash, Begin, Limits

LEMMA OpenItemKeeps ==
    ASSUME DeskInv, NEW c \in Desks, NEW i \in Items,
           OpenRetry(c, i) \/ OpenCancel(c, i)
    PROVE  DeskInv'
<1>1. i \in Rows /\ ClientOf[i] \in Users /\ rows[i].kind \in Kinds
      /\ rows[i].status \in Statuses
  BY RowTyped DEF Rows
<1>2. CASE OpenRetry(c, i)
  <2> DEFINE w == Work("retry", ClientOf[i], rows[i].kind, i, "queued", 0)
  <2>1. w \in WorkType
    BY <1>1, WorkTyped DEF Statuses
  <2>2. Knows(w)
    BY <1>1 DEF Knows, Work
  <2> QED BY <1>2, <2>1, <2>2, WorkOnly DEF OpenRetry, Begin, Limits
<1>3. CASE OpenCancel(c, i)
  <2> DEFINE w == Work("cancel", ClientOf[i], rows[i].kind, i, rows[i].status, 0)
  <2>1. w \in WorkType
    BY <1>1, WorkTyped
  <2>2. Knows(w)
    BY <1>1, <1>3 DEF Knows, Work, OpenCancel
  <2> QED BY <1>3, <2>1, <2>2, WorkOnly DEF OpenCancel, Begin, Limits
<1> QED BY <1>2, <1>3

LEMMA TakeItemKeeps ==
    ASSUME DeskInv, NEW c \in Desks, NEW i \in Items, NEW force \in BOOLEAN,
           TakeItem(c, i, force)
    PROVE  DeskInv'
<1> DEFINE w == Work("usage", ClientOf[i], rows[i].kind, i, "syncing", 0)
<1>1. i \in Rows /\ ClientOf[i] \in Users /\ rows[i].kind \in Kinds
  BY RowTyped DEF Rows
<1>2. w \in WorkType
  BY <1>1, WorkTyped DEF Statuses
<1>3. Knows(w)
  BY <1>1 DEF Knows, Work
<1>4. desk' \in [Desks -> WorkType \union {Idle}] /\ Sessions'
  BY <1>2, <1>3, WorkSet DEF TakeItem, Begin
<1>5. /\ rows' \in [Rows -> RowType] /\ moved' \in [Rows -> Nat]
      /\ raced' \subseteq Rows /\ RowsMatchMoney'
  <2>1. SetStatus(i, "queued", "syncing") /\ moved' = moved
    BY DEF TakeItem
  <2>2. "queued" \in Statuses /\ "syncing" \in Statuses
    BY DEF Statuses
  <2> QED BY <1>1, <2>1, <2>2, StatusSet
<1> QED BY <1>4, <1>5 DEF TakeItem, Limits, DeskInv, DeskTypeOK

LEMMA RejectKeeps ==
    ASSUME DeskInv, NEW c \in Desks, Reject(c) \/ CancelItem(c)
    PROVE  DeskInv'
<1>1. desk[c].at # "idle" /\ desk[c].at \in {"reject", "cancel"}
  BY DEF Reject, CancelItem, At
<1>2. desk[c].row \in Rows /\ desk[c].was \in {"pending", "queued", "syncing"}
  BY <1>1, Busy DEF Knows
<1>3. /\ \E status \in {"rejected", "cancelled"} :
            SetStatus(desk[c].row, desk[c].was, status)
      /\ desk' = [desk EXCEPT ![c] = Idle] /\ moved' = moved
      /\ UNCHANGED <<usage, granted>>
  BY DEF Reject, CancelItem, Done, Limits
<1>4. desk' \in [Desks -> WorkType \union {Idle}] /\ Sessions'
  BY <1>3, WorkSet
<1>5. /\ rows' \in [Rows -> RowType] /\ moved' \in [Rows -> Nat]
      /\ raced' \subseteq Rows /\ RowsMatchMoney'
  <2>1. {"pending", "queued", "syncing", "rejected", "cancelled"} \subseteq Statuses
    BY DEF Statuses
  <2> QED BY <1>2, <1>3, <2>1, StatusSet
<1> QED BY <1>3, <1>4, <1>5 DEF DeskInv, DeskTypeOK

LEMMA LookUpUsageKeeps ==
    ASSUME DeskInv, NEW c \in Desks, LookUpUsage(c)
    PROVE  DeskInv'
<1>1. desk[c].at = "usage"
  BY DEF LookUpUsage, At
<1>2. desk[c] \in WorkType /\ desk[c].was = "syncing" /\ desk[c].user \in Users
  BY <1>1, Busy DEF Knows, WorkType
<1>3. PICK n \in Int : n = Len(usage[desk[c].user]) /\ n \in Nat
  BY <1>2, LenProperties DEF DeskInv, DeskTypeOK
<1> DEFINE w == [desk[c] EXCEPT !.at = "guard", !.read = n]
<1>4. w \in WorkType /\ Knows(w)
  <2>1. w \in WorkType
    BY <1>2 DEF WorkType
  <2>2. w.at = "guard" /\ w.was = "syncing" /\ w.read = n
    BY <1>2 DEF WorkType
  <2> HIDE DEF w
  <2> QED BY <1>3, <2>1, <2>2 DEF Knows
<1>5. desk' = [desk EXCEPT ![c] = w]
  BY <1>2, <1>3 DEF LookUpUsage, DeskInv, DeskTypeOK
<1> QED BY <1>4, <1>5, WorkOnly DEF LookUpUsage, Limits

LEMMA ReadWalletKeeps ==
    ASSUME DeskInv, BooksTypeOK, NEW c \in Desks, ReadWallet(c)
    PROVE  DeskInv'
<1>1. desk[c].at = "wallet"
  BY DEF ReadWallet, At
<1>2. desk[c] \in WorkType /\ desk[c].user \in Users
  BY <1>1, Busy DEF WorkType
<1>3. wallet[desk[c].user] \in Int
  BY <1>2 DEF BooksTypeOK
<1> DEFINE w == [desk[c] EXCEPT !.at = "money", !.read = wallet[desk[c].user]]
<1>4. w \in WorkType /\ Knows(w)
  BY <1>2, <1>3 DEF WorkType, Knows
<1>5. desk' = [desk EXCEPT ![c] = w]
  BY <1>2 DEF ReadWallet, DeskInv, DeskTypeOK
<1> QED BY <1>4, <1>5, WorkOnly DEF ReadWallet, Limits

LEMMA RetryKeeps ==
    ASSUME DeskInv, NEW c \in Desks, NEW force \in BOOLEAN, Retry(c, force)
    PROVE  DeskInv'
<1>1. desk[c].at = "retry"
  BY DEF Retry, At
<1>2. desk[c] \in WorkType /\ desk[c].row \in Rows /\ desk[c].was = "queued"
  BY <1>1, Busy DEF Knows
<1> DEFINE w == [desk[c] EXCEPT !.at = "usage", !.was = "syncing"]
<1>3. w \in WorkType /\ Knows(w)
  BY <1>2 DEF WorkType, Knows, Statuses
<1>4. desk' = [desk EXCEPT ![c] = w]
  BY <1>2 DEF Retry, DeskInv, DeskTypeOK
<1>5. desk' \in [Desks -> WorkType \union {Idle}] /\ Sessions'
  BY <1>3, <1>4, WorkSet
<1>6. /\ rows' \in [Rows -> RowType] /\ moved' \in [Rows -> Nat]
      /\ raced' \subseteq Rows /\ RowsMatchMoney'
  <2>1. SetStatus(desk[c].row, "queued", "syncing") /\ moved' = moved
    BY <1>2 DEF Retry
  <2>2. "queued" \in Statuses /\ "syncing" \in Statuses
    BY DEF Statuses
  <2> QED BY <1>2, <2>1, <2>2, StatusSet
<1> QED BY <1>5, <1>6 DEF Retry, Limits, DeskInv, DeskTypeOK

LEMMA StopKeeps ==
    ASSUME DeskInv, NEW c \in Desks, Stop(c)
    PROVE  DeskInv'
BY WorkOnly DEF Stop, Done, Limits

LEMMA HandlerCommitsKeeps ==
    ASSUME DeskInv, NEW c \in Desks, HandlerCommits(c)
    PROVE  DeskInv' /\ desk[c] \in WorkType /\ ops' = ops
           /\ Transfer(desk[c].user, desk[c].kind, desk[c].read)
<1>1. desk[c].at = "money"
  BY DEF HandlerCommits, At
<1>2. /\ desk[c] \in WorkType /\ desk[c].was \in Statuses
      /\ desk[c].row \in Rows \union {None}
  BY <1>1, Busy DEF WorkType
<1>3. desk' = [desk EXCEPT ![c] = Idle] /\ UNCHANGED <<usage, granted, ops>>
      /\ Transfer(desk[c].user, desk[c].kind, desk[c].read)
  BY DEF HandlerCommits, Done, Limits
<1>4. CASE desk[c].row = None
  <2>1. UNCHANGED <<rows, moved, raced>>
    BY <1>4 DEF HandlerCommits
  <2>2. DeskInv'
    BY <1>3, <2>1, WorkOnly
  <2> QED BY <1>2, <1>3, <2>2
<1>5. CASE desk[c].row # None
  <2>1. desk[c].row \in Rows
    BY <1>2, <1>5
  <2>2. /\ SetStatus(desk[c].row, desk[c].was, "approved")
        /\ moved' = [moved EXCEPT ![desk[c].row] = @ + 1]
    BY <1>5 DEF HandlerCommits
  <2>3. "approved" \in Statuses
    BY DEF Statuses
  <2>4. /\ rows' \in [Rows -> RowType] /\ moved' \in [Rows -> Nat]
        /\ raced' \subseteq Rows /\ RowsMatchMoney'
    BY <1>2, <2>1, <2>2, <2>3, StatusSet
  <2>5. desk' \in [Desks -> WorkType \union {Idle}] /\ Sessions'
    BY <1>3, WorkSet
  <2>6. DeskInv'
    BY <1>3, <2>4, <2>5 DEF DeskInv, DeskTypeOK
  <2> QED BY <1>2, <1>3, <2>6
<1> QED BY <1>4, <1>5

LEMMA SyncItemKeeps ==
    ASSUME DeskInv, NEW c \in Desks, SyncItem(c)
    PROVE  DeskInv' /\ desk[c] \in WorkType /\ ops' = ops
           /\ Transfer(desk[c].user, desk[c].kind, wallet[desk[c].user])
<1>1. desk[c].at = "sync"
  BY DEF SyncItem, At
<1>2. desk[c] \in WorkType /\ desk[c].row \in Rows /\ desk[c].was = "syncing"
  BY <1>1, Busy DEF Knows
<1>3. desk' = [desk EXCEPT ![c] = Idle] /\ UNCHANGED <<usage, granted, ops>>
      /\ Transfer(desk[c].user, desk[c].kind, wallet[desk[c].user])
  BY DEF SyncItem, Done, Limits
<1>4. /\ SetStatus(desk[c].row, "syncing", "synced")
      /\ moved' = [moved EXCEPT ![desk[c].row] = @ + 1]
  BY <1>2 DEF SyncItem
<1>5. "synced" \in Statuses /\ "syncing" \in Statuses
  BY DEF Statuses
<1>6. /\ rows' \in [Rows -> RowType] /\ moved' \in [Rows -> Nat]
      /\ raced' \subseteq Rows /\ RowsMatchMoney'
  BY <1>2, <1>4, <1>5, StatusSet
<1>7. desk' \in [Desks -> WorkType \union {Idle}] /\ Sessions'
  BY <1>3, WorkSet
<1> QED BY <1>2, <1>3, <1>6, <1>7 DEF DeskInv, DeskTypeOK

LEMMA GuardLimitsKeeps ==
    ASSUME DeskInv, NEW c \in Desks, GuardLimits(c)
    PROVE  DeskInv'
<1>1. desk[c].at = "guard"
  BY DEF GuardLimits, At
<1>2. /\ desk[c] \in WorkType /\ desk[c].user \in Users
      /\ desk[c].row \in Rows \union {None} /\ desk[c].kind \in Kinds
      /\ desk[c].read \in Nat
      /\ (desk[c].row # None => desk[c].was = "syncing")
  BY <1>1, Busy DEF Knows, WorkType
<1> DEFINE u == desk[c].user
           n == AmountOf(desk[c].kind)
           all == IF desk[c].read = 0 THEN Append(usage[u], 0) ELSE usage[u]
<1>3. usage \in [Users -> Seq(Nat)] /\ granted \in [Users -> Nat]
  BY DEF DeskInv, DeskTypeOK
<1>4. n \in Nat
  BY DeskAssumption DEF AmountOf
<1>5. all \in Seq(Nat)
  <2>1. usage[u] \in Seq(Nat)
    BY <1>2, <1>3
  <2>2. Append(usage[u], 0) \in Seq(Nat)
    BY <2>1, AppendProperties
  <2> QED BY <2>1, <2>2
<1>6. PICK own, m :
         usage' = [usage EXCEPT ![u] =
                      [i \in 1..Len(all) |-> IF i <= m \/ i \in own THEN all[i] + n
                                             ELSE all[i]]]
  <2> DEFINE new(own, m) == [usage EXCEPT ![u] =
                                [i \in 1..Len(all) |-> IF i <= m \/ i \in own
                                                       THEN all[i] + n ELSE all[i]]]
             mine == IF desk[c].read = 0 THEN {Len(all)} ELSE {}
  <2>1. \E m : usage' = new(mine, m)
    BY DEF GuardLimits
  <2> HIDE DEF mine, all, n, u
  <2> QED BY <2>1
<1>7. usage' \in [Users -> Seq(Nat)]
  <2> HIDE DEF all, n
  <2>1. Len(all) \in Nat /\ \A i \in 1..Len(all) : all[i] \in Nat
    BY <1>5, LenProperties, ElementOfSeq
  <2> DEFINE new == [i \in 1..Len(all) |-> IF i <= m \/ i \in own THEN all[i] + n
                                           ELSE all[i]]
  <2>2. new \in [1..Len(all) -> Nat]
    BY <2>1, <1>4
  <2>3. new \in Seq(Nat)
    <3> HIDE DEF new
    <3> QED BY <2>1, <2>2, SeqDef
  <2>4. usage' = [usage EXCEPT ![u] = new]
    BY <1>6
  <2> HIDE DEF new, u
  <2> QED BY <1>3, <2>3, <2>4
<1>8. granted' \in [Users -> Nat]
  <2>1. granted' = [granted EXCEPT ![u] = @ + n]
    BY DEF GuardLimits
  <2>2. u \in Users
    BY <1>2
  <2> HIDE DEF n, u
  <2> QED BY <1>3, <1>4, <2>1, <2>2
<1> DEFINE w == [desk[c] EXCEPT !.at = IF desk[c].row = None THEN "wallet" ELSE "sync"]
<1>9. w \in WorkType /\ Knows(w)
  BY <1>2 DEF WorkType, Knows
<1>10. desk' = [desk EXCEPT ![c] = w]
  BY <1>2 DEF GuardLimits, Goto, DeskInv, DeskTypeOK
<1>11. desk' \in [Desks -> WorkType \union {Idle}] /\ Sessions'
  BY <1>9, <1>10, WorkSet
<1>12. UNCHANGED <<rows, moved, raced>>
  BY DEF GuardLimits
<1>13. RowsMatchMoney'
  BY <1>12 DEF DeskInv, RowsMatchMoney
<1> QED BY <1>7, <1>8, <1>11, <1>12, <1>13 DEF DeskInv, DeskTypeOK

-----------------------------------------------------------------------------
(* The desk as a whole.                                                    *)

\* A step of the desk that moves no money keeps the invariant.
LEMMA DeskQuiet ==
    ASSUME Core, DeskInv', UNCHANGED Money, ops' \in Nat, UNCHANGED <<productsVars, lent>>
    PROVE  Core'
<1>1. BooksTypeOK'
  BY DEF Core, CoreTypes, BooksTypeOK, Money
<1>2. ProductsTypeOK'
  BY DEF Core, CoreTypes, ProductsTypeOK, productsVars
<1>3. WalletsMatch'
  BY DEF Core, WalletsMatch, Money
<1>4. ProductsMatch'
  BY DEF Core, ProductsMatch, Money, productsVars
<1>5. Made'
  BY DEF Core, Made, productsVars
<1> QED BY <1>1, <1>2, <1>3, <1>4, <1>5 DEF Core, CoreTypes, DeskInv

LEMMA DeskMoney ==
    ASSUME Core, DeskInv', NEW u \in Users, NEW k \in Kinds, NEW read \in Int,
           Transfer(u, k, read), ops' = ops, UNCHANGED <<productsVars, lent>>
    PROVE  Core'
<1>1. /\ BooksTypeOK' /\ WalletsMatch' /\ clobbered \subseteq clobbered'
      /\ \A b \in Products : book'[b] = book[b]
  BY TransferBooks DEF Core, CoreTypes
<1>2. ProductsTypeOK'
  BY DEF Core, CoreTypes, ProductsTypeOK, productsVars
<1>3. ProductsMatch'
  BY <1>1, AccountKinds DEF Core, ProductsMatch, productsVars
<1>4. Made'
  BY DEF Core, Made, productsVars
<1> QED BY <1>1, <1>2, <1>3, <1>4 DEF Core, CoreTypes, DeskInv

LEMMA DeskKeeps ==
    ASSUME Core, DeskNext, UNCHANGED <<productsVars, lent>>
    PROVE  Core'
<1>1. DeskInv /\ BooksTypeOK /\ ops \in Nat /\ wallet \in [Users -> Int]
  BY DEF Core, CoreTypes, DeskInv, BooksTypeOK
<1>2. ASSUME NEW r \in Requests, NEW k \in {"deposit", "withdraw"}, RequestCash(r, k)
      PROVE  Core'
  <2>1. DeskInv'
    BY <1>1, <1>2, RequestCashKeeps
  <2>2. UNCHANGED Money /\ ops' \in Nat
    BY <1>1, <1>2 DEF RequestCash, Request
  <2> QED BY <2>1, <2>2, DeskQuiet
<1>3. ASSUME NEW i \in Items, NEW k \in {"deposit", "cash_out"}, QueueItem(i, k)
      PROVE  Core'
  <2>1. DeskInv'
    BY <1>1, <1>3, QueueItemKeeps
  <2>2. UNCHANGED Money /\ ops' \in Nat
    BY <1>1, <1>3 DEF QueueItem, Request
  <2> QED BY <2>1, <2>2, DeskQuiet
<1>4. ASSUME NEW c \in Desks, NEW r \in Requests,
             OpenApproval(c, r) \/ OpenRejection(c, r)
      PROVE  Core'
  <2>1. DeskInv'
    BY <1>1, <1>4, OpenApprovalKeeps, OpenRejectionKeeps
  <2>2. UNCHANGED Money /\ ops' \in Nat
    BY <1>1, <1>4 DEF OpenApproval, OpenRejection, Begin, Request
  <2> QED BY <2>1, <2>2, DeskQuiet
<1>5. ASSUME NEW c \in Desks, NEW u \in Served, NEW k \in Kinds,
             HandOver(c, u, k) \/ AgentCash(c, u, k)
      PROVE  Core'
  <2>0. u \in Users
    BY DeskAssumption
  <2>1. DeskInv'
    BY <1>1, <1>5, <2>0, HandOverKeeps, AgentCashKeeps
  <2>2. UNCHANGED Money /\ ops' \in Nat
    BY <1>1, <1>5 DEF HandOver, AgentCash, Begin, Request
  <2> QED BY <2>1, <2>2, DeskQuiet
<1>6. ASSUME NEW c \in Desks, NEW i \in Items,
             OpenRetry(c, i) \/ OpenCancel(c, i)
             \/ \E force \in BOOLEAN : TakeItem(c, i, force)
      PROVE  Core'
  <2>1. DeskInv'
    BY <1>1, <1>6, OpenItemKeeps, TakeItemKeeps
  <2>2. UNCHANGED Money /\ ops' \in Nat
    BY <1>1, <1>6 DEF OpenRetry, OpenCancel, TakeItem, Begin, Request
  <2> QED BY <2>1, <2>2, DeskQuiet
<1>7. ASSUME NEW c \in Desks, DeskStep(c)
      PROVE  Core'
  <2>1. CASE HandlerCommits(c)
    <3>1. /\ DeskInv' /\ desk[c] \in WorkType /\ ops' = ops
          /\ Transfer(desk[c].user, desk[c].kind, desk[c].read)
      BY <1>1, <2>1, HandlerCommitsKeeps
    <3>2. desk[c].user \in Users /\ desk[c].kind \in Kinds /\ desk[c].read \in Int
      BY <3>1 DEF WorkType
    <3> QED BY <3>1, <3>2, DeskMoney
  <2>2. CASE SyncItem(c)
    <3>1. /\ DeskInv' /\ desk[c] \in WorkType /\ ops' = ops
          /\ Transfer(desk[c].user, desk[c].kind, wallet[desk[c].user])
      BY <1>1, <2>2, SyncItemKeeps
    <3>2. /\ desk[c].user \in Users /\ desk[c].kind \in Kinds
          /\ wallet[desk[c].user] \in Int
      BY <1>1, <3>1 DEF WorkType
    <3> QED BY <3>1, <3>2, DeskMoney
  <2>3. CASE Reject(c) \/ CancelItem(c) \/ LookUpUsage(c) \/ GuardLimits(c)
             \/ ReadWallet(c) \/ Stop(c) \/ \E force \in BOOLEAN : Retry(c, force)
    <3>1. DeskInv'
      BY <1>1, <2>3, RejectKeeps, LookUpUsageKeeps, GuardLimitsKeeps, ReadWalletKeeps,
         StopKeeps, RetryKeeps
    <3>2. UNCHANGED Money /\ ops' \in Nat
      BY <1>1, <2>3
         DEF Reject, CancelItem, LookUpUsage, GuardLimits, ReadWallet, Stop, Retry
    <3> QED BY <3>1, <3>2, DeskQuiet
  <2> QED BY <1>7, <2>1, <2>2, <2>3 DEF DeskStep
<1> QED BY <1>2, <1>3, <1>4, <1>5, <1>6, <1>7 DEF DeskNext

-----------------------------------------------------------------------------
(* Products.                                                               *)

\* What a step of the products has to show.
LEMMA ProductsStep ==
    ASSUME Core, UNCHANGED <<deskVars, lent, line>>, ops' \in Nat,
           wallet' \in [Users -> Int], book' \in [Accounts -> Int],
           clobbered \subseteq clobbered', clobbered' \subseteq Users \union Products,
           \A v \in Users \ clobbered : wallet'[v] = Start0[v] + book'[v] + lent[v],
           ProductsTypeOK', ProductsMatch', Made'
    PROVE  Core'
<1>1. BooksTypeOK'
  BY DEF Core, CoreTypes, BooksTypeOK
<1>2. DeskTypeOK'
  BY DEF Core, CoreTypes, DeskTypeOK, deskVars
<1>3. Sessions' /\ RowsMatchMoney'
  BY DEF Core, Sessions, Knows, RowsMatchMoney, deskVars
<1>4. WalletsMatch'
  BY DEF WalletsMatch
<1> QED BY <1>1, <1>2, <1>3, <1>4 DEF Core, CoreTypes

\* The same for a step that moves no money.
LEMMA ProductsQuiet ==
    ASSUME Core, UNCHANGED <<deskVars, lent, line, Purse, clobbered>>, ops' \in Nat,
           ProductsTypeOK', ProductsMatch', Made'
    PROVE  Core'
<1>1. wallet' \in [Users -> Int] /\ book' \in [Accounts -> Int]
      /\ clobbered' \subseteq Users \union Products
      /\ \A v \in Users \ clobbered : wallet'[v] = Start0[v] + book'[v] + lent[v]
  BY DEF Core, CoreTypes, BooksTypeOK, WalletsMatch, Purse
<1> QED BY <1>1, ProductsStep

\* Every account of a product but that of a keeps its balance.
Only(a, d) == \A b \in Products : book'[b] = IF b = a THEN book[b] + d ELSE book[b]

LEMMA GoalMoves ==
    ASSUME Core, NEW g \in Goals, NEW r \in GoalType, SetGoal(g, r), NEW d \in Int,
           Only(g, d), clobbered \subseteq clobbered',
           g \in clobbered' \/ r.amount = goal[g].amount + d, r.status # "none",
           UNCHANGED Others,
           \A w \in Batches, h \in Goals :
              held'[w][h] # Nothing => held[w][h] # Nothing \/ goal[h].status # "none"
    PROVE  /\ ProductsMatch' /\ Made'
           /\ goal' \in [Goals -> GoalType] /\ age' \in [Goals -> Nat]
<1>1. goal \in [Goals -> GoalType] /\ age \in [Goals -> Nat]
  BY DEF Core, CoreTypes, ProductsTypeOK
<1>2. goal' = [goal EXCEPT ![g] = r] /\ goal' \in [Goals -> GoalType]
  BY <1>1 DEF SetGoal
<1>3. age' \in [Goals -> Nat]
  BY <1>1 DEF SetGoal, Touch
<1>4. /\ \A h \in Goals : h \in Products
      /\ \A p \in Pots : p \in Products /\ p # g
      /\ \A s \in SubWallets : s \in Products /\ s # g
      /\ \A k \in Cards : k \in Products /\ k # g
  BY ProductsAssumption
<1>5. ASSUME NEW h \in Goals \ clobbered' PROVE goal'[h].amount = book'[h]
  <2>1. goal[h].amount = book[h]
    BY <1>5 DEF Core, ProductsMatch
  <2>2. CASE h = g
    BY <1>1, <1>2, <1>4, <2>1, <2>2 DEF Only
  <2>3. CASE h # g
    BY <1>1, <1>2, <1>4, <2>1, <2>3 DEF Only
  <2> QED BY <2>2, <2>3
<1>6. /\ \A p \in Pots : pot'[p].amount = book'[p]
      /\ \A s \in SubWallets : sub'[s].amount = book'[s]
      /\ \A k \in Cards : card'[k].spent = book'[k]
  BY <1>4 DEF Core, ProductsMatch, Only, Others
<1>7. Made'
  BY <1>1, <1>2 DEF Core, Made, Others
<1> QED BY <1>2, <1>3, <1>5, <1>6, <1>7 DEF ProductsMatch

LEMMA PotMoves ==
    ASSUME Core, NEW p \in Pots, NEW r \in PotType, SetPot(p, r), NEW d \in Int,
           Only(p, d), r.amount = pot[p].amount + d, r.status # "none",
           UNCHANGED <<goal, sub, card, held, clobbered>>
    PROVE  ProductsMatch' /\ Made' /\ pot' \in [Pots -> PotType]
<1>1. pot \in [Pots -> PotType]
  BY DEF Core, CoreTypes, ProductsTypeOK
<1>2. pot' = [pot EXCEPT ![p] = r] /\ pot' \in [Pots -> PotType]
  BY <1>1 DEF SetPot
<1>3. /\ \A q \in Pots : q \in Products
      /\ \A g \in Goals : g \in Products /\ g # p
      /\ \A s \in SubWallets : s \in Products /\ s # p
      /\ \A k \in Cards : k \in Products /\ k # p
  BY ProductsAssumption
<1>4. \A q \in Pots : pot'[q].amount = book'[q]
  BY <1>1, <1>2, <1>3 DEF Core, ProductsMatch, Only
<1>5. /\ \A g \in Goals \ clobbered' : goal'[g].amount = book'[g]
      /\ \A s \in SubWallets : sub'[s].amount = book'[s]
      /\ \A k \in Cards : card'[k].spent = book'[k]
  BY <1>3 DEF Core, ProductsMatch, Only
<1>6. Made'
  BY <1>1, <1>2 DEF Core, Made
<1> QED BY <1>2, <1>4, <1>5, <1>6 DEF ProductsMatch

LEMMA SubMoves ==
    ASSUME Core, NEW s \in SubWallets, NEW r \in SubType, SetSub(s, r), NEW d \in Int,
           Only(s, d), r.amount = sub[s].amount + d, r.status # "none",
           UNCHANGED <<goal, pot, card, held, clobbered>>
    PROVE  ProductsMatch' /\ Made' /\ sub' \in [SubWallets -> SubType]
<1>1. sub \in [SubWallets -> SubType]
  BY DEF Core, CoreTypes, ProductsTypeOK
<1>2. sub' = [sub EXCEPT ![s] = r] /\ sub' \in [SubWallets -> SubType]
  BY <1>1 DEF SetSub
<1>3. /\ \A q \in SubWallets : q \in Products
      /\ \A g \in Goals : g \in Products /\ g # s
      /\ \A p \in Pots : p \in Products /\ p # s
      /\ \A k \in Cards : k \in Products /\ k # s
  BY ProductsAssumption
<1>4. \A q \in SubWallets : sub'[q].amount = book'[q]
  BY <1>1, <1>2, <1>3 DEF Core, ProductsMatch, Only
<1>5. /\ \A g \in Goals \ clobbered' : goal'[g].amount = book'[g]
      /\ \A p \in Pots : pot'[p].amount = book'[p]
      /\ \A k \in Cards : card'[k].spent = book'[k]
  BY <1>3 DEF Core, ProductsMatch, Only
<1>6. Made'
  BY <1>1, <1>2 DEF Core, Made
<1> QED BY <1>2, <1>4, <1>5, <1>6 DEF ProductsMatch

LEMMA CardMoves ==
    ASSUME Core, NEW k \in Cards, NEW r \in CardType, SetCard(k, r), NEW d \in Int,
           Only(k, d), r.spent = card[k].spent + d, r.status # "none",
           UNCHANGED <<goal, pot, sub, held, clobbered>>
    PROVE  ProductsMatch' /\ Made' /\ card' \in [Cards -> CardType]
<1>1. card \in [Cards -> CardType]
  BY DEF Core, CoreTypes, ProductsTypeOK
<1>2. card' = [card EXCEPT ![k] = r] /\ card' \in [Cards -> CardType]
  BY <1>1 DEF SetCard
<1>3. /\ \A q \in Cards : q \in Products
      /\ \A g \in Goals : g \in Products /\ g # k
      /\ \A p \in Pots : p \in Products /\ p # k
      /\ \A s \in SubWallets : s \in Products /\ s # k
  BY ProductsAssumption
<1>4. \A q \in Cards : card'[q].spent = book'[q]
  BY <1>1, <1>2, <1>3 DEF Core, ProductsMatch, Only
<1>5. /\ \A g \in Goals \ clobbered' : goal'[g].amount = book'[g]
      /\ \A p \in Pots : pot'[p].amount = book'[p]
      /\ \A s \in SubWallets : sub'[s].amount = book'[s]
  BY <1>3 DEF Core, ProductsMatch, Only
<1>6. Made'
  BY <1>1, <1>2 DEF Core, Made
<1> QED BY <1>2, <1>4, <1>5, <1>6 DEF ProductsMatch

-----------------------------------------------------------------------------
(* Savings goals.                                                          *)

HeldTyped == held' \in [Batches -> [Goals -> GoalType \union {Nothing}]]

LEMMA GoalPaid ==
    ASSUME Core, UNCHANGED <<deskVars, lent>>, NEW g \in Goals, NEW n \in Nat,
           PayInto(OwnerOf[g], g, n), NEW r \in GoalType, SetGoal(g, r), ops' \in Nat,
           clobbered \subseteq clobbered', clobbered' \subseteq Users \union Products,
           g \in clobbered' \/ r.amount = goal[g].amount + n,
           r.status # "none", UNCHANGED <<Others, clock>>, HeldTyped,
           \A w \in Batches, h \in Goals :
              held'[w][h] # Nothing => held[w][h] # Nothing \/ goal[h].status # "none"
    PROVE  Core'
<1>1. OwnerOf[g] \in Users /\ g \in Products
  BY ProductsAssumption
<1>2. /\ wallet' \in [Users -> Int] /\ line' = line /\ book' \in [Accounts -> Int]
      /\ \A b \in Products : book'[b] = IF b = g THEN book[b] + n ELSE book[b]
      /\ \A v \in Users \ clobbered : wallet'[v] = Start0[v] + book'[v] + lent[v]
  BY <1>1, PayIntoBooks DEF Core, CoreTypes
<1>3. ProductsMatch' /\ Made' /\ goal' \in [Goals -> GoalType] /\ age' \in [Goals -> Nat]
  BY <1>2, GoalMoves DEF Only
<1>4. ProductsTypeOK'
  BY <1>3 DEF Core, CoreTypes, ProductsTypeOK, HeldTyped, Others
<1> QED BY <1>2, <1>3, <1>4, ProductsStep

LEMMA GoalQuiet ==
    ASSUME Core, UNCHANGED <<deskVars, lent>>, NEW g \in Goals, NEW r \in GoalType, SetGoal(g, r),
           r.amount = goal[g].amount, r.status # "none", ops' \in Nat,
           UNCHANGED <<Purse, line, clobbered, Others, held, clock>>
    PROVE  Core'
<1>1. Only(g, 0)
  <2>1. \A b \in Products : book[b] \in Int
    BY AccountKinds DEF Core, CoreTypes, BooksTypeOK
  <2> QED BY <2>1 DEF Only, Purse
<1>2. goal[g].amount \in Int
  BY DEF Core, CoreTypes, ProductsTypeOK, GoalType
<1>3. ProductsMatch' /\ Made' /\ goal' \in [Goals -> GoalType] /\ age' \in [Goals -> Nat]
  BY <1>1, <1>2, GoalMoves
<1>4. ProductsTypeOK'
  BY <1>3 DEF Core, CoreTypes, ProductsTypeOK, Others
<1> QED BY <1>3, <1>4, ProductsQuiet DEF Others

LEMMA GoalFacts ==
    ASSUME Core, NEW g \in Goals
    PROVE  /\ goal[g] \in GoalType /\ held \in [Batches -> [Goals -> GoalType \union {Nothing}]]
           /\ clobbered \subseteq Users \union Products /\ ops \in Nat /\ clock \in Nat
           /\ Saving \in Nat /\ Amounts \subseteq Nat /\ Target \in Nat
BY ProductsAssumption DEF Core, CoreTypes, ProductsTypeOK, BooksTypeOK

LEMMA CreditedTyped ==
    ASSUME NEW r \in GoalType, NEW n \in Nat
    PROVE  Credited(r, n) \in GoalType /\ Credited(r, n).amount = r.amount + n
<1>1. r.amount + n \in Int
  BY DEF GoalType
<1>2. Reached(r.amount + n, r.status) \in {"none", "active", "completed"}
  BY DEF Reached, GoalType
<1>3. Credited(r, n) = [r EXCEPT !.amount = r.amount + n,
                                 !.status = Reached(r.amount + n, r.status)]
  BY DEF Credited, GoalType
<1> QED BY <1>1, <1>2, <1>3 DEF GoalType

LEMMA SavedTyped ==
    ASSUME NEW r \in GoalType
    PROVE  Saved(r) \in GoalType /\ Saved(r).amount = r.amount + Saving
<1>1. Saving \in Nat
  BY ProductsAssumption
<1>2. /\ Credited(r, Saving) \in GoalType
      /\ Credited(r, Saving).amount = r.amount + Saving
  BY <1>1, CreditedTyped
<1> QED BY <1>2 DEF Saved, GoalType

LEMMA GoalStepKeeps ==
    ASSUME Core, UNCHANGED <<deskVars, lent>>, NEW g \in Goals, GoalStep(g)
    PROVE  Core'
<1>1. /\ goal[g] \in GoalType /\ held \in [Batches -> [Goals -> GoalType \union {Nothing}]]
      /\ clobbered \subseteq Users \union Products /\ ops \in Nat /\ clock \in Nat
      /\ Saving \in Nat /\ Amounts \subseteq Nat /\ Target \in Nat
  BY GoalFacts
<1>2. /\ goal[g].status \in {"none", "active", "completed"} /\ goal[g].amount \in Int
      /\ goal[g].locked \in BOOLEAN
  BY <1>1 DEF GoalType
<1>3. CASE CreateGoal(g)
  <2>1. PICK lock \in BOOLEAN : SetGoal(g, [NewGoal EXCEPT !.locked = lock])
    BY <1>3 DEF CreateGoal
  <2> DEFINE r == [NewGoal EXCEPT !.locked = lock]
  <2>2. NewGoal \in GoalType /\ NewGoal.amount = 0 /\ NewGoal.status = "active"
    BY DEF NewGoal, GoalType
  <2>6. r \in GoalType /\ r.amount = 0 /\ r.status # "none"
    BY <2>2 DEF GoalType
  <2>3. goal[g].amount = 0
    BY <1>3 DEF CreateGoal, Core, Made
  <2>4. ops' \in Nat /\ UNCHANGED <<Purse, line, clobbered, Others, held, clock>>
    BY <1>1, <1>3 DEF CreateGoal, Request
  <2> HIDE DEF r
  <2>5. SetGoal(g, r)
    BY <2>1 DEF r
  <2> QED BY <2>3, <2>4, <2>5, <2>6, GoalQuiet
<1>4. CASE UpdateLock(g)
  <2> DEFINE r == [goal[g] EXCEPT !.locked = ~@]
  <2>1. r \in GoalType /\ r.amount = goal[g].amount /\ r.status = goal[g].status
    BY <1>1 DEF GoalType
  <2>3. /\ SetGoal(g, r) /\ ops' \in Nat
        /\ UNCHANGED <<Purse, line, clobbered, Others, held, clock>>
    BY <1>1, <1>4 DEF UpdateLock, Request
  <2>4. r.status # "none"
    BY <1>4, <2>1 DEF UpdateLock
  <2> HIDE DEF r
  <2> QED BY <2>1, <2>3, <2>4, GoalQuiet
<1>5. ASSUME NEW on \in BOOLEAN, ConfigureRoundUp(g, on) PROVE Core'
  <2> DEFINE r == [goal[g] EXCEPT !.roundUp = on]
  <2>1. r \in GoalType /\ r.amount = goal[g].amount /\ r.status = goal[g].status
    BY <1>1 DEF GoalType
  <2>3. /\ SetGoal(g, r) /\ ops' \in Nat
        /\ UNCHANGED <<Purse, line, clobbered, Others, held, clock>>
    BY <1>1, <1>5 DEF ConfigureRoundUp, Request
  <2>4. r.status # "none"
    BY <1>5, <2>1 DEF ConfigureRoundUp
  <2> HIDE DEF r
  <2> QED BY <2>1, <2>3, <2>4, GoalQuiet
<1>6. ASSUME NEW on \in BOOLEAN, NEW next \in {clock, clock + 1}, ConfigureAuto(g, on, next)
      PROVE  Core'
  <2> DEFINE r == [goal[g] EXCEPT !.auto = on, !.next = next]
  <2>1. next \in Nat
    BY <1>1
  <2>2. r \in GoalType /\ r.amount = goal[g].amount /\ r.status = goal[g].status
    BY <1>1, <2>1 DEF GoalType
  <2>3. /\ SetGoal(g, r) /\ ops' \in Nat
        /\ UNCHANGED <<Purse, line, clobbered, Others, held, clock>>
    BY <1>1, <1>6 DEF ConfigureAuto, Request
  <2>4. r.status # "none"
    BY <1>6, <2>2 DEF ConfigureAuto
  <2> HIDE DEF r
  <2> QED BY <2>2, <2>3, <2>4, GoalQuiet
<1>7. ASSUME NEW n \in Nat, NEW r \in GoalType, r.amount = goal[g].amount + n,
             r.status # "none", PayInto(OwnerOf[g], g, n), SetGoal(g, r), Request,
             UNCHANGED <<clobbered, Others, held, clock>>
      PROVE  Core'
  BY <1>1, <1>7, GoalPaid DEF Request, HeldTyped
<1>8. ASSUME NEW n \in Amounts, Contribute(g, n) PROVE Core'
  <2>1. /\ Credited(goal[g], n) \in GoalType
        /\ Credited(goal[g], n).amount = goal[g].amount + n
        /\ Credited(goal[g], n).status # "none"
    BY <1>1, <1>8, CreditedTyped DEF Contribute, Credited, Reached, GoalType
  <2> QED BY <1>1, <1>7, <1>8, <2>1 DEF Contribute
<1>9. CASE ApplyRoundUp(g)
  <2>1. /\ Credited(goal[g], Saving) \in GoalType
        /\ Credited(goal[g], Saving).amount = goal[g].amount + Saving
        /\ Credited(goal[g], Saving).status # "none"
    BY <1>1, <1>9, CreditedTyped DEF ApplyRoundUp, Credited, Reached, GoalType
  <2> QED BY <1>1, <1>7, <1>9, <2>1 DEF ApplyRoundUp
<1>10. CASE RunAuto(g)
  <2>1. /\ Saved(goal[g]) \in GoalType
        /\ Saved(goal[g]).amount = goal[g].amount + Saving
        /\ Saved(goal[g]).status # "none"
    BY <1>1, <1>10, SavedTyped DEF RunAuto, Saved, Credited, Reached, GoalType
  <2> QED BY <1>1, <1>7, <1>10, <2>1 DEF RunAuto
<1>11. ASSUME NEW n \in Amounts, WithdrawGoal(g, n) PROVE Core'
  <2>1. n \in Nat /\ OwnerOf[g] \in Users /\ g \in Products
    BY <1>1, ProductsAssumption
  <2> DEFINE r == Withdrawn(goal[g], n)
  <2>2. r \in GoalType /\ r.amount = goal[g].amount + (-n) /\ r.status # "none"
    <3> DEFINE status == IF goal[g].status = "completed" /\ goal[g].amount - n < Target
                         THEN "active" ELSE goal[g].status
    <3>1. r = [goal[g] EXCEPT !.amount = goal[g].amount - n, !.status = status]
      BY <1>1 DEF Withdrawn, GoalType
    <3>2. status \in {"active", "completed"}
      BY <1>2, <1>11 DEF WithdrawGoal
    <3>3. goal[g].amount - n \in Int /\ goal[g].amount - n = goal[g].amount + (-n)
      BY <1>2, <2>1
    <3> HIDE DEF status, r
    <3> QED BY <1>1, <3>1, <3>2, <3>3 DEF GoalType
  <2>3. PayBack(g, OwnerOf[g], n) /\ SetGoal(g, r)
        /\ UNCHANGED <<clobbered, Others, held, clock>> /\ ops' \in Nat
    BY <1>1, <1>11 DEF WithdrawGoal, Request
  <2>4. /\ wallet' \in [Users -> Int] /\ line' = line /\ book' \in [Accounts -> Int]
        /\ \A b \in Products : book'[b] = IF b = g THEN book[b] - n ELSE book[b]
        /\ \A v \in Users \ clobbered : wallet'[v] = Start0[v] + book'[v] + lent[v]
    BY <2>1, <2>3, PayBackBooks DEF Core, CoreTypes
  <2>5. Only(g, -n)
    <3>1. \A b \in Products : book[b] \in Int
      BY AccountKinds DEF Core, CoreTypes, BooksTypeOK
    <3> QED BY <2>1, <2>4, <3>1 DEF Only
  <2>6. -n \in Int
    BY <2>1
  <2> HIDE DEF r
  <2>7. ProductsMatch' /\ Made' /\ goal' \in [Goals -> GoalType] /\ age' \in [Goals -> Nat]
    BY <2>2, <2>3, <2>5, <2>6, GoalMoves
  <2>8. ProductsTypeOK'
    BY <2>3, <2>7 DEF Core, CoreTypes, ProductsTypeOK, Others
  <2> QED BY <1>1, <2>3, <2>4, <2>7, <2>8, ProductsStep
<1> QED BY <1>3, <1>4, <1>5, <1>6, <1>8, <1>9, <1>10, <1>11 DEF GoalStep

\* A session saves for a goal of its batch, from the row it has read.
LEMMA SaveForKeeps ==
    ASSUME Core, UNCHANGED <<deskVars, lent>>, NEW w \in Batches, NEW g \in Goals,
           NEW batch \in [Goals -> GoalType \union {Nothing}],
           \A h \in Goals : batch[h] # Nothing => goal[h].status # "none",
           SaveFor(w, g, batch), ops' \in Nat
    PROVE  Core'
<1>1. /\ goal[g] \in GoalType /\ held \in [Batches -> [Goals -> GoalType \union {Nothing}]]
      /\ clobbered \subseteq Users \union Products /\ Saving \in Nat
  BY GoalFacts
<1>2. batch[g] \in GoalType /\ goal[g].status # "none"
  BY DEF SaveFor
<1>3. Saved(batch[g]) \in GoalType /\ Saved(batch[g]).amount = batch[g].amount + Saving
  BY <1>2, SavedTyped
<1> DEFINE r == [goal[g] EXCEPT !.amount = Saved(batch[g]).amount,
                                !.status = Reached(Saved(batch[g]).amount, @),
                                !.roundUp = batch[g].roundUp,
                                !.auto = batch[g].auto, !.next = Saved(batch[g]).next]
<1>4. r \in GoalType /\ r.status # "none"
  <2> DEFINE new == Saved(batch[g])
             status == Reached(new.amount, goal[g].status)
  <2>1. status \in {"active", "completed"}
    BY <1>1, <1>2 DEF Reached, GoalType
  <2>2. r = [goal[g] EXCEPT !.amount = new.amount, !.status = status,
                            !.roundUp = batch[g].roundUp,
                            !.auto = batch[g].auto, !.next = new.next]
    BY <1>1 DEF GoalType
  <2>3. new.amount \in Int /\ new.next \in Nat /\ batch[g].roundUp \in BOOLEAN
        /\ batch[g].auto \in BOOLEAN
    BY <1>2, <1>3 DEF GoalType
  <2> HIDE DEF r, new, status
  <2> QED BY <1>1, <2>1, <2>2, <2>3 DEF GoalType
<1>5. SetGoal(g, r) /\ PayInto(OwnerOf[g], g, Saving) /\ UNCHANGED <<Others, clock>>
  BY DEF SaveFor, WriteSaved
<1>6. /\ clobbered \subseteq clobbered'
      /\ g \in clobbered' \/ (goal[g] = batch[g] /\ clobbered' = clobbered)
      /\ clobbered' \subseteq Users \union Products
  BY <1>1, AccountKinds DEF SaveFor, WriteSaved
<1>7. g \in clobbered' \/ r.amount = goal[g].amount + Saving
  <2>1. r.amount = Saved(batch[g]).amount
    BY <1>1 DEF GoalType
  <2> HIDE DEF r
  <2> QED BY <1>3, <1>6, <2>1
<1>8. held' = [held EXCEPT ![w] = [batch EXCEPT ![g] = Nothing]]
  BY DEF SaveFor
<1>9. HeldTyped
  BY <1>1, <1>8 DEF HeldTyped
<1>10. \A v \in Batches, h \in Goals :
          held'[v][h] # Nothing => held[v][h] # Nothing \/ goal[h].status # "none"
  BY <1>1, <1>8
<1> HIDE DEF r
<1> QED BY <1>1, <1>4, <1>5, <1>6, <1>7, <1>9, <1>10, GoalPaid

LEMMA ReadTyped ==
    ASSUME Core, NEW S \in SUBSET Active
    PROVE  /\ ReadRows(S) \in [Goals -> GoalType \union {Nothing}]
           /\ \A h \in Goals : ReadRows(S)[h] # Nothing => goal[h].status # "none"
BY DEF Core, CoreTypes, ProductsTypeOK, ReadRows, Active

LEMMA BatchStepKeeps ==
    ASSUME Core, UNCHANGED <<deskVars, lent>>, NEW g \in Goals, BatchStep(g)
    PROVE  Core'
<1>1. ops \in Nat /\ Worker \in Batches
      /\ held \in [Batches -> [Goals -> GoalType \union {Nothing}]]
  BY GoalFacts, ProductsAssumption
<1>2. CASE WorkerRound(g)
  <2>1. Selected \in SUBSET Active
    BY DEF Selected
  <2> QED BY <1>1, <1>2, <2>1, ReadTyped, SaveForKeeps DEF WorkerRound
<1>3. ASSUME NEW w \in Batches, OwnRound(w, g) PROVE Core'
  <2>1. {h \in Active : OwnerOf[h] = OwnerOf[g]} \in SUBSET Active
    OBVIOUS
  <2>2. ops' \in Nat
    BY <1>1, <1>3 DEF OwnRound, Request
  <2> QED BY <1>3, <2>1, <2>2, ReadTyped, SaveForKeeps DEF OwnRound
<1>4. ASSUME NEW w \in Batches, NextInRound(w, g) PROVE Core'
  <2>1. held[w] \in [Goals -> GoalType \union {Nothing}]
    BY <1>1
  <2>2. \A h \in Goals : held[w][h] # Nothing => goal[h].status # "none"
    BY DEF Core, Made
  <2> QED BY <1>1, <1>4, <2>1, <2>2, SaveForKeeps DEF NextInRound
<1> QED BY <1>2, <1>3, <1>4 DEF BatchStep

LEMMA EndRoundKeeps ==
    ASSUME Core, UNCHANGED <<deskVars, lent>>, NEW w \in Batches, EndRound(w)
    PROVE  Core'
<1>1. held \in [Batches -> [Goals -> GoalType \union {Nothing}]] /\ ops \in Nat
  BY DEF Core, CoreTypes, ProductsTypeOK, BooksTypeOK
<1>2. held' = [held EXCEPT ![w] = NoBatch] /\ NoBatch \in [Goals -> {Nothing}]
      /\ UNCHANGED <<Purse, line, clobbered, ops, Goalless, Others, clock>>
  BY DEF EndRound, NoBatch
<1>3. ProductsTypeOK'
  BY <1>1, <1>2 DEF Core, CoreTypes, ProductsTypeOK, Goalless, Others
<1>4. ProductsMatch'
  BY <1>2 DEF Core, ProductsMatch, Purse, Goalless, Others
<1>5. Made'
  BY <1>1, <1>2 DEF Core, Made, Goalless, Others
<1> QED BY <1>1, <1>2, <1>3, <1>4, <1>5, ProductsQuiet

LEMMA TickKeeps ==
    ASSUME Core, UNCHANGED <<deskVars, lent>>, Tick
    PROVE  Core'
<1>1. clock' \in Nat /\ ops' \in Nat
      /\ UNCHANGED <<Purse, line, clobbered, Goalless, Others, held>>
  BY DEF Tick, Core, CoreTypes, ProductsTypeOK, BooksTypeOK
<1>2. ProductsTypeOK'
  BY <1>1 DEF Core, CoreTypes, ProductsTypeOK, Goalless, Others
<1>3. ProductsMatch'
  BY <1>1 DEF Core, ProductsMatch, Purse, Goalless, Others
<1>4. Made'
  BY <1>1 DEF Core, Made, Goalless, Others
<1> QED BY <1>1, <1>2, <1>3, <1>4, ProductsQuiet

-----------------------------------------------------------------------------
(* Pots.                                                                   *)

LEMMA BookTyped ==
    ASSUME Core
    PROVE  /\ book \in [Accounts -> Int] /\ ops \in Nat /\ clock \in Nat
           /\ \A b \in Products : book[b] \in Int
BY AccountKinds DEF Core, CoreTypes, BooksTypeOK, ProductsTypeOK

LEMMA PotQuiet ==
    ASSUME Core, UNCHANGED <<deskVars, lent>>, NEW p \in Pots, NEW r \in PotType, SetPot(p, r),
           r.amount = pot[p].amount, r.status # "none", Request,
           UNCHANGED <<Purse, NotPot>>
    PROVE  Core'
<1>1. Only(p, 0)
  BY BookTyped DEF Only, Purse
<1>2. pot[p].amount \in Int
  BY DEF Core, CoreTypes, ProductsTypeOK, PotType
<1>3. ProductsMatch' /\ Made' /\ pot' \in [Pots -> PotType]
  BY <1>1, <1>2, PotMoves DEF NotPot, Goalless
<1>4. ProductsTypeOK'
  BY <1>3 DEF Core, CoreTypes, ProductsTypeOK, NotPot, Goalless
<1> QED BY <1>3, <1>4, BookTyped, ProductsQuiet DEF NotPot, Request

LEMMA NewPotTyped ==
    ASSUME NEW until \in Nat
    PROVE  NewPot(until) \in PotType /\ NewPot(until).amount = 0
           /\ NewPot(until).status = "active"
BY DEF NewPot, PotType

LEMMA SetMemberKeeps ==
    ASSUME Core, UNCHANGED <<deskVars, lent>>, NEW p \in Pots, NEW u \in Users,
           NEW status \in {"active", "away"}, SetMember(p, u, status), Request
    PROVE  Core'
<1> DEFINE r == [pot[p] EXCEPT !.member[u] = status]
<1>1. pot[p] \in PotType
  BY DEF Core, CoreTypes, ProductsTypeOK
<1>2. r \in PotType /\ r.amount = pot[p].amount /\ r.status = pot[p].status
  BY <1>1 DEF PotType
<1>3. SetPot(p, r) /\ UNCHANGED <<Purse, NotPot>> /\ pot[p].status # "none"
  BY DEF SetMember
<1> HIDE DEF r
<1> QED BY <1>2, <1>3, PotQuiet

LEMMA PotStepKeeps ==
    ASSUME Core, UNCHANGED <<deskVars, lent>>, NEW p \in Pots, PotStep(p)
    PROVE  Core'
<1>1. pot[p] \in PotType /\ clock \in Nat /\ ops \in Nat /\ Horizon \in Nat
      /\ Amounts \subseteq Nat /\ Target \in Nat
  BY ProductsAssumption DEF Core, CoreTypes, ProductsTypeOK, BooksTypeOK
<1>2. pot[p].amount \in Int
  BY <1>1 DEF PotType
<1>3. CASE CreatePot(p)
  <2>1. PICK until \in {clock, Horizon} : SetPot(p, NewPot(until))
    BY <1>3 DEF CreatePot
  <2>2. /\ NewPot(until) \in PotType /\ NewPot(until).amount = 0
        /\ NewPot(until).status # "none"
    BY <1>1, NewPotTyped
  <2>3. pot[p].amount = 0
    BY <1>3 DEF CreatePot, Core, Made
  <2>4. Request /\ UNCHANGED <<Purse, NotPot>>
    BY <1>3 DEF CreatePot
  <2> QED BY <2>1, <2>2, <2>3, <2>4, PotQuiet
<1>4. ASSUME NEW status \in {"expired", "closed"}, pot[p].status # "none",
             SetPot(p, [pot[p] EXCEPT !.status = status]), Request,
             UNCHANGED <<Purse, NotPot>>
      PROVE  Core'
  <2> DEFINE r == [pot[p] EXCEPT !.status = status]
  <2>1. r \in PotType /\ r.amount = pot[p].amount /\ r.status # "none"
    BY <1>1 DEF PotType
  <2>2. SetPot(p, r)
    BY <1>4
  <2> HIDE DEF r
  <2> QED BY <1>4, <2>1, <2>2, PotQuiet
<1>5. CASE ExpirePot(p)
  BY <1>4, <1>5 DEF ExpirePot
<1>6. CASE ClosePot(p)
  BY <1>4, <1>6 DEF ClosePot
<1>7. ASSUME NEW u \in Users, AddMember(p, u) \/ LeavePot(p, u) PROVE Core'
  BY <1>7, SetMemberKeeps DEF AddMember, LeavePot
<1>8. ASSUME NEW u \in Users, NEW status \in {"active", "away"}, UpdateMember(p, u, status)
      PROVE  Core'
  BY <1>8, SetMemberKeeps DEF UpdateMember
<1>9. ASSUME NEW u \in Users, NEW n \in Amounts, ContributePot(p, u, n) PROVE Core'
  <2> DEFINE r == PotCredited(pot[p], n)
  <2>1. n \in Nat /\ p \in Products
    BY <1>1, ProductsAssumption
  <2>2. r \in PotType /\ r.amount = pot[p].amount + n /\ r.status # "none"
    <3>1. pot[p].amount + n \in Int
      BY <1>2, <2>1
    <3>2. pot[p].status = "active"
      BY <1>9 DEF ContributePot, PotAccepts
    <3>3. PICK status \in {"active", "funded"} :
             r = [pot[p] EXCEPT !.amount = pot[p].amount + n, !.status = status]
      BY <1>1, <3>2 DEF PotCredited, PotType
    <3> HIDE DEF r
    <3> QED BY <1>1, <3>1, <3>3 DEF PotType
  <2>3. PayInto(u, p, n) /\ SetPot(p, r) /\ ops' \in Nat
        /\ UNCHANGED <<Goalless, sub, open, card, held, clock, clobbered>>
    BY <1>1, <1>9 DEF ContributePot, Request
  <2> HIDE DEF r
  <2>4. /\ wallet' \in [Users -> Int] /\ line' = line /\ book' \in [Accounts -> Int]
        /\ \A b \in Products : book'[b] = IF b = p THEN book[b] + n ELSE book[b]
        /\ \A v \in Users \ clobbered : wallet'[v] = Start0[v] + book'[v] + lent[v]
    BY <2>1, <2>3, PayIntoBooks DEF Core, CoreTypes
  <2>5. ProductsMatch' /\ Made' /\ pot' \in [Pots -> PotType]
    BY <2>1, <2>2, <2>3, <2>4, PotMoves DEF Only, Goalless
  <2>6. ProductsTypeOK'
    BY <2>3, <2>5 DEF Core, CoreTypes, ProductsTypeOK, Goalless
  <2>7. clobbered' \subseteq Users \union Products
    BY <2>3 DEF Core, CoreTypes, BooksTypeOK
  <2> QED BY <2>3, <2>4, <2>5, <2>6, <2>7, ProductsStep
<1> QED BY <1>3, <1>5, <1>6, <1>7, <1>8, <1>9 DEF PotStep

-----------------------------------------------------------------------------
(* Sub-wallets.                                                            *)

LEMMA SubQuiet ==
    ASSUME Core, UNCHANGED <<deskVars, lent>>, NEW s \in SubWallets, NEW r \in SubType, SetSub(s, r),
           r.amount = sub[s].amount, r.status # "none", Request,
           UNCHANGED <<Purse, NotSub, open>>
    PROVE  Core'
<1>1. Only(s, 0)
  BY BookTyped DEF Only, Purse
<1>2. sub[s].amount \in Int
  BY DEF Core, CoreTypes, ProductsTypeOK, SubType
<1>3. ProductsMatch' /\ Made' /\ sub' \in [SubWallets -> SubType]
  BY <1>1, <1>2, SubMoves DEF NotSub, Goalless
<1>4. ProductsTypeOK'
  BY <1>3 DEF Core, CoreTypes, ProductsTypeOK, NotSub, Goalless
<1> QED BY <1>3, <1>4, BookTyped, ProductsQuiet DEF NotSub, Request

LEMMA SetBusinessKeeps ==
    ASSUME Core, UNCHANGED <<deskVars, lent>>, NEW u \in Users, SetBusiness(u)
    PROVE  Core'
<1>1. open' \in [Users -> BOOLEAN] /\ UNCHANGED <<Purse, NotSub, sub>> /\ ops' \in Nat
  BY BookTyped DEF SetBusiness, Request, Core, CoreTypes, ProductsTypeOK
<1>2. ProductsTypeOK'
  BY <1>1 DEF Core, CoreTypes, ProductsTypeOK, NotSub, Goalless
<1>3. ProductsMatch'
  BY <1>1 DEF Core, ProductsMatch, Purse, NotSub, Goalless
<1>4. Made'
  BY <1>1 DEF Core, Made, NotSub, Goalless
<1> QED BY <1>1, <1>2, <1>3, <1>4, ProductsQuiet DEF NotSub

LEMMA SubStepKeeps ==
    ASSUME Core, UNCHANGED <<deskVars, lent>>, NEW s \in SubWallets, SubStep(s)
    PROVE  Core'
<1>1. sub[s] \in SubType /\ ops \in Nat /\ Amounts \subseteq Nat /\ Ceilings \subseteq Nat
      /\ OwnerOf[s] \in Users /\ s \in Products
  BY ProductsAssumption DEF Core, CoreTypes, ProductsTypeOK, BooksTypeOK
<1>2. sub[s].amount \in Int
  BY <1>1 DEF SubType
<1>3. ASSUME NEW n \in Ceilings, CreateSub(s, n) PROVE Core'
  <2>1. /\ NewSub(n) \in SubType /\ NewSub(n).amount = 0 /\ NewSub(n).status # "none"
    BY <1>1 DEF NewSub, SubType
  <2>2. sub[s].amount = 0
    BY <1>3 DEF CreateSub, Core, Made
  <2> QED BY <1>3, <2>1, <2>2, SubQuiet DEF CreateSub
<1>4. ASSUME NEW n \in Ceilings, NEW status \in {"active", "suspended"},
             UpdateSub(s, n, status)
      PROVE  Core'
  <2> DEFINE r == [sub[s] EXCEPT !.status = status, !.ceiling = n]
  <2>1. n \in Nat
    BY <1>1
  <2>2. r \in SubType /\ r.amount = sub[s].amount /\ r.status # "none"
    BY <1>1, <2>1 DEF SubType
  <2>3. SetSub(s, r) /\ Request /\ UNCHANGED <<Purse, NotSub, open>>
    BY <1>4 DEF UpdateSub
  <2> HIDE DEF r
  <2> QED BY <2>2, <2>3, SubQuiet
<1>5. ASSUME NEW d \in Int, NEW r \in SubType, r.amount = sub[s].amount + d,
             r.status # "none", SetSub(s, r), Only(s, d), Request,
             wallet' \in [Users -> Int], line' = line, book' \in [Accounts -> Int],
             \A v \in Users \ clobbered : wallet'[v] = Start0[v] + book'[v] + lent[v],
             UNCHANGED <<Goalless, pot, open, card, held, clock, clobbered>>
      PROVE  Core'
  <2>1. ProductsMatch' /\ Made' /\ sub' \in [SubWallets -> SubType]
    BY <1>5, SubMoves DEF Goalless
  <2>2. ProductsTypeOK'
    BY <1>5, <2>1 DEF Core, CoreTypes, ProductsTypeOK, Goalless
  <2>3. clobbered' \subseteq Users \union Products /\ ops' \in Nat
    BY <1>1, <1>5 DEF Core, CoreTypes, BooksTypeOK, Request
  <2> QED BY <1>5, <2>1, <2>2, <2>3, ProductsStep
<1>6. ASSUME NEW n \in Amounts, FundSub(s, n) PROVE Core'
  <2> DEFINE r == [sub[s] EXCEPT !.amount = @ + n]
  <2>1. n \in Nat
    BY <1>1
  <2>2. r \in SubType /\ r.amount = sub[s].amount + n /\ r.status # "none"
    BY <1>1, <1>6, <2>1 DEF SubType, FundSub, SubUsable
  <2>3. PayInto(OwnerOf[s], s, n) /\ SetSub(s, r) /\ Request
        /\ UNCHANGED <<Goalless, pot, open, card, held, clock, clobbered>>
    BY <1>6 DEF FundSub
  <2> HIDE DEF r
  <2>4. /\ wallet' \in [Users -> Int] /\ line' = line /\ book' \in [Accounts -> Int]
        /\ Only(s, n)
        /\ \A v \in Users \ clobbered : wallet'[v] = Start0[v] + book'[v] + lent[v]
    BY <1>1, <2>1, <2>3, PayIntoBooks DEF Core, CoreTypes, Only
  <2> QED BY <1>5, <2>1, <2>2, <2>3, <2>4
<1>7. ASSUME NEW n \in Amounts, ReleaseSub(s, n) PROVE Core'
  <2> DEFINE r == [sub[s] EXCEPT !.amount = @ - n]
  <2>1. n \in Nat /\ -n \in Int
    BY <1>1
  <2>2. r \in SubType /\ r.amount = sub[s].amount + (-n) /\ r.status # "none"
    BY <1>1, <1>7, <2>1 DEF SubType, ReleaseSub, SubUsable
  <2>3. PayBack(s, OwnerOf[s], n) /\ SetSub(s, r) /\ Request
        /\ UNCHANGED <<Goalless, pot, open, card, held, clock, clobbered>>
    BY <1>7 DEF ReleaseSub
  <2> HIDE DEF r
  <2>4. /\ wallet' \in [Users -> Int] /\ line' = line /\ book' \in [Accounts -> Int]
        /\ \A b \in Products : book'[b] = IF b = s THEN book[b] - n ELSE book[b]
        /\ \A v \in Users \ clobbered : wallet'[v] = Start0[v] + book'[v] + lent[v]
    BY <1>1, <2>1, <2>3, PayBackBooks DEF Core, CoreTypes
  <2>5. Only(s, -n)
    BY <2>1, <2>4, BookTyped DEF Only
  <2> QED BY <1>5, <2>1, <2>2, <2>3, <2>4, <2>5
<1> QED BY <1>3, <1>4, <1>6, <1>7 DEF SubStep

-----------------------------------------------------------------------------
(* Virtual cards.                                                          *)

LEMMA CardQuiet ==
    ASSUME Core, UNCHANGED <<deskVars, lent>>, NEW k \in Cards, NEW r \in CardType, SetCard(k, r),
           r.spent = card[k].spent, r.status # "none", Request,
           UNCHANGED <<Purse, NotCard>>
    PROVE  Core'
<1>1. Only(k, 0)
  BY BookTyped DEF Only, Purse
<1>2. card[k].spent \in Int
  BY DEF Core, CoreTypes, ProductsTypeOK, CardType
<1>3. ProductsMatch' /\ Made' /\ card' \in [Cards -> CardType]
  BY <1>1, <1>2, CardMoves DEF NotCard, Goalless
<1>4. ProductsTypeOK'
  BY <1>3 DEF Core, CoreTypes, ProductsTypeOK, NotCard, Goalless
<1> QED BY <1>3, <1>4, BookTyped, ProductsQuiet DEF NotCard, Request

LEMMA CardStepKeeps ==
    ASSUME Core, UNCHANGED <<deskVars, lent>>, NEW k \in Cards, CardStep(k)
    PROVE  Core'
<1>1. card[k] \in CardType /\ ops \in Nat /\ Amounts \subseteq Nat
      /\ OwnerOf[k] \in Users /\ k \in Products /\ MaxDeclines \in Nat
  BY ProductsAssumption DEF Core, CoreTypes, ProductsTypeOK, BooksTypeOK
<1>2. /\ card[k].spent \in Int /\ card[k].declines \in Nat
      /\ card[k].status \in {"none", "active", "frozen", "consumed", "cancelled"}
  BY <1>1 DEF CardType
<1>3. ASSUME NEW single \in BOOLEAN, CreateCard(k, single) PROVE Core'
  <2>1. /\ NewCard(single) \in CardType /\ NewCard(single).spent = 0
        /\ NewCard(single).status # "none"
    BY DEF NewCard, CardType
  <2>2. card[k].spent = 0
    BY <1>3 DEF CreateCard, Core, Made
  <2> QED BY <1>3, <2>1, <2>2, CardQuiet DEF CreateCard
<1>4. ASSUME NEW status \in {"active", "frozen", "consumed", "cancelled"},
             NEW declines \in Nat, Request, UNCHANGED <<Purse, NotCard>>,
             SetCard(k, [card[k] EXCEPT !.status = status, !.declines = declines])
      PROVE  Core'
  <2> DEFINE r == [card[k] EXCEPT !.status = status, !.declines = declines]
  <2>1. r \in CardType /\ r.spent = card[k].spent /\ r.status # "none"
    BY <1>1 DEF CardType
  <2>2. SetCard(k, r)
    BY <1>4
  <2> HIDE DEF r
  <2> QED BY <1>4, <2>1, <2>2, CardQuiet
<1>5. ASSUME NEW status \in {"active", "frozen", "cancelled"}, UpdateCardStatus(k, status)
      PROVE  Core'
  <2> DEFINE declines == IF status = "active" THEN 0 ELSE card[k].declines
  <2>1. declines \in Nat
    BY <1>2
  <2>2. SetCard(k, [card[k] EXCEPT !.status = status, !.declines = declines])
    BY <1>1, <1>5 DEF UpdateCardStatus, CardType
  <2>3. Request /\ UNCHANGED <<Purse, NotCard>>
    BY <1>5 DEF UpdateCardStatus
  <2> HIDE DEF declines
  <2> QED BY <1>4, <2>1, <2>2, <2>3
<1>6. CASE DeclineCharge(k)
  <2> DEFINE n == Least(MaxDeclines, card[k].declines + 1)
             status == IF card[k].single /\ card[k].spent > 0 THEN "consumed"
                       ELSE IF card[k].status = "active" /\ n = MaxDeclines THEN "frozen"
                       ELSE card[k].status
  <2>1. n \in Nat
    BY <1>1, <1>2 DEF Least
  <2>2. status \in {"active", "frozen", "consumed", "cancelled"}
    BY <1>2, <1>6 DEF DeclineCharge
  <2>3. SetCard(k, [card[k] EXCEPT !.status = status, !.declines = n])
    <3>1. SetCard(k, [card[k] EXCEPT !.declines = n,
              !.status = IF card[k].single /\ card[k].spent > 0 THEN "consumed"
                         ELSE IF @ = "active" /\ n = MaxDeclines THEN "frozen" ELSE @])
      BY <1>6 DEF DeclineCharge
    <3>2. [card[k] EXCEPT !.declines = n,
              !.status = IF card[k].single /\ card[k].spent > 0 THEN "consumed"
                         ELSE IF @ = "active" /\ n = MaxDeclines THEN "frozen" ELSE @]
          = [card[k] EXCEPT !.status = status, !.declines = n]
      <4> HIDE DEF n
      <4> QED BY <1>1 DEF CardType
    <3> QED BY <3>1, <3>2
  <2>4. Request /\ UNCHANGED <<Purse, NotCard>>
    BY <1>6 DEF DeclineCharge
  <2> HIDE DEF n, status
  <2> QED BY <1>4, <2>1, <2>2, <2>3, <2>4
<1>7. ASSUME NEW n \in Amounts, ChargeCard(k, n) PROVE Core'
  <2> DEFINE r == CardCharged(card[k], n)
  <2>1. n \in Nat
    BY <1>1
  <2>2. r \in CardType /\ r.spent = card[k].spent + n /\ r.status # "none"
    <3>1. card[k].spent + n \in Int
      BY <1>2, <2>1
    <3>2. PICK status \in {"active", "frozen", "consumed", "cancelled"} :
             r = [card[k] EXCEPT !.spent = card[k].spent + n, !.declines = 0,
                                 !.status = status]
      <4>1. card[k].status # "none"
        BY <1>7 DEF ChargeCard
      <4> QED BY <1>1, <1>2, <4>1 DEF CardCharged, CardType
    <3> HIDE DEF r
    <3> QED BY <1>1, <3>1, <3>2 DEF CardType
  <2>3. PayInto(OwnerOf[k], k, n) /\ SetCard(k, r) /\ ops' \in Nat
        /\ UNCHANGED <<Goalless, pot, sub, open, held, clock, clobbered>>
    BY <1>1, <1>7 DEF ChargeCard, Request
  <2> HIDE DEF r
  <2>4. /\ wallet' \in [Users -> Int] /\ line' = line /\ book' \in [Accounts -> Int]
        /\ Only(k, n)
        /\ \A v \in Users \ clobbered : wallet'[v] = Start0[v] + book'[v] + lent[v]
    BY <1>1, <2>1, <2>3, PayIntoBooks DEF Core, CoreTypes, Only
  <2>5. ProductsMatch' /\ Made' /\ card' \in [Cards -> CardType]
    BY <2>1, <2>2, <2>3, <2>4, CardMoves DEF Goalless
  <2>6. ProductsTypeOK'
    BY <2>3, <2>5 DEF Core, CoreTypes, ProductsTypeOK, Goalless
  <2>7. clobbered' \subseteq Users \union Products
    BY <2>3 DEF Core, CoreTypes, BooksTypeOK
  <2> QED BY <2>3, <2>4, <2>5, <2>6, <2>7, ProductsStep
<1> QED BY <1>3, <1>5, <1>6, <1>7 DEF CardStep

-----------------------------------------------------------------------------
(* Transfers and top-ups.                                                  *)

\* A step of transfers or loans: desk and products stay as they are.
LEMMA OutsideStep ==
    ASSUME Core, UNCHANGED <<deskVars, productsVars>>, BooksTypeOK',
           lent' \in [Users -> Int], WalletsMatch', clobbered \subseteq clobbered',
           \A b \in Products : book'[b] = book[b]
    PROVE  Core'
<1>1. DeskTypeOK' /\ ProductsTypeOK'
  BY DEF Core, CoreTypes, DeskTypeOK, ProductsTypeOK, deskVars, productsVars
<1>2. Sessions' /\ RowsMatchMoney'
  BY DEF Core, Sessions, Knows, RowsMatchMoney, deskVars
<1>3. ProductsMatch'
  BY AccountKinds DEF Core, ProductsMatch, productsVars
<1>4. Made'
  BY DEF Core, Made, productsVars
<1> QED BY <1>1, <1>2, <1>3, <1>4 DEF Core, CoreTypes

LEMMA OutsideQuiet ==
    ASSUME Core, UNCHANGED <<deskVars, productsVars, wallet, line, book, clobbered, lent>>,
           ops' \in Nat
    PROVE  Core'
<1>1. BooksTypeOK' /\ lent' \in [Users -> Int] /\ WalletsMatch'
  BY DEF Core, CoreTypes, BooksTypeOK, WalletsMatch
<1> QED BY <1>1, OutsideStep

LEMMA OwedIsNat ==
    ASSUME NEW read \in Int
    PROVE  /\ Owed(read) \in Nat
           /\ read < 0 => Owed(read) = Sent
           /\ read >= 0 /\ read - Sent < 0 => Owed(read) = Sent - read
<1>1. Sent \in Nat \ {0}
  BY TransfersAssumption
<1> QED BY <1>1 DEF Owed, NewDebt, Pos

LEMMA PayKeeps ==
    ASSUME Core, TransfersTypeOK, NEW t \in Payers, Pay(t),
           UNCHANGED <<deskVars, productsVars, lent>>
    PROVE  Core' /\ TransfersTypeOK'
<1> DEFINE w == paying[t]
<1>1. w \in PaymentType
  BY DEF TransfersTypeOK, Waiting, Pay
<1>2. w.from \in Users /\ w.to \in Users /\ w.read \in Int /\ w.got \in Int
  BY <1>1 DEF PaymentType
<1>3. /\ wallet \in [Users -> Int] /\ line \in [Users -> LineType] /\ ops \in Nat
      /\ book \in [Accounts -> Int] /\ clobbered \subseteq Users \union Products
      /\ lent \in [Users -> Int] /\ Sent \in Nat
  BY TransfersAssumption DEF Core, CoreTypes, BooksTypeOK
<1>4. /\ w.from \in Accounts /\ w.to \in Accounts /\ w.from \notin Products
      /\ w.to \notin Products /\ Users \subseteq Accounts /\ Products \subseteq Accounts
  BY <1>2, AccountKinds
<1> DEFINE u == w.from
           v == w.to
<1> HIDE DEF w
<1>5. /\ wallet' = IF u = v THEN [wallet EXCEPT ![u] = w.read - Sent + Sent]
                   ELSE [wallet EXCEPT ![u] = w.read - Sent, ![v] = w.got + Sent]
      /\ line' = [line EXCEPT ![u] = Draw(@, Owed(w.read))]
      /\ book' = IF u = v THEN book
                 ELSE [book EXCEPT ![u] = book[u] - Sent, ![v] = book[v] + Sent]
      /\ clobbered' = clobbered \union Outdated(u, v, w.read, w.got)
      /\ paying' = [paying EXCEPT ![t] = Waiting] /\ ops' = ops
  BY DEF Pay, Moved, Posted, w
<1> HIDE DEF u, v
<1>6. u \in Users /\ v \in Users /\ u \in Accounts /\ v \in Accounts
      /\ u \notin Products /\ v \notin Products
  BY <1>2, <1>4 DEF u, v
<1>7. wallet' \in [Users -> Int] /\ book' \in [Accounts -> Int]
      /\ \A b \in Products : book'[b] = book[b]
  BY <1>2, <1>3, <1>4, <1>5, <1>6
<1>8. line' \in [Users -> LineType]
  <2>1. Draw(line[u], Owed(w.read)) \in LineType
    BY <1>2, <1>3, <1>6, OwedIsNat DEF Draw, LineType, Pos
  <2> QED BY <1>3, <1>5, <1>6, <2>1
<1>9. clobbered' \subseteq Users \union Products
  BY <1>3, <1>5, <1>6 DEF Outdated
<1>10. WalletsMatch'
  <2> SUFFICES ASSUME NEW x \in Users, x \notin clobbered'
               PROVE  wallet'[x] = Start0[x] + book'[x] + lent'[x]
    BY DEF WalletsMatch
  <2>0. x \notin clobbered /\ x \in Accounts
    BY <1>4, <1>5
  <2>1. wallet[x] = Start0[x] + book[x] + lent[x] /\ Start0[x] \in Int /\ lent[x] \in Int
        /\ book[x] \in Int /\ wallet[x] \in Int
    BY <1>3, <2>0, BooksAssumption DEF Core, WalletsMatch
  <2>2. x \in {u, v} => wallet[x] = IF x = u THEN w.read ELSE w.got
    BY <1>5 DEF Outdated
  <2>3. CASE u = v
    <3>1. /\ wallet'[x] = IF x = u THEN w.read - Sent + Sent ELSE wallet[x]
          /\ book'[x] = book[x]
      BY <1>2, <1>3, <1>4, <1>5, <1>6, <2>3
    <3> QED BY <1>2, <1>3, <2>1, <2>2, <2>3, <3>1
  <2>4. CASE u # v
    <3>1. /\ wallet'[x] = IF x = u THEN w.read - Sent
                          ELSE IF x = v THEN w.got + Sent ELSE wallet[x]
          /\ book'[x] = IF x = u THEN book[x] - Sent
                        ELSE IF x = v THEN book[x] + Sent ELSE book[x]
      BY <1>2, <1>3, <1>4, <1>5, <1>6, <2>4
    <3> QED BY <1>2, <1>3, <2>1, <2>2, <2>4, <3>1
  <2> QED BY <2>3, <2>4
<1>11. BooksTypeOK'
  BY <1>3, <1>5, <1>7, <1>8, <1>9 DEF BooksTypeOK
<1>12. TransfersTypeOK'
  BY <1>5 DEF TransfersTypeOK
<1> QED BY <1>3, <1>5, <1>7, <1>10, <1>11, <1>12, OutsideStep

LEMMA TopUpKeeps ==
    ASSUME Core, TransfersTypeOK, NEW t \in Payers, TopUpWallet(t),
           UNCHANGED <<deskVars, productsVars, lent>>
    PROVE  Core' /\ TransfersTypeOK'
<1> DEFINE w == paying[t]
<1>1. w \in PaymentType
  BY DEF TransfersTypeOK, Waiting, TopUpWallet
<1>2. w.from \in Users /\ w.read \in Int
  BY <1>1 DEF PaymentType
<1>3. /\ wallet \in [Users -> Int] /\ line \in [Users -> LineType] /\ ops \in Nat
      /\ book \in [Accounts -> Int] /\ clobbered \subseteq Users \union Products
      /\ lent \in [Users -> Int] /\ Sent \in Nat
  BY TransfersAssumption DEF Core, CoreTypes, BooksTypeOK
<1>4. /\ w.from \in Accounts /\ w.from \notin Products /\ Cash \in Accounts
      /\ Cash \notin Products /\ Cash \notin Users /\ Users \subseteq Accounts
      /\ Products \subseteq Accounts
  BY <1>2, AccountKinds
<1> DEFINE u == w.from
<1>5. /\ wallet' = [wallet EXCEPT ![u] = w.read + Sent]
      /\ book' = [book EXCEPT ![Cash] = @ - Sent, ![u] = @ + Sent]
      /\ clobbered' = clobbered \union {x \in {u} : wallet[x] # w.read}
      /\ paying' = [paying EXCEPT ![t] = Waiting] /\ line' = line /\ ops' = ops
  BY DEF TopUpWallet, Posted
<1> HIDE DEF w, u
<1>6. u \in Users /\ u \in Accounts /\ u \notin Products /\ u # Cash
  BY <1>2, <1>4 DEF u
<1>7. wallet' \in [Users -> Int] /\ book' \in [Accounts -> Int]
      /\ \A b \in Products : book'[b] = book[b]
  BY <1>2, <1>3, <1>4, <1>5, <1>6
<1>8. clobbered' \subseteq Users \union Products
  BY <1>3, <1>5, <1>6
<1>9. WalletsMatch'
  <2> SUFFICES ASSUME NEW x \in Users, x \notin clobbered'
               PROVE  wallet'[x] = Start0[x] + book'[x] + lent'[x]
    BY DEF WalletsMatch
  <2>0. x \notin clobbered /\ x \in Accounts
    BY <1>4, <1>5
  <2>1. wallet[x] = Start0[x] + book[x] + lent[x] /\ Start0[x] \in Int /\ lent[x] \in Int
        /\ book[x] \in Int
    BY <1>3, <2>0, BooksAssumption DEF Core, WalletsMatch
  <2>2. x = u => wallet[x] = w.read
    BY <1>5
  <2> QED BY <1>2, <1>3, <1>4, <1>5, <1>6, <2>1, <2>2
<1>10. BooksTypeOK'
  BY <1>3, <1>5, <1>7, <1>8 DEF BooksTypeOK
<1>11. TransfersTypeOK'
  BY <1>5 DEF TransfersTypeOK
<1> QED BY <1>3, <1>5, <1>7, <1>9, <1>10, <1>11, OutsideStep

LEMMA TransfersKeep ==
    ASSUME Core, TransfersTypeOK, TransfersNext, UNCHANGED <<deskVars, productsVars, lent>>
    PROVE  Core' /\ TransfersTypeOK'
<1>1. PICK t \in Payers :
         \/ ReadPayee(t) \/ Pay(t) \/ TopUpWallet(t) \/ HangUp(t)
         \/ \E u \in Senders : OpenTopUp(t, u)
         \/ \E u \in Senders, v \in Users : OpenTransfer(t, u, v)
  BY DEF TransfersNext
<1>2. wallet \in [Users -> Int] /\ ops \in Nat /\ Senders \subseteq Users
  BY TransfersAssumption DEF Core, CoreTypes, BooksTypeOK
<1>3. CASE ReadPayee(t)
  <2>1. paying[t] \in PaymentType
    BY <1>3 DEF TransfersTypeOK, Waiting, ReadPayee
  <2>2. TransfersTypeOK'
    BY <1>2, <1>3, <2>1 DEF ReadPayee, TransfersTypeOK, PaymentType
  <2>3. Core'
    BY <1>2, <1>3, OutsideQuiet DEF ReadPayee, booksVars
  <2> QED BY <2>2, <2>3
<1>4. CASE HangUp(t)
  <2>1. TransfersTypeOK'
    BY <1>4 DEF HangUp, TransfersTypeOK
  <2>2. Core'
    BY <1>2, <1>4, OutsideQuiet DEF HangUp, booksVars
  <2> QED BY <2>1, <2>2
<1>5. ASSUME NEW u \in Senders, NEW v \in Users, NEW at \in {"payee", "topup"},
             Start(t, at, u, v)
      PROVE  Core' /\ TransfersTypeOK'
  <2>1. [at |-> at, from |-> u, to |-> v, read |-> wallet[u], got |-> 0] \in PaymentType
    BY <1>2 DEF PaymentType
  <2>2. TransfersTypeOK'
    BY <1>5, <2>1 DEF Start, TransfersTypeOK
  <2>3. ops' \in Nat
    BY <1>2, <1>5 DEF Start, Request
  <2>4. Core'
    BY <1>5, <2>3, OutsideQuiet DEF Start
  <2> QED BY <2>2, <2>4
<1> QED BY <1>1, <1>2, <1>3, <1>4, <1>5, PayKeeps, TopUpKeeps DEF OpenTopUp, OpenTransfer

-----------------------------------------------------------------------------
(* Loans.                                                                  *)

\* what a session has checked
Reads ==
    \A o \in Clerks : clerk[o] # Free =>
        /\ clerk[o].op = "repay" => clerk[o].was \in InForce
        /\ clerk[o].op = "disburse" => clerk[o].was = "draft"

LoansInv == LoansTypeOK /\ Reads /\ LoansMatch

\* LoansMatch of one loan, which was disbursed out times
Agrees(r, out) ==
    /\ out = IF r.status \in InForce \union {"repaid"} THEN 1 ELSE 0
    /\ \A i \in DOMAIN r.plan :
          /\ r.plan[i].live => i > Len(r.plan) - Terms
          /\ r.plan[i].served > 0 => r.plan[i].live /\ out = 1
          /\ r.plan[i].paid = r.plan[i].served /\ r.plan[i].paid <= Due
          /\ r.status = "repaid" /\ r.plan[i].live => r.plan[i].paid = Due

LEMMA EachAgrees == LoansMatch <=> \A l \in Loans \ misread : Agrees(loan[l], paidOut[l])
BY DEF LoansMatch, Agrees

LEMMA TaskTyped ==
    ASSUME LoansTypeOK, NEW o \in Clerks, clerk[o].at \in {"opened", "ready"}
    PROVE  /\ clerk[o] \in TaskType /\ clerk[o] # Free
           /\ clerk[o].loan \in Loans /\ BorrowerOf[clerk[o].loan] \in Users
           /\ loan[clerk[o].loan] \in LoanType
BY LoansAssumption DEF LoansTypeOK, TaskType, Free

LEMMA PlanTyped ==
    ASSUME NEW plan \in Seq(InstallmentType)
    PROVE  /\ Len(plan) \in Nat /\ DOMAIN plan = 1..Len(plan)
           /\ \A i \in 1..Len(plan) : plan[i] \in InstallmentType
<1>1. Len(plan) \in Nat /\ DOMAIN plan = 1..Len(plan) /\ plan \in [1..Len(plan) -> InstallmentType]
  BY LenProperties
<1> QED BY <1>1

LEMMA FunctionIsSeq ==
    ASSUME NEW S, NEW n \in Nat, NEW f \in [1..n -> S]
    PROVE  f \in Seq(S) /\ Len(f) = n
OBVIOUS

\* A session commits what it writes of loan l, and is done.
LEMMA LoanStep ==
    ASSUME LoansInv, NEW o \in Clerks, NEW l \in Loans, NEW r \in LoanType,
           loan' = [loan EXCEPT ![l] = r], clerk' = [clerk EXCEPT ![o] = Free],
           lent' \in [Users -> Int], paidOut' \in [Loans -> Nat],
           misread \subseteq misread', misread' \subseteq Loans,
           \A m \in Loans \ {l} : paidOut'[m] = paidOut[m],
           l \notin misread' => Agrees(r, paidOut'[l])
    PROVE  LoansInv'
<1>1. loan \in [Loans -> LoanType] /\ clerk \in [Clerks -> TaskType \union {Free}]
  BY DEF LoansInv, LoansTypeOK
<1>2. LoansTypeOK'
  <2>1. loan' \in [Loans -> LoanType] /\ clerk' \in [Clerks -> TaskType \union {Free}]
    BY <1>1
  <2> QED BY <2>1 DEF LoansTypeOK
<1>3. Reads'
  BY <1>1 DEF LoansInv, Reads
<1>4. LoansMatch'
  <2>1. \A m \in Loans \ misread' : Agrees(loan[m], paidOut[m]) \/ m = l
    BY EachAgrees DEF LoansInv
  <2>2. \A m \in Loans \ misread' : Agrees(loan'[m], paidOut'[m])
    <3> SUFFICES ASSUME NEW m \in Loans \ misread'
                 PROVE  Agrees(loan'[m], paidOut'[m])
      OBVIOUS
    <3>1. CASE m = l
      BY <1>1, <3>1
    <3>2. CASE m # l
      <4>1. loan'[m] = loan[m] /\ paidOut'[m] = paidOut[m]
        BY <1>1, <3>2
      <4> QED BY <2>1, <3>2, <4>1
    <3> QED BY <3>1, <3>2
  <2> QED BY <2>2 DEF LoansMatch, Agrees
<1> QED BY <1>2, <1>3, <1>4 DEF LoansInv

\* A session goes on or gives up.
LEMMA ClerkStep ==
    ASSUME LoansInv, NEW o \in Clerks, NEW w \in TaskType \union {Free},
           clerk' = [clerk EXCEPT ![o] = w], UNCHANGED <<loan, lent, paidOut, misread>>,
           w # Free => /\ w.op = "repay" => w.was \in InForce
                       /\ w.op = "disburse" => w.was = "draft"
    PROVE  LoansInv'
<1>1. LoansTypeOK'
  BY DEF LoansInv, LoansTypeOK
<1>2. Reads'
  BY DEF LoansInv, LoansTypeOK, Reads
<1>3. LoansMatch'
  BY DEF LoansInv, LoansMatch
<1> QED BY <1>1, <1>2, <1>3 DEF LoansInv

LEMMA OpenTaskKeeps ==
    ASSUME LoansInv, NEW o \in Clerks, NEW op \in Tasks, NEW l \in Loans, OpenTask(o, op, l)
    PROVE  LoansInv'
<1> DEFINE w == [at |-> "opened", op |-> op, loan |-> l, was |-> loan[l].status,
                 read |-> 0, plan |-> <<>>]
<1>1. loan[l].status \in LoanStatuses
  BY DEF LoansInv, LoansTypeOK, LoanType
<1>2. <<>> \in Seq(InstallmentType)
  BY EmptySeq
<1>3. w \in TaskType
  BY <1>1, <1>2 DEF TaskType
<1>4. /\ w.op = "repay" => w.was \in InForce
      /\ w.op = "disburse" => w.was = "draft"
  BY DEF OpenTask, Admits
<1>5. clerk' = [clerk EXCEPT ![o] = w] /\ UNCHANGED <<loan, lent, paidOut, misread>>
  BY DEF OpenTask, Histories
<1> HIDE DEF w
<1> QED BY <1>3, <1>4, <1>5, ClerkStep

LEMMA LookUpPlanKeeps ==
    ASSUME LoansInv, wallet \in [Users -> Int], NEW o \in Clerks, LookUpPlan(o)
    PROVE  LoansInv'
<1> DEFINE w == clerk[o]
           n == wallet[BorrowerOf[w.loan]]
           plan == loan[w.loan].plan
           next == [w EXCEPT !.at = "ready", !.plan = plan, !.read = n]
<1>1. w \in TaskType /\ w # Free /\ BorrowerOf[w.loan] \in Users /\ loan[w.loan] \in LoanType
  BY TaskTyped DEF LoansInv, LookUpPlan
<1>2. n \in Int /\ plan \in Seq(InstallmentType)
  BY <1>1 DEF LoanType
<1>3. clerk' = [clerk EXCEPT ![o] = next] /\ UNCHANGED <<loan, lent, paidOut, misread>>
  BY DEF LookUpPlan, Histories, LoansInv, LoansTypeOK
<1>4. /\ w.op = "repay" => w.was \in InForce
      /\ w.op = "disburse" => w.was = "draft"
  BY <1>1 DEF LoansInv, Reads
<1> HIDE DEF w, n, plan
<1>5. next \in TaskType /\ next.op = w.op /\ next.was = w.was
  BY <1>1, <1>2 DEF TaskType
<1> HIDE DEF next
<1> QED BY <1>3, <1>4, <1>5, ClerkStep

LEMMA ApplyKeeps ==
    ASSUME LoansInv, NEW o \in Clerks, Apply(o)
    PROVE  LoansInv'
<1> DEFINE l == clerk[o].loan
           r == [loan[l] EXCEPT !.status = "draft"]
<1>1. l \in Loans /\ loan[l] \in LoanType
  BY TaskTyped DEF LoansInv, Apply
<1>2. /\ loan' = [loan EXCEPT ![l] = r] /\ clerk' = [clerk EXCEPT ![o] = Free]
      /\ UNCHANGED <<lent, paidOut, misread>> /\ loan[l].status = "none"
  BY DEF Apply, Finish, Histories
<1>3. r \in LoanType /\ r.status = "draft" /\ r.plan = loan[l].plan
  BY <1>1 DEF LoanType, LoanStatuses
<1>4. /\ lent \in [Users -> Int] /\ paidOut \in [Loans -> Nat] /\ misread \subseteq Loans
  BY DEF LoansInv, LoansTypeOK
<1>5. l \notin misread => Agrees(loan[l], paidOut[l])
  BY <1>1, EachAgrees DEF LoansInv
<1> HIDE DEF l, r
<1>6. l \notin misread => Agrees(r, paidOut[l])
  BY <1>2, <1>3, <1>5 DEF Agrees, InForce
<1> QED BY <1>1, <1>2, <1>3, <1>4, <1>6, LoanStep

LEMMA WriteOffKeeps ==
    ASSUME LoansInv, NEW o \in Clerks, WriteOff(o)
    PROVE  LoansInv'
<1> DEFINE l == clerk[o].loan
           r == [loan[l] EXCEPT !.status = "written_off"]
<1>1. l \in Loans /\ loan[l] \in LoanType
  BY TaskTyped DEF LoansInv, WriteOff
<1>2. /\ loan' = [loan EXCEPT ![l] = r] /\ clerk' = [clerk EXCEPT ![o] = Free]
      /\ UNCHANGED <<lent, paidOut>>
      /\ misread' = IF loan[l].status = "draft" THEN misread ELSE misread \union {l}
  BY DEF WriteOff, Finish, Histories, Note
<1>3. r \in LoanType /\ r.status = "written_off" /\ r.plan = loan[l].plan
  BY <1>1 DEF LoanType, LoanStatuses
<1>4. /\ lent \in [Users -> Int] /\ paidOut \in [Loans -> Nat] /\ misread \subseteq Loans
  BY DEF LoansInv, LoansTypeOK
<1>5. l \notin misread => Agrees(loan[l], paidOut[l])
  BY <1>1, EachAgrees DEF LoansInv
<1> HIDE DEF l, r
<1>6. l \notin misread' => Agrees(r, paidOut'[l])
  BY <1>2, <1>3, <1>5 DEF Agrees, InForce
<1> QED BY <1>1, <1>2, <1>3, <1>4, <1>6, LoanStep

LEMMA ReplannedTyped ==
    ASSUME NEW plan \in Seq(InstallmentType), NEW seen \in Seq(InstallmentType)
    PROVE  /\ Replanned(plan, seen) \in Seq(InstallmentType)
           /\ Len(plan) = Len(seen) =>
                 \A i \in DOMAIN Replanned(plan, seen) :
                    LET r == Replanned(plan, seen)[i] IN
                    /\ r.live => i > Len(Replanned(plan, seen)) - Terms
                    /\ IF i <= Len(plan) THEN r.paid = plan[i].paid /\ r.served = plan[i].served
                                         ELSE r.paid = 0 /\ r.served = 0
<1> DEFINE old == [i \in DOMAIN plan |->
                     IF i <= Len(seen) THEN [plan[i] EXCEPT !.live = FALSE] ELSE plan[i]]
           all == Replanned(plan, seen)
<1>1. Len(plan) \in Nat /\ DOMAIN plan = 1..Len(plan) /\ Len(seen) \in Nat
      /\ \A i \in 1..Len(plan) : plan[i] \in InstallmentType
  BY PlanTyped
<1>2. Terms \in Nat
  BY LoansAssumption
<1>3. \A i \in 1..Len(plan) : [plan[i] EXCEPT !.live = FALSE] \in InstallmentType
  BY <1>1 DEF InstallmentType
<1>4. old \in [1..Len(plan) -> InstallmentType] /\ DOMAIN old = 1..Len(plan)
  BY <1>1, <1>3
<1>5. old \in Seq(InstallmentType) /\ Len(old) = Len(plan)
  BY <1>1, <1>4
<1>6. Schedule \in [1..Terms -> InstallmentType] /\ \A i \in 1..Terms : Schedule[i] = NewInstallment
  BY DEF Schedule, NewInstallment, InstallmentType
<1>7. Schedule \in Seq(InstallmentType) /\ Len(Schedule) = Terms
  <2>1. DOMAIN Schedule = 1..Terms
    BY <1>6
  <2> QED BY <1>2, <1>6, <2>1
<1>8. all = old \o Schedule
  BY DEF Replanned
<1> HIDE DEF old, all
<1>9. /\ all \in Seq(InstallmentType) /\ Len(all) = Len(plan) + Terms
      /\ \A i \in 1..Len(plan) + Terms :
            all[i] = IF i <= Len(plan) THEN old[i] ELSE Schedule[i - Len(plan)]
  <2> HIDE DEF Schedule, InstallmentType
  <2>1. /\ old \o Schedule \in Seq(InstallmentType)
        /\ Len(old \o Schedule) = Len(old) + Len(Schedule)
        /\ \A i \in 1..Len(old) + Len(Schedule) : (old \o Schedule)[i] =
              IF i <= Len(old) THEN old[i] ELSE Schedule[i - Len(old)]
    BY <1>5, <1>7, ConcatProperties, Zenon
  <2> QED BY <1>5, <1>7, <1>8, <2>1, Zenon
<1>10. DOMAIN all = 1..Len(plan) + Terms
  BY <1>9, PlanTyped
<1>11. ASSUME Len(plan) = Len(seen), NEW i \in 1..Len(plan) + Terms
       PROVE  /\ all[i].live => i > Len(all) - Terms
              /\ IF i <= Len(plan) THEN all[i].paid = plan[i].paid /\ all[i].served = plan[i].served
                                   ELSE all[i].paid = 0 /\ all[i].served = 0
  <2>1. CASE i <= Len(plan)
    <3>1. all[i] = [plan[i] EXCEPT !.live = FALSE] /\ plan[i] \in InstallmentType
      BY <1>1, <1>9, <1>11, <2>1 DEF old
    <3> QED BY <2>1, <3>1 DEF InstallmentType
  <2>2. CASE i > Len(plan)
    <3>1. all[i] = NewInstallment
      BY <1>1, <1>2, <1>6, <1>9, <1>11, <2>2
    <3> QED BY <1>1, <1>2, <1>9, <2>2, <3>1 DEF NewInstallment
  <2> QED BY <1>1, <1>11, <2>1, <2>2
<1> QED BY <1>9, <1>10, <1>11 DEF all

LEMMA ApproveKeeps ==
    ASSUME LoansInv, NEW o \in Clerks, Approve(o)
    PROVE  LoansInv'
<1> DEFINE w == clerk[o]
           l == w.loan
           plan == Replanned(loan[l].plan, w.plan)
           r == [loan[l] EXCEPT !.plan = plan]
<1>1. l \in Loans /\ loan[l] \in LoanType /\ w \in TaskType
  BY TaskTyped DEF LoansInv, Approve
<1>2. /\ loan' = [loan EXCEPT ![l].plan = plan] /\ clerk' = [clerk EXCEPT ![o] = Free]
      /\ UNCHANGED <<lent, paidOut>>
      /\ misread' = IF loan[l].status = "draft" /\ Len(loan[l].plan) = Len(w.plan)
                    THEN misread ELSE misread \union {l}
  BY DEF Approve, Finish, Histories, Note, LoansInv, LoansTypeOK
<1>3. loan[l].plan \in Seq(InstallmentType) /\ w.plan \in Seq(InstallmentType)
  BY <1>1 DEF LoanType, TaskType
<1>4. /\ lent \in [Users -> Int] /\ paidOut \in [Loans -> Nat] /\ misread \subseteq Loans
      /\ loan \in [Loans -> LoanType]
  BY DEF LoansInv, LoansTypeOK
<1>5. l \notin misread => Agrees(loan[l], paidOut[l])
  BY <1>1, EachAgrees DEF LoansInv
<1>6. plan \in Seq(InstallmentType)
  BY <1>3, ReplannedTyped
<1>7. Len(loan[l].plan) = Len(w.plan) =>
         \A i \in DOMAIN plan :
            /\ plan[i].live => i > Len(plan) - Terms
            /\ IF i <= Len(loan[l].plan)
               THEN plan[i].paid = loan[l].plan[i].paid /\ plan[i].served = loan[l].plan[i].served
               ELSE plan[i].paid = 0 /\ plan[i].served = 0
  BY <1>3, ReplannedTyped
<1>8. Len(loan[l].plan) \in Nat /\ DOMAIN loan[l].plan = 1..Len(loan[l].plan)
      /\ Len(plan) \in Nat /\ DOMAIN plan = 1..Len(plan)
      /\ \A i \in 1..Len(loan[l].plan) : loan[l].plan[i] \in InstallmentType
  BY <1>3, <1>6, PlanTyped
<1> HIDE DEF w, l, plan
<1>9. r \in LoanType /\ r.status = loan[l].status /\ r.plan = plan
  BY <1>1, <1>6 DEF LoanType
<1>10. loan' = [loan EXCEPT ![l] = r]
  BY <1>1, <1>2, <1>4
<1> HIDE DEF r
<1>11. ASSUME l \notin misread' PROVE Agrees(r, paidOut'[l])
  <2>1. /\ loan[l].status = "draft" /\ Len(loan[l].plan) = Len(w.plan)
        /\ Agrees(loan[l], paidOut[l]) /\ paidOut'[l] = paidOut[l]
    BY <1>2, <1>5, <1>11
  <2>2. paidOut[l] = 0
    BY <2>1 DEF Agrees, InForce
  <2>3. \A i \in 1..Len(loan[l].plan) :
           loan[l].plan[i].served = 0 /\ loan[l].plan[i].paid = 0
    BY <1>8, <2>1, <2>2, SMTT(40) DEF Agrees, InstallmentType
  <2>4. \A i \in DOMAIN plan :
           plan[i].paid = 0 /\ plan[i].served = 0 /\ (plan[i].live => i > Len(plan) - Terms)
    BY <1>7, <1>8, <2>1, <2>3
  <2>5. Due \in Nat
    BY LoansAssumption
  <2> QED BY <1>9, <2>1, <2>2, <2>4, <2>5 DEF Agrees, InForce
<1> QED BY <1>1, <1>2, <1>4, <1>9, <1>10, <1>11, LoanStep, ZenonT(60)

LEMMA BringKeeps ==
    ASSUME Core, NEW u \in Users, NEW read \in Int, NEW n \in Int, Bring(u, read, n),
           UNCHANGED <<deskVars, productsVars, ops>>
    PROVE  Core' /\ lent' \in [Users -> Int]
<1>1. /\ wallet' = [wallet EXCEPT ![u] = read + n] /\ lent' = [lent EXCEPT ![u] = @ + n]
      /\ clobbered' = clobbered \union {x \in {u} : wallet[x] # read}
      /\ line' = line /\ book' = book /\ ops' = ops
  BY DEF Bring
<1>2. /\ wallet \in [Users -> Int] /\ line \in [Users -> LineType] /\ ops \in Nat
      /\ book \in [Accounts -> Int] /\ clobbered \subseteq Users \union Products
      /\ lent \in [Users -> Int] /\ Users \subseteq Accounts
  BY AccountKinds DEF Core, CoreTypes, BooksTypeOK
<1>3. wallet' \in [Users -> Int] /\ lent' \in [Users -> Int]
      /\ clobbered' \subseteq Users \union Products
  BY <1>1, <1>2
<1>4. WalletsMatch'
  <2> SUFFICES ASSUME NEW x \in Users, x \notin clobbered'
               PROVE  wallet'[x] = Start0[x] + book'[x] + lent'[x]
    BY DEF WalletsMatch
  <2>1. x \notin clobbered /\ x \in Accounts
    BY <1>1, <1>2
  <2>2. wallet[x] = Start0[x] + book[x] + lent[x] /\ Start0[x] \in Int /\ lent[x] \in Int
        /\ book[x] \in Int
    BY <1>2, <2>1, BooksAssumption DEF Core, WalletsMatch
  <2>3. x = u => wallet[x] = read
    BY <1>1
  <2> QED BY <1>1, <1>2, <2>2, <2>3
<1>5. BooksTypeOK'
  BY <1>1, <1>2, <1>3 DEF BooksTypeOK
<1> QED BY <1>1, <1>3, <1>4, <1>5, OutsideStep

LEMMA DisburseKeeps ==
    ASSUME Core, LoansInv, NEW o \in Clerks, Disburse(o), UNCHANGED <<deskVars, productsVars>>
    PROVE  Core' /\ LoansInv'
<1> DEFINE w == clerk[o]
           l == w.loan
           r == [loan[l] EXCEPT !.status = "active"]
<1>1. l \in Loans /\ loan[l] \in LoanType /\ w \in TaskType /\ BorrowerOf[l] \in Users
      /\ w # Free
  BY TaskTyped DEF LoansInv, Disburse
<1>2. /\ loan' = [loan EXCEPT ![l] = r] /\ clerk' = [clerk EXCEPT ![o] = Free]
      /\ Bring(BorrowerOf[l], w.read, Principal) /\ ops' = ops
      /\ paidOut' = [paidOut EXCEPT ![l] = @ + 1]
      /\ misread' = IF loan[l].status = w.was THEN misread ELSE misread \union {l}
  BY DEF Disburse, Finish, Note
<1>3. w.was = "draft"
  BY <1>1 DEF LoansInv, Reads, Disburse
<1>4. /\ lent \in [Users -> Int] /\ paidOut \in [Loans -> Nat] /\ misread \subseteq Loans
      /\ loan \in [Loans -> LoanType]
  BY DEF LoansInv, LoansTypeOK
<1>5. l \notin misread => Agrees(loan[l], paidOut[l])
  BY <1>1, EachAgrees DEF LoansInv
<1>6. w.read \in Int /\ Principal \in Int
  BY <1>1, LoansAssumption DEF TaskType
<1> HIDE DEF w, l
<1>7. Core' /\ lent' \in [Users -> Int]
  BY <1>1, <1>2, <1>6, BringKeeps
<1>8. r \in LoanType /\ r.status = "active" /\ r.plan = loan[l].plan
  BY <1>1 DEF LoanType, LoanStatuses
<1> HIDE DEF r
<1>9. ASSUME l \notin misread' PROVE Agrees(r, paidOut'[l])
  <2>1. loan[l].status = "draft" /\ Agrees(loan[l], paidOut[l]) /\ l \notin misread
    BY <1>2, <1>3, <1>5, <1>9
  <2>2. paidOut[l] = 0 /\ paidOut'[l] = 1
    BY <1>1, <1>2, <1>4, <2>1 DEF Agrees, InForce
  <2>3. \A i \in DOMAIN loan[l].plan : ~(loan[l].plan[i].served > 0)
    BY <2>1, <2>2 DEF Agrees
  <2> QED BY <1>8, <2>1, <2>2, <2>3 DEF Agrees, InForce
<1>10. paidOut' \in [Loans -> Nat] /\ \A m \in Loans \ {l} : paidOut'[m] = paidOut[m]
  <2>1. paidOut[l] + 1 \in Nat
    BY <1>1, <1>4
  <2> QED BY <1>1, <1>2, <1>4, <2>1
<1>11. misread \subseteq misread' /\ misread' \subseteq Loans
  BY <1>1, <1>2, <1>4
<1>12. LoansInv'
  BY <1>1, <1>2, <1>7, <1>8, <1>9, <1>10, <1>11, LoanStep
<1> QED BY <1>7, <1>12

LEMMA MarkedTyped ==
    ASSUME NEW plan \in Seq(InstallmentType), NEW seen \in Seq(InstallmentType),
           NEW p \in [DOMAIN seen -> 0..Due]
    PROVE  /\ Marked(plan, seen, p) \in Seq(InstallmentType)
           /\ Len(Marked(plan, seen, p)) = Len(plan)
           /\ DOMAIN Marked(plan, seen, p) = DOMAIN plan
           /\ \A i \in DOMAIN plan :
                 LET r == Marked(plan, seen, p)[i] IN
                 IF i \in DOMAIN seen /\ p[i] > 0
                 THEN /\ r.live = plan[i].live /\ r.paid = seen[i].paid + p[i]
                      /\ r.served = plan[i].served + p[i]
                 ELSE r = plan[i]
<1> DEFINE all == Marked(plan, seen, p)
<1>1. Len(plan) \in Nat /\ DOMAIN plan = 1..Len(plan)
      /\ \A i \in 1..Len(plan) : plan[i] \in InstallmentType
  BY PlanTyped
<1>2. \A i \in DOMAIN seen : seen[i] \in InstallmentType /\ p[i] \in Nat
  <2>1. DOMAIN seen = 1..Len(seen) /\ \A i \in 1..Len(seen) : seen[i] \in InstallmentType
    BY PlanTyped
  <2>2. Due \in Nat
    BY LoansAssumption
  <2> QED BY <2>1, <2>2
<1>3. DOMAIN all = 1..Len(plan) /\ DOMAIN p = DOMAIN seen
  BY <1>1 DEF Marked
<1>4. ASSUME NEW i \in 1..Len(plan)
      PROVE  /\ all[i] \in InstallmentType
             /\ IF i \in DOMAIN seen /\ p[i] > 0
                THEN /\ all[i].live = plan[i].live /\ all[i].paid = seen[i].paid + p[i]
                     /\ all[i].served = plan[i].served + p[i]
                ELSE all[i] = plan[i]
  <2>1. plan[i] \in InstallmentType
    BY <1>1
  <2>2. CASE i \in DOMAIN seen /\ p[i] > 0
    <3>1. all[i] = [plan[i] EXCEPT !.paid = seen[i].paid + p[i], !.served = @ + p[i]]
      BY <1>1, <1>3, <2>2 DEF Marked
    <3>2. seen[i].paid \in Nat /\ p[i] \in Nat
      BY <1>2, <2>2 DEF InstallmentType
    <3> HIDE DEF all
    <3> DEFINE a == seen[i].paid + p[i]
               b == plan[i].served + p[i]
    <3>3. a \in Nat /\ b \in Nat
      <4>1. plan[i].served \in Nat
        BY <2>1 DEF InstallmentType
      <4> QED BY <3>2, <4>1
    <3>4. all[i] = [plan[i] EXCEPT !.paid = a, !.served = b]
      BY <3>1
    <3> HIDE DEF a, b
    <3>5. all[i] \in InstallmentType /\ all[i].live = plan[i].live
          /\ all[i].paid = a /\ all[i].served = b
      BY <2>1, <3>3, <3>4 DEF InstallmentType
    <3> QED BY <2>2, <3>5 DEF a, b
  <2>3. CASE ~(i \in DOMAIN seen /\ p[i] > 0)
    <3>1. all[i] = plan[i]
      BY <1>1, <1>3, <2>3 DEF Marked
    <3> HIDE DEF all
    <3> QED BY <2>1, <2>3, <3>1
  <2> QED BY <2>2, <2>3
<1>5. all \in [1..Len(plan) -> InstallmentType]
  <2>1. all = [i \in 1..Len(plan) |-> all[i]]
    BY <1>1 DEF Marked
  <2> HIDE DEF all
  <2> QED BY <1>4, <2>1
<1> HIDE DEF all
<1>6. all \in Seq(InstallmentType) /\ Len(all) = Len(plan)
  BY <1>1, <1>5, FunctionIsSeq
<1> QED BY <1>1, <1>3, <1>4, <1>6 DEF all

LEMMA RepayKeeps ==
    ASSUME Core, LoansInv, NEW o \in Clerks, NEW n \in 1..clerk[o].read,
           NEW overdue \in BOOLEAN, NEW p \in Payments(clerk[o].plan, n),
           Repay(o, n, p, overdue), UNCHANGED <<deskVars, productsVars>>
    PROVE  Core' /\ LoansInv'
<1> DEFINE w == clerk[o]
           l == w.loan
           old == loan[l].plan
           seen == w.plan
           status == IF Settled(seen, p) THEN "repaid"
                     ELSE IF overdue THEN "in_arrears" ELSE "active"
           plan == Marked(old, seen, p)
           r == [status |-> NewStatus(l, w.was, status), plan |-> plan]
<1>1. l \in Loans /\ loan[l] \in LoanType /\ w \in TaskType /\ BorrowerOf[l] \in Users
      /\ w # Free
  BY TaskTyped DEF LoansInv, Repay
<1>2. /\ loan' = [loan EXCEPT ![l] = r] /\ clerk' = [clerk EXCEPT ![o] = Free]
      /\ Bring(BorrowerOf[l], w.read, -n) /\ UNCHANGED <<ops, paidOut>>
      /\ misread' = IF loan[l].status = w.was /\ old = seen THEN misread
                    ELSE misread \union {l}
      /\ \A i \in DOMAIN p : p[i] > 0 => loan[l].plan[i].live
  BY DEF Repay, Finish, Note, Writable
<1>3. w.was \in InForce
  BY <1>1 DEF LoansInv, Reads, Repay
<1>4. /\ lent \in [Users -> Int] /\ paidOut \in [Loans -> Nat] /\ misread \subseteq Loans
  BY DEF LoansInv, LoansTypeOK
<1>5. l \notin misread => Agrees(loan[l], paidOut[l])
  BY <1>1, EachAgrees DEF LoansInv
<1>6. w.read \in Int /\ -n \in Int
  BY <1>1 DEF TaskType
<1>7. old \in Seq(InstallmentType) /\ seen \in Seq(InstallmentType)
  BY <1>1 DEF LoanType, TaskType
<1>8. p \in [DOMAIN seen -> 0..Due] /\ \A i \in DOMAIN seen : p[i] <= Left(seen[i])
  BY DEF Payments
<1>9. /\ plan \in Seq(InstallmentType) /\ Len(plan) = Len(old) /\ DOMAIN plan = DOMAIN old
      /\ \A i \in DOMAIN old :
            IF i \in DOMAIN seen /\ p[i] > 0
            THEN /\ plan[i].live = old[i].live /\ plan[i].paid = seen[i].paid + p[i]
                 /\ plan[i].served = old[i].served + p[i]
            ELSE plan[i] = old[i]
  <2> HIDE DEF w, l, old, seen, status, r
  <2>1. p \in [DOMAIN seen -> 0..Due]
    BY <1>8
  <2> QED BY <1>7, <2>1, MarkedTyped
<1>10. status \in InForce \union {"repaid"}
  BY DEF InForce
<1>11. Settled(seen, p) <=> status = "repaid"
  OBVIOUS
<1>12. Core' /\ lent' \in [Users -> Int]
  BY <1>1, <1>2, <1>6, BringKeeps
<1> HIDE DEF status, plan
<1>13. r \in LoanType
  BY <1>1, <1>9, <1>10 DEF NewStatus, LoanType, LoanStatuses, InForce
<1>14. r.status = NewStatus(l, w.was, status) /\ r.plan = plan
  OBVIOUS
<1> HIDE DEF w, l, old, seen, r
<1>15. ASSUME l \notin misread' PROVE Agrees(r, paidOut'[l])
  <2>1. /\ loan[l].status = w.was /\ old = seen /\ Agrees(loan[l], paidOut[l])
        /\ paidOut'[l] = paidOut[l]
    BY <1>2, <1>5, <1>15
  <2>2. r.status = status
    BY <1>14, <2>1 DEF NewStatus
  <2>3. paidOut[l] = 1
    BY <1>3, <2>1 DEF Agrees
  <2>4. ASSUME NEW i \in DOMAIN old
        PROVE  /\ plan[i].live => i > Len(plan) - Terms
               /\ plan[i].served > 0 => plan[i].live
               /\ plan[i].paid = plan[i].served /\ plan[i].paid <= Due
               /\ r.status = "repaid" /\ plan[i].live => plan[i].paid = Due
    <3>1. /\ old[i].live => i > Len(old) - Terms
          /\ old[i].served > 0 => old[i].live
          /\ old[i].paid = old[i].served /\ old[i].paid <= Due
      BY <2>1, <2>4 DEF Agrees, old
    <3>2. old[i] \in InstallmentType
      BY <1>7, <2>4, PlanTyped
    <3>3. Due \in Nat /\ p[i] \in Nat /\ p[i] <= Left(old[i]) /\ i \in DOMAIN seen
      BY <1>8, <2>1, <2>4, LoansAssumption
    <3>4. Left(old[i]) = IF old[i].live THEN Due - old[i].paid ELSE 0
      BY <3>1, <3>2, <3>3 DEF Left, Pos, InstallmentType
    <3>5. r.status = "repaid" => p[i] = Left(old[i])
      BY <1>11, <2>1, <2>2, <2>4 DEF Settled
    <3>6. /\ plan[i].live = old[i].live /\ plan[i].paid = old[i].paid + p[i]
          /\ plan[i].served = old[i].served + p[i]
      <4>1. CASE p[i] > 0
        BY <1>9, <2>1, <2>4, <3>3, <4>1
      <4>2. CASE p[i] = 0
        <5>1. plan[i] = old[i]
          BY <1>9, <2>4, <4>2
        <5> QED BY <3>2, <4>2, <5>1 DEF InstallmentType
      <4> QED BY <3>3, <4>1, <4>2
    <3>7. old[i].paid \in Nat /\ old[i].served \in Nat /\ old[i].live \in BOOLEAN
      BY <3>2 DEF InstallmentType
    <3>8. p[i] > 0 => old[i].live
      BY <3>3, <3>4
    <3> QED BY <1>9, <3>1, <3>3, <3>4, <3>5, <3>6, <3>7, <3>8
  <2> QED BY <1>9, <1>10, <1>14, <2>1, <2>2, <2>3, <2>4 DEF Agrees
<1>16. misread \subseteq misread' /\ misread' \subseteq Loans
  BY <1>1, <1>2, <1>4
<1>17. paidOut' \in [Loans -> Nat] /\ \A m \in Loans \ {l} : paidOut'[m] = paidOut[m]
  BY <1>2, <1>4
<1>18. LoansInv'
  BY <1>1, <1>2, <1>12, <1>13, <1>15, <1>16, <1>17, LoanStep
<1> QED BY <1>12, <1>18

LEMMA LoansKeep ==
    ASSUME Core, LoansInv, LoansNext, UNCHANGED <<deskVars, productsVars>>
    PROVE  Core' /\ LoansInv'
<1>1. PICK o \in Clerks :
         \/ LookUpPlan(o) \/ Apply(o) \/ WriteOff(o) \/ Approve(o) \/ Disburse(o)
         \/ DropTask(o)
         \/ \E op \in Tasks, l \in Loans : OpenTask(o, op, l)
         \/ \E n \in 1..clerk[o].read, overdue \in BOOLEAN :
               \E p \in Payments(clerk[o].plan, n) : Repay(o, n, p, overdue)
  BY DEF LoansNext
<1>2. wallet \in [Users -> Int] /\ ops \in Nat
  BY DEF Core, CoreTypes, BooksTypeOK
<1>3. CASE LookUpPlan(o)
  <2>1. Core'
    BY <1>2, <1>3, OutsideQuiet DEF LookUpPlan, LoanBooks, Histories
  <2> QED BY <1>2, <1>3, <2>1, LookUpPlanKeeps
<1>4. CASE Apply(o)
  <2>1. Core'
    BY <1>2, <1>4, OutsideQuiet DEF Apply, Finish, LoanBooks, Histories
  <2> QED BY <1>4, <2>1, ApplyKeeps
<1>5. CASE WriteOff(o)
  <2>1. Core'
    BY <1>2, <1>5, OutsideQuiet DEF WriteOff, Finish, LoanBooks, Histories
  <2> QED BY <1>5, <2>1, WriteOffKeeps
<1>6. CASE Approve(o)
  <2>1. Core'
    BY <1>2, <1>6, OutsideQuiet DEF Approve, Finish, LoanBooks, Histories
  <2> QED BY <1>6, <2>1, ApproveKeeps
<1>7. CASE DropTask(o)
  <2>1. Core'
    BY <1>2, <1>7, OutsideQuiet DEF DropTask, LoanBooks, Histories
  <2>2. LoansInv'
    BY <1>7, ClerkStep DEF DropTask, Histories
  <2> QED BY <2>1, <2>2
<1>8. ASSUME NEW op \in Tasks, NEW l \in Loans, OpenTask(o, op, l) PROVE Core' /\ LoansInv'
  <2>1. Core'
    BY <1>2, <1>8, OutsideQuiet DEF OpenTask, Request, LoanBooks, Histories
  <2> QED BY <1>8, <2>1, OpenTaskKeeps
<1> QED BY <1>1, <1>3, <1>4, <1>5, <1>6, <1>7, <1>8, DisburseKeeps, RepayKeeps

-----------------------------------------------------------------------------
(* Overdrafts.                                                             *)

\* a client may go overdrawn if the line says so
Lent(x, n, l) == n < 0 => -n <= l.used

LEMMA LentStep ==
    ASSUME OverdraftsAreLent, clobbered \subseteq clobbered',
           \A x \in Users \ clobbered' :
              \/ wallet'[x] = wallet[x] /\ line'[x] = line[x]
              \/ Lent(x, wallet[x], line[x]) => Lent(x, wallet'[x], line'[x])
    PROVE  OverdraftsAreLent'
<1> SUFFICES ASSUME NEW x \in Users, x \notin clobbered'
             PROVE  Lent(x, wallet'[x], line'[x])
  BY DEF OverdraftsAreLent, Lent
<1>1. Lent(x, wallet[x], line[x])
  BY DEF OverdraftsAreLent, Lent
<1>2. CASE wallet'[x] = wallet[x] /\ line'[x] = line[x]
  BY <1>1, <1>2 DEF Lent
<1>3. CASE Lent(x, wallet[x], line[x]) => Lent(x, wallet'[x], line'[x])
  BY <1>1, <1>3
<1> QED BY <1>2, <1>3

LEMMA LentArithmetic ==
    ASSUME NEW x, NEW n \in Int, NEW l \in LineType, NEW a \in Nat
    PROVE  /\ Lent(x, n, l) => Lent(x, n + a, l) /\ Lent(x, n + a, Recover(l, a))
           /\ n >= a => Lent(x, n - a, l)
           /\ Lent(x, n, l) /\ n + l.avail >= a
                => Lent(x, n - a, Draw(l, Least(a, l.avail)))
           /\ Lent(x, n, l) => Lent(x, n - a, Draw(l, NewDebt(n, a)))
           /\ Lent(x, n, l) => Lent(x, n, Draw(l, NewDebt(n, a)))
<1>1. l.used \in Nat /\ l.avail \in Nat
  BY DEF LineType
<1>2. Lent(x, n, l) => Lent(x, n + a, l) /\ Lent(x, n + a, Recover(l, a))
  BY <1>1 DEF Lent, Recover, Recovered, Least
<1>3. n >= a => Lent(x, n - a, l)
  BY DEF Lent
<1>4. Lent(x, n, l) /\ n + l.avail >= a
        => Lent(x, n - a, Draw(l, Least(a, l.avail)))
  BY <1>1 DEF Lent, Draw, Least
<1>5. /\ Lent(x, n, l) => Lent(x, n - a, Draw(l, NewDebt(n, a)))
      /\ Lent(x, n, l) => Lent(x, n, Draw(l, NewDebt(n, a)))
  <2>1. NewDebt(n, a) \in Nat
    BY DEF NewDebt, Pos
  <2>2. n - a < 0 => IF n < 0 THEN NewDebt(n, a) = a ELSE NewDebt(n, a) = a - n
    BY DEF NewDebt, Pos
  <2>3. Draw(l, NewDebt(n, a)).used = l.used + NewDebt(n, a)
    BY DEF Draw
  <2> HIDE DEF NewDebt, Draw
  <2> QED BY <1>1, <2>1, <2>2, <2>3 DEF Lent
<1> QED BY <1>2, <1>3, <1>4, <1>5

LEMMA DeskLends ==
    ASSUME Core, OverdraftsAreLent, DeskNext
    PROVE  OverdraftsAreLent'
<1>1. DeskInv /\ BooksTypeOK /\ wallet \in [Users -> Int] /\ line \in [Users -> LineType]
  BY DEF Core, CoreTypes, DeskInv, BooksTypeOK
<1>2. ASSUME UNCHANGED Money PROVE OverdraftsAreLent'
  BY <1>2 DEF Money, OverdraftsAreLent
<1>3. ASSUME NEW u \in Users, NEW k \in Kinds, NEW read \in Int, Transfer(u, k, read)
      PROVE  OverdraftsAreLent'
  <2>1. In \in Nat /\ Out \in Nat
    BY DeskAssumption
  <2>2. clobbered' = IF read = wallet[u] THEN clobbered ELSE clobbered \union {u}
    BY <1>3 DEF Transfer
  <2>3. ASSUME NEW x \in Users \ {u}
        PROVE  wallet'[x] = wallet[x] /\ line'[x] = line[x]
    BY <1>1, <1>3, <2>3 DEF Transfer, Deposit, Withdraw, CashOut
  <2>4. ASSUME u \notin clobbered', Lent(u, wallet[u], line[u])
        PROVE  Lent(u, wallet'[u], line'[u])
    <3>1. wallet[u] = read /\ line[u] \in LineType
      BY <1>1, <2>2, <2>4
    <3>2. CASE Deposit(u, read, In)
      <4>1. wallet'[u] = read + In /\ line'[u] = Recover(line[u], In)
        BY <1>1, <3>2 DEF Deposit, Deposited
      <4> QED BY <2>1, <2>4, <3>1, <4>1, LentArithmetic
    <3>3. CASE Withdraw(u, read, Out)
      <4>1. wallet'[u] = read - Out /\ line'[u] = Draw(line[u], Least(Out, line[u].avail))
            /\ read + line[u].avail >= Out
        BY <1>1, <3>3 DEF Withdraw
      <4> QED BY <2>1, <2>4, <3>1, <4>1, LentArithmetic
    <3>4. CASE CashOut(u, read, Out)
      <4>1. wallet'[u] = read - Out /\ line'[u] = line[u] /\ read >= Out
        BY <1>1, <3>4 DEF CashOut
      <4> QED BY <2>1, <3>1, <4>1, LentArithmetic
    <3> QED BY <1>3, <3>2, <3>3, <3>4 DEF Transfer
  <2> QED BY <2>2, <2>3, <2>4, LentStep
<1>4. ASSUME NEW c \in Desks, DeskStep(c) PROVE OverdraftsAreLent'
  <2>1. CASE HandlerCommits(c)
    <3>1. desk[c] \in WorkType /\ Transfer(desk[c].user, desk[c].kind, desk[c].read)
      BY <1>1, <2>1, HandlerCommitsKeeps
    <3>2. desk[c].user \in Users /\ desk[c].kind \in Kinds /\ desk[c].read \in Int
      BY <3>1 DEF WorkType
    <3> QED BY <1>3, <3>1, <3>2
  <2>2. CASE SyncItem(c)
    <3>1. desk[c] \in WorkType
          /\ Transfer(desk[c].user, desk[c].kind, wallet[desk[c].user])
      BY <1>1, <2>2, SyncItemKeeps
    <3>2. /\ desk[c].user \in Users /\ desk[c].kind \in Kinds
          /\ wallet[desk[c].user] \in Int
      BY <1>1, <3>1 DEF WorkType
    <3> QED BY <1>3, <3>1, <3>2
  <2>3. CASE Reject(c) \/ CancelItem(c) \/ LookUpUsage(c) \/ GuardLimits(c)
             \/ ReadWallet(c) \/ Stop(c) \/ \E force \in BOOLEAN : Retry(c, force)
    BY <1>2, <2>3 DEF Reject, CancelItem, LookUpUsage, GuardLimits, ReadWallet, Stop, Retry
  <2> QED BY <1>4, <2>1, <2>2, <2>3 DEF DeskStep
<1>5. CASE \/ \E r \in Requests, k \in {"deposit", "withdraw"} : RequestCash(r, k)
           \/ \E i \in Items, k \in {"deposit", "cash_out"} : QueueItem(i, k)
           \/ \E c \in Desks, r \in Requests : OpenApproval(c, r) \/ OpenRejection(c, r)
           \/ \E c \in Desks, u \in Served, k \in Kinds : HandOver(c, u, k) \/ AgentCash(c, u, k)
           \/ \E c \in Desks, i \in Items :
                 OpenRetry(c, i) \/ OpenCancel(c, i)
                 \/ \E force \in BOOLEAN : TakeItem(c, i, force)
  BY <1>2, <1>5 DEF RequestCash, QueueItem, OpenApproval, OpenRejection, HandOver, AgentCash,
                    OpenRetry, OpenCancel, TakeItem
<1> QED BY <1>4, <1>5 DEF DeskNext

LEMMA ProductsLend ==
    ASSUME Core, OverdraftsAreLent, ProductsNext
    PROVE  OverdraftsAreLent'
<1>1. /\ wallet \in [Users -> Int] /\ line \in [Users -> LineType]
      /\ OwnerOf \in [Products -> Users] /\ Saving \in Nat /\ Amounts \subseteq Nat
      /\ Goals \subseteq Products /\ SubWallets \subseteq Products /\ Cards \subseteq Products
  BY AccountKinds, ProductsAssumption DEF Core, CoreTypes, BooksTypeOK
<1>2. ASSUME UNCHANGED <<wallet, line, clobbered>> PROVE OverdraftsAreLent'
  BY <1>2 DEF OverdraftsAreLent
<1>3. ASSUME NEW u \in Users, NEW n \in Nat, NEW a, PayInto(u, a, n) \/ PayBack(a, u, n),
             clobbered \subseteq clobbered'
      PROVE  OverdraftsAreLent'
  <2>1. ASSUME NEW x \in Users \ {u} PROVE wallet'[x] = wallet[x] /\ line'[x] = line[x]
    BY <1>1, <1>3, <2>1 DEF PayInto, PayBack
  <2>2. ASSUME Lent(u, wallet[u], line[u]) PROVE Lent(u, wallet'[u], line'[u])
    <3>1. wallet[u] \in Int /\ line[u] \in LineType /\ line'[u] = line[u]
      BY <1>1, <1>3 DEF PayInto, PayBack
    <3>2. (wallet[u] >= n /\ wallet'[u] = wallet[u] - n) \/ wallet'[u] = wallet[u] + n
      BY <1>1, <1>3 DEF PayInto, PayBack
    <3> QED BY <2>2, <3>1, <3>2, LentArithmetic
  <2> QED BY <1>3, <2>1, <2>2, LentStep
<1>4. ASSUME NEW g \in Goals, GoalStep(g) PROVE OverdraftsAreLent'
  <2>1. OwnerOf[g] \in Users
    BY <1>1
  <2>2. CASE \/ CreateGoal(g) \/ UpdateLock(g)
             \/ \E on \in BOOLEAN : ConfigureRoundUp(g, on)
             \/ \E on \in BOOLEAN, next \in {clock, clock + 1} : ConfigureAuto(g, on, next)
    <3>1. UNCHANGED <<Purse, line, clobbered>>
      <4>1. CASE CreateGoal(g)
        BY <4>1 DEF CreateGoal
      <4>2. CASE UpdateLock(g)
        BY <4>2 DEF UpdateLock
      <4>3. ASSUME NEW on, ConfigureRoundUp(g, on) PROVE UNCHANGED <<Purse, line, clobbered>>
        BY <4>3 DEF ConfigureRoundUp
      <4>4. ASSUME NEW on, NEW next, ConfigureAuto(g, on, next)
            PROVE  UNCHANGED <<Purse, line, clobbered>>
        BY <4>4 DEF ConfigureAuto
      <4> QED BY <2>2, <4>1, <4>2, <4>3, <4>4
    <3> QED BY <1>2, <3>1 DEF Purse
  <2>3. CASE ApplyRoundUp(g) \/ RunAuto(g)
    BY <1>1, <1>3, <2>1, <2>3 DEF ApplyRoundUp, RunAuto
  <2>4. CASE \E n \in Amounts : Contribute(g, n) \/ WithdrawGoal(g, n)
    BY <1>1, <1>3, <2>1, <2>4 DEF Contribute, WithdrawGoal
  <2> QED BY <1>4, <2>2, <2>3, <2>4 DEF GoalStep
<1>5. ASSUME NEW g \in Goals, BatchStep(g) PROVE OverdraftsAreLent'
  <2>1. OwnerOf[g] \in Users
    BY <1>1
  <2>2. ASSUME NEW w, NEW batch, SaveFor(w, g, batch) PROVE OverdraftsAreLent'
    <3>1. PayInto(OwnerOf[g], g, Saving) /\ clobbered \subseteq clobbered'
      BY <2>2 DEF SaveFor, WriteSaved
    <3> QED BY <1>1, <1>3, <2>1, <3>1
  <2> QED BY <1>5, <2>2 DEF BatchStep, WorkerRound, OwnRound, NextInRound
<1>6. ASSUME NEW p \in Pots, PotStep(p) PROVE OverdraftsAreLent'
  <2>1. CASE \/ CreatePot(p) \/ ExpirePot(p) \/ ClosePot(p)
             \/ \E u \in Users : AddMember(p, u) \/ LeavePot(p, u)
             \/ \E u \in Users, status \in {"active", "away"} : UpdateMember(p, u, status)
    <3>1. UNCHANGED <<Purse, NotPot>>
      BY <2>1 DEF CreatePot, ExpirePot, ClosePot, AddMember, LeavePot, UpdateMember, SetMember
    <3> QED BY <1>2, <3>1 DEF Purse, NotPot
  <2>2. CASE \E u \in Users, n \in Amounts : ContributePot(p, u, n)
    BY <1>1, <1>3, <2>2 DEF ContributePot
  <2> QED BY <1>6, <2>1, <2>2 DEF PotStep
<1>7. ASSUME NEW s \in SubWallets, SubStep(s) PROVE OverdraftsAreLent'
  <2>1. OwnerOf[s] \in Users
    BY <1>1
  <2>2. CASE \/ \E n \in Ceilings : CreateSub(s, n)
             \/ \E n \in Ceilings, status \in {"active", "suspended"} : UpdateSub(s, n, status)
    <3>1. ASSUME NEW n, CreateSub(s, n) PROVE UNCHANGED <<Purse, NotSub>>
      BY <3>1 DEF CreateSub
    <3>2. ASSUME NEW n, NEW status, UpdateSub(s, n, status) PROVE UNCHANGED <<Purse, NotSub>>
      BY <3>2 DEF UpdateSub
    <3> QED BY <1>2, <2>2, <3>1, <3>2 DEF Purse, NotSub
  <2>3. CASE \E n \in Amounts : FundSub(s, n) \/ ReleaseSub(s, n)
    BY <1>1, <1>3, <2>1, <2>3 DEF FundSub, ReleaseSub
  <2> QED BY <1>7, <2>2, <2>3 DEF SubStep
<1>8. ASSUME NEW k \in Cards, CardStep(k) PROVE OverdraftsAreLent'
  <2>1. OwnerOf[k] \in Users
    BY <1>1
  <2>2. CASE \/ \E single \in BOOLEAN : CreateCard(k, single)
             \/ \E status \in {"active", "frozen", "cancelled"} : UpdateCardStatus(k, status)
             \/ DeclineCharge(k)
    BY <1>2, <2>2 DEF CreateCard, UpdateCardStatus, DeclineCharge, Purse, NotCard
  <2>3. CASE \E n \in Amounts : ChargeCard(k, n)
    BY <1>1, <1>3, <2>1, <2>3 DEF ChargeCard
  <2> QED BY <1>8, <2>2, <2>3 DEF CardStep
<1>9. ASSUME Tick \/ (\E w \in Batches : EndRound(w)) \/ (\E u \in Users : SetBusiness(u))
      PROVE  OverdraftsAreLent'
  BY <1>2, <1>9 DEF Tick, EndRound, SetBusiness, Purse, NotSub
<1> QED BY <1>4, <1>5, <1>6, <1>7, <1>8, <1>9 DEF ProductsNext

LEMMA TransfersLend ==
    ASSUME Core, TransfersTypeOK, OverdraftsAreLent, TransfersNext
    PROVE  OverdraftsAreLent'
<1>1. wallet \in [Users -> Int] /\ line \in [Users -> LineType] /\ Sent \in Nat
  BY TransfersAssumption DEF Core, CoreTypes, BooksTypeOK
<1>2. ASSUME UNCHANGED <<wallet, line, clobbered>> PROVE OverdraftsAreLent'
  BY <1>2 DEF OverdraftsAreLent
<1>3. ASSUME NEW t \in Payers, Pay(t) PROVE OverdraftsAreLent'
  <2> DEFINE u == paying[t].from
             v == paying[t].to
             read == paying[t].read
             got == paying[t].got
  <2>1. u \in Users /\ v \in Users /\ read \in Int /\ got \in Int
    BY <1>3 DEF TransfersTypeOK, PaymentType, Waiting, Pay
  <2>2. /\ wallet' = IF u = v THEN [wallet EXCEPT ![u] = read - Sent + Sent]
                     ELSE [wallet EXCEPT ![u] = read - Sent, ![v] = got + Sent]
        /\ line' = [line EXCEPT ![u] = Draw(@, NewDebt(read, Sent))]
        /\ clobbered' = clobbered \union {x \in {u, v} : wallet[x] # IF x = u THEN read ELSE got}
    BY <1>3 DEF Pay, Moved, Owed, Outdated
  <2> HIDE DEF u, v, read, got
  <2>3. ASSUME NEW x \in Users \ {u, v} PROVE wallet'[x] = wallet[x] /\ line'[x] = line[x]
    BY <1>1, <2>2, <2>3
  <2>4. ASSUME u \notin clobbered', Lent(u, wallet[u], line[u])
        PROVE  Lent(u, wallet'[u], line'[u])
    <3>1. wallet[u] = read /\ line[u] \in LineType
      BY <1>1, <2>1, <2>2, <2>4
    <3>2. line'[u] = Draw(line[u], NewDebt(read, Sent))
      BY <1>1, <2>1, <2>2
    <3>3. wallet'[u] = IF u = v THEN read ELSE read - Sent
      <4>1. CASE u = v
        BY <1>1, <2>1, <2>2, <4>1
      <4>2. CASE u # v
        BY <1>1, <2>1, <2>2, <4>2
      <4> QED BY <4>1, <4>2
    <3> QED BY <1>1, <2>1, <2>4, <3>1, <3>2, <3>3, LentArithmetic
  <2>5. ASSUME u # v, v \notin clobbered', Lent(v, wallet[v], line[v])
        PROVE  Lent(v, wallet'[v], line'[v])
    <3>1. wallet[v] = got /\ line[v] \in LineType
      BY <1>1, <2>1, <2>2, <2>5
    <3>2. line'[v] = line[v] /\ wallet'[v] = got + Sent
      BY <1>1, <2>1, <2>2, <2>5
    <3> QED BY <1>1, <2>1, <2>5, <3>1, <3>2, LentArithmetic
  <2>6. clobbered \subseteq clobbered'
    BY <2>2
  <2> QED BY <2>3, <2>4, <2>5, <2>6, LentStep
<1>4. ASSUME NEW t \in Payers, TopUpWallet(t) PROVE OverdraftsAreLent'
  <2> DEFINE u == paying[t].from
             read == paying[t].read
  <2>1. u \in Users /\ read \in Int
    BY <1>4 DEF TransfersTypeOK, PaymentType, Waiting, TopUpWallet
  <2>2. /\ wallet' = [wallet EXCEPT ![u] = read + Sent] /\ line' = line
        /\ clobbered' = clobbered \union {x \in {u} : wallet[x] # read}
    BY <1>4 DEF TopUpWallet
  <2> HIDE DEF u, read
  <2>3. ASSUME u \notin clobbered', Lent(u, wallet[u], line[u])
        PROVE  Lent(u, wallet'[u], line'[u])
    <3>1. wallet[u] = read /\ line[u] \in LineType /\ line'[u] = line[u]
      BY <1>1, <2>1, <2>2, <2>3
    <3>2. wallet'[u] = read + Sent
      BY <1>1, <2>1, <2>2
    <3> QED BY <1>1, <2>1, <2>3, <3>1, <3>2, LentArithmetic
  <2>4. clobbered \subseteq clobbered'
        /\ \A x \in Users \ {u} : wallet'[x] = wallet[x] /\ line'[x] = line[x]
    BY <1>1, <2>2
  <2> QED BY <2>3, <2>4, LentStep
<1>5. ASSUME NEW t \in Payers, ReadPayee(t) \/ HangUp(t) PROVE OverdraftsAreLent'
  BY <1>2, <1>5 DEF ReadPayee, HangUp, booksVars
<1>6. ASSUME NEW t, NEW at, NEW u, NEW v, Start(t, at, u, v) PROVE OverdraftsAreLent'
  BY <1>2, <1>6 DEF Start
<1> QED BY <1>3, <1>4, <1>5, <1>6 DEF TransfersNext, OpenTopUp, OpenTransfer

LEMMA LoansLend ==
    ASSUME Core, LoansInv, OverdraftsAreLent, LoansNext
    PROVE  OverdraftsAreLent'
<1>1. wallet \in [Users -> Int] /\ line \in [Users -> LineType] /\ Principal \in Nat
  BY LoansAssumption DEF Core, CoreTypes, BooksTypeOK
<1>2. ASSUME UNCHANGED <<wallet, line, clobbered>> PROVE OverdraftsAreLent'
  BY <1>2 DEF OverdraftsAreLent
<1>3. ASSUME NEW u \in Users, NEW read \in Int, NEW n \in Int, Bring(u, read, n),
             n >= 0 \/ read + n >= 0
      PROVE  OverdraftsAreLent'
  <2>1. /\ wallet' = [wallet EXCEPT ![u] = read + n] /\ line' = line
        /\ clobbered' = clobbered \union {x \in {u} : wallet[x] # read}
    BY <1>3 DEF Bring
  <2>2. ASSUME u \notin clobbered', Lent(u, wallet[u], line[u])
        PROVE  Lent(u, wallet'[u], line'[u])
    <3>1. wallet[u] = read /\ line[u] \in LineType /\ line'[u] = line[u]
          /\ wallet'[u] = read + n
      BY <1>1, <2>1, <2>2
    <3>2. CASE n >= 0
      <4>1. n \in Nat
        BY <3>2
      <4>2. Lent(u, read, line[u]) => Lent(u, read + n, line[u])
        BY <3>1, <4>1, LentArithmetic
      <4> QED BY <2>2, <3>1, <4>2
    <3>3. CASE read + n >= 0
      BY <3>1, <3>3 DEF Lent
    <3> QED BY <1>3, <3>2, <3>3
  <2>3. clobbered \subseteq clobbered'
        /\ \A x \in Users \ {u} : wallet'[x] = wallet[x] /\ line'[x] = line[x]
    BY <1>1, <2>1
  <2> QED BY <2>2, <2>3, LentStep
<1>4. ASSUME NEW o \in Clerks, Disburse(o) PROVE OverdraftsAreLent'
  <2>1. clerk[o] \in TaskType /\ BorrowerOf[clerk[o].loan] \in Users
    BY <1>4, TaskTyped DEF LoansInv, Disburse
  <2>2. Bring(BorrowerOf[clerk[o].loan], clerk[o].read, Principal) /\ clerk[o].read \in Int
    BY <1>4, <2>1 DEF Disburse, TaskType
  <2> QED BY <1>1, <1>3, <2>1, <2>2
<1>5. ASSUME NEW o \in Clerks, NEW n \in 1..clerk[o].read, NEW p, NEW overdue,
             Repay(o, n, p, overdue)
      PROVE  OverdraftsAreLent'
  <2>1. clerk[o] \in TaskType /\ BorrowerOf[clerk[o].loan] \in Users
    BY <1>5, TaskTyped DEF LoansInv, Repay
  <2>2. Bring(BorrowerOf[clerk[o].loan], clerk[o].read, -n) /\ clerk[o].read \in Int
    BY <1>5, <2>1 DEF Repay, TaskType
  <2>3. -n \in Int /\ clerk[o].read + (-n) >= 0
    BY <2>2
  <2> QED BY <1>3, <2>1, <2>2, <2>3
<1>6. ASSUME NEW o \in Clerks,
             \/ LookUpPlan(o) \/ Apply(o) \/ WriteOff(o) \/ Approve(o) \/ DropTask(o)
             \/ \E op \in Tasks, l \in Loans : OpenTask(o, op, l)
      PROVE  OverdraftsAreLent'
  <2>1. UNCHANGED LoanBooks
    BY <1>6 DEF LookUpPlan, Apply, WriteOff, Approve, DropTask, OpenTask
  <2> QED BY <1>2, <2>1 DEF LoanBooks
<1> QED BY <1>4, <1>5, <1>6 DEF LoansNext

-----------------------------------------------------------------------------
(* Theorems.                                                               *)

LEMMA CoreInit ==
    ASSUME Init
    PROVE  Core
<1>1. BooksTypeOK
  <2>1. \A u \in Users : Start0[u] \in Int /\ Limit0[u] \in Nat
    BY BooksAssumption
  <2>2. wallet \in [Users -> Int]
    BY <2>1, BooksAssumption DEF Init, BooksInit
  <2>3. line \in [Users -> LineType]
    BY <2>1 DEF Init, BooksInit, LineType
  <2> QED BY <2>2, <2>3 DEF Init, BooksInit, BooksTypeOK
<1>2. DeskTypeOK
  <2>1. Row("none", "deposit", 0) \in RowType
    BY DEF Row, RowType, Statuses, Kinds
  <2>2. <<>> \in Seq(Nat)
    BY EmptySeq
  <2> QED BY <2>1, <2>2 DEF Init, DeskInit, DeskTypeOK
<1>3. Sessions
  BY DEF Init, DeskInit, Sessions, Knows, Idle
<1>4. RowsMatchMoney
  <2>1. \A r \in Rows : rows[r].status = "none" /\ moved[r] = 0
    BY DEF Init, DeskInit, Row
  <2> QED BY <2>1 DEF RowsMatchMoney
<1>5. /\ \A u \in Users : book[u] = 0 /\ wallet[u] = Start0[u] /\ Start0[u] \in Int
      /\ \A a \in Products : book[a] = 0
  BY AccountKinds, BooksAssumption DEF Init, BooksInit
<1>6. WalletsMatch
  <2>1. \A u \in Users : lent[u] = 0
    BY DEF Init, LoansInit
  <2> QED BY <1>5, <2>1 DEF WalletsMatch
<1>7. /\ goal \in [Goals -> GoalType] /\ \A g \in Goals : goal[g].amount = 0
      /\ pot \in [Pots -> PotType] /\ \A p \in Pots : pot[p].amount = 0
      /\ sub \in [SubWallets -> SubType] /\ \A s \in SubWallets : sub[s].amount = 0
      /\ card \in [Cards -> CardType] /\ \A k \in Cards : card[k].spent = 0
  <2>0. PICK S \in Existing : ProductsInit(S)
    BY DEF Init
  <2>1. /\ goal = [g \in Goals |-> IF g \in S THEN [NewGoal EXCEPT !.auto = TRUE]
                                            ELSE NoGoal]
        /\ pot = [p \in Pots |-> IF p \in S THEN NewPot(0) ELSE NoPot]
        /\ sub \in [SubWallets -> {NoSub} \union {NewSub(n) : n \in Ceilings}]
        /\ card = [k \in Cards |-> IF k \in S THEN NewCard(TRUE) ELSE NoCard]
    BY <2>0 DEF ProductsInit
  <2>2. /\ [NewGoal EXCEPT !.auto = TRUE] \in GoalType
        /\ [NewGoal EXCEPT !.auto = TRUE].amount = 0
        /\ NoGoal \in GoalType /\ NoGoal.amount = 0
    <3>1. NewGoal \in GoalType /\ NewGoal.amount = 0
      BY DEF NewGoal, GoalType
    <3> QED BY <3>1 DEF NoGoal, GoalType
  <2>3. NewPot(0) \in PotType /\ NewPot(0).amount = 0 /\ NoPot \in PotType /\ NoPot.amount = 0
    <3>1. NewPot(0) \in PotType /\ NewPot(0).amount = 0
      BY NewPotTyped
    <3> QED BY <3>1 DEF NoPot, PotType
  <2>4. \A n \in Ceilings : NewSub(n) \in SubType /\ NewSub(n).amount = 0
    BY ProductsAssumption DEF NewSub, SubType
  <2>5. NoSub \in SubType /\ NoSub.amount = 0
    <3>1. NewSub(0) \in SubType /\ NewSub(0).amount = 0
      BY DEF NewSub, SubType
    <3> QED BY <3>1 DEF NoSub, SubType
  <2>6. NewCard(TRUE) \in CardType /\ NewCard(TRUE).spent = 0
    BY DEF NewCard, CardType
  <2>7. NoCard \in CardType /\ NoCard.spent = 0
    <3>1. NewCard(FALSE) \in CardType /\ NewCard(FALSE).spent = 0
      BY DEF NewCard, CardType
    <3> QED BY <3>1 DEF NoCard, CardType
  <2>8. sub \in [SubWallets -> SubType] /\ \A s \in SubWallets : sub[s].amount = 0
    BY <2>1, <2>4, <2>5
  <2>9. goal \in [Goals -> GoalType] /\ \A g \in Goals : goal[g].amount = 0
    BY <2>1, <2>2
  <2>10. pot \in [Pots -> PotType] /\ \A p \in Pots : pot[p].amount = 0
    BY <2>1, <2>3
  <2>11. card \in [Cards -> CardType] /\ \A k \in Cards : card[k].spent = 0
    BY <2>1, <2>6, <2>7
  <2> QED BY <2>8, <2>9, <2>10, <2>11
<1>8. PICK S \in Existing : ProductsInit(S)
  BY DEF Init
<1>9. /\ held \in [Batches -> [Goals -> GoalType \union {Nothing}]]
      /\ \A w \in Batches, g \in Goals : held[w][g] = Nothing
  BY <1>8 DEF ProductsInit, NoBatch
<1>10. ProductsTypeOK
  BY <1>7, <1>8, <1>9, ProductsAssumption DEF ProductsInit, ProductsTypeOK
<1>11. ProductsMatch
  BY <1>5, <1>7, AccountKinds DEF ProductsMatch
<1>12. Made
  BY <1>7, <1>9 DEF Made
<1>13. lent \in [Users -> Int]
  BY DEF Init, LoansInit
<1> QED BY <1>1, <1>2, <1>3, <1>4, <1>6, <1>10, <1>11, <1>12, <1>13 DEF Core, CoreTypes

LEMMA LoansStart ==
    ASSUME Init
    PROVE  LoansInv
<1>1. PICK S \in Existing : LoansInit(S)
  BY DEF Init
<1>2. /\ Schedule \in [1..Terms -> InstallmentType] /\ Terms \in Nat
      /\ \A i \in 1..Terms : Schedule[i] = NewInstallment
  BY LoansAssumption DEF Schedule, NewInstallment, InstallmentType
<1>3. Schedule \in Seq(InstallmentType) /\ Len(Schedule) = Terms
  BY <1>2, FunctionIsSeq
<1>4. <<>> \in Seq(InstallmentType) /\ Len(<<>>) = 0
  BY EmptySeq
<1> DEFINE planned == [status |-> "draft", plan |-> Schedule]
           absent  == [status |-> "none", plan |-> <<>>]
<1>5. planned \in LoanType /\ absent \in LoanType
  BY <1>3, <1>4 DEF LoanType, LoanStatuses
<1>6. Agrees(planned, 0)
  <2>1. DOMAIN Schedule = 1..Terms /\ Due \in Nat
    BY <1>2, LoansAssumption
  <2>2. \A i \in 1..Terms :
           /\ Schedule[i].served = 0 /\ Schedule[i].paid = 0
           /\ i > Len(Schedule) - Terms
    BY <1>2, <1>3 DEF NewInstallment
  <2> QED BY <2>1, <2>2 DEF Agrees, InForce
<1>7. Agrees(absent, 0)
  <2>1. DOMAIN <<>> = {}
    OBVIOUS
  <2> QED BY <2>1 DEF Agrees, InForce
<1>8. loan = [l \in Loans |-> IF l \in S THEN planned ELSE absent]
  BY <1>1 DEF LoansInit
<1> HIDE DEF planned, absent
<1>9. loan \in [Loans -> LoanType] /\ \A l \in Loans : Agrees(loan[l], 0)
  BY <1>5, <1>6, <1>7, <1>8
<1>10. LoansTypeOK
  BY <1>1, <1>9 DEF LoansInit, LoansTypeOK
<1>11. Reads
  BY <1>1 DEF LoansInit, Reads
<1>12. LoansMatch
  <2>1. \A l \in Loans : paidOut[l] = 0
    BY <1>1 DEF LoansInit
  <2> QED BY <1>9, <2>1, EachAgrees
<1> QED BY <1>10, <1>11, <1>12 DEF LoansInv

Inv == Core /\ TransfersTypeOK /\ LoansInv /\ OverdraftsAreLent

LEMMA InitInv ==
    ASSUME Init
    PROVE  Inv
<1>1. TransfersTypeOK
  BY DEF Init, TransfersInit, TransfersTypeOK
<1>2. OverdraftsAreLent
  <2>1. \A u \in Users : wallet[u] \in Nat
    BY BooksAssumption DEF Init, BooksInit
  <2> QED BY <2>1 DEF OverdraftsAreLent
<1> QED BY <1>1, <1>2, CoreInit, LoansStart DEF Inv

LEMMA NextInv ==
    ASSUME Inv, [Next]_vars
    PROVE  Inv'
<1>1. ASSUME UNCHANGED loansVars PROVE lent' = lent /\ LoansInv'
  <2>1. UNCHANGED <<loan, clerk, lent, paidOut, misread>>
    BY <1>1 DEF loansVars
  <2> QED BY <2>1 DEF Inv, LoansInv, LoansTypeOK, Reads, LoansMatch
<1>2. ASSUME UNCHANGED transfersVars PROVE TransfersTypeOK'
  BY <1>2 DEF Inv, TransfersTypeOK, transfersVars
<1>3. CASE DeskNext /\ UNCHANGED <<productsVars, transfersVars, loansVars>>
  BY <1>1, <1>2, <1>3, DeskKeeps, DeskLends DEF Inv
<1>4. CASE ProductsNext /\ UNCHANGED <<deskVars, transfersVars, loansVars>>
  <2>1. Core'
    BY <1>1, <1>4, GoalStepKeeps, BatchStepKeeps, EndRoundKeeps, PotStepKeeps,
       SetBusinessKeeps, SubStepKeeps, CardStepKeeps, TickKeeps DEF ProductsNext, Inv
  <2> QED BY <1>1, <1>2, <1>4, <2>1, ProductsLend DEF Inv
<1>5. CASE TransfersNext /\ UNCHANGED <<deskVars, productsVars, loansVars>>
  BY <1>1, <1>5, TransfersKeep, TransfersLend DEF Inv
<1>6. CASE LoansNext /\ UNCHANGED <<deskVars, productsVars, transfersVars>>
  BY <1>2, <1>6, LoansKeep, LoansLend DEF Inv
<1>7. CASE UNCHANGED vars
  <2>1. UNCHANGED <<booksVars, deskVars, productsVars, transfersVars, loansVars>>
    BY <1>7 DEF vars
  <2>2. CoreTypes'
    BY <1>1, <2>1 DEF Inv, Core, CoreTypes, BooksTypeOK, DeskTypeOK, ProductsTypeOK,
                      booksVars, deskVars, productsVars
  <2>3. Sessions' /\ RowsMatchMoney'
    BY <2>1 DEF Inv, Core, Sessions, Knows, RowsMatchMoney, deskVars
  <2>4. WalletsMatch' /\ ProductsMatch' /\ Made'
    BY <1>1, <2>1 DEF Inv, Core, WalletsMatch, ProductsMatch, Made, booksVars, productsVars
  <2>5. OverdraftsAreLent'
    BY <2>1 DEF Inv, OverdraftsAreLent, booksVars
  <2> QED BY <1>1, <1>2, <2>1, <2>2, <2>3, <2>4, <2>5 DEF Inv, Core
<1> QED BY <1>3, <1>4, <1>5, <1>6, <1>7 DEF Next

\* The inductive invariant: types, rows that say what they moved, books that match
\* balances, overdrafts that are lent, and what sessions and batches hold.
THEOREM InductiveInvariant == Spec => []Inv
<1>1. Init => Inv
  BY InitInv
<1>2. Inv /\ [Next]_vars => Inv'
  BY NextInv
<1> QED BY <1>1, <1>2, PTL DEF Spec

\* Every variable keeps its type, for any number of sessions, rows, products and loans.
THEOREM TypesHold == Spec => []TypeOK
<1>1. Inv => TypeOK
  BY DEF Inv, Core, CoreTypes, LoansInv, TypeOK
<1> QED BY <1>1, InductiveInvariant, PTL

\* A row nobody wrote stale says what it has moved (HandlerCommits, SyncItem): an
\* item of the queue moves its amount once, a refused or cancelled row never.
THEOREM RowsSayWhatMoved == Spec => []RowsMatchMoney
<1>1. Inv => RowsMatchMoney
  BY DEF Inv, Core
<1> QED BY <1>1, InductiveInvariant, PTL

\* Wallets and products hold what the ledger and the loans say, and loans what
\* their installments say, except where something was written from rows that had
\* changed since they were read.
THEOREM BooksAgree == Spec => []BooksMatch
<1>1. Inv => BooksMatch
  BY DEF Inv, Core, LoansInv, BooksMatch
<1> QED BY <1>1, InductiveInvariant, PTL

\* Whatever moves a wallet, it is overdrawn by no more than its owner has drawn on
\* the credit line, with the same exception (Withdraw, Pay, PayInto, Repay).
THEOREM OverdraftsStayLent == Spec => []OverdraftsAreLent
<1>1. Inv => OverdraftsAreLent
  BY DEF Inv
<1> QED BY <1>1, InductiveInvariant, PTL
-----------------------------------------------------------------------------
(* The daily limits of the agents' operations.                             *)

LEMMA OpeningFinite ==
    ASSUME NEW u
    PROVE  /\ IsFiniteSet(Opening(u)) /\ Cardinality(Opening(u)) \in Nat
           /\ Cardinality(Opening(u)) <= Cardinality(Desks) /\ Cardinality(Desks) \in Nat
<1>1. IsFiniteSet(Desks) /\ Opening(u) \in SUBSET Desks
  BY DeskAssumption DEF Opening
<1> QED BY <1>1, FS_Subset, FS_CardinalityType

LEMMA Interval ==
    ASSUME NEW a \in Nat, NEW n \in Nat
    PROVE  IsFiniteSet((a + 1)..(a + n)) /\ Cardinality((a + 1)..(a + n)) = n
<1>1. a + 1 \in Int /\ a + n \in Int
  OBVIOUS
<1>2. /\ IsFiniteSet((a + 1)..(a + n))
      /\ Cardinality((a + 1)..(a + n))
            = IF a + 1 > a + n THEN 0 ELSE (a + n) - (a + 1) + 1
  BY <1>1, FS_Interval, Zenon
<1> QED BY <1>2

LEMMA UpTo ==
    ASSUME NEW n \in Nat
    PROVE  IsFiniteSet(1..n) /\ Cardinality(1..n) = n
<1>1. 0 + 1 = 1 /\ 0 + n = n /\ 0 \in Nat
  OBVIOUS
<1>2. IsFiniteSet((0 + 1)..(0 + n)) /\ Cardinality((0 + 1)..(0 + n)) = n
  BY <1>1, Interval, Zenon
<1> QED BY <1>1, <1>2, Zenon

LEMMA UnitsFinite ==
    ASSUME DeskInv, NEW u \in Users
    PROVE  /\ IsFiniteSet(Units(u)) /\ Cardinality(Units(u)) \in Nat
           /\ Len(usage[u]) \in Nat
           /\ Cardinality(Units(u)) <= DailyLimit * Len(usage[u])
<1>1. PICK n \in Nat : n = Len(usage[u])
  BY LenProperties DEF DeskInv, DeskTypeOK
<1>2. DailyLimit \in Nat
  BY DeskAssumption
<1>3. /\ IsFiniteSet(1..n) /\ Cardinality(1..n) = n
      /\ IsFiniteSet(1..DailyLimit) /\ Cardinality(1..DailyLimit) = DailyLimit
  BY <1>1, <1>2, UpTo, Zenon
<1>4. /\ IsFiniteSet((1..n) \X (1..DailyLimit))
      /\ Cardinality((1..n) \X (1..DailyLimit)) = n * DailyLimit
  <2>1. /\ IsFiniteSet((1..n) \X (1..DailyLimit))
        /\ Cardinality((1..n) \X (1..DailyLimit))
              = Cardinality(1..n) * Cardinality(1..DailyLimit)
    BY <1>3, FS_Product, Zenon
  <2> QED BY <1>3, <2>1, Zenon
<1>5. Units(u) \in SUBSET ((1..n) \X (1..DailyLimit))
  BY <1>1 DEF Units, Below
<1>6. IsFiniteSet(Units(u)) /\ Cardinality(Units(u)) <= n * DailyLimit
  BY <1>4, <1>5, FS_Subset
<1>7. Cardinality(Units(u)) \in Nat
  BY <1>6, FS_CardinalityType
<1> QED BY <1>1, <1>2, <1>6, <1>7

LEMMA UsageQuiet ==
    ASSUME DeskInv, UsageInv, UNCHANGED Limits,
           \A u \in Users : Opening(u)' \subseteq Opening(u) \/ Len(usage[u]) = 0
    PROVE  UsageInv'
<1> SUFFICES ASSUME NEW u \in Users
             PROVE  /\ Len(usage[u]) + Cardinality(Opening(u)') <= Cardinality(Desks)
                    /\ granted[u] <= Cardinality(Units(u)')
                    /\ \A i \in 1..Len(usage[u]) : usage[u][i] <= granted[u]
  BY DEF UsageInv, Limits
<1>1. Units(u)' = Units(u)
  BY DEF Units, Limits
<1>2. Opening(u)' \in SUBSET Desks
  BY DEF Opening
<1>3. Cardinality(Opening(u)') <= Cardinality(Desks) /\ Cardinality(Opening(u)') \in Nat
  BY <1>2, DeskAssumption, FS_Subset, FS_CardinalityType
<1>4. Len(usage[u]) \in Nat /\ Cardinality(Opening(u)) \in Nat /\ Cardinality(Desks) \in Nat
  BY UnitsFinite, OpeningFinite
<1>5. CASE Opening(u)' \subseteq Opening(u)
  <2>1. Cardinality(Opening(u)') <= Cardinality(Opening(u))
    BY <1>5, OpeningFinite, FS_Subset
  <2> QED BY <1>1, <1>3, <1>4, <2>1 DEF UsageInv
<1>6. CASE Len(usage[u]) = 0
  BY <1>1, <1>3, <1>4, <1>6 DEF UsageInv
<1> QED BY <1>5, <1>6

\* The check against one counter finds the room that the counters make for n more.
LEMMA CounterGrows ==
    ASSUME NEW k \in Nat, NEW m \in Nat, k <= m, NEW n \in Nat,
           NEW old, NEW new, NEW i \in 1..m,
           \A j \in 1..k : old[j] \in Nat, \A j \in 1..m : new[j] \in Nat,
           \A j \in 1..k : old[j] <= new[j],
           i <= k => new[i] = old[i] + n, i > k => new[i] = n, new[i] <= DailyLimit
    PROVE  Cardinality(Below(new, m)) >= Cardinality(Below(old, k)) + n
<1> DEFINE L == DailyLimit
           O == {x \in (1..k) \X (1..L) : x[2] <= old[x[1]]}
           N == {x \in (1..m) \X (1..L) : x[2] <= new[x[1]]}
           base == IF i <= k THEN old[i] ELSE 0
           A == {i} \X ((base + 1)..(base + n))
<1>0. L \in Nat
  BY DeskAssumption
<1> HIDE DEF L
<1>1. base \in Nat /\ new[i] = base + n
  BY DEF base
<1>2. /\ IsFiniteSet((base + 1)..(base + n))
      /\ Cardinality((base + 1)..(base + n)) = n
  <2> HIDE DEF base
  <2> QED BY <1>1, Interval, Zenon
<1>3. IsFiniteSet(A) /\ Cardinality(A) = n
  <2>1. IsFiniteSet({i}) /\ Cardinality({i}) = 1
    BY FS_Singleton
  <2> HIDE DEF base
  <2>2. IsFiniteSet(A) /\ Cardinality(A) = 1 * n
    BY <1>2, <2>1, FS_Product, ZenonT(60)
  <2> QED BY <2>2
<1>4. A \subseteq N
  <2> HIDE DEF base
  <2> QED BY <1>0, <1>1 DEF L
<1>5. O \subseteq N
  OBVIOUS
<1>6. A \intersect O = {}
  OBVIOUS
<1>7. IsFiniteSet(N)
  <2>1. IsFiniteSet(1..m) /\ IsFiniteSet(1..L)
    BY <1>0, UpTo
  <2>2. IsFiniteSet((1..m) \X (1..L))
    BY <2>1, FS_Product
  <2> QED BY <2>2, FS_Subset
<1>8. IsFiniteSet(O) /\ Cardinality(O) \in Nat
  BY <1>5, <1>7, FS_Subset, FS_CardinalityType
<1> HIDE DEF O, N, A, base
<1>9. IsFiniteSet(A \union O) /\ Cardinality(A \union O) = n + Cardinality(O)
  <2>1. /\ IsFiniteSet(A \union O)
        /\ Cardinality(A \union O) = Cardinality(A) + Cardinality(O) - Cardinality(A \intersect O)
    BY <1>3, <1>8, FS_Union
  <2>2. Cardinality(A \intersect O) = 0
    BY <1>6, FS_EmptySet
  <2> QED BY <1>3, <1>8, <2>1, <2>2
<1>10. Cardinality(A \union O) <= Cardinality(N) /\ Cardinality(N) \in Nat
  BY <1>4, <1>5, <1>7, FS_Subset, FS_CardinalityType
<1>11. Cardinality(N) >= Cardinality(O) + n
  BY <1>8, <1>9, <1>10
<1> QED BY <1>11 DEF O, N, L, Below
\* What GuardLimits does to the k counters of u, which become m: it never lowers one,
\* it raises none by more than the amount n, and the one it checked by n.
Raised(c, u, n, k, m) ==
    /\ u = desk[c].user /\ n = AmountOf(desk[c].kind) /\ k = Len(usage[u])
    /\ m = IF desk[c].read = 0 THEN k + 1 ELSE k
    /\ usage' = [usage EXCEPT ![u] = usage'[u]]
    /\ Len(usage'[u]) = m
    /\ \A j \in 1..k : /\ usage[u][j] \in Nat /\ usage'[u][j] \in Nat
                       /\ usage[u][j] <= usage'[u][j]
                       /\ usage'[u][j] <= usage[u][j] + n
    /\ \A j \in 1..m : usage'[u][j] \in Nat /\ (j > k => usage'[u][j] = n)
    /\ \E i \in 1..m : /\ usage'[u][i] <= DailyLimit
                       /\ i <= k => usage'[u][i] = usage[u][i] + n

LEMMA GuardCounters ==
    ASSUME DeskInv, NEW c \in Desks, GuardLimits(c)
    PROVE  \E u \in Users : \E n, k, m \in Nat : Raised(c, u, n, k, m)
<1> DEFINE u == desk[c].user
           n == AmountOf(desk[c].kind)
           k == Len(usage[u])
           first == desk[c].read = 0
           all == IF first THEN Append(usage[u], 0) ELSE usage[u]
           m == IF first THEN k + 1 ELSE k
           mine == IF first THEN {m} ELSE {}
<1>1. desk[c] \in WorkType /\ desk[c].at = "guard" /\ desk[c].read \in Nat
  BY Busy DEF GuardLimits, At, Knows
<1>2. u \in Users /\ n \in Nat /\ usage \in [Users -> Seq(Nat)]
  BY <1>1, DeskAssumption DEF WorkType, AmountOf, DeskInv, DeskTypeOK
<1>3. /\ usage[u] \in Seq(Nat) /\ k \in Nat /\ m \in Nat
      /\ \A j \in 1..k : usage[u][j] \in Nat
  BY <1>2, LenProperties, ElementOfSeq
<1>4. /\ Len(all) = m
      /\ \A j \in 1..k : all[j] = usage[u][j]
      /\ \A j \in 1..m : j > k => first /\ j = m /\ all[j] = 0
  BY <1>3, AppendProperties
<1>5. PICK low, i, up :
         /\ low \in desk[c].read..k
         /\ i \in (1..low) \union mine /\ up \in low..k
         /\ Within(all[i], n)
         /\ usage' = [usage EXCEPT ![u] =
                        [j \in 1..Len(all) |-> IF j <= up \/ j \in mine
                                               THEN all[j] + n ELSE all[j]]]
  <2> DEFINE own == IF first THEN {Len(all)} ELSE {}
             with(up, o) == [usage EXCEPT ![u] =
                               [j \in 1..Len(all) |-> IF j <= up \/ j \in o
                                                      THEN all[j] + n ELSE all[j]]]
  <2>1. \E low \in desk[c].read..k :
           /\ \E i \in (1..low) \union own : Within(all[i], n)
           /\ \E up \in low..k : usage' = with(up, own)
    BY DEF GuardLimits
  <2>2. own = mine
    BY <1>4
  <2> HIDE DEF own, mine, all, first, k, m, n, u, with
  <2>3. \E low, i, up :
           /\ low \in desk[c].read..k
           /\ i \in (1..low) \union mine /\ up \in low..k
           /\ Within(all[i], n) /\ usage' = with(up, mine)
    BY <2>1, <2>2
  <2> QED BY <2>3 DEF with
<1> DEFINE new == [j \in 1..m |-> IF j <= up \/ j \in mine THEN all[j] + n ELSE all[j]]
<1>6. usage' = [usage EXCEPT ![u] = new]
  BY <1>4, <1>5
<1>7. usage'[u] = new
  BY <1>2, <1>6
<1>8. \A j \in 1..m : all[j] \in Nat
  BY <1>3, <1>4
<1>9. Len(new) = m
  <2> HIDE DEF n, m, all, mine
  <2>1. new \in [1..m -> Nat]
    BY <1>2, <1>3, <1>8
  <2> HIDE DEF new
  <2> QED BY <1>3, <2>1, FunctionIsSeq
<1>10. i \in 1..m /\ (i <= up \/ i \in mine) /\ all[i] + n <= DailyLimit
  BY <1>1, <1>3, <1>5 DEF Within
<1> HIDE DEF n, u, k, all
<1>11. \A j \in 1..k : /\ usage[u][j] \in Nat /\ new[j] \in Nat
                       /\ usage[u][j] <= new[j] /\ new[j] <= usage[u][j] + n
  BY <1>2, <1>3, <1>4
<1>12. \A j \in 1..m : new[j] \in Nat /\ (j > k => new[j] = n)
  BY <1>2, <1>3, <1>4, <1>8
<1>13. new[i] <= DailyLimit /\ (i <= k => new[i] = usage[u][i] + n)
  BY <1>2, <1>3, <1>4, <1>10
<1> HIDE DEF new, m
<1>14. k = Len(usage[u]) /\ m = IF desk[c].read = 0 THEN k + 1 ELSE k
  BY DEF k, m, first
<1>15. Raised(c, u, n, k, m)
  BY <1>6, <1>7, <1>9, <1>10, <1>11, <1>12, <1>13, <1>14 DEF Raised, n, u
<1> QED BY <1>2, <1>3, <1>15

\* ... so what was allowed still fits below the limit of the counters.
LEMMA UsageRaised ==
    ASSUME DeskInv, UsageInv, NEW c \in Desks, GuardLimits(c),
           NEW u \in Users, NEW n \in Nat, NEW k \in Nat, NEW m \in Nat,
           Raised(c, u, n, k, m)
    PROVE  UsageInv'
<1> USE DEF Raised
<1>1. PICK i \in 1..m : /\ usage'[u][i] <= DailyLimit
                        /\ i <= k => usage'[u][i] = usage[u][i] + n
  OBVIOUS
<1>2. /\ granted' = [granted EXCEPT ![u] = @ + n] /\ granted \in [Users -> Nat]
      /\ usage \in [Users -> Seq(Nat)]
      /\ c \in Desks /\ desk[c].at = "guard" /\ desk'[c].at # "guard"
      /\ \A d \in Desks \ {c} : desk'[d] = desk[d]
  <2>1. desk[c].at = "guard"
    BY DEF GuardLimits, At
  <2>2. desk[c] \in WorkType
    BY <2>1, Busy
  <2>3. desk' = [desk EXCEPT ![c] = [desk[c] EXCEPT !.at =
                    IF desk[c].row = None THEN "wallet" ELSE "sync"]]
    BY DEF GuardLimits, Goto
  <2>4. desk'[c].at # "guard"
    BY <2>2, <2>3 DEF DeskInv, DeskTypeOK, WorkType
  <2> QED BY <2>1, <2>3, <2>4 DEF GuardLimits, DeskInv, DeskTypeOK
<1>3. ASSUME NEW v \in Users PROVE Opening(v)' \subseteq Opening(v) \ {c}
  BY <1>2 DEF Opening, At
<1>4. ASSUME NEW v \in Users, v # u
      PROVE  /\ Len(usage'[v]) + Cardinality(Opening(v)') <= Cardinality(Desks)
             /\ granted'[v] <= Cardinality(Units(v)')
             /\ \A j \in 1..Len(usage'[v]) : usage'[v][j] <= granted'[v]
  <2>1. usage'[v] = usage[v] /\ granted'[v] = granted[v]
    BY <1>2, <1>4
  <2>2. Units(v)' = Units(v)
    BY <2>1 DEF Units
  <2>3. Cardinality(Opening(v)') <= Cardinality(Opening(v)) /\ Cardinality(Opening(v)') \in Nat
    BY <1>3, OpeningFinite, FS_Subset, FS_CardinalityType
  <2>4. Len(usage[v]) \in Nat /\ Cardinality(Opening(v)) \in Nat /\ Cardinality(Desks) \in Nat
    BY UnitsFinite, OpeningFinite
  <2> QED BY <2>1, <2>2, <2>3, <2>4 DEF UsageInv
<1>5. m + Cardinality(Opening(u)') <= Cardinality(Desks)
  <2>1. /\ IsFiniteSet(Opening(u)) /\ Cardinality(Opening(u)) \in Nat
        /\ Cardinality(Desks) \in Nat /\ k + Cardinality(Opening(u)) <= Cardinality(Desks)
    BY OpeningFinite DEF UsageInv
  <2>2. CASE desk[c].read = 0
    <3>1. c \in Opening(u)
      BY <1>2, <2>2 DEF Opening, At
    <3>2. /\ IsFiniteSet(Opening(u) \ {c})
          /\ Cardinality(Opening(u) \ {c}) = Cardinality(Opening(u)) - 1
      BY <2>1, <3>1, FS_RemoveElement
    <3>3. Cardinality(Opening(u)') <= Cardinality(Opening(u) \ {c})
          /\ Cardinality(Opening(u)') \in Nat
      BY <1>3, <3>2, FS_Subset, FS_CardinalityType
    <3>4. m = k + 1 /\ k \in Nat
      BY <2>2
    <3> HIDE DEF Raised
    <3> QED BY <2>1, <3>2, <3>3, <3>4
  <2>3. CASE desk[c].read # 0
    <3>1. Opening(u)' \in SUBSET Opening(u)
      BY <1>3
    <3>2. Cardinality(Opening(u)') <= Cardinality(Opening(u)) /\ Cardinality(Opening(u)') \in Nat
      BY <2>1, <3>1, FS_Subset, FS_CardinalityType
    <3> QED BY <2>1, <2>3, <3>2, SMTT(40)
  <2> QED BY <2>2, <2>3
<1>6. granted'[u] = granted[u] + n /\ granted[u] \in Nat
  BY <1>2
<1>7. granted'[u] <= Cardinality(Units(u)')
  <2>1. DailyLimit \in Nat
    BY DeskAssumption
  <2>2. Units(u) = Below(usage[u], k) /\ Units(u)' = Below(usage'[u], m)
    BY DEF Units
  <2>3. /\ i > k => usage'[u][i] = n
        /\ \A j \in 1..k : usage[u][j] \in Nat /\ usage[u][j] <= usage'[u][j]
        /\ \A j \in 1..m : usage'[u][j] \in Nat
    BY <1>1
  <2>4. Cardinality(Units(u)') >= Cardinality(Units(u)) + n
    <3>1. PICK old, new : old = usage[u] /\ new = usage'[u]
      OBVIOUS
    <3>2. Units(u) = Below(old, k) /\ Units(u)' = Below(new, m)
      BY <2>2, <3>1
    <3>3. /\ \A j \in 1..k : old[j] \in Nat
          /\ \A j \in 1..m : new[j] \in Nat
          /\ \A j \in 1..k : old[j] <= new[j]
          /\ i <= k => new[i] = old[i] + n
          /\ i > k => new[i] = n
          /\ new[i] <= DailyLimit /\ k <= m
      BY <1>1, <2>3, <3>1, SMTT(40)
    <3>4. Cardinality(Below(new, m)) >= Cardinality(Below(old, k)) + n
      BY <3>3, CounterGrows
    <3> QED BY <3>2, <3>4
  <2>5. granted[u] <= Cardinality(Units(u)) /\ Cardinality(Units(u)) \in Nat
    BY UnitsFinite DEF UsageInv
  <2>6. Cardinality(Units(u)') \in Nat
    <3>1. IsFiniteSet(1..m) /\ IsFiniteSet(1..DailyLimit)
      BY <2>1, UpTo
    <3>2. IsFiniteSet((1..m) \X (1..DailyLimit))
      BY <3>1, FS_Product
    <3> QED BY <2>2, <3>2, FS_Subset, FS_CardinalityType DEF Below
  <2> QED BY <1>6, <2>4, <2>5, <2>6
<1>8. \A j \in 1..m : usage'[u][j] <= granted'[u]
  <2> SUFFICES ASSUME NEW j \in 1..m PROVE usage'[u][j] <= granted'[u]
    OBVIOUS
  <2>1. CASE j <= k
    <3>1. j \in 1..k /\ usage[u][j] <= granted[u]
      <4>1. \A x \in 1..Len(usage[u]) : usage[u][x] <= granted[u]
        BY DEF UsageInv
      <4>2. k = Len(usage[u])
        OBVIOUS
      <4> HIDE DEF Raised
      <4>3. j \in 1..k
        BY <2>1
      <4> QED BY <4>1, <4>2, <4>3
    <3>2. /\ usage[u][j] \in Nat /\ usage'[u][j] \in Nat
          /\ usage'[u][j] <= usage[u][j] + n
      BY <3>1
    <3> HIDE DEF Raised
    <3> QED BY <1>6, <3>1, <3>2
  <2>2. CASE j > k
    BY <1>6, <2>2
  <2> QED BY <2>1, <2>2
<1>9. UsageInv'
  BY <1>4, <1>5, <1>7, <1>8 DEF UsageInv
<1> QED BY <1>9

LEMMA UsageGuarded ==
    ASSUME DeskInv, UsageInv, NEW c \in Desks, GuardLimits(c)
    PROVE  UsageInv'
BY GuardCounters, UsageRaised
\* A session that turns to the counters has just looked how many there are.
LEMMA UsageLooked ==
    ASSUME DeskInv, UsageInv, UNCHANGED Limits,
           \A d \in Desks : desk'[d].at = "guard" =>
              desk'[d] = desk[d] \/ desk'[d].read = Len(usage[desk'[d].user])
    PROVE  UsageInv'
<1> SUFFICES ASSUME NEW u \in Users, Len(usage[u]) # 0
             PROVE  Opening(u)' \subseteq Opening(u)
  BY UsageQuiet
<1> SUFFICES ASSUME NEW d \in Desks, desk'[d].at = "guard", desk'[d].user = u,
                    desk'[d].read = 0
             PROVE  d \in Opening(u)
  BY DEF Opening, At
<1>1. desk'[d] = desk[d]
  OBVIOUS
<1> QED BY <1>1 DEF Opening, At

LEMMA UsageOpened ==
    ASSUME DeskInv, UsageInv, NEW c \in Desks, NEW w, Begin(c, w), UNCHANGED Limits,
           w.at = "guard" => w.read = Len(usage[w.user])
    PROVE  UsageInv'
<1>1. desk' = [desk EXCEPT ![c] = w]
  BY DEF Begin
<1>2. \A d \in Desks : desk'[d] = IF d = c THEN w ELSE desk[d]
  BY <1>1 DEF DeskInv, DeskTypeOK
<1> QED BY <1>2, UsageLooked

LEMMA UsageKept ==
    ASSUME DeskInv, UsageInv, [DeskNext]_deskVars
    PROVE  UsageInv'
<1>1. CASE UNCHANGED <<desk, usage, granted>>
  BY <1>1, UsageLooked DEF Limits
<1>2. ASSUME NEW c \in Desks, NEW r \in Requests, OpenApproval(c, r) \/ OpenRejection(c, r)
      PROVE  UsageInv'
  BY <1>2, UsageOpened DEF OpenApproval, OpenRejection, Work, Limits
<1>3. ASSUME NEW c \in Desks, NEW u \in Served, NEW k \in Kinds,
             HandOver(c, u, k) \/ AgentCash(c, u, k)
      PROVE  UsageInv'
  BY <1>3, UsageOpened DEF HandOver, AgentCash, Work, Limits
<1>4. ASSUME NEW c \in Desks, NEW i \in Items, OpenRetry(c, i) \/ OpenCancel(c, i)
      PROVE  UsageInv'
  BY <1>4, UsageOpened DEF OpenRetry, OpenCancel, Work, Limits
<1>5. ASSUME NEW c \in Desks, NEW i \in Items, NEW force \in BOOLEAN, TakeItem(c, i, force)
      PROVE  UsageInv'
  BY <1>5, UsageOpened DEF TakeItem, Work, Limits
<1>6. ASSUME NEW c \in Desks, DeskStep(c) PROVE UsageInv'
  <2>1. desk \in [Desks -> WorkType \union {Idle}]
    BY DEF DeskInv, DeskTypeOK
  <2>2. CASE Done(c) /\ UNCHANGED Limits
    <3>1. \A d \in Desks : desk'[d] = IF d = c THEN Idle ELSE desk[d]
      BY <2>1, <2>2 DEF Done
    <3> QED BY <2>2, <3>1, UsageLooked DEF Idle
  <2>3. CASE LookUpUsage(c)
    <3>1. desk[c] \in WorkType
      BY <2>3, Busy DEF LookUpUsage, At
    <3>2. \A d \in Desks : desk'[d] =
             IF d = c THEN [desk[c] EXCEPT !.at = "guard", !.read = Len(usage[desk[c].user])]
             ELSE desk[d]
      BY <2>1, <2>3 DEF LookUpUsage
    <3>3. desk'[c].read = Len(usage[desk'[c].user])
      BY <3>1, <3>2 DEF WorkType
    <3> QED BY <2>3, <3>2, <3>3, UsageLooked DEF LookUpUsage
  <2>4. CASE ReadWallet(c)
    <3>1. desk[c] \in WorkType
      BY <2>4, Busy DEF ReadWallet, At
    <3>2. \A d \in Desks : desk'[d] =
             IF d = c THEN [desk[c] EXCEPT !.at = "money", !.read = wallet[desk[c].user]]
             ELSE desk[d]
      BY <2>1, <2>4 DEF ReadWallet
    <3>3. desk'[c].at = "money"
      BY <3>1, <3>2 DEF WorkType
    <3> QED BY <2>4, <3>2, <3>3, UsageLooked DEF ReadWallet
  <2>5. ASSUME NEW force \in BOOLEAN, Retry(c, force) PROVE UsageInv'
    <3>1. desk[c] \in WorkType
      BY <2>5, Busy DEF Retry, At
    <3>2. \A d \in Desks : desk'[d] =
             IF d = c THEN [desk[c] EXCEPT !.at = "usage", !.was = "syncing"] ELSE desk[d]
      BY <2>1, <2>5 DEF Retry
    <3>3. desk'[c].at = "usage"
      BY <3>1, <3>2 DEF WorkType
    <3> QED BY <2>5, <3>2, <3>3, UsageLooked DEF Retry
  <2> QED BY <1>6, <2>2, <2>3, <2>4, <2>5, UsageGuarded
          DEF DeskStep, Reject, HandlerCommits, SyncItem, CancelItem, Stop
<1> QED BY <1>1, <1>2, <1>3, <1>4, <1>5, <1>6
        DEF DeskNext, deskVars, RequestCash, QueueItem, Limits

\* A client's agents are allowed no more in a day than the limit for each counter of
\* the day, and there is one counter for each session that found none (GuardLimits):
\* what one session is allowed fits below the limit of the counter it was checked
\* against, whatever the others have added in the meantime.
THEOREM LimitsAreHeld == Spec => []LimitsHold
<1>1. Init => UsageInv
  <2> SUFFICES ASSUME Init, NEW u \in Users
               PROVE  /\ Len(usage[u]) + Cardinality(Opening(u)) <= Cardinality(Desks)
                      /\ granted[u] <= Cardinality(Units(u))
                      /\ \A i \in 1..Len(usage[u]) : usage[u][i] <= granted[u]
    BY DEF UsageInv
  <2>1. usage[u] = <<>> /\ granted[u] = 0 /\ \A c \in Desks : desk[c] = Idle
    BY DEF Init, DeskInit
  <2>2. Len(usage[u]) = 0 /\ Opening(u) = {} /\ Units(u) = {}
    BY <2>1 DEF Opening, At, Idle, Units, Below
  <2>3. Cardinality(Opening(u)) = 0 /\ Cardinality(Units(u)) = 0 /\ Cardinality(Desks) \in Nat
    BY <2>2, OpeningFinite, FS_EmptySet
  <2> QED BY <2>1, <2>2, <2>3
<1>2. Inv /\ UsageInv /\ [Next]_vars => UsageInv'
  <2> SUFFICES ASSUME Inv, UsageInv, [Next]_vars PROVE UsageInv'
    OBVIOUS
  <2>1. DeskInv
    BY DEF Inv, Core, CoreTypes, DeskInv
  <2>2. [DeskNext]_deskVars
    BY DEF Next, vars
  <2> QED BY <2>1, <2>2, UsageKept
<1>3. Inv /\ UsageInv => LimitsHold
  <2> SUFFICES ASSUME Inv, UsageInv, NEW u \in Users
               PROVE  /\ Len(usage[u]) <= Cardinality(Desks)
                      /\ granted[u] <= DailyLimit * Len(usage[u])
                      /\ \A i \in 1..Len(usage[u]) : usage[u][i] <= granted[u]
    BY DEF LimitsHold
  <2>1. DeskInv
    BY DEF Inv, Core, CoreTypes, DeskInv
  <2>2. granted[u] \in Nat /\ DailyLimit \in Nat
    BY <2>1, DeskAssumption DEF DeskInv, DeskTypeOK
  <2>3. PICK most \in Int : most = DailyLimit * Len(usage[u])
    BY <2>1, <2>2, UnitsFinite
  <2>4. /\ Len(usage[u]) \in Nat /\ Cardinality(Units(u)) \in Nat
        /\ Cardinality(Units(u)) <= most
        /\ Cardinality(Opening(u)) \in Nat /\ Cardinality(Desks) \in Nat
    BY <2>1, <2>3, UnitsFinite, OpeningFinite
  <2>5. granted[u] <= most
    BY <2>2, <2>4 DEF UsageInv
  <2> QED BY <2>3, <2>4, <2>5 DEF UsageInv
<1> QED BY <1>1, <1>2, <1>3, InductiveInvariant, PTL DEF Spec
=============================================================================
