SPECIFICATION FairSpec
CONSTANTS
    u1 = u1
    u2 = u2
    g1 = g1
    g2 = g2
    p1 = p1
    s1 = s1
    k1 = k1
    r1 = r1
    i1 = i1
    c1 = c1
    c2 = c2
    b1 = b1
    w1 = w1
    t1 = t1
    l1 = l1
    o1 = o1
    o2 = o2
    None = None
    Nothing = Nothing
    Cash = Cash
    Users = {u1, u2}
    Goals = {g1, g2}
    Pots = {p1}
    SubWallets = {s1}
    Cards = {k1}
    Products = {g1, g2, p1, s1, k1}
    Requests = {r1}
    Items = {i1}
    Desks = {c1, c2}
    Batches = {b1, w1}
    Worker = w1
    OwnerOf <- Owners
    ClientOf <- Clients
    Start0 <- Wallets
    Limit0 <- Credit
    In = 1
    Out = 1
    Served = {u1}
    DailyLimit = 1
    Target = 2
    Amounts = {1}
    Saving = 1
    Ceilings = {1}
    Age0 <- Ages
    Existing <- Starts
    CardLimit = 0
    MaxDeclines = 2
    BatchLimit = 2
    Horizon = 1
    Payers = {t1}
    Senders = {u1}
    Sent = 2
    Clerks = {o1, o2}
    Loans = {l1}
    BorrowerOf <- Borrower
    Principal = 1
    Terms = 1
    Due = 2
    MaxOps = 3
INVARIANTS
    RowsMatchMoney
    LimitsHold
    BooksMatch
    OverdraftsAreLent
PROPERTIES
    DueGoalsAreSaved
CHECK_DEADLOCK FALSE
