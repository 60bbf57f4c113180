SPECIFICATION Spec
CONSTANTS
    t1 = t1
    t2 = t2
    t3 = t3
    u1 = u1
    u2 = u2
    a1 = a1
    s1 = s1
    s2 = s2
    None = None
    Transfers = {t1, t2, t3}
    Users = {u1, u2}
    Agents = {a1}
    Sessions = {s1, s2}
    OwnerOf <- Clients
    Amount <- Sizes
    Routed = {t1, t3}
    Bif = {u2}
    Start0 <- Purse
    Limit0 <- Granted
    Bonus0 <- NoBonus
    AgentCash0 <- Cash
    Daily = 4
    RetryMax = 1
    Deposits = {}
    MaxBack = 3
    Width = 2
    Most = 1
    MaxFaults = 1
INVARIANTS
    CreditLineBalanced
    WalletMatchesHistory
    RefundIsWarranted
CHECK_DEADLOCK FALSE
