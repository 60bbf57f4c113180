SPECIFICATION FairSpec
CONSTANTS
    t1 = t1
    t2 = t2
    t3 = t3
    u1 = u1
    u2 = u2
    a1 = a1
    s1 = s1
    s2 = s2
    None = None
    Transfers = {t1, t2}
    Users = {u1}
    Agents = {a1}
    Sessions = {s1}
    OwnerOf <- Clients
    Amount <- Sizes
    Routed = {t1}
    Bif = {}
    Start0 <- Purse
    Limit0 <- Granted
    Bonus0 <- NoBonus
    AgentCash0 <- Cash
    Daily = 4
    RetryMax = 1
    Deposits = {1}
    MaxBack = 4
    Width = 1
    Most = 2
    MaxFaults = 2
INVARIANTS
    MovedOnce
    RefundIsJournaled
    DebtIsTraced
PROPERTIES
    PollingEnds
CHECK_DEADLOCK FALSE
