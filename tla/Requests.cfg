SPECIFICATION FairSpec
CONSTANTS
    u1 = u1
    u2 = u2
    c1 = c1
    c2 = c2
    None = None
    Users = {u1, u2}
    Sessions = {c1, c2}
    Offers <- Asked
    TransferAmount = 1
    Start0 <- Purse
    Limit0 <- Credit
    Cooldown = 2
    BatchLimit = 1
    MaxRequests = 3
    Horizon = 2
    MaxOps = 2
    MaxTransfers = 2
INVARIANTS
    PaidMatches
    SeriesIsBounded
    BalanceMatchesFlow
    RemindersAreSpaced
PROPERTIES
    OldestAreSeenTo
CHECK_DEADLOCK FALSE
