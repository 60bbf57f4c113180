SPECIFICATION FairSpec
CONSTANTS
    s1 = s1
    s2 = s2
    u1 = u1
    u2 = u2
    c1 = c1
    w1 = w1
    None = None
    Schedules = {s1, s2}
    Users = {u1, u2}
    Clients = {c1}
    Worker = w1
    OwnerOf <- Owners
    PayeeOf <- Payees
    Amount <- Sizes
    Start0 <- Purse
    Limit0 <- Credit
    Wanted <- Runs
    Grants = {1}
    MaxFails = 2
    BatchLimit = 1
    Horizon = 1
    MaxEvents = 1
INVARIANTS
    OverdraftIsLent
    MoneyMatchesRuns
    RunsAreGranted
PROPERTIES
    DueIsHandled
CHECK_DEADLOCK FALSE
