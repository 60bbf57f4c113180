SPECIFICATION FairSpec
CONSTANTS
    o1 = o1
    t1 = t1
    t2 = t2
    x1 = x1
    x2 = x2
    r1 = r1
    r2 = r2
    d1 = d1
    d2 = d2
    None = None
    Keep = Keep
    Forged = Forged
    Worker = Worker
    Trades = {t1, t2}
    Offers = {o1}
    Transfers = {x1, x2}
    Disputes = {d1}
    Requests = {r1}
    OfferOf <- OneOffer
    Amount <- Sizes
    Received <- Payments
    RefOf <- Quoted
    Addressed <- Shared
    Stock <- Three
    Routes = {"watcher", "provider"}
    Managed = {o1}
    Quantities = {2}
    Sandbox = {t2}
    Parallel = 1
    MaxFaults = 0
INVARIANTS
    ReleasedOnce
    MatchIsMutual
PROPERTIES
    LiquidityConserved
    DueTradesLeave
CHECK_DEADLOCK FALSE
