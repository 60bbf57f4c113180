SPECIFICATION Spec
CONSTANTS
    o1 = o1
    t1 = t1
    t2 = t2
    x1 = x1
    x2 = x2
    r1 = r1
    r2 = r2
    d1 = d1
    d2 = d2
    None = None
    Keep = Keep
    Forged = Forged
    Worker = Worker
    Trades = {t1, t2}
    Offers = {o1}
    Transfers = {x1}
    Disputes = {d1}
    Requests = {r1, r2}
    OfferOf <- OneOffer
    Amount <- Sizes
    Received <- OnePayment
    RefOf <- OneQuoted
    Addressed <- OneAddress
    Stock <- Two
    Routes = {"webhook"}
    Managed = {}
    Quantities = {}
    Sandbox = {}
    Parallel = 2
    MaxFaults = 1
SYMMETRY Twins
INVARIANTS
    FundedBeforeRelease
    DisputesResolvable
    OneTradePerTransfer
CHECK_DEADLOCK FALSE
