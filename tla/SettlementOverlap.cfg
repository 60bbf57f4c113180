SPECIFICATION FairSpec
CONSTANTS
    o1 = o1
    o2 = o2
    a1 = a1
    p1 = p1
    p2 = p2
    None = None
    Orders = {o1, o2}
    Sandbox = {}
    FiatToCrypto = {}
    Agents = {a1}
    Sessions = {p1, p2}
    Ids <- ThreeIds
    Limit = 1
    MaxFaults = 1
INVARIANTS
    OvershootBounded
    MoneyIsTraced
PROPERTIES
    AssignmentFollows
CHECK_DEADLOCK FALSE
