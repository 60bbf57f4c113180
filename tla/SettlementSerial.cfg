SPECIFICATION Spec
CONSTANTS
    o1 = o1
    o2 = o2
    a1 = a1
    p1 = p1
    p2 = p2
    None = None
    Orders = {o1, o2}
    Sandbox = {o1, o2}
    FiatToCrypto = {o2}
    Agents = {a1}
    Sessions = {p1}
    Ids <- TwoIds
    Limit = 0
    MaxFaults = 0
INVARIANTS
    OutOnce
CHECK_DEADLOCK FALSE
