SPECIFICATION Spec
CONSTANTS
    k1 = k1
    k2 = k2
    k3 = k3
    None = None
    Keys = {k1, k2, k3}
    p1 = p1
    p2 = p2
    h1 = h1
    h2 = h2
    Sessions = {p1, p2}
    Hashes = {h1, h2}
    Shape <- AllShapes
    MaxFaults = 1
    MaxPurges = 1
INVARIANTS
    AtMostOnce
    OncePerClaim
    ReplayMatches
SYMMETRY Alike
CHECK_DEADLOCK FALSE
