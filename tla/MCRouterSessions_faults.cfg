SPECIFICATION StoreSpec
CONSTANTS
    a = a
    b = b
    c = c
    NoPrincipal = NoPrincipal
    Principals = {a, b}
    NumSlots = 1
    OfferTtl = 1
    SessionTtl = 2
    BackoffTtl = 1
    MaxSessions = 2
    MaxClock = 3
    DiskFaults = TRUE
SYMMETRY PrincipalSymmetry
INVARIANTS
    SlotExclusive
