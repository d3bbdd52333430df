SPECIFICATION Spec
CONSTANTS
    a = a
    b = b
    c = c
    NoPrincipal = NoPrincipal
    Principals = {a, b, c}
    NumSlots = 2
    OfferTtl = 1
    SessionTtl = 1
    BackoffTtl = 1
    MaxSessions = 4
    MaxClock = 3
    DiskFaults = FALSE
SYMMETRY PrincipalSymmetry
INVARIANTS
    TypeOK
    SlotExclusive
    OneLivePerPrincipal
    ActiveIsDurable
    WaitsForHoldersOnly
PROPERTIES
    FifoOrder
    LapsedOfferYields
    LapsedNeverRenewed
    LeasesKept
