SPECIFICATION RelaySpec
CONSTANTS
    a = a
    b = b
    Boot = Boot
    NoSlot = NoSlot
    s1 = s1
    c1 = c1
    c2 = c2
    Sessions = {a, b}
    Slots = {s1}
    Calls = {c1, c2}
    Owner <- MCOwner
    MaxRuns = 2
SYMMETRY RelaySymmetry
CHECK_DEADLOCK FALSE
INVARIANTS
    TypeOK
    AloneSucceeds
    ActivationServes
PROPERTIES
    PageActionsStayHome
    ActsOnce
