SPECIFICATION FairSpec
CONSTANTS
    a = a
    b = b
    Owners = {a, b}
    MaxChildren = 3
    MaxEpoch = 4
INVARIANTS
    TypeOK
    ReadyServesOwner
PROPERTIES
    StoppedStaysStopped
    CrashIsHandled
    StartingEnds
