SPECIFICATION FairSpec
CONSTANTS
    x = x
    y = y
    l1 = l1
    l2 = l2
    Nobody = Nobody
    Scopes = {x, y}
    Logins = {l1, l2}
    MaxEpoch = 3
    MaxToken = 3
CHECK_DEADLOCK FALSE
INVARIANTS
    TypeOK
    UsedUnderItsGrant
    StoredTokenIsCurrent
PROPERTIES
    
    GateIsReleased
