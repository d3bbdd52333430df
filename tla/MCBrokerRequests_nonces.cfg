SPECIFICATION FairSpec
CONSTANTS
    s1 = s1
    s2 = s2
    w1 = w1
    w2 = w2
    Scopes = {s1, s2}
    Workers = {w1, w2}
    Ttl = 1
    Outer = 1
    Lease = 2
    Retention = 2
    MaxNonces = 2
    MaxRecords = 1
    MaxCaps = 2
    MaxClock = 3
    PromptReceipt = TRUE
INVARIANT NonceOnce
PROPERTY RequestEnds
