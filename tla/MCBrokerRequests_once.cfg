SPECIFICATION Spec
CONSTANTS
    s1 = s1
    s2 = s2
    w1 = w1
    w2 = w2
    Scopes = {s1}
    Workers = {w1, w2}
    Ttl = 2
    Outer = 2
    Lease = 2
    Retention = 2
    MaxNonces = 2
    MaxRecords = 1
    MaxCaps = 2
    MaxClock = 5
    PromptReceipt = FALSE
SYMMETRY WorkerSymmetry
INVARIANTS
    TypeOK
    AnswersAgree
PROPERTIES
    RunsAreApart
    ImplementsLoginOnce
