SPECIFICATION Spec
CONSTANTS
    a = a
    u1 = u1
    u2 = u2
    Principals = {a}
    MaxPushes = 2
    Minted <- MCMinted
    Submissions = {u1, u2}
    LastName = 2
    Quota = 2
    MaxFiles = 2
SYMMETRY SubmissionSymmetry
CHECK_DEADLOCK FALSE
INVARIANTS
    TypeOK
    AsLastTold
PROPERTIES
    ConsumedWasStored
    PublicationsCounted
