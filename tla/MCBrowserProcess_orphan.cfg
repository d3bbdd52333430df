SPECIFICATION Spec
CONSTANTS
    a = a
    b = b
    Owners = {a, b}
    MaxChildren = 3
    MaxEpoch = 4
INVARIANT OneLiveChild
