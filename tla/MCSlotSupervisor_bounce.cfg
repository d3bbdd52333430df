SPECIFICATION Spec
CONSTANTS
    boot = boot
    a = a
    t1 = t1
    t2 = t2
    Bindings = {boot, a}
    Boot = boot
    Threads = {t1, t2}
    MaxFaults = 3
    b = b
PROPERTY NeverBounced
