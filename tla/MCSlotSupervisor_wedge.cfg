SPECIFICATION AskingSpec
CONSTANTS
    boot = boot
    a = a
    b = b
    t1 = t1
    t2 = t2
    Bindings = {boot, a, b}
    Boot = boot
    Threads = {t1}
    MaxFaults = 1
PROPERTY TakeoverHeals
