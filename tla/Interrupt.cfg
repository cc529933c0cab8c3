CONSTANTS
    Threads = {t1, t2, t3}
    Sigs = {s1, s2}
    Grace = 1
    NoThread = NoThread
    MaxInits = 3
    MaxSignals = 2
SPECIFICATION Spec
CHECK_DEADLOCK FALSE
INVARIANTS HooksMatchInstances GraceIsLimit
PROPERTY NeverEarly
