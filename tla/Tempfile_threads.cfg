CONSTANTS
    p1 = p1  p2 = p2  t1 = t1  t2 = t2  t3 = t3
    Procs = {p1, p2}
    Threads = {t1, t2, t3}
    ProcOf <- Together
    Children = {p2}
    Paths = {a}
    Shards = {0, 1}
    ShardOf <- OwnShard
    Kinds = {"file", "marker"}
    Restores = TRUE
    NoThread = NoThread
    NoFile = NoFile
    MaxFiles = 2
    MaxSignals = 1
    MaxWaits = 0
SPECIFICATION Spec
CHECK_DEADLOCK FALSE
INVARIANTS NoOrphans NeverPanics
PROPERTIES KeptByOthers CommitTakesEffect
