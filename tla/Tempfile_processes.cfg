CONSTANTS
    p1 = p1  p2 = p2  t1 = t1  t2 = t2  t3 = t3
    Procs = {p1, p2}
    Threads = {t1, t2}
    ProcOf <- Apart
    Children = {}
    Paths = {a, b}
    Shards = {0}
    ShardOf <- OneShard
    Kinds = {"file"}
    Restores = FALSE
    NoThread = NoThread
    NoFile = NoFile
    MaxFiles = 2
    MaxSignals = 1
    MaxWaits = 1
SPECIFICATION FairSpec
CHECK_DEADLOCK FALSE
INVARIANTS TempfilesOnDisk SignalLeavesInFlight
PROPERTIES HandlerReturns AcquireReturns
