SPECIFICATION FairSpec
CONSTANTS
    Threads = {t1, t2}
    MaxVersion = 3
    Granularity = 1
INVARIANTS Current SnapshotsAdvance
PROPERTIES CallsReturn
