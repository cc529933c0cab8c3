SPECIFICATION Spec
CONSTANTS
    Procs = {p1, p2}
    a = a
    b = b
    HEAD = HEAD
    v1 = v1
    v2 = v2
    Packable <- MCPackable
    Private <- MCPrivate
    Oids <- MCOids
    NoRef = NoRef
    NoProc = NoProc
    PackedRefs = PackedRefs
    AutoLog <- MCAutoLog
    Requests <- PackedRequests
    InitLoose <- MixedStores
    InitPacked <- PackedStores
    MaxTransactions = 3
    MaxCrashes = 1
INVARIANTS
    CasStable
PROPERTIES
    AppliedWhenReleased
    PackedAsEdited
    ImplementsStore
SYMMETRY ProcSymmetry
CHECK_DEADLOCK FALSE
