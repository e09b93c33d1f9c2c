SPECIFICATION Spec
CONSTANTS
    Writers = {w1, w2}
    Async = Async
    Levels = {1, 4}
    MAX_LOG_ENTRY = 2
    NotifySize = 2
    DiskFullTries = 1
    MaxCalls = 4
    MessageLen <- MCMessageLen
SYMMETRY Sym
INVARIANTS
    TypeOK
    OrderInv
    SizeExact
    BlockedExact
    NoLostWakeup
    AsyncAwakeWhenNeeded
PROPERTY ImplementsLogService
