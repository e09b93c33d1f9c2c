SPECIFICATION FairSpec
CONSTANTS
    Writers = {w1, w2}
    Async = Async
    Levels = {1, 4}
    MAX_LOG_ENTRY = 1
    NotifySize = 2
    DiskFullTries = 1
    MaxCalls = 2
    MessageLen <- MCMessageLen
PROPERTIES
    SyncCallReturns
    AcceptedIsStored
    DeinitEnds
