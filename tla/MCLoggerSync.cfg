SPECIFICATION LoggerSpec
CONSTANTS
    Writers = {w1}
    Async = Async
    Levels = {1, 4}
    MAX_LOG_ENTRY = 2
    NotifySize = 2
    DiskFullTries = 1
    MaxCalls = 2
    MessageLen <- MCMessageLen
    HeaderLen = 1
    MaxFills = 1
    MaxFileSizes = {3}
PROPERTY SyncCallOnDisk
