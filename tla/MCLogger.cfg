SPECIFICATION LoggerSpec
CONSTANTS
    Writers = {w1}
    Async = Async
    Levels = {1, 4}
    MAX_LOG_ENTRY = 2
    NotifySize = 2
    DiskFullTries = 1
    MaxCalls = 3
    MessageLen <- MCMessageLen
    HeaderLen = 1
    MaxFills = 1
    MaxFileSizes = {2, 3}
INVARIANTS
    LoggerTypeOK
    ExactWhileDiskWorks
    FlushedInFile
    InOrder
    FileSizeExact
    RotatesOpenFile
    CompleteAtClose
