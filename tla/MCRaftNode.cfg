SPECIFICATION Spec
CONSTANTS
    Fds = {3, 4}
    MaxAddrs = 2
    ReplySizes = {0, 2}
    MaxReplies = 2
    MaxUnits = 3
INVARIANTS
    NothingLeftOpen
    StreamUnbroken
PROPERTIES
    ClosesOnlyItsOwn
