SPECIFICATION Spec
CONSTANTS
    Programs <- MCPrograms
    Fds = {1, 3}
    Timers = {"once", "cron"}
    Periodic = {"cron"}
    Sec = 2
    HalfRange = 2
    MaxTime = 3
PROPERTIES
    PassEmptiesQueue
    StopIsHeard
