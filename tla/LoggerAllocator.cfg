SPECIFICATION Spec
CONSTANT MAX_LOG_ENTRY = 3
INVARIANTS
    TypeOK
    HarmlessWhileTwoFree
CHECK_DEADLOCK FALSE
