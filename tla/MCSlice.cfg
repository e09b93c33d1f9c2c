SPECIFICATION Spec
CONSTANTS
    TypeMax <- MCTypeMax
    HdrSize <- MCHdrSize
    SDS_MAX_PREALLOC = 3
    Slices = {s1, s2}
    Blocks = {b1, b2, b3}
    NULL = NULL
    JUNK = JUNK
    s1 = s1
    s2 = s2
    b1 = b1
    b2 = b2
    b3 = b3
    Texts <- MCTexts
    Sizes = {3}
    MaxLen = 3
SYMMETRY Symmetry
INVARIANTS
    OwnershipExact
    FaultsExplained
CHECK_DEADLOCK FALSE
