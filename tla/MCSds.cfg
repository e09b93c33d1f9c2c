SPECIFICATION Spec
CONSTANTS
    TypeMax <- MCTypeMax
    HdrSize <- MCHdrSize
    SDS_MAX_PREALLOC = 5
    Radix = 2
    LongLongs = 16384
    SDS_LLSTR_SIZE = 16
    FirstSlots = 2
    StaticBuf = 3
    Bytes = {0, 52, 92}
    Corpus <- MCCorpus
    Outputs <- MCOutputs
    Pieces <- MCPieces
    Formats <- MCFormats
    Numbers <- MCNumbers
    Separators <- MCSeparators
    Indices <- MCIndices
    Sizes = {1, 5}
    MaxLen = 4
INVARIANTS
    HeaderSound
    RoomMadeIsUsable
    ArgsRoundTrip
    JoinUndoesSplit
PROPERTIES
    NumbersReadBack
    TextOps
