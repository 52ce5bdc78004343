CONSTANTS
    Byte = {0, 1, 2}
    Files <- MCFiles
    Payloads <- MCPayloads
    MaxSize = 3
    MaxOffset = 5
    MaxCursor = 4
SPECIFICATION FairSpec
INVARIANTS
    TypeOK
    ExactBytes
    WrittenInOrder
    CursorAccounts
PROPERTIES
    ImplementsCalls
    EveryCallEnds
\* A caller may stop calling: an idle stream is no deadlock.
CHECK_DEADLOCK FALSE
