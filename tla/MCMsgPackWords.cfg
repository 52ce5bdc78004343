\* Every integer and length from below the least to above the greatest word.
CONSTANTS
    Unit = 1
    W16 = 32
    W32 = 64
    W64 = 128
    Numbers <- EveryBoundary
SPECIFICATION Spec
INVARIANTS
    DecodeInvertsEncode
    ShortestHead
CHECK_DEADLOCK FALSE
