CONSTANTS
    Fmt <- AllNames
    Node <- AllFormats
    Byte = {0, 1, 2, 3}
    Height = 6
    Roots <- Ending
    Inputs <- AllInputs
    Entries = {"decode", "unseekable"}
    Inspects = {FALSE, TRUE}
    MaxDepth = 9
    MaxItems = 5
SPECIFICATION FairSpec
INVARIANTS
    TypeOK
    AncestorsKept
    SizeofIsConsumed
    InspectionTiles
PROPERTY DecodeEnds
\* A decode that has ended takes no further step.
CHECK_DEADLOCK FALSE
