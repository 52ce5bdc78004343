SPECIFICATION FairSpec
CONSTANTS
    Fmt <- FormatNames
    Node <- Formats4
    Radix = 4
    Byte = {0, 1, 2, 3}
    Height = 6
    Given <- Catalogue
    Seekables = {TRUE, FALSE}
    Inspects = {TRUE, FALSE}
    MaxDepth = 12
    Nesting = 2
    Normalize <- Normalized
INVARIANTS
    TypeOK
    ContextFollowsStack
    RoundTrip
    FramedOrNothing
    SizeofIsWritten
    InspectShowsBytes
PROPERTIES
    EncodeEnds
CHECK_DEADLOCK FALSE
