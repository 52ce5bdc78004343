CONSTANTS
    Fmt <- AllNames
    Node <- AllFormats
    Byte = {0, 1, 2, 3}
    Height = 6
    Roots = {"log", "opts"}
    Inputs <- AllInputs
    Entries = {"decode_stream"}
    Inspects = {FALSE}
    MaxDepth = 9
    MaxItems = 5
SPECIFICATION Spec
INVARIANT RefSeesSiblings
\* A decode that has ended takes no further step.
CHECK_DEADLOCK FALSE
