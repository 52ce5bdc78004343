CONSTANTS
    Fmt <- TidyNames
    Node <- TidyFormats
    Byte = {0, 1, 2, 3}
    Height = 6
    Roots <- TidyNames
    Inputs <- AllInputs
    Entries = {"decode", "unseekable"}
    Inspects = {FALSE, TRUE}
    MaxDepth = 9
    MaxItems = 5
SPECIFICATION Spec
INVARIANTS
    ContextNeutral
    RefSeesSiblings
    ErrorPathExact
    ErrorContextStitched
\* A decode that has ended takes no further step.
CHECK_DEADLOCK FALSE
