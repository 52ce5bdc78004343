SPECIFICATION Spec
CONSTANTS
    Fmt <- FormatNames
    Node <- Formats4
    Radix = 4
    Byte = {0, 1, 2, 3}
    Height = 6
    Given <- Ragged
    Seekables = {TRUE, FALSE}
    Inspects = {TRUE, FALSE}
    MaxDepth = 12
    Nesting = 2
    Normalize <- Normalized
INVARIANT SizeofIsWritten
CHECK_DEADLOCK FALSE
