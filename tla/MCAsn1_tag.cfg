CONSTANTS
    Nodes <- WideTags
    Wires <- NoWires
    Streams = {"file"}
    Inspects = {FALSE}
    Bits = 30
    Normalize <- Normalized
SPECIFICATION Spec
INVARIANTS
    EveryTagRoundTrips
\* A call that has ended takes no further step.
CHECK_DEADLOCK FALSE
