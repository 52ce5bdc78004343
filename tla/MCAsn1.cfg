CONSTANTS
    Nodes <- AllNodes
    Wires <- AllWires
    Streams = {"file", "pipe"}
    Inspects = {FALSE, TRUE}
    Bits = 30
    Normalize <- Normalized
SPECIFICATION Spec
INVARIANTS
    TypeOK
    RoundTrip
    DecodesWellFormed
    InspectTiles
