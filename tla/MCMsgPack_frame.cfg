CONSTANTS
    Wires <- AllWires
    Settings <- Defaults
    Streams = {"file"}
    Inspects = {FALSE, TRUE}
    Given <- NoneGiven
    Precisions = {8}
    Floats <- AllFloats
    W32 = 536870912
    W64 = 1073741824
    Holds <- MsgspecHolds
    Unpacks <- MsgspecUnpacked
    Takes <- MsgspecTakes
    Packs <- MsgspecOctets
    Normalize <- Normalized
SPECIFICATION CodecSpec
INVARIANTS
    CopyStopsAtFrame
