CONSTANTS
    Wires <- AllWires
    Settings <- AllSettings
    Streams = {"file", "pipe"}
    Inspects = {FALSE, TRUE}
    Given <- AllGiven
    Precisions = {4, 8}
    Floats <- AllFloats
    W32 = 536870912
    W64 = 1073741824
    Holds <- MsgspecHolds
    Unpacks <- MsgspecUnpacked
    Takes <- MsgspecTakes
    Packs <- MsgspecOctets
    Normalize <- Normalized
SPECIFICATION CodecFairSpec
INVARIANTS
    CodecTypeOK
    RoundTrip
    FrameDecoded
    OnlyShortStrings
    SlowOnValue
    TreesTile
PROPERTIES
    CallsReturn
