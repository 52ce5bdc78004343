CONSTANTS
    Field <- AnyField
    Fmts <- AnyFmts
    Declared = {0, 1, 2, 3}
    Given <- AnyGiven
SPECIFICATION Spec
INVARIANTS
    TypeOK
    FieldsDisjoint
    InferredFits
    InferredSmallest
    RoundTrip
\* Decoding, or a refusal, is the end.
CHECK_DEADLOCK FALSE
