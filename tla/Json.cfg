SPECIFICATION Spec
CHECK_DEADLOCK FALSE
CONSTANTS
    KeyOrder <- MCKeyOrder
    Leaves <- MCLeaves
    Gaps <- MCGaps
    Plain <- MCPlain
    Documents <- MCDocuments
INVARIANTS
    ParsesAsWritten
PROPERTY
    ParseEnds
