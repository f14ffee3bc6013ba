SPECIFICATION Spec
CONSTANTS
    NumBuffers = 2
    MaxEvents = 2
    Texts = {"a"}
    Lines = {1}
    Buttons = {0}
    Positions <- MCPositions
INVARIANTS
    TextsKept
    ShownAsWanted
PROPERTY
    BuffersReturn
