SPECIFICATION Spec
CONSTANTS
    Buttons <- MCButtons
    Sliders <- MCSliders
    KeyOrder <- MCKeyOrder
    Initial <- MCInitial
    Values = {0, 1}
    MaxInputs = 2
    MaxChannel = 2
    MaxNest = 2
    MaxFailures = 2
INVARIANTS TokenKept MessagesWellFormed ButtonsAgree
 
CHECK_DEADLOCK FALSE
