SPECIFICATION Spec
CONSTANTS
    Earlier <- MCEarlier
    NumPlls = 1
    MaxMemLatency = 5
    MaxRegLatency = 1
    Draws <- MCDraws
    MaxDraws = 2
    MaxPixels = 2
    Fingers <- MCFingers
    Volumes = {90}
    MaxFaults = 1
INVARIANTS
    CoreRuns
    StartsAsDeclared
    StatusIsRead
    BusWorks
    TouchServed
    CodecFollows
    BlocksServed
