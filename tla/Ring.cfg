SPECIFICATION Spec
CONSTANTS
    TotalBlock = 3
    DisplayBlocks = 4
    Sliders = {300}
    RemotePoints <- BootAndDelay
INVARIANTS
    TypeOK
    NeverEmptyWhileRecording
    RestartTransparent
    TakeIsContiguous
    KeepsLatest
    VolumeSaved
PROPERTIES
    TakesCommitted
