SPECIFICATION FairSpecInputs
CONSTANTS
    TotalBlock = 3
    DisplayBlocks = 4
    Sliders = {}
    RemotePoints <- InDelay
INVARIANTS
    Settled
    AnyButtonStops
    FlagsFollow
PROPERTIES
    PlaybackStops
    PlaybackEnds
