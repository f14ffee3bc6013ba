SPECIFICATION Spec
CONSTANTS
    b1 = b1
    b2 = b2
    s1 = s1
    s2 = s2
    t1 = t1
    t2 = t2
    Blocks <- TwoBlocks
    Samples <- TwoSamples
    Takes <- TwoTakes
    Volumes <- TwoVolumes
    BusFails = TRUE
INVARIANTS
    QuietSaved
PROPERTIES
    TakeSaved
