SPECIFICATION Spec
CONSTANT
    Arguments <- MCArguments
INVARIANTS
    LocksBalanced
PROPERTIES
    ActivityWakes
    RecorderServed
CHECK_DEADLOCK FALSE
