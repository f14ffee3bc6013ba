SPECIFICATION Spec
CONSTANT
    Arguments <- MCArguments
PROPERTY
    ConnectedFirst
CHECK_DEADLOCK FALSE
