CONSTANT Values = {"x", "y"}
CHECK_DEADLOCK FALSE
SPECIFICATION Spec
INVARIANT Arg3Arrives
