CONSTANT Values = {"x", "y"}
CHECK_DEADLOCK FALSE
SPECIFICATION Spec
INVARIANTS ArgumentsArrive UserResumes
