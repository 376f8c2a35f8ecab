SPECIFICATION Spec
INVARIANT PolyScrubbed
CHECK_DEADLOCK FALSE
