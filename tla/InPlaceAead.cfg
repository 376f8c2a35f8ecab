SPECIFICATION Spec
CONSTANT Jobs <- MCJobs
INVARIANTS OnlyCiphertext NothingLeft
CHECK_DEADLOCK FALSE
