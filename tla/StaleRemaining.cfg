SPECIFICATION Spec
CONSTANT Scenarios <- MCAbandon
INVARIANT NeverRefused
CHECK_DEADLOCK FALSE
