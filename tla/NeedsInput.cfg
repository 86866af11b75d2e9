SPECIFICATION Spec
CONSTANT Scenarios <- MCReset
INVARIANT NeedsInputHonest
CHECK_DEADLOCK FALSE
