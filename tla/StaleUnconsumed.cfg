SPECIFICATION Spec
CONSTANT Scenarios <- MCReuse
INVARIANT NeverRefused
CHECK_DEADLOCK FALSE
