SPECIFICATION RunSpec
CONSTANT None = None
CHECK_DEADLOCK FALSE
INVARIANT StartsInSteadyState
