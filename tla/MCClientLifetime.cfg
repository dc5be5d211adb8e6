CONSTANTS
p1 = p1
Sessions = {p1}
SPECIFICATION Spec
INVARIANT NoUseAfterFree
CHECK_DEADLOCK FALSE
