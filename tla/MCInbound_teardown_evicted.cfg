CONSTANTS
sub = sub
srv = srv
cli = cli
c1 = c1
c2 = c2
NoMsg = NoMsg
Kind <- MCKind
Sessions = {srv}
Callers = {}
Name <- MCName
QueueSize <- MCQueueSize1
MaxIn = 1
Destroyed = {srv}
SPECIFICATION Spec
INVARIANT TeardownQueued
CHECK_DEADLOCK FALSE
