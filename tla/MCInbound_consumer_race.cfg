CONSTANTS
sub = sub
srv = srv
cli = cli
c1 = c1
c2 = c2
NoMsg = NoMsg
Kind <- MCKind
Sessions = {sub}
Callers = {}
Name <- MCName
QueueSize <- MCQueueSize1
MaxIn = 2
Destroyed = {}
SPECIFICATION Spec
PROPERTY ConsumerPopsWhatItRead
CHECK_DEADLOCK FALSE
