CONSTANTS
sub = sub
srv = srv
cli = cli
c1 = c1
c2 = c2
NoMsg = NoMsg
Kind <- MCKind
Sessions = {srv, cli}
Callers = {c1}
Name <- MCSharedName
QueueSize <- MCQueueSize2
MaxIn = 3
Destroyed = {}
SPECIFICATION Spec
PROPERTY ServerAnswersOnlyCalls
CHECK_DEADLOCK FALSE
