CONSTANTS
sub = sub
srv = srv
cli = cli
c1 = c1
c2 = c2
NoMsg = NoMsg
Kind <- MCKind
Sessions = {sub, srv, cli}
Callers = {c1, c2}
Name <- MCName
QueueSize <- MCQueueSize2
MaxIn = 4
Destroyed = {srv}
SPECIFICATION Spec
INVARIANT TypeOK SubscriberFifo DecodeInvertsEncode PopByIdRemovesUnique
PROPERTY ConsumersDrain DestructorReturns
CHECK_DEADLOCK FALSE
