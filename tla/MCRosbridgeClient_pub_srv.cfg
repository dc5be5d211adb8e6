CONSTANTS
  pub = pub
  sub = sub
  srv = srv
  cli = cli
  NoMsg = NoMsg
  Sessions = {pub, srv}
  Kind <- MCKind
  QueueSize <- MCQueueSize
  MaxPush = 1
  MaxEpoch = 2
SPECIFICATION Spec
INVARIANT TypeOK
PROPERTY Drains
