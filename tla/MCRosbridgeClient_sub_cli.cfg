CONSTANTS
  pub = pub
  sub = sub
  srv = srv
  cli = cli
  NoMsg = NoMsg
  Sessions = {sub, cli}
  Kind <- MCKind
  QueueSize <- MCQueueSize
  MaxPush = 2
  MaxEpoch = 2
SPECIFICATION Spec
PROPERTY Drains
