CONSTANTS
  MaxGap = 2
  Jumps <- MCJumps
  MaxJumps = 1
SPECIFICATION Spec
PROPERTY DeadPeerClosed
