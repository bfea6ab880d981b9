SPECIFICATION Spec
CONSTANTS
  Fds = {f1, f2}
  None = None
  MaxSendList = 2
  MaxLen = 2
  SndBuf = 1
  MaxConns = 3
  MaxMsgs = 3
SYMMETRY Symmetry
INVARIANT ListFullDeletes
