SPECIFICATION Spec
CONSTANTS
  HeadSize = 2
  MaxSize = 4
  BufLen = 8
  NMsgs = 3
INVARIANT OutIsSent
