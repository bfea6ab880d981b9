SPECIFICATION LiveSpec
CONSTANTS
  Fds = {f1, f2}
  None = None
  MaxSendList = 1
  MaxLen = 2
  SndBuf = 1
  MaxConns = 2
  MaxMsgs = 2
  MaxEvents = 3
  MaxRecv = 3
  MaxEpollSize = 2
PROPERTIES EventuallyWritten LinkComesBack ImplementsStream
