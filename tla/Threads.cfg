SPECIFICATION ThreadsSpec
CONSTANTS
  Workers = {w1, w2}
  NoLock = NoLock
  Nobody = Nobody
  LoopEnds = TRUE
  Fds = {f1, f2}
  None = None
  MaxConns = 2
  MaxEvents = 1
  MaxRecv = 2
  MaxUnread = 2
INVARIANTS ThreadsTypeOK EndsWhenStopped NetEndsFirst ObjectsOutliveThreads
  NoWaitCycle OnlyPeeksRace OneLinkUnderway StoryInOrder
PROPERTIES ExitEnds LinkComesBack
CHECK_DEADLOCK FALSE
