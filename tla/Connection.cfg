SPECIFICATION ConnectionSpec
CONSTANTS
  HeadSize = 2
  MaxSize = 4
  BufLen = 8
  NMsgs = 3
  Cap = 1
  MaxAsked = 4
  Timeout = 4
  Delay = 1
INVARIANTS ConnectionTypeOK PartFits ExactUnlessMisread NothingStranded
  RestIsDelivered ClosedOnlyWhenStalled LiveLinkKept SilenceEnds
PROPERTIES OutputEnds
CHECK_DEADLOCK FALSE
