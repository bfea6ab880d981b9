SPECIFICATION Spec
CONSTANTS
  Fds = {f1, f2}
  None = None
  MaxEvents = 1
  MaxRecv = 2
  MaxEpollSize = 2
  MaxConns = 3
SYMMETRY Symmetry
INVARIANT ClosesOnlyItsOwn
