SPECIFICATION Spec
CONSTANTS
  Fds = {f1, f2, f3}
  None = None
  MaxEvents = 1
  MaxRecv = 1
  MaxEpollSize = 2
  MaxConns = 3
SYMMETRY Symmetry
INVARIANTS TypeOK OneServerLink LinkHasKey KeysAlive NoLeak SessionOrder EndIsTold
