CONSTANTS
  Elem = {c1, c2}
  Workers = {w1}
  Fds = {f1, f2}
  Producer = Producer
  Free = Free
  Zero = Zero
  Garbage = Garbage
  NoFd = NoFd
  MinThreads = 1
  HandshakeMayFail = FALSE
  SetupMayFail = FALSE
  Silent = {}
  MaxStops = 1

SPECIFICATION Spec

PROPERTY LeftoverIsFreed
