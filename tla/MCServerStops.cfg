CONSTANTS
  Elem = {c1, c2}
  Workers = {w1}
  Fds = {f1, f2}
  Producer = Producer
  Free = Free
  Zero = Zero
  Garbage = Garbage
  NoFd = NoFd
  MinThreads = 0
  HandshakeMayFail = TRUE
  SetupMayFail = FALSE
  Silent = {}
  MaxStops = 1

SPECIFICATION FairSpec

PROPERTY StopReturns
