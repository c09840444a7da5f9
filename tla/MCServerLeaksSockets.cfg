CONSTANTS
  Elem = {c1, c2}
  Workers = {w1}
  Fds = {f1}
  Producer = Producer
  Free = Free
  Zero = Zero
  Garbage = Garbage
  NoFd = NoFd
  MinThreads = 1
  HandshakeMayFail = TRUE
  SetupMayFail = FALSE
  Silent = {}
  MaxStops = 0

SPECIFICATION FairSpec

PROPERTY ClientsAreServed
