CONSTANTS
  Elem = {c1, c2, c3}
  Workers = {w1, w2}
  Fds = {f1, f2}
  Producer = Producer
  Free = Free
  Zero = Zero
  Garbage = Garbage
  NoFd = NoFd
  MinThreads = 1
  HandshakeMayFail = FALSE
  SetupMayFail = FALSE
  Silent = {c3}
  MaxStops = 0

SPECIFICATION FairSpec

PROPERTY ClientsAreServed
