CONSTANTS
  Elem = {c1, c2, c3}
  Workers = {w1, w2}
  Fds = {f1, f2}
  Producer = Producer
  Free = Free
  Zero = Zero
  Garbage = Garbage
  NoFd = NoFd
  MinThreads = 0
  HandshakeMayFail = TRUE
  SetupMayFail = TRUE
  Silent = {}
  MaxStops = 1

SPECIFICATION Spec
SYMMETRY MCSymmetry

INVARIANT TypeOK
INVARIANT TokenAccounting
INVARIANT StopLeavesNothingRunning
INVARIANT OneHolder
INVARIANT HeldConnectionIsOpen
PROPERTY NoOtherConnectionIsDropped
