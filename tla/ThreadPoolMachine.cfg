CONSTANTS
  Elem = {j1, j2, j3}
  Workers = {w1, w2}
  Producer = Producer
  Free = Free
  Zero = Zero
  Garbage = Garbage
  MinThreads = 0

SPECIFICATION FairSpec

INVARIANT PoolTypeOK
INVARIANT MutualExclusion
INVARIANT TokenAccounting
INVARIANT NullOnlyWhenStopping
INVARIANT NoWorkerLeftWaiting
PROPERTY IsWorkQueue
PROPERTY JobsLeaveTheQueue
PROPERTY DestroyReturns
