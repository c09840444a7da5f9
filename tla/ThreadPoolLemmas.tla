-------------------------- MODULE ThreadPoolLemmas --------------------------
(***************************************************************************)
(* Every action of the thread pool preserves PoolInv, whoever calls it, for *)
(* every set of workers and jobs; and PoolInv implies the properties of    *)
(* ThreadPool.  The specifications that use the pool cite these lemmas.    *)
(***************************************************************************)
EXTENDS ThreadPool, RingBufferLemmas, FiniteSetTheorems

\* How many jobs are in the buffer.
Stored == ring_buffer.stored

-----------------------------------------------------------------------------
(* Counting workers.                                                       *)

LEMMA CountOfWorkers ==
  ASSUME NEW S \in SUBSET Workers
  PROVE  IsFiniteSet(S) /\ Cardinality(S) \in Nat
  <1>1. IsFiniteSet(S)
    BY WorkersAssumption, FS_Subset
  <1> QED
    BY <1>1, FS_CardinalityType

LEMMA CountAdded ==
  ASSUME NEW S \in SUBSET Workers, NEW w \in Workers, w \notin S
  PROVE  Cardinality(S \cup {w}) = Cardinality(S) + 1
  BY CountOfWorkers, FS_AddElement

LEMMA CountRemoved ==
  ASSUME NEW S \in SUBSET Workers, NEW w \in S
  PROVE  Cardinality(S \ {w}) = Cardinality(S) - 1
  BY CountOfWorkers, FS_RemoveElement

LEMMA CountMonotone ==
  ASSUME NEW S \in SUBSET Workers, NEW T \in SUBSET Workers, S \subseteq T
  PROVE  Cardinality(S) <= Cardinality(T)
  BY CountOfWorkers, FS_Subset

\* The numbers the invariants compare.
LEMMA PoolNumbers ==
  ASSUME PoolTypeOK
  PROVE  /\ Stored \in Nat
         /\ \A places : /\ At(places) \in SUBSET Workers
                        /\ Cardinality(At(places)) \in Nat
         /\ MayWait \in SUBSET Workers /\ Cardinality(MayWait) \in Nat
         /\ Cardinality(MayWait) <= thread_count
         /\ thread_count \in Nat /\ Tokens \in Nat
  <1>1. Stored \in Nat
    BY DEF PoolTypeOK, Stored, RingShape, RingBuffer_destroyed
  <1>2. \A places : /\ At(places) \in SUBSET Workers
                    /\ Cardinality(At(places)) \in Nat
    BY CountOfWorkers DEF At
  <1>3. MayWait \in SUBSET Workers /\ MayWait \subseteq threads /\ threads \in SUBSET Workers
    BY DEF PoolTypeOK, MayWait
  <1>4. Cardinality(MayWait) \in Nat /\ thread_count \in Nat
    BY <1>3, CountOfWorkers DEF thread_count
  <1>5. Cardinality(MayWait) <= thread_count
    BY <1>3, CountMonotone DEF thread_count
  <1>6. Tokens \in Nat
    BY <1>2 DEF Tokens, PoolTypeOK
  <1> QED
    BY <1>1, <1>2, <1>3, <1>4, <1>5, <1>6

-----------------------------------------------------------------------------
(* The workers.                                                            *)

LEMMA WorkerCheckPreserves ==
  ASSUME PoolInv, NEW w \in Workers, WorkerCheck(w)
  PROVE  PoolInv'
  <1> USE DEF PoolInv
  <1>1. wpc' \in [Workers -> WorkerPlaces] /\ \A v \in Workers : v # w => wpc'[v] = wpc[v]
    BY DEF WorkerCheck, PoolTypeOK, WorkerPlaces
  <1>2. wpc'[w] = IF w \in stop_seen THEN "exited" ELSE "wait"
    BY DEF WorkerCheck, PoolTypeOK
  <1>3. PoolTypeOK'
    BY <1>1, <1>2 DEF WorkerCheck, PoolTypeOK
  <1>4. HolderInv' /\ DataInv' /\ OwnerInv'
    BY <1>1, <1>2 DEF WorkerCheck, HolderInv, DataInv, OwnerInv, PoolTypeOK, thread_count
  <1>5. TokenInv'
    <2>1. At({"lock", "critical"})' = At({"lock", "critical"})
      BY <1>1, <1>2 DEF WorkerCheck, At
    <2>2. Tokens' = Tokens
      BY <2>1 DEF WorkerCheck, Tokens
    <2> QED
      BY <2>2 DEF WorkerCheck, TokenInv
  <1>6. ShutdownInv'
    <2>1. MayWait' = MayWait
      BY <1>1, <1>2 DEF WorkerCheck, MayWait, PoolTypeOK
    <2> QED
      BY <2>1 DEF WorkerCheck, ShutdownInv, thread_count
  <1> QED
    BY <1>3, <1>4, <1>5, <1>6

LEMMA DequeueWaitPreserves ==
  ASSUME PoolInv, NEW w \in Workers, DequeueWait(w)
  PROVE  PoolInv'
  <1> USE DEF PoolInv
  <1>1. /\ wpc' \in [Workers -> WorkerPlaces] /\ wpc'[w] = "lock"
        /\ \A v \in Workers : v # w => wpc'[v] = wpc[v]
    BY DEF DequeueWait, PoolTypeOK, WorkerPlaces
  <1>2. sempahore \in Nat /\ sempahore' \in Nat /\ sempahore = sempahore' + 1
    BY DEF DequeueWait, PoolTypeOK
  <1>3. PoolTypeOK'
    BY <1>1, <1>2 DEF DequeueWait, PoolTypeOK
  <1>4. HolderInv' /\ DataInv' /\ OwnerInv'
    BY <1>1 DEF DequeueWait, HolderInv, DataInv, OwnerInv, PoolTypeOK, thread_count
  <1>5. TokenInv'
    <2>1. /\ At({"lock", "critical"})' = At({"lock", "critical"}) \cup {w}
          /\ w \notin At({"lock", "critical"})
      BY <1>1 DEF DequeueWait, At
    <2>2. Cardinality(At({"lock", "critical"})') = Cardinality(At({"lock", "critical"})) + 1
      BY <2>1, PoolNumbers, CountAdded
    <2>3. Tokens' = Tokens
      BY <1>2, <2>2, PoolNumbers DEF DequeueWait, Tokens
    <2> QED
      BY <2>3 DEF DequeueWait, TokenInv
  <1>6. ShutdownInv'
    <2>1. CASE posts > 0
      <3>1. w \in MayWait /\ MayWait' = MayWait \ {w}
        BY <1>1, <2>1 DEF DequeueWait, MayWait, PoolTypeOK
      <3>2. Cardinality(MayWait') = Cardinality(MayWait) - 1
        BY <3>1, PoolNumbers, CountRemoved
      <3> QED
        BY <1>2, <3>2, PoolNumbers DEF DequeueWait, ShutdownInv, thread_count, PoolTypeOK
    <2>2. CASE posts = 0
      <3>1. MayWait' \subseteq MayWait
        BY <1>1, <2>2 DEF DequeueWait, MayWait, PoolTypeOK
      <3>2. Cardinality(MayWait') <= Cardinality(MayWait) /\ Cardinality(MayWait') \in Nat
        BY <3>1, PoolNumbers, CountMonotone, CountOfWorkers
      <3>3. thread_count' = thread_count /\ posts' = 0
        BY <2>2 DEF DequeueWait, thread_count
      <3>4. Cardinality(MayWait)' <= sempahore' + (thread_count' - posts')
        BY <1>2, <3>2, <3>3, PoolNumbers
      <3> QED
        BY <3>4 DEF ShutdownInv
    <2> QED
      BY <2>1, <2>2 DEF PoolTypeOK
  <1> QED
    BY <1>3, <1>4, <1>5, <1>6

LEMMA DequeueLockPreserves ==
  ASSUME PoolInv, NEW w \in Workers, DequeueLock(w)
  PROVE  PoolInv'
  <1> USE DEF PoolInv
  <1>1. /\ wpc' \in [Workers -> WorkerPlaces] /\ wpc'[w] = "critical"
        /\ \A v \in Workers : v # w => wpc'[v] = wpc[v]
    BY DEF DequeueLock, PoolTypeOK, WorkerPlaces
  <1>2. PoolTypeOK'
    BY <1>1 DEF DequeueLock, PoolTypeOK
  <1>3. HolderInv'
    <2>1. Free \notin Workers \cup {Producer}
      BY WorkersAssumption
    <2> QED
      BY <1>1, <2>1 DEF DequeueLock, HolderInv
  <1>4. DataInv' /\ OwnerInv'
    BY <1>1 DEF DequeueLock, DataInv, OwnerInv, PoolTypeOK, thread_count
  <1>5. TokenInv'
    <2>1. At({"lock", "critical"})' = At({"lock", "critical"})
      BY <1>1 DEF DequeueLock, At
    <2>2. Tokens' = Tokens
      BY <2>1 DEF DequeueLock, Tokens
    <2> QED
      BY <2>2 DEF DequeueLock, TokenInv
  <1>6. ShutdownInv'
    <2>1. MayWait' = MayWait
      BY <1>1 DEF DequeueLock, MayWait, PoolTypeOK
    <2> QED
      BY <2>1 DEF DequeueLock, ShutdownInv, thread_count
  <1> QED
    BY <1>2, <1>3, <1>4, <1>5, <1>6

\* The step that uses the invariant of the mutex and of the tokens together: a worker
\* that finds nothing gives up a token that belongs to no job.
LEMMA DequeueTakePreserves ==
  ASSUME PoolInv, NEW w \in Workers, DequeueTake(w)
  PROVE  PoolInv'
  <1> USE DEF PoolInv
  <1>1. /\ wpc' \in [Workers -> WorkerPlaces] /\ wpc'[w] = "unlock"
        /\ \A v \in Workers : v # w => wpc'[v] = wpc[v] /\ wdata'[v] = wdata[v]
    BY DEF DequeueTake, PoolTypeOK, WorkerPlaces
  <1>2. opc # "none" /\ RingShape(ring_buffer) /\ LiveCellsHoldElements(ring_buffer)
    BY DEF DequeueTake, OwnerInv, PoolTypeOK
  <1>3. /\ At({"lock", "critical"})' = At({"lock", "critical"}) \ {w}
        /\ w \in At({"lock", "critical"})
    BY <1>1 DEF DequeueTake, At
  <1>4. Cardinality(At({"lock", "critical"})') = Cardinality(At({"lock", "critical"})) - 1
    BY <1>3, PoolNumbers, CountRemoved
  <1>5. Tokens' = Tokens - 1 /\ Tokens \in Nat /\ Stored \in Nat /\ Tokens' \in Nat
    <2>1. Cardinality(At({"lock", "critical"})') \in Nat
      BY CountOfWorkers DEF At
    <2> QED
      BY <1>4, <2>1, PoolNumbers DEF DequeueTake, Tokens, PoolTypeOK
  <1>6. ShutdownInv'
    <2>1. MayWait' = MayWait
      BY <1>1 DEF DequeueTake, MayWait, PoolTypeOK
    <2> QED
      BY <2>1 DEF DequeueTake, ShutdownInv, thread_count
  <1>7. HolderInv' /\ OwnerInv'
    BY <1>1 DEF DequeueTake, HolderInv, OwnerInv, thread_count
  <1>8. CASE Stored = 0
    <2>1. /\ ring_buffer' = ring_buffer /\ wdata' = [wdata EXCEPT ![w] = NullData]
          /\ Stored' = Stored
      BY <1>8 DEF DequeueTake, Stored
    <2>2. TokenInv'
      BY <1>2, <1>5, <1>8, <2>1 DEF DequeueTake, TokenInv, Stored, PoolTypeOK
    <2>3. stop
      <3>1. Tokens <= Stored + posts
        BY <1>2 DEF TokenInv, Stored
      <3>2. posts \in Nat /\ posts > 0
        BY <1>5, <1>8, <3>1 DEF PoolTypeOK
      <3> QED
        BY <1>2, <3>2 DEF OwnerInv, PoolTypeOK
    <2>4. PoolTypeOK'
      BY <1>1, <2>1 DEF DequeueTake, PoolTypeOK
    <2>5. DataInv'
      BY <1>1, <2>1, <2>3 DEF DequeueTake, DataInv, PoolTypeOK
    <2> QED
      BY <1>6, <1>7, <2>2, <2>4, <2>5
  <1>9. CASE Stored # 0
    <2>1. /\ ring_buffer' = RingBuffer_retrieve(ring_buffer)
          /\ wdata' = [wdata EXCEPT ![w] = RingBuffer_peek(ring_buffer)]
      BY <1>9 DEF DequeueTake, Stored
    <2>2. /\ RingShape(ring_buffer') /\ LiveCellsHoldElements(ring_buffer')
          /\ Stored' = Stored - 1 /\ RingBuffer_peek(ring_buffer) \in Elem
      BY <1>2, <1>9, <2>1, RetrieveShape DEF Stored
    <2>3. TokenInv'
      BY <1>2, <1>5, <1>9, <2>2 DEF DequeueTake, TokenInv, Stored, PoolTypeOK
    <2>4. PoolTypeOK'
      <3>1. wdata' \in [Workers -> Elem \cup {NullData}]
        BY <2>1, <2>2 DEF PoolTypeOK
      <3> QED
        BY <1>1, <1>2, <2>2, <3>1 DEF DequeueTake, PoolTypeOK
    <2>5. DataInv'
      <3>1. wdata'[w] \in Elem
        BY <2>1, <2>2 DEF PoolTypeOK
      <3>2. wdata'[w] # NullData
        BY <3>1, CellAssumption DEF NullData
      <3> QED
        BY <1>1, <3>2 DEF DequeueTake, DataInv
    <2> QED
      BY <1>6, <1>7, <2>3, <2>4, <2>5
  <1> QED
    BY <1>8, <1>9

LEMMA DequeueUnlockPreserves ==
  ASSUME PoolInv, NEW w \in Workers, DequeueUnlock(w)
  PROVE  PoolInv'
  <1> USE DEF PoolInv
  <1>1. /\ wpc' \in [Workers -> WorkerPlaces]
        /\ wpc'[w] = IF wdata[w] = NullData THEN "check" ELSE "resolve"
        /\ \A v \in Workers : v # w => wpc'[v] = wpc[v]
    BY DEF DequeueUnlock, PoolTypeOK, WorkerPlaces
  <1>2. PoolTypeOK'
    BY <1>1 DEF DequeueUnlock, PoolTypeOK
  <1>3. HolderInv'
    <2>1. mutex = w /\ Producer \notin Workers
      BY WorkersAssumption DEF DequeueUnlock, HolderInv
    <2> QED
      BY <1>1, <2>1 DEF DequeueUnlock, HolderInv
  <1>4. DataInv' /\ OwnerInv'
    BY <1>1 DEF DequeueUnlock, DataInv, OwnerInv, PoolTypeOK, thread_count
  <1>5. TokenInv'
    <2>1. At({"lock", "critical"})' = At({"lock", "critical"})
      BY <1>1 DEF DequeueUnlock, At
    <2>2. Tokens' = Tokens
      BY <2>1 DEF DequeueUnlock, Tokens
    <2> QED
      BY <2>2 DEF DequeueUnlock, TokenInv
  <1>6. ShutdownInv'
    <2>1. MayWait' = MayWait
      BY <1>1 DEF DequeueUnlock, MayWait, PoolTypeOK
    <2> QED
      BY <2>1 DEF DequeueUnlock, ShutdownInv, thread_count
  <1> QED
    BY <1>2, <1>3, <1>4, <1>5, <1>6

LEMMA WorkerDonePreserves ==
  ASSUME PoolInv, NEW w \in Workers, WorkerDone(w)
  PROVE  PoolInv'
  <1> USE DEF PoolInv
  <1>1. /\ wpc' \in [Workers -> WorkerPlaces] /\ wpc'[w] = "check"
        /\ wdata' = [wdata EXCEPT ![w] = NullData] /\ wdata'[w] = NullData
        /\ \A v \in Workers : v # w => wpc'[v] = wpc[v] /\ wdata'[v] = wdata[v]
    BY DEF WorkerDone, PoolTypeOK, WorkerPlaces
  <1>2. PoolTypeOK'
    BY <1>1 DEF WorkerDone, PoolTypeOK
  <1>3. HolderInv' /\ DataInv' /\ OwnerInv'
    BY <1>1 DEF WorkerDone, HolderInv, DataInv, OwnerInv, PoolTypeOK, thread_count
  <1>4. TokenInv'
    <2>1. At({"lock", "critical"})' = At({"lock", "critical"})
      BY <1>1 DEF WorkerDone, At
    <2>2. Tokens' = Tokens
      BY <2>1 DEF WorkerDone, Tokens
    <2> QED
      BY <2>2 DEF WorkerDone, TokenInv
  <1>5. ShutdownInv'
    <2>1. MayWait' = MayWait
      BY <1>1 DEF WorkerDone, MayWait, PoolTypeOK
    <2> QED
      BY <2>1 DEF WorkerDone, ShutdownInv, thread_count
  <1> QED
    BY <1>2, <1>3, <1>4, <1>5

\* What a step of another thread leaves of the counts.
LEMMA WorkersUntouched ==
  ASSUME UNCHANGED <<wpc, threads>>
  PROVE  /\ \A places : At(places)' = At(places)
         /\ stop_seen' = stop_seen => MayWait' = MayWait
         /\ thread_count' = thread_count
  BY DEF At, MayWait, thread_count

LEMMA SeeStopPreserves ==
  ASSUME PoolInv, NEW t \in Workers \cup {Producer}, SeeStop(t)
  PROVE  PoolInv'
  <1> USE DEF PoolInv
  <1>1. PoolTypeOK' /\ HolderInv' /\ DataInv' /\ OwnerInv'
    BY DEF SeeStop, PoolTypeOK, HolderInv, DataInv, OwnerInv, thread_count
  <1>2. TokenInv'
    BY WorkersUntouched DEF SeeStop, TokenInv, Tokens
  <1>3. ShutdownInv'
    <2>1. MayWait' \subseteq MayWait
      BY DEF SeeStop, MayWait
    <2>2. Cardinality(MayWait') <= Cardinality(MayWait) /\ Cardinality(MayWait') \in Nat
      BY <2>1, PoolNumbers, CountMonotone, CountOfWorkers
    <2>3. /\ thread_count' = thread_count /\ posts' = posts /\ sempahore' = sempahore
          /\ opc' = opc /\ posts \in Nat /\ sempahore \in Nat
      BY DEF SeeStop, thread_count, PoolTypeOK
    <2>4. CASE opc \in {"posting", "joining"}
      <3>1. Cardinality(MayWait) <= sempahore + (thread_count - posts)
        BY <2>4 DEF ShutdownInv
      <3>2. Cardinality(MayWait)' <= sempahore' + (thread_count' - posts')
        BY <2>2, <2>3, <3>1, PoolNumbers
      <3> QED
        BY <3>2 DEF ShutdownInv
    <2> QED
      BY <2>3, <2>4 DEF ShutdownInv
  <1> QED
    BY <1>1, <1>2, <1>3

-----------------------------------------------------------------------------
(* enqueue_threadpool.                                                     *)

LEMMA EnqueueCallPreserves ==
  ASSUME PoolInv, NEW j \in Elem, EnqueueCall(j)
  PROVE  PoolInv'
  <1> USE DEF PoolInv
  <1>1. PoolTypeOK' /\ HolderInv' /\ DataInv' /\ OwnerInv'
    BY DEF EnqueueCall, PoolTypeOK, HolderInv, DataInv, OwnerInv, thread_count
  <1>2. TokenInv' /\ ShutdownInv'
    BY WorkersUntouched DEF EnqueueCall, TokenInv, Tokens, ShutdownInv
  <1> QED
    BY <1>1, <1>2

LEMMA EnqueueLockPreserves ==
  ASSUME PoolInv, EnqueueLock
  PROVE  PoolInv'
  <1> USE DEF PoolInv
  <1>1. PoolTypeOK' /\ DataInv' /\ OwnerInv'
    BY DEF EnqueueLock, PoolTypeOK, DataInv, OwnerInv, thread_count
  <1>2. HolderInv'
    BY WorkersAssumption DEF EnqueueLock, HolderInv
  <1>3. TokenInv' /\ ShutdownInv'
    BY WorkersUntouched DEF EnqueueLock, TokenInv, Tokens, ShutdownInv
  <1> QED
    BY <1>1, <1>2, <1>3

\* The new job gets its token before the post: EnqueuePost owes it from here on.
LEMMA EnqueueAppendPreserves ==
  ASSUME PoolInv, EnqueueAppend
  PROVE  PoolInv'
  <1> USE DEF PoolInv
  <1>1. opc # "none" /\ RingShape(ring_buffer) /\ LiveCellsHoldElements(ring_buffer)
    BY DEF EnqueueAppend, PoolTypeOK, IsAllocated, RingBuffer_destroyed
  <1>2. edata \in Elem
    BY DEF EnqueueAppend, DataInv
  <1>3. /\ RingShape(ring_buffer') /\ LiveCellsHoldElements(ring_buffer')
        /\ Stored' = Stored + 1
    BY <1>1, <1>2, AppendShape DEF EnqueueAppend, Stored
  <1>4. PoolTypeOK' /\ HolderInv' /\ DataInv' /\ OwnerInv'
    BY <1>1, <1>3 DEF EnqueueAppend, PoolTypeOK, HolderInv, DataInv, OwnerInv, thread_count
  <1>5. TokenInv'
    <2>1. Tokens' = Tokens + 1
      BY WorkersUntouched, PoolNumbers DEF EnqueueAppend, Tokens, PoolTypeOK
    <2> QED
      BY <1>1, <1>3, <2>1, PoolNumbers DEF EnqueueAppend, TokenInv, Stored, PoolTypeOK
  <1>6. ShutdownInv'
    BY WorkersUntouched DEF EnqueueAppend, ShutdownInv
  <1> QED
    BY <1>4, <1>5, <1>6

LEMMA EnqueuePostPreserves ==
  ASSUME PoolInv, EnqueuePost
  PROVE  PoolInv'
  <1> USE DEF PoolInv
  <1>1. PoolTypeOK' /\ HolderInv' /\ DataInv' /\ OwnerInv'
    BY DEF EnqueuePost, PoolTypeOK, HolderInv, DataInv, OwnerInv, thread_count
  <1>2. TokenInv'
    <2>1. Tokens' = Tokens
      BY WorkersUntouched, PoolNumbers DEF EnqueuePost, Tokens, PoolTypeOK
    <2> QED
      BY <2>1 DEF EnqueuePost, TokenInv
  <1>3. ShutdownInv'
    BY WorkersUntouched, PoolNumbers DEF EnqueuePost, ShutdownInv, PoolTypeOK
  <1> QED
    BY <1>1, <1>2, <1>3

LEMMA EnqueueUnlockPreserves ==
  ASSUME PoolInv, EnqueueUnlock
  PROVE  PoolInv'
  <1> USE DEF PoolInv
  <1>1. PoolTypeOK' /\ DataInv' /\ OwnerInv'
    BY DEF EnqueueUnlock, PoolTypeOK, DataInv, OwnerInv, thread_count
  <1>2. HolderInv'
    BY WorkersAssumption DEF EnqueueUnlock, HolderInv
  <1>3. TokenInv' /\ ShutdownInv'
    BY WorkersUntouched DEF EnqueueUnlock, TokenInv, Tokens, ShutdownInv
  <1> QED
    BY <1>1, <1>2, <1>3

LEMMA EnqueueOnDestroyedPreserves ==
  ASSUME PoolInv, EnqueueOnDestroyed
  PROVE  PoolInv'
  <1> USE DEF PoolInv
  <1>1. PoolTypeOK' /\ HolderInv' /\ DataInv' /\ OwnerInv'
    BY DEF EnqueueOnDestroyed, PoolTypeOK, HolderInv, DataInv, OwnerInv, thread_count
  <1>2. TokenInv' /\ ShutdownInv'
    BY WorkersUntouched DEF EnqueueOnDestroyed, TokenInv, Tokens, ShutdownInv
  <1> QED
    BY <1>1, <1>2

-----------------------------------------------------------------------------
(* Creation and destruction.                                               *)

\* A pool as it is before the first initialize_threadpool.
LEMMA PoolInitEstablishes ==
  ASSUME PoolInit
  PROVE  PoolInv
  <1>1. PoolTypeOK
    BY DEF PoolInit, PoolTypeOK, WorkerPlaces
  <1>2. HolderInv /\ DataInv /\ OwnerInv /\ TokenInv /\ ShutdownInv
    BY DEF PoolInit, HolderInv, DataInv, OwnerInv, TokenInv, ShutdownInv
  <1> QED
    BY <1>1, <1>2 DEF PoolInv

\* A new pool is independent of the one before, as long as no call is in progress.
LEMMA InitializePreserves ==
  ASSUME PoolInv, epc = "idle", InitializeThreadpool
  PROVE  PoolInv'
  <1> USE DEF PoolInv
  <1>1. PICK created \in SUBSET Workers : Initialize(created)
    BY DEF InitializeThreadpool
  <1>2. Cardinality(Workers) \in Nat
    BY CountOfWorkers
  <1>3. /\ RingShape(ring_buffer') /\ LiveCellsHoldElements(ring_buffer')
        /\ Stored' = 0
    BY <1>1, <1>2, MakeShape DEF Initialize, RingBuffer_make, Stored
  <1>4. PoolTypeOK'
    BY <1>1, <1>3 DEF Initialize, PoolTypeOK, WorkerPlaces
  <1>5. HolderInv' /\ DataInv' /\ OwnerInv' /\ ShutdownInv'
    BY <1>1 DEF Initialize, HolderInv, DataInv, OwnerInv, ShutdownInv
  <1>6. TokenInv'
    <2>1. At({"lock", "critical"})' = {}
      BY <1>1 DEF Initialize, At
    <2>2. Tokens' = 0
      BY <1>1, <2>1, FS_EmptySet DEF Initialize, Tokens
    <2> QED
      BY <1>1, <1>3, <2>2 DEF Initialize, TokenInv, Stored
  <1> QED
    BY <1>4, <1>5, <1>6

LEMMA DestroyBeginPreserves ==
  ASSUME PoolInv, DestroyBegin
  PROVE  PoolInv'
  <1> USE DEF PoolInv
  <1>1. PoolTypeOK' /\ HolderInv' /\ DataInv'
    BY DEF DestroyBegin, PoolTypeOK, HolderInv, DataInv
  <1>2. OwnerInv'
    BY WorkersUntouched, PoolNumbers DEF DestroyBegin, OwnerInv
  <1>3. TokenInv'
    BY WorkersUntouched DEF DestroyBegin, TokenInv, Tokens, OwnerInv
  <1>4. ShutdownInv'
    <2>1. /\ Cardinality(MayWait)' <= thread_count' /\ posts' = 0
          /\ sempahore' \in Nat
      BY WorkersUntouched, PoolNumbers DEF DestroyBegin, PoolTypeOK
    <2>2. thread_count' \in Nat /\ Cardinality(MayWait)' \in Nat
      BY WorkersUntouched, PoolNumbers DEF DestroyBegin
    <2> QED
      BY <2>1, <2>2 DEF ShutdownInv
  <1> QED
    BY <1>1, <1>2, <1>3, <1>4

LEMMA DestroyPostPreserves ==
  ASSUME PoolInv, DestroyPost
  PROVE  PoolInv'
  <1> USE DEF PoolInv
  <1>1. /\ thread_count' = thread_count /\ MayWait' = MayWait
        /\ sempahore' = sempahore + 1 /\ posts' = posts + 1
        /\ sempahore \in Nat /\ posts \in Nat /\ posts < thread_count
        /\ opc = "posting" /\ opc' = "posting"
    BY WorkersUntouched DEF DestroyPost, PostsOfDestroy, PoolTypeOK
  <1>2. PoolTypeOK' /\ HolderInv' /\ DataInv'
    BY <1>1 DEF DestroyPost, PoolTypeOK, HolderInv, DataInv
  <1>3. OwnerInv'
    BY <1>1, PoolNumbers DEF DestroyPost, OwnerInv
  <1>4. TokenInv'
    <2>1. Tokens' = Tokens + 1 /\ Stored' = Stored
      BY <1>1, WorkersUntouched, PoolNumbers DEF DestroyPost, Tokens, Stored
    <2> QED
      BY <1>1, <2>1, PoolNumbers DEF TokenInv, Stored
  <1>5. ShutdownInv'
    <2>1. Cardinality(MayWait) <= sempahore + (thread_count - posts)
      BY <1>1 DEF ShutdownInv
    <2> QED
      BY <1>1, <2>1, PoolNumbers DEF ShutdownInv
  <1> QED
    BY <1>2, <1>3, <1>4, <1>5

LEMMA DestroyPostedPreserves ==
  ASSUME PoolInv, DestroyPosted
  PROVE  PoolInv'
  <1> USE DEF PoolInv
  <1>1. PoolTypeOK' /\ HolderInv' /\ DataInv'
    BY DEF DestroyPosted, PoolTypeOK, HolderInv, DataInv
  <1>2. OwnerInv'
    BY WorkersUntouched, PoolNumbers
    DEF DestroyPosted, PostsOfDestroy, OwnerInv, PoolTypeOK
  <1>3. TokenInv' /\ ShutdownInv'
    BY WorkersUntouched DEF DestroyPosted, TokenInv, Tokens, ShutdownInv
  <1> QED
    BY <1>1, <1>2, <1>3

LEMMA DestroyJoinedPreserves ==
  ASSUME PoolInv, DestroyJoined
  PROVE  PoolInv'
  <1> USE DEF PoolInv
  <1>1. PoolTypeOK'
    BY DEF DestroyJoined, PoolTypeOK, WorkerPlaces
  <1>2. DataInv'
    BY DEF DestroyJoined, DataInv, PoolTypeOK
  <1>3. HolderInv' /\ OwnerInv' /\ TokenInv' /\ ShutdownInv'
    BY DEF DestroyJoined, HolderInv, OwnerInv, TokenInv, ShutdownInv
  <1> QED
    BY <1>1, <1>2, <1>3

\* A step that is none of the pool's.
LEMMA PoolStutterPreserves ==
  ASSUME PoolInv, UNCHANGED poolVars
  PROVE  PoolInv'
  <1> USE DEF PoolInv, poolVars
  <1>1. PoolTypeOK' /\ HolderInv' /\ DataInv' /\ OwnerInv'
    BY DEF PoolTypeOK, HolderInv, DataInv, OwnerInv, thread_count
  <1>2. TokenInv' /\ ShutdownInv'
    BY WorkersUntouched DEF TokenInv, Tokens, ShutdownInv
  <1> QED
    BY <1>1, <1>2

-----------------------------------------------------------------------------
(* What the invariant is for.                                              *)

LEMMA HolderGivesMutualExclusion ==
  ASSUME PoolTypeOK, HolderInv
  PROVE  MutualExclusion
  <1> DEFINE inside == At({"critical", "unlock"})
  <1>1. \A w \in inside : mutex = w /\ w \in Workers
    BY DEF At, HolderInv
  <1>2. CASE inside = {}
    BY <1>2, FS_EmptySet DEF MutualExclusion
  <1>3. CASE inside # {}
    <2>1. inside = {mutex} /\ mutex # Producer
      BY <1>1, <1>3, WorkersAssumption
    <2>2. Cardinality(inside) = 1
      BY <2>1, FS_Singleton
    <2>3. epc \notin {"append", "post", "unlock"}
      BY <2>1 DEF HolderInv
    <2> QED
      BY <2>2, <2>3 DEF MutualExclusion
  <1> QED
    BY <1>2, <1>3

LEMMA PoolInvImplies ==
  ASSUME PoolInv
  PROVE  PoolTypeOK /\ MutualExclusion /\ TokenAccounting /\ NullOnlyWhenStopping
         /\ NoWorkerLeftWaiting
  <1> USE DEF PoolInv
  <1>1. MutualExclusion
    BY HolderGivesMutualExclusion
  <1>2. TokenAccounting
    <2>1. CASE opc = "running"
      <3>1. Stored <= Tokens /\ Tokens <= Stored + posts /\ posts = 0
        BY <2>1 DEF TokenInv, OwnerInv, Stored
      <3>2. Tokens = Stored
        BY <3>1, PoolNumbers
      <3> QED
        BY <2>1, <3>2 DEF TokenAccounting, TokenInv, Stored
    <2> QED
      BY <2>1 DEF TokenAccounting, TokenInv
  <1>3. NullOnlyWhenStopping
    BY DEF DataInv, NullOnlyWhenStopping
  <1>4. NoWorkerLeftWaiting
    <2> SUFFICES ASSUME opc = "joining" PROVE Cardinality(MayWait) <= sempahore
      BY DEF NoWorkerLeftWaiting
    <2>1. Cardinality(MayWait) <= sempahore + (thread_count - posts)
      BY DEF ShutdownInv
    <2>2. posts = thread_count
      BY DEF OwnerInv
    <2> QED
      BY <2>1, <2>2, PoolNumbers DEF PoolTypeOK
  <1> QED
    BY <1>1, <1>2, <1>3, <1>4
=============================================================================
