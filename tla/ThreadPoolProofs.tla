-------------------------- MODULE ThreadPoolProofs --------------------------
(***************************************************************************)
(* The theorems of ThreadPoolMachine: the safety properties of the pool,   *)
(* and that it implements the abstract work queue, for every finite set of *)
(* workers and every set of jobs.                                          *)
(***************************************************************************)
EXTENDS ThreadPoolMachine, ThreadPoolLemmas

\* The contract of the callers, as a state predicate: between the call of
\* destroy_threadpool and the next creation no enqueue is in progress.
ContractInv == opc # "running" => epc = "idle"

IInv == PoolInv /\ ContractInv

-----------------------------------------------------------------------------
LEMMA IInvInit == PoolInit => IInv
  BY PoolInitEstablishes DEF IInv, ContractInv, PoolInit

LEMMA IInvNext == IInv /\ [Next]_poolVars => IInv'
  <1> SUFFICES ASSUME IInv, [Next]_poolVars
               PROVE  IInv'
    OBVIOUS
  <1> USE DEF IInv
  <1>1. CASE InitializeThreadpool
    <2>1. epc = "idle"
      BY <1>1 DEF InitializeThreadpool, Initialize, ContractInv
    <2>2. ContractInv'
      BY <1>1 DEF InitializeThreadpool, Initialize, ContractInv
    <2> QED
      BY <1>1, <2>1, <2>2, InitializePreserves
  <1>2. ASSUME NEW w \in Workers, WorkerStep(w) \/ WorkerDone(w) \/ SeeStop(w)
        PROVE  IInv'
    <2>1. PoolInv'
      BY <1>2, WorkerCheckPreserves, DequeueWaitPreserves, DequeueLockPreserves,
         DequeueTakePreserves, DequeueUnlockPreserves, WorkerDonePreserves,
         SeeStopPreserves DEF WorkerStep
    <2>2. epc' = epc /\ opc' = opc
      BY <1>2 DEF WorkerStep, WorkerCheck, DequeueWait, DequeueLock, DequeueTake,
                  DequeueUnlock, WorkerDone, SeeStop
    <2> QED
      BY <2>1, <2>2 DEF ContractInv
  <1>3. ASSUME NEW j \in Elem, Submit(j)
        PROVE  IInv'
    <2>1. EnqueueCall(j) /\ opc = "running"
      BY <1>3 DEF Submit
    <2>2. ContractInv'
      BY <2>1 DEF EnqueueCall, ContractInv
    <2> QED
      BY <2>1, <2>2, EnqueueCallPreserves
  <1>4. CASE Enqueue
    <2>1. PoolInv'
      BY <1>4, EnqueueLockPreserves, EnqueueAppendPreserves, EnqueuePostPreserves,
         EnqueueUnlockPreserves DEF Enqueue
    <2>2. ContractInv'
      BY <1>4 DEF Enqueue, EnqueueLock, EnqueueAppend, EnqueuePost, EnqueueUnlock,
                  ContractInv
    <2> QED
      BY <2>1, <2>2
  <1>5. CASE CloseWhenIdle
    <2>1. DestroyBegin /\ epc = "idle"
      BY <1>5 DEF CloseWhenIdle
    <2>2. ContractInv'
      BY <2>1 DEF DestroyBegin, ContractInv
    <2> QED
      BY <2>1, <2>2, DestroyBeginPreserves
  <1>6. CASE Destroy
    <2>1. PoolInv'
      BY <1>6, DestroyPostPreserves, DestroyPostedPreserves, DestroyJoinedPreserves
      DEF Destroy
    <2>2. ContractInv'
      BY <1>6 DEF Destroy, DestroyPost, DestroyPosted, DestroyJoined, ContractInv
    <2> QED
      BY <2>1, <2>2
  <1>7. CASE UNCHANGED poolVars
    BY <1>7, PoolStutterPreserves DEF poolVars, ContractInv
  <1> QED
    BY <1>1, <1>2, <1>3, <1>4, <1>5, <1>6, <1>7 DEF Next

\* The pool is well formed: no worker ever holds an uninitialized cell as its job, and
\* the buffer is the destroyed one exactly outside the life of the pool.
THEOREM PoolTypeCorrect == Spec => []PoolTypeOK
  <1>1. IInv => PoolTypeOK
    BY DEF IInv, PoolInv
  <1> QED
    BY <1>1, IInvInit, IInvNext, PTL DEF Spec

\* The mutex keeps the workers and the caller of enqueue_threadpool apart.
THEOREM PoolExclusion == Spec => []MutualExclusion
  <1>1. IInv => MutualExclusion
    BY PoolInvImplies DEF IInv
  <1> QED
    BY <1>1, IInvInit, IInvNext, PTL DEF Spec

\* The semaphore counts the jobs, with the tokens in the hands of workers: no wakeup
\* is lost.
THEOREM PoolTokens == Spec => []TokenAccounting
  <1>1. IInv => TokenAccounting
    BY PoolInvImplies DEF IInv
  <1> QED
    BY <1>1, IInvInit, IInvNext, PTL DEF Spec

\* A worker comes out of dequeue_threadpool with null data only when the pool is being
\* destroyed: before that no worker leaves its loop, and no call of a null function follows.
THEOREM PoolNullOnlyWhenStopping == Spec => []NullOnlyWhenStopping
  <1>1. IInv => NullOnlyWhenStopping
    BY PoolInvImplies DEF IInv
  <1> QED
    BY <1>1, IInvInit, IInvNext, PTL DEF Spec

\* When destroy_threadpool joins its threads, none of them can be left without a
\* token: the safety half of "destroy_threadpool returns".
THEOREM PoolShutdown == Spec => []NoWorkerLeftWaiting
  <1>1. IInv => NoWorkerLeftWaiting
    BY PoolInvImplies DEF IInv
  <1> QED
    BY <1>1, IInvInit, IInvNext, PTL DEF Spec

-----------------------------------------------------------------------------
(* The refinement of WorkQueue.                                            *)

LEMMA QueueInit == PoolInit => AbstractPool!Init
  BY DEF PoolInit, AbstractPool!Init, Contents, RingBuffer_destroyed

\* A worker takes the oldest job, or nothing changes for the queue.
LEMMA TakeRefines ==
  ASSUME IInv, NEW w \in Workers, DequeueTake(w)
  PROVE  AbstractPool!Take(w)
           \/ UNCHANGED <<Contents(ring_buffer), wdata>>
  <1>1. /\ opc # "none" /\ RingShape(ring_buffer) /\ LiveCellsHoldElements(ring_buffer)
        /\ wdata \in [Workers -> Elem \cup {NullData}] /\ wdata[w] = NullData
    BY DEF DequeueTake, IInv, PoolInv, OwnerInv, PoolTypeOK, DataInv
  <1>2. CASE ring_buffer.stored = 0
    BY <1>1, <1>2 DEF DequeueTake
  <1>3. CASE ring_buffer.stored # 0
    <2>1. /\ ring_buffer' = RingBuffer_retrieve(ring_buffer)
          /\ wdata' = [wdata EXCEPT ![w] = RingBuffer_peek(ring_buffer)]
      BY <1>3 DEF DequeueTake
    <2>2. /\ Contents(ring_buffer) # <<>>
          /\ RingBuffer_peek(ring_buffer) = Head(Contents(ring_buffer))
          /\ Contents(ring_buffer') = Tail(Contents(ring_buffer))
      BY <1>1, <1>3, <2>1, RetrieveShape
    <2> QED
      BY <1>1, <2>1, <2>2 DEF AbstractPool!Take
  <1> QED
    BY <1>2, <1>3

LEMMA QueueNext ==
  IInv /\ [Next]_poolVars
    => [AbstractPool!Next]_<<Contents(ring_buffer), wdata>>
  <1> SUFFICES ASSUME IInv, [Next]_poolVars
               PROVE  AbstractPool!Next \/ UNCHANGED <<Contents(ring_buffer), wdata>>
    OBVIOUS
  <1>1. CASE InitializeThreadpool
    <2>1. /\ opc = "none" /\ wdata' = [w \in Workers |-> NullData]
          /\ ring_buffer' = RingBuffer_make(Cardinality(Workers))
      BY <1>1 DEF InitializeThreadpool, Initialize
    <2>2. wdata = [w \in Workers |-> NullData]
      BY <2>1 DEF IInv, PoolInv, PoolTypeOK, OwnerInv, DataInv
    <2>3. ring_buffer.stored = 0
      BY <2>1 DEF IInv, PoolInv, PoolTypeOK, RingBuffer_destroyed
    <2>4. Contents(ring_buffer) = <<>> /\ Contents(ring_buffer') = <<>>
      BY <2>1, <2>3 DEF Contents, RingBuffer_make
    <2> QED
      BY <2>1, <2>2, <2>4
  <1>2. ASSUME NEW w \in Workers, WorkerStep(w) \/ WorkerDone(w) \/ SeeStop(w)
        PROVE  AbstractPool!Next \/ UNCHANGED <<Contents(ring_buffer), wdata>>
    <2>1. CASE DequeueTake(w)
      BY <2>1, TakeRefines DEF AbstractPool!Next
    <2>2. CASE WorkerDone(w)
      <3>1. wdata[w] # NullData
        BY <2>2, CellAssumption DEF WorkerDone, IInv, PoolInv, DataInv, NullData
      <3>2. AbstractPool!Finish(w)
        BY <2>2, <3>1 DEF WorkerDone, AbstractPool!Finish
      <3> QED
        BY <3>2 DEF AbstractPool!Next
    <2>3. CASE \/ WorkerCheck(w) \/ DequeueWait(w) \/ DequeueLock(w)
               \/ DequeueUnlock(w) \/ SeeStop(w)
      BY <2>3 DEF WorkerCheck, DequeueWait, DequeueLock, DequeueUnlock, SeeStop
    <2> QED
      BY <1>2, <2>1, <2>2, <2>3 DEF WorkerStep
  <1>3. ASSUME NEW j \in Elem, Submit(j)
        PROVE  UNCHANGED <<Contents(ring_buffer), wdata>>
    BY <1>3 DEF Submit, EnqueueCall
  <1>4. CASE EnqueueAppend
    <2>1. RingShape(ring_buffer) /\ LiveCellsHoldElements(ring_buffer) /\ edata \in Elem
      BY <1>4 DEF EnqueueAppend, IsAllocated, RingBuffer_destroyed, IInv, PoolInv,
                  PoolTypeOK, DataInv
    <2>2. Contents(ring_buffer') = Append(Contents(ring_buffer), edata)
      BY <1>4, <2>1, AppendShape DEF EnqueueAppend
    <2>3. AbstractPool!Submit(edata)
      BY <1>4, <2>2 DEF EnqueueAppend, AbstractPool!Submit
    <2> QED
      BY <2>1, <2>3 DEF AbstractPool!Next
  <1>5. CASE EnqueueLock \/ EnqueuePost \/ EnqueueUnlock
    BY <1>5 DEF EnqueueLock, EnqueuePost, EnqueueUnlock
  <1>6. CASE CloseWhenIdle \/ DestroyPost \/ DestroyPosted
    BY <1>6 DEF CloseWhenIdle, DestroyBegin, DestroyPost, DestroyPosted
  <1>7. CASE DestroyJoined
    <2>1. Contents(ring_buffer') = <<>>
      BY <1>7 DEF DestroyJoined, Contents, RingBuffer_destroyed
    <2>2. AbstractPool!Discard
      BY <1>7, <2>1 DEF DestroyJoined, AbstractPool!Discard
    <2> QED
      BY <2>2 DEF AbstractPool!Next
  <1>8. CASE UNCHANGED poolVars
    BY <1>8 DEF poolVars
  <1> QED
    BY <1>1, <1>2, <1>3, <1>4, <1>5, <1>6, <1>7, <1>8 DEF Next, Enqueue, Destroy

\* Every job goes to one worker, in the order of the enqueues, one at a time, and is
\* dropped only by the destruction of the pool.
THEOREM PoolIsWorkQueue == Spec => IsWorkQueue
  BY IInvInit, IInvNext, QueueInit, QueueNext, PTL DEF Spec, IsWorkQueue, AbstractPool!Spec
=============================================================================
