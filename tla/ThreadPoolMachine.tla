-------------------------- MODULE ThreadPoolMachine --------------------------
(***************************************************************************)
(* The thread pool with callers that keep to its contract: no enqueue is   *)
(* in progress when destroy_threadpool is called, and none starts after.   *)
(* Jobs are enqueued again once they are done, and the pool is initialized *)
(* again once it is destroyed.                                             *)
(***************************************************************************)
EXTENDS ThreadPool

\* Jobs in the pool or on their way into it.
InPool == {edata} \cup {wdata[w] : w \in Workers}
                  \cup {ring_buffer.data[i] : i \in LiveSlots(ring_buffer)}

Submit(j) == opc = "running" /\ j \notin InPool /\ EnqueueCall(j)

CloseWhenIdle == epc = "idle" /\ DestroyBegin

Next == \/ InitializeThreadpool
        \/ \E w \in Workers : WorkerStep(w) \/ WorkerDone(w) \/ SeeStop(w)
        \/ \E j \in Elem : Submit(j)
        \/ Enqueue
        \/ CloseWhenIdle
        \/ Destroy

Spec == PoolInit /\ [][Next]_poolVars

\* The scheduler runs every thread that can run, jobs end, and a store reaches the
\* other threads.  Nothing obliges the caller to submit, to create or to destroy.
PoolFairness ==
  /\ \A w \in Workers : WF_poolVars(WorkerStep(w)) /\ WF_poolVars(WorkerDone(w))
                        /\ WF_poolVars(SeeStop(w))
  /\ WF_poolVars(Enqueue)
  /\ WF_poolVars(Destroy)

FairSpec == Spec /\ PoolFairness

-----------------------------------------------------------------------------
\* Every job goes to one worker, in order, and is dropped only by the destruction.
AbstractPool ==
  INSTANCE WorkQueue WITH Job <- Elem, NoJob <- NullData, Worker <- Workers,
                          queue <- Contents(ring_buffer), hand <- wdata

IsWorkQueue == AbstractPool!Spec

\* A job that was enqueued is taken, if any thread was started, or dropped by
\* destroy_threadpool: no wakeup gets lost between the semaphore and the mutex.
JobsLeaveTheQueue ==
  \A j \in Elem : threads # {} /\ (\E i \in LiveSlots(ring_buffer) : ring_buffer.data[i] = j)
                    ~> ~(\E i \in LiveSlots(ring_buffer) : ring_buffer.data[i] = j)

\* destroy_threadpool returns: every worker comes to see stop and exits.
DestroyReturns == opc = "posting" ~> opc = "none"
==============================================================================
