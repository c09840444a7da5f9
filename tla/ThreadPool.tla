----------------------------- MODULE ThreadPool -----------------------------
(***************************************************************************)
(* The thread pool of src/threadpool.c and the loop of its workers,        *)
(* proxy_res_req of src/server.c: a ring buffer of jobs behind a mutex, a  *)
(* semaphore that counts the jobs, and the plain bool `stop'.              *)
(*                                                                         *)
(* The callers are left open: `epc' is where the one thread that enqueues  *)
(* is in enqueue_threadpool, `opc' where the owner of the pool is in       *)
(* destroy_threadpool.  ThreadPoolMachine adds callers that keep to the    *)
(* contract of the pool, Server the callers it has in the program.         *)
(***************************************************************************)
EXTENDS RingBuffer, FiniteSets

CONSTANTS Workers,    \* one per pthread_create of initialize_threadpool
          Producer,   \* the thread that enqueues
          Free,       \* nobody: the value of an unlocked mutex
          MinThreads  \* how many pthread_create calls succeed at least

ASSUME WorkersAssumption == /\ IsFiniteSet(Workers)
                            /\ Producer \notin Workers
                            /\ Free \notin Workers \cup {Producer}
                            /\ MinThreads \in Nat

VARIABLES
  ring_buffer, \* jobs not taken; `Zero' is also the ResolverData with a null ssl
  sempahore,   \* its value, spelled as in the code
  mutex,       \* the thread that holds it, or Free
  threads,     \* the workers pthread_create started; thread_count is their number
  stop,        \* as its writer sees it
  stop_seen,   \* the threads that see it TRUE: a plain bool, written in a data race
  wpc, wdata,  \* where each worker is, and the ResolverData it dequeued
  epc, edata,  \* where the enqueuing thread is, and its argument
  opc, posts,  \* where the owner is, and how often destroy called sem_post
  crashed      \* the process was killed by a signal

poolVars == <<ring_buffer, sempahore, mutex, threads, stop, stop_seen,
              wpc, wdata, epc, edata, opc, posts, crashed>>

thread_count == Cardinality(threads)

\* The two values of a ResolverData that the code treats alike: ssl is null.
NullData == Zero

PoolInit ==
  /\ ring_buffer = RingBuffer_destroyed /\ sempahore = 0 /\ mutex = Free
  /\ threads = {} /\ stop = FALSE /\ stop_seen = {}
  /\ wpc = [w \in Workers |-> "none"] /\ wdata = [w \in Workers |-> NullData]
  /\ epc = "idle" /\ edata = NullData
  /\ opc = "none" /\ posts = 0 /\ crashed = FALSE

-----------------------------------------------------------------------------
(* Creation.  The threads it starts only read `stop' and wait, so that     *)
(* starting them one by one is the same as starting them together.         *)

Initialize(created) ==
  /\ opc = "none"
  /\ ring_buffer' = RingBuffer_make(Cardinality(Workers))
  /\ sempahore' = 0 /\ mutex' = Free /\ stop' = FALSE /\ stop_seen' = {}
  /\ threads' = created
  /\ wpc' = [w \in Workers |-> IF w \in created THEN "check" ELSE "none"]
  /\ wdata' = [w \in Workers |-> NullData]
  /\ opc' = "running" /\ posts' = 0
  /\ UNCHANGED <<epc, edata, crashed>>

\* A failed pthread_create only leaves the pool with one thread fewer.
InitializeThreadpool ==
  \E created \in SUBSET Workers :
    Cardinality(created) >= MinThreads /\ Initialize(created)

-----------------------------------------------------------------------------
(* The workers: proxy_res_req, dequeue_threadpool inlined.                 *)

\* while (!pool->stop): the value read is the one visible to this thread.
WorkerCheck(w) ==
  /\ wpc[w] = "check"
  /\ wpc' = [wpc EXCEPT ![w] = IF w \in stop_seen THEN "exited" ELSE "wait"]
  /\ UNCHANGED <<ring_buffer, sempahore, mutex, threads, stop, stop_seen, wdata,
                 epc, edata, opc, posts, crashed>>

\* sem_wait.  Returning from it, the thread sees what the owner wrote before the
\* sem_post calls that precede.
DequeueWait(w) ==
  /\ wpc[w] = "wait" /\ sempahore > 0
  /\ sempahore' = sempahore - 1
  /\ stop_seen' = IF posts > 0 THEN stop_seen \cup {w} ELSE stop_seen
  /\ wpc' = [wpc EXCEPT ![w] = "lock"]
  /\ UNCHANGED <<ring_buffer, mutex, threads, stop, wdata, epc, edata, opc, posts,
                 crashed>>

DequeueLock_NoWait(w) ==
  /\ wpc[w] = "lock"
  /\ mutex' = w
  /\ wpc' = [wpc EXCEPT ![w] = "critical"]
  /\ UNCHANGED <<ring_buffer, sempahore, threads, stop, stop_seen, wdata, epc,
                 edata, opc, posts, crashed>>

DequeueLock(w) ==
  /\ wpc[w] = "lock" /\ mutex = Free
  /\ mutex' = w
  /\ wpc' = [wpc EXCEPT ![w] = "critical"]
  /\ UNCHANGED <<ring_buffer, sempahore, threads, stop, stop_seen, wdata, epc,
                 edata, opc, posts, crashed>>

\* The retrieve, or the null data when nothing is stored.
DequeueTake_NoCheck(w) ==
  /\ wpc[w] = "critical"
  /\ wdata' = [wdata EXCEPT ![w] = RingBuffer_peek(ring_buffer)]
  /\ ring_buffer' = RingBuffer_retrieve(ring_buffer)
  /\ wpc' = [wpc EXCEPT ![w] = "unlock"]
  /\ UNCHANGED <<sempahore, mutex, threads, stop, stop_seen, epc, edata, opc,
                 posts, crashed>>

DequeueTake_Peek(w) ==
  /\ wpc[w] = "critical"
  /\ wdata' = [wdata EXCEPT ![w] = IF ring_buffer.stored = 0 THEN NullData
                                   ELSE RingBuffer_peek(ring_buffer)]
  /\ wpc' = [wpc EXCEPT ![w] = "unlock"]
  /\ UNCHANGED <<ring_buffer, sempahore, mutex, threads, stop, stop_seen, epc,
                 edata, opc, posts, crashed>>

DequeueTake(w) ==
  /\ wpc[w] = "critical"
  /\ \/ /\ ring_buffer.stored = 0
        /\ wdata' = [wdata EXCEPT ![w] = NullData]
        /\ UNCHANGED ring_buffer
     \/ /\ ring_buffer.stored # 0
        /\ wdata' = [wdata EXCEPT ![w] = RingBuffer_peek(ring_buffer)]
        /\ ring_buffer' = RingBuffer_retrieve(ring_buffer)
  /\ wpc' = [wpc EXCEPT ![w] = "unlock"]
  /\ UNCHANGED <<sempahore, mutex, threads, stop, stop_seen, epc, edata, opc,
                 posts, crashed>>

\* Back in the loop a null ssl is skipped: continue.
DequeueUnlock(w) ==
  /\ wpc[w] = "unlock"
  /\ mutex' = Free
  /\ wpc' = [wpc EXCEPT ![w] = IF wdata[w] = NullData THEN "check" ELSE "resolve"]
  /\ UNCHANGED <<ring_buffer, sempahore, threads, stop, stop_seen, wdata, epc,
                 edata, opc, posts, crashed>>

\* resolve_request returns.
WorkerDone(w) ==
  /\ wpc[w] = "resolve"
  /\ wpc' = [wpc EXCEPT ![w] = "check"]
  /\ wdata' = [wdata EXCEPT ![w] = NullData]
  /\ UNCHANGED <<ring_buffer, sempahore, mutex, threads, stop, stop_seen, epc,
                 edata, opc, posts, crashed>>

\* The write of stop becomes visible to a thread that did not synchronise.
SeeStop(t) ==
  /\ stop /\ t \notin stop_seen
  /\ stop_seen' = stop_seen \cup {t}
  /\ UNCHANGED <<ring_buffer, sempahore, mutex, threads, stop, wpc, wdata, epc,
                 edata, opc, posts, crashed>>

-----------------------------------------------------------------------------
(* enqueue_threadpool.                                                     *)

EnqueueCall(j) ==
  /\ epc = "idle"
  /\ epc' = "lock" /\ edata' = j
  /\ UNCHANGED <<ring_buffer, sempahore, mutex, threads, stop, stop_seen, wpc,
                 wdata, opc, posts, crashed>>

EnqueueLock ==
  /\ epc = "lock" /\ mutex = Free /\ IsAllocated(ring_buffer)
  /\ mutex' = Producer
  /\ epc' = "append"
  /\ UNCHANGED <<ring_buffer, sempahore, threads, stop, stop_seen, wpc, wdata,
                 edata, opc, posts, crashed>>

EnqueueAppend ==
  /\ epc = "append" /\ IsAllocated(ring_buffer)
  /\ ring_buffer' = RingBuffer_append(ring_buffer, edata)
  /\ epc' = "post"
  /\ UNCHANGED <<sempahore, mutex, threads, stop, stop_seen, wpc, wdata, edata,
                 opc, posts, crashed>>

EnqueuePost_Forgotten ==
  /\ epc = "post"
  /\ epc' = "unlock"
  /\ UNCHANGED <<ring_buffer, sempahore, mutex, threads, stop, stop_seen, wpc,
                 wdata, edata, opc, posts, crashed>>

EnqueuePost_Twice ==
  /\ epc = "post"
  /\ sempahore' = sempahore + 2
  /\ epc' = "unlock"
  /\ UNCHANGED <<ring_buffer, mutex, threads, stop, stop_seen, wpc, wdata, edata,
                 opc, posts, crashed>>

EnqueuePost ==
  /\ epc = "post"
  /\ sempahore' = sempahore + 1
  /\ epc' = "unlock"
  /\ UNCHANGED <<ring_buffer, mutex, threads, stop, stop_seen, wpc, wdata, edata,
                 opc, posts, crashed>>

EnqueueUnlock ==
  /\ epc = "unlock"
  /\ mutex' = Free
  /\ epc' = "idle" /\ edata' = NullData
  /\ UNCHANGED <<ring_buffer, sempahore, threads, stop, stop_seen, wpc, wdata, opc,
                 posts, crashed>>

\* The same calls on a destroyed pool: locking the destroyed mutex fails, which
\* the code ignores, and append computes a remainder by a count of zero.
EnqueueOnDestroyed ==
  /\ epc \in {"lock", "append"} /\ ~IsAllocated(ring_buffer)
  /\ crashed' = TRUE
  /\ UNCHANGED <<ring_buffer, sempahore, mutex, threads, stop, stop_seen, wpc,
                 wdata, epc, edata, opc, posts>>

-----------------------------------------------------------------------------
(* destroy_threadpool.                                                     *)

\* How often it posts: once per thread that was started.
PostsOfDestroy_OneShort == thread_count - 1

PostsOfDestroy == thread_count

DestroyBegin ==
  /\ opc = "running"
  /\ stop' = TRUE
  /\ opc' = "posting" /\ posts' = 0
  /\ UNCHANGED <<ring_buffer, sempahore, mutex, threads, stop_seen, wpc, wdata,
                 epc, edata, crashed>>

DestroyPost ==
  /\ opc = "posting" /\ posts < PostsOfDestroy
  /\ sempahore' = sempahore + 1 /\ posts' = posts + 1
  /\ UNCHANGED <<ring_buffer, mutex, threads, stop, stop_seen, wpc, wdata, epc,
                 edata, opc, crashed>>

DestroyPosted ==
  /\ opc = "posting" /\ posts >= PostsOfDestroy
  /\ opc' = "joining"
  /\ UNCHANGED <<ring_buffer, sempahore, mutex, threads, stop, stop_seen, wpc,
                 wdata, epc, edata, posts, crashed>>

\* Every pthread_join returned: the array of threads is freed, and the ring buffer
\* with what is left in it.  A mutex that is locked stays so; nothing reads the
\* semaphore before the next sem_init.
DestroyJoined ==
  /\ opc = "joining"
  /\ \A w \in threads : wpc[w] = "exited"
  /\ ring_buffer' = RingBuffer_destroyed
  /\ threads' = {} /\ wpc' = [w \in Workers |-> "none"]
  /\ opc' = "none"
  /\ UNCHANGED <<sempahore, mutex, stop, stop_seen, wdata, epc, edata, posts,
                 crashed>>

-----------------------------------------------------------------------------
WorkerStep(w) ==
  \/ WorkerCheck(w)
  \/ DequeueWait(w) \/ DequeueLock(w) \/ DequeueTake(w) \/ DequeueUnlock(w)

Enqueue == EnqueueLock \/ EnqueueAppend \/ EnqueuePost \/ EnqueueUnlock

Destroy == DestroyPost \/ DestroyPosted \/ DestroyJoined

-----------------------------------------------------------------------------
WorkerPlaces == {"none", "check", "wait", "lock", "critical", "unlock", "resolve",
                 "exited"}

\* Type invariant: the buffer is destroyed exactly when there is no pool, and what a
\* worker or the caller holds is a job or the null data, never an uninitialized cell.
PoolTypeOK ==
  /\ IF opc = "none" THEN ring_buffer = RingBuffer_destroyed
     ELSE RingShape(ring_buffer) /\ LiveCellsHoldElements(ring_buffer)
  /\ sempahore \in Nat /\ mutex \in Workers \cup {Producer, Free}
  /\ threads \subseteq Workers
  /\ stop \in BOOLEAN /\ stop_seen \subseteq Workers \cup {Producer}
  /\ wpc \in [Workers -> WorkerPlaces]
  /\ \A w \in Workers : wpc[w] = "none" <=> w \notin threads
  /\ wdata \in [Workers -> Elem \cup {NullData}]
  /\ epc \in {"idle", "lock", "append", "post", "unlock"}
  /\ edata \in Elem \cup {NullData}
  /\ opc \in {"none", "running", "posting", "joining"} /\ posts \in Nat
  /\ crashed \in BOOLEAN

At(places) == {w \in Workers : wpc[w] \in places}

\* At most one thread is in the critical section of the mutex, counting the workers
\* in dequeue_threadpool and the caller in enqueue_threadpool.
MutualExclusion ==
  Cardinality(At({"critical", "unlock"}))
    + (IF epc \in {"append", "post", "unlock"} THEN 1 ELSE 0) <= 1

\* The tokens: what sem_wait can still return, what it returned to workers that did
\* not look into the buffer yet, and the post an enqueue still owes.
Tokens == sempahore + Cardinality(At({"lock", "critical"}))
                    + (IF epc = "post" THEN 1 ELSE 0)

\* No lost wakeup and no false one: there is a token for every stored job, and as
\* long as destroy_threadpool posts nothing there are no more tokens than jobs.
TokenAccounting ==
  opc # "none" => /\ ring_buffer.stored <= Tokens
                  /\ opc = "running" => Tokens = ring_buffer.stored

\* A worker finds the buffer empty only once the pool is being destroyed: the comment
\* "Probably the threadpool is commiting fake data to kill all threads" is right.
NullOnlyWhenStopping ==
  \A w \in Workers : wpc[w] = "unlock" /\ wdata[w] = NullData => stop

\* The workers that may still call sem_wait before they exit.
MayWait == {w \in threads : \/ wpc[w] = "wait"
                            \/ wpc[w] # "exited" /\ w \notin stop_seen}

\* When destroy_threadpool starts to join, the posts suffice: whichever workers take
\* them, with jobs left in the buffer or not, and although some may still read an old
\* `stop', there is a token for each that can still need one.
NoWorkerLeftWaiting == opc = "joining" => Cardinality(MayWait) <= sempahore

-----------------------------------------------------------------------------
(* The inductive invariant behind these properties, part by part.          *)

\* Whoever is in the critical section holds the mutex.
HolderInv ==
  /\ \A w \in Workers : wpc[w] \in {"critical", "unlock"} => mutex = w
  /\ epc \in {"append", "post", "unlock"} => mutex = Producer

\* Who has a job in hand; outside destroy_threadpool nobody has dequeued null data.
DataInv ==
  /\ \A w \in Workers : /\ wpc[w] \notin {"unlock", "resolve"} => wdata[w] = NullData
                        /\ wpc[w] = "resolve" => wdata[w] \in Elem
                        /\ wpc[w] = "unlock" /\ wdata[w] = NullData => stop
  /\ epc \in {"lock", "append"} => edata \in Elem

\* stop and the count of posts follow the owner.
OwnerInv ==
  /\ opc = "none" => threads = {}
  /\ opc = "running" => posts = 0 /\ ~stop
  /\ opc \in {"posting", "joining"} => stop /\ posts <= thread_count
  /\ opc = "joining" => posts = thread_count

\* The surplus of tokens over jobs is at most what destroy_threadpool posted.
TokenInv ==
  opc # "none" => /\ ring_buffer.stored <= Tokens
                  /\ Tokens <= ring_buffer.stored + posts

\* What is there and what is still to be posted suffices for who may still wait.
ShutdownInv ==
  opc \in {"posting", "joining"} =>
    Cardinality(MayWait) <= sempahore + (thread_count - posts)

PoolInv == PoolTypeOK /\ HolderInv /\ DataInv /\ OwnerInv /\ TokenInv /\ ShutdownInv
=============================================================================
