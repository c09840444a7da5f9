---------------------------- MODULE ServerProofs ----------------------------
(***************************************************************************)
(* The theorems of Server, for every finite set of workers and descriptors *)
(* and every set of clients.  The pool's invariant holds although stop     *)
(* does not keep to the contract of destroy_threadpool: the acceptor may   *)
(* enqueue while the pool is destroyed.                                    *)
(***************************************************************************)
EXTENDS Server, ThreadPoolLemmas

\* Where the main thread is decides where the owner of the pool is, and whether there
\* is an acceptor.
LifeInv ==
  /\ mpc \in {"off", "exit", "joining"} => opc = "none"
  /\ mpc \in {"ready", "serving", "terminated"} => opc = "running"
  /\ mpc \in {"off", "exit", "ready"} => apc \in {"none", "exited"}

\* The acceptor is in its own code, or in enqueue_threadpool with a connection.
AcceptorInv ==
  /\ apc # "check" => epc = "idle"
  /\ apc = "handshake" => aconn \in Elem

ServerInv == PoolInv /\ ServerTypeOK /\ LifeInv /\ AcceptorInv

-----------------------------------------------------------------------------
LEMMA ServerInvInit == Init => ServerInv
  <1> SUFFICES ASSUME Init PROVE ServerInv
    OBVIOUS
  <1>1. PoolInv
    BY PoolInitEstablishes DEF Init
  <1>2. ServerTypeOK
    <2>1. stops \in 0 .. MaxStops
      BY ServerAssumption DEF Init, ServerInit
    <2>2. restarting \in BOOLEAN /\ listening \in BOOLEAN /\ ssls \subseteq Elem
      BY DEF Init, ServerInit
    <2>3. /\ client \in [Elem -> {"away"}] /\ sock \in [Elem -> {NoFd}]
          /\ rpc \in [Workers -> {"receive"}]
      BY DEF Init, ServerInit
    <2> QED
      BY <2>1, <2>2, <2>3 DEF Init, ServerInit, ServerTypeOK
  <1>3. LifeInv /\ AcceptorInv
    BY DEF Init, ServerInit, PoolInit, LifeInv, AcceptorInv
  <1> QED
    BY <1>1, <1>2, <1>3 DEF ServerInv

LEMMA MainPreserves ==
  ASSUME ServerInv,
         Setup \/ SetupFails \/ Start \/ (\E again \in BOOLEAN : StopCall(again))
           \/ MainStops
  PROVE  ServerInv'
  <1> USE DEF ServerInv
  <1>1. CASE Setup
    <2>1. epc = "idle"
      BY <1>1 DEF Setup, LifeInv, AcceptorInv
    <2>2. PoolInv'
      BY <1>1, <2>1, InitializePreserves DEF Setup
    <2>3. ServerTypeOK' /\ LifeInv' /\ AcceptorInv'
      BY <1>1 DEF Setup, InitializeThreadpool, Initialize, ServerTypeOK, LifeInv,
                  AcceptorInv
    <2> QED
      BY <2>2, <2>3
  <1>2. CASE SetupFails
    <2>1. ServerTypeOK' /\ LifeInv' /\ AcceptorInv'
      BY <1>2 DEF SetupFails, poolVars, ServerTypeOK, LifeInv, AcceptorInv
    <2> QED
      BY <1>2, <2>1, PoolStutterPreserves DEF SetupFails
  <1>3. CASE Start
    <2>1. stop' = stop
      BY <1>3 DEF Start, LifeInv, PoolInv, OwnerInv, PoolTypeOK
    <2>2. PoolInv'
      BY <1>3, <2>1, PoolStutterPreserves DEF Start, poolVars
    <2>3. ServerTypeOK' /\ LifeInv' /\ AcceptorInv'
      BY <1>3 DEF Start, ServerTypeOK, LifeInv, AcceptorInv
    <2> QED
      BY <2>2, <2>3
  <1>4. ASSUME NEW again \in BOOLEAN, StopCall(again)
        PROVE  ServerInv'
    <2>1. ServerTypeOK'
      <3>1. stops' \in 0 .. MaxStops
        BY <1>4, ServerAssumption DEF StopCall, ServerTypeOK
      <3>2. client' \in [Elem -> {"away", "pending", "refused", "accepted", "failed",
                                 "answered"}]
        BY <1>4 DEF StopCall, ServerTypeOK
      <3> QED
        BY <1>4, <3>1, <3>2 DEF StopCall, ServerTypeOK
    <2>2. LifeInv' /\ AcceptorInv'
      BY <1>4 DEF StopCall, poolVars, LifeInv, AcceptorInv
    <2> QED
      BY <1>4, <2>1, <2>2, PoolStutterPreserves DEF StopCall
  <1>5. CASE StopDestroyPool
    <2>1. ServerTypeOK' /\ LifeInv' /\ AcceptorInv'
      BY <1>5 DEF StopDestroyPool, DestroyBegin, ServerTypeOK, LifeInv, AcceptorInv
    <2> QED
      BY <1>5, <2>1, DestroyBeginPreserves DEF StopDestroyPool
  <1>6. CASE StopPoolStep
    <2>1. PoolInv'
      BY <1>6, DestroyPostPreserves, DestroyPostedPreserves, DestroyJoinedPreserves
      DEF StopPoolStep, Destroy
    <2>2. ServerTypeOK' /\ LifeInv' /\ AcceptorInv'
      BY <1>6 DEF StopPoolStep, Destroy, DestroyPost, DestroyPosted, DestroyJoined,
                  ServerTypeOK, LifeInv, AcceptorInv
    <2> QED
      BY <2>1, <2>2
  <1>7. CASE StopJoinAcceptor
    <2>1. ServerTypeOK' /\ LifeInv' /\ AcceptorInv'
      BY <1>7 DEF StopJoinAcceptor, poolVars, ServerTypeOK, LifeInv, AcceptorInv
    <2> QED
      BY <1>7, <2>1, PoolStutterPreserves DEF StopJoinAcceptor
  <1> QED
    BY <1>1, <1>2, <1>3, <1>4, <1>5, <1>6, <1>7 DEF MainStops

LEMMA AcceptorPreserves ==
  ASSUME ServerInv, Acceptor \/ Handshake \/ AcceptorEnqueues
  PROVE  ServerInv'
  <1> USE DEF ServerInv
  <1>1. CASE AcceptorCheck \/ AcceptorPoll \/ AcceptFails
    <2>1. UNCHANGED poolVars
      BY <1>1 DEF AcceptorCheck, AcceptorPoll, AcceptFails
    <2>2. ServerTypeOK' /\ LifeInv' /\ AcceptorInv'
      BY <1>1, <2>1 DEF AcceptorCheck, AcceptorPoll, AcceptFails, poolVars,
                        ServerTypeOK, LifeInv, AcceptorInv
    <2> QED
      BY <2>1, <2>2, PoolStutterPreserves
  <1>2. ASSUME NEW c \in Elem, NEW fd \in Fds, AcceptClient(c, fd)
        PROVE  ServerInv'
    <2>1. ServerTypeOK' /\ LifeInv' /\ AcceptorInv'
      BY <1>2 DEF AcceptClient, poolVars, ServerTypeOK, LifeInv, AcceptorInv
    <2> QED
      BY <1>2, <2>1, PoolStutterPreserves DEF AcceptClient
  <1>3. CASE CreateFails \/ HandshakeFails
    <2>1. UNCHANGED poolVars /\ aconn \in Elem
      BY <1>3 DEF CreateFails, HandshakeFails, AcceptorInv
    <2>2. ServerTypeOK' /\ LifeInv' /\ AcceptorInv'
      BY <1>3, <2>1 DEF CreateFails, HandshakeFails, poolVars, ServerTypeOK, LifeInv,
                        AcceptorInv
    <2> QED
      BY <2>1, <2>2, PoolStutterPreserves
  <1>4. CASE HandshakeSucceeds
    <2>1. EnqueueCall(aconn) /\ aconn \in Elem
      BY <1>4 DEF HandshakeSucceeds, AcceptorInv
    <2>2. ServerTypeOK' /\ LifeInv' /\ AcceptorInv'
      BY <1>4, <2>1 DEF HandshakeSucceeds, EnqueueCall, ServerTypeOK, LifeInv, AcceptorInv
    <2> QED
      BY <2>1, <2>2, EnqueueCallPreserves
  <1>5. CASE AcceptorEnqueues
    <2>1. PoolInv'
      BY <1>5, EnqueueLockPreserves, EnqueueAppendPreserves, EnqueuePostPreserves,
         EnqueueUnlockPreserves, EnqueueOnDestroyedPreserves
      DEF AcceptorEnqueues, Enqueue
    <2>2. ServerTypeOK' /\ LifeInv' /\ AcceptorInv'
      BY <1>5 DEF AcceptorEnqueues, Enqueue, EnqueueLock, EnqueueAppend, EnqueuePost,
                  EnqueueUnlock, EnqueueOnDestroyed, serverVars, ServerTypeOK, LifeInv,
                  AcceptorInv
    <2> QED
      BY <2>1, <2>2
  <1> QED
    BY <1>1, <1>2, <1>3, <1>4, <1>5 DEF Acceptor, Handshake

LEMMA WorkerPreserves ==
  ASSUME ServerInv, NEW w \in Workers, ThreadStep(w) \/ Receive(w)
  PROVE  ServerInv'
  <1> USE DEF ServerInv
  <1>1. CASE WorkerStep(w) /\ UNCHANGED serverVars
    <2>1. PoolInv'
      BY <1>1, WorkerCheckPreserves, DequeueWaitPreserves, DequeueLockPreserves,
         DequeueTakePreserves, DequeueUnlockPreserves DEF WorkerStep
    <2>2. opc' = opc /\ epc' = epc
      BY <1>1 DEF WorkerStep, WorkerCheck, DequeueWait, DequeueLock, DequeueTake,
                  DequeueUnlock
    <2>3. ServerTypeOK' /\ LifeInv' /\ AcceptorInv'
      BY <1>1, <2>2 DEF serverVars, ServerTypeOK, LifeInv, AcceptorInv
    <2> QED
      BY <2>1, <2>3
  <1>2. CASE Receive(w) \/ Send(w) \/ CloseSocket(w)
    <2>1. UNCHANGED poolVars /\ UNCHANGED <<mpc, apc, aconn>>
      BY <1>2 DEF Receive, Send, CloseSocket
    <2>2. ServerTypeOK'
      BY <1>2 DEF Receive, Send, CloseSocket, ServerTypeOK
    <2>3. LifeInv' /\ AcceptorInv'
      BY <2>1 DEF poolVars, LifeInv, AcceptorInv
    <2> QED
      BY <2>1, <2>2, <2>3, PoolStutterPreserves
  <1>3. CASE DestroyConnection(w)
    <2>1. ServerTypeOK' /\ LifeInv' /\ AcceptorInv'
      BY <1>3 DEF DestroyConnection, WorkerDone, ServerTypeOK, LifeInv, AcceptorInv
    <2> QED
      BY <1>3, <2>1, WorkerDonePreserves DEF DestroyConnection
  <1> QED
    BY <1>1, <1>2, <1>3 DEF ThreadStep, Resolve

LEMMA ServerInvNext == ServerInv /\ [Next]_vars => ServerInv'
  <1> SUFFICES ASSUME ServerInv, [Next]_vars
               PROVE  ServerInv'
    OBVIOUS
  <1> USE DEF ServerInv
  <1>1. ASSUME NEW c \in Elem, Connect(c)
        PROVE  ServerInv'
    <2>1. ServerTypeOK' /\ LifeInv' /\ AcceptorInv'
      BY <1>1 DEF Connect, poolVars, ServerTypeOK, LifeInv, AcceptorInv
    <2> QED
      BY <1>1, <2>1, PoolStutterPreserves DEF Connect
  <1>2. ASSUME NEW t \in Workers \cup {Producer}, SeesStop(t)
        PROVE  ServerInv'
    <2>1. ServerTypeOK' /\ LifeInv' /\ AcceptorInv'
      BY <1>2 DEF SeesStop, SeeStop, serverVars, ServerTypeOK, LifeInv, AcceptorInv
    <2> QED
      BY <1>2, <2>1, SeeStopPreserves DEF SeesStop
  <1>3. CASE UNCHANGED vars
    <2>1. ServerTypeOK' /\ LifeInv' /\ AcceptorInv'
      BY <1>3 DEF vars, poolVars, serverVars, ServerTypeOK, LifeInv, AcceptorInv
    <2> QED
      BY <1>3, <2>1, PoolStutterPreserves DEF vars
  <1> QED
    BY <1>1, <1>2, <1>3, MainPreserves, AcceptorPreserves, WorkerPreserves
    DEF Next, Steps, Idle

-----------------------------------------------------------------------------
\* Through setup, start, stop and restart, in any interleaving with the clients, the
\* variables keep their types and the pool is well formed.
THEOREM ServerTypeCorrect == Spec => []TypeOK
  <1>1. ServerInv => TypeOK
    BY DEF ServerInv, PoolInv, TypeOK
  <1> QED
    BY <1>1, ServerInvInit, ServerInvNext, PTL DEF Spec

\* The pool's promises hold in the server, where the acceptor may be in the middle of
\* enqueue_threadpool, or enter it, while stop destroys the pool.
THEOREM ServerPoolSafe ==
  Spec => [](MutualExclusion /\ TokenAccounting /\ NullOnlyWhenStopping
               /\ NoWorkerLeftWaiting)
  <1>1. ServerInv => MutualExclusion /\ TokenAccounting /\ NullOnlyWhenStopping
                       /\ NoWorkerLeftWaiting
    BY PoolInvImplies DEF ServerInv
  <1> QED
    BY <1>1, ServerInvInit, ServerInvNext, PTL DEF Spec

\* When stop has returned nothing of the server runs any more.
THEOREM ServerStopComplete == Spec => []StopLeavesNothingRunning
  <1>1. ServerInv => StopLeavesNothingRunning
    BY DEF ServerInv, PoolInv, OwnerInv, LifeInv, AcceptorInv, StopLeavesNothingRunning
  <1> QED
    BY <1>1, ServerInvInit, ServerInvNext, PTL DEF Spec

-----------------------------------------------------------------------------
(* The connections: a second invariant, on top of ServerInv, follows each  *)
(* of them from the acceptor to the worker that closes it.                 *)

\* The connection the acceptor is about to append, and those that are queued.
called == IF epc \in {"lock", "append"} THEN edata ELSE NullData

queue == Contents(ring_buffer)

Queued(c) == \E k \in 1 .. Len(queue) : queue[k] = c

Taken(c) == \E w \in Workers : wdata[w] = c

Held(c) == aconn = c \/ called = c \/ Queued(c) \/ Taken(c)

\* A connection is in one place on its way: the acceptor, its call, the queue, a worker.
CustodyInv ==
  /\ apc # "handshake" => aconn = NullData
  /\ \A j, k \in 1 .. Len(queue) : queue[j] = queue[k] => j = k
  /\ \A v, w \in Workers : wdata[v] = wdata[w] /\ wdata[v] # NullData => v = w
  /\ \A c \in Elem : /\ aconn = c \/ called = c => ~Queued(c) /\ ~Taken(c)
                     /\ Queued(c) => ~Taken(c)

\* A client is held from the time it is accepted, with a descriptor of its own until a
\* worker closes it, and behind the handshake with an SSL object.
SocketInv ==
  /\ \A c \in Elem : client[c] \in {"away", "pending", "refused"} => ~Held(c) /\ sock[c] = NoFd
  /\ \A c, d \in Elem : sock[c] = sock[d] /\ sock[c] # NoFd => c = d
  /\ \A c \in Elem : Held(c) /\ aconn # c => c \in ssls
  /\ \A c \in Elem : Held(c) /\ ~Taken(c) => sock[c] # NoFd
  /\ \A w \in Workers : rpc[w] # "receive" => wpc[w] = "resolve"
  /\ \A w \in Workers : wdata[w] \in Elem => (sock[wdata[w]] = NoFd <=> rpc[w] = "free")

\* The invariant of the connections, on top of that of the server.
ConnectionInv == ServerInv /\ CustodyInv /\ SocketInv

\* A step lets go of a connection that is still open only for the two known reasons.
LetsGo ==
  \A c \in Elem : Held(c) /\ ~Held(c)' /\ sock'[c] # NoFd =>
    client'[c] = "failed" \/ (opc = "joining" /\ opc' = "none")

ConnectionStep == CustodyInv' /\ SocketInv' /\ LetsGo

-----------------------------------------------------------------------------
\* The types the steps below rest on.
LEMMA CustodyTypes ==
  ASSUME ServerInv
  PROVE  /\ queue \in Seq(Elem) /\ Len(queue) = Stored
         /\ called \in Elem \cup {NullData} /\ NullData \notin Elem
         /\ epc = "idle" => called = NullData
         /\ wdata \in [Workers -> Elem \cup {NullData}]
         /\ client \in [Elem -> {"away", "pending", "refused", "accepted", "failed",
                                 "answered"}]
         /\ sock \in [Elem -> Fds \cup {NoFd}] /\ NoFd \notin Fds
         /\ rpc \in [Workers -> {"receive", "send", "close", "free"}]
         /\ wpc \in [Workers -> WorkerPlaces]
  <1>1. queue \in Seq(Elem) /\ Len(queue) = Stored
    <2>1. CASE opc = "none"
      <3>1. Stored = 0 /\ queue = <<>>
        BY <2>1 DEF ServerInv, PoolInv, PoolTypeOK, queue, Contents, Stored,
                    RingBuffer_destroyed
      <3> QED
        BY <3>1
    <2>2. CASE opc # "none"
      BY <2>2, ContentsType DEF ServerInv, PoolInv, PoolTypeOK, queue, Stored
    <2> QED
      BY <2>1, <2>2
  <1>2. called \in Elem \cup {NullData} /\ NullData \notin Elem
    BY CellAssumption DEF ServerInv, PoolInv, PoolTypeOK, called, NullData
  <1>3. epc = "idle" => called = NullData
    BY DEF called
  <1> QED
    BY <1>1, <1>2, <1>3, ServerAssumption
    DEF ServerInv, PoolInv, PoolTypeOK, ServerTypeOK

LEMMA QueueUntouched ==
  ASSUME UNCHANGED ring_buffer
  PROVE  queue' = queue
  BY DEF queue

LEMMA CallUntouched ==
  ASSUME UNCHANGED <<epc, edata>>
  PROVE  called' = called
  BY DEF called

\* A step that moves no connection and touches no socket.
LEMMA NothingMoves ==
  ASSUME ConnectionInv,
         UNCHANGED <<aconn, called, queue, wdata, sock, ssls>>,
         apc' # "handshake" => apc # "handshake",
         \A c \in Elem : client'[c] \in {"away", "pending", "refused"}
                           => client[c] \in {"away", "pending", "refused"},
         \A w \in Workers : /\ rpc'[w] # "receive" => wpc'[w] = "resolve"
                            /\ rpc'[w] = "free" <=> rpc[w] = "free"
  PROVE  ConnectionStep
  <1>1. apc # "handshake" => aconn = NullData
    BY DEF ConnectionInv, CustodyInv
  <1>2. \A c : Queued(c)' = Queued(c) /\ Taken(c)' = Taken(c) /\ Held(c)' = Held(c)
    BY DEF Queued, Taken, Held
  <1>3. CustodyInv'
    <2>1. apc' # "handshake" => aconn' = NullData
      BY <1>1
    <2> QED
      BY <1>2, <2>1 DEF ConnectionInv, CustodyInv
  <1>4. SocketInv'
    BY <1>2 DEF ConnectionInv, SocketInv
  <1> QED
    BY <1>2, <1>3, <1>4 DEF ConnectionStep, LetsGo

\* accept: a pending client gets a descriptor nobody has.
LEMMA AcceptMoves ==
  ASSUME ConnectionInv, NEW c \in Elem, NEW fd \in Fds, AcceptClient(c, fd)
  PROVE  ConnectionStep
  <1> USE DEF ConnectionInv
  <1>1. /\ client[c] = "pending" /\ client' = [client EXCEPT ![c] = "accepted"]
        /\ sock' = [sock EXCEPT ![c] = fd] /\ \A d \in Elem : sock[d] # fd
        /\ aconn' = c /\ apc = "accept" /\ apc' = "handshake"
        /\ UNCHANGED <<ssls, rpc, wpc, wdata>>
    BY DEF AcceptClient, FreeFds, poolVars
  <1>2. queue' = queue /\ called' = called
    BY QueueUntouched, CallUntouched DEF AcceptClient, poolVars
  <1>3. aconn = NullData
    BY <1>1 DEF CustodyInv
  <1>4. ~Held(c) /\ sock[c] = NoFd
    BY <1>1 DEF SocketInv
  <1>5. \A d : Queued(d)' = Queued(d) /\ Taken(d)' = Taken(d)
    BY <1>1, <1>2 DEF Queued, Taken
  <1>6. \A d \in Elem : Held(d)' <=> Held(d) \/ d = c
    BY <1>1, <1>2, <1>3, <1>5, CustodyTypes DEF Held
  <1>7. CustodyInv'
    BY <1>1, <1>2, <1>4, <1>5, CustodyTypes DEF CustodyInv, Held
  <1>8. SocketInv'
    <2>1. \A d \in Elem : client'[d] \in {"away", "pending", "refused"}
                             => ~Held(d)' /\ sock'[d] = NoFd
      BY <1>1, <1>6, CustodyTypes DEF SocketInv
    <2>2. \A d, e \in Elem : sock'[d] = sock'[e] /\ sock'[d] # NoFd => d = e
      BY <1>1, CustodyTypes DEF SocketInv
    <2>3. \A d \in Elem : Held(d)' /\ aconn' # d => d \in ssls'
      BY <1>1, <1>3, <1>6, CustodyTypes DEF SocketInv
    <2>4. \A d \in Elem : Held(d)' /\ ~Taken(d)' => sock'[d] # NoFd
      BY <1>1, <1>5, <1>6, CustodyTypes DEF SocketInv
    <2>5. \A w \in Workers : wdata'[w] \in Elem
                               => (sock'[wdata'[w]] = NoFd <=> rpc'[w] = "free")
      <3>1. \A w \in Workers : wdata[w] # c
        BY <1>4 DEF Held, Taken
      <3> QED
        BY <1>1, <3>1, CustodyTypes DEF SocketInv
    <2> QED
      BY <1>1, <2>1, <2>2, <2>3, <2>4, <2>5 DEF SocketInv
  <1> QED
    BY <1>6, <1>7, <1>8 DEF ConnectionStep, LetsGo

\* The handshake fails: the acceptor forgets the client, whose descriptor stays open.
LEMMA FailureMoves ==
  ASSUME ConnectionInv, CreateFails \/ HandshakeFails
  PROVE  ConnectionStep
  <1> USE DEF ConnectionInv
  <1>1. /\ apc = "handshake" /\ apc' = "check" /\ aconn' = NullData /\ aconn \in Elem
        /\ client' = [client EXCEPT ![aconn] = "failed"] /\ ssls \subseteq ssls'
        /\ UNCHANGED <<sock, rpc, wpc, wdata>>
    BY DEF CreateFails, HandshakeFails, poolVars, ServerInv, AcceptorInv
  <1>2. queue' = queue /\ called' = called
    BY QueueUntouched, CallUntouched DEF CreateFails, HandshakeFails, poolVars
  <1>3. \A d : Queued(d)' = Queued(d) /\ Taken(d)' = Taken(d)
    BY <1>1, <1>2 DEF Queued, Taken
  <1>4. called = NullData
    BY <1>1, CustodyTypes DEF ServerInv, AcceptorInv
  <1>5. \A d \in Elem : Held(d)' <=> Held(d) /\ d # aconn
    BY <1>1, <1>2, <1>3, <1>4, CustodyTypes DEF Held, CustodyInv
  <1>6. CustodyInv'
    BY <1>1, <1>2, <1>3, CustodyTypes DEF CustodyInv
  <1>7. SocketInv'
    <2>1. \A d \in Elem : client'[d] \in {"away", "pending", "refused"}
                             => ~Held(d)' /\ sock'[d] = NoFd
      BY <1>1, <1>5, CustodyTypes DEF SocketInv
    <2>2. \A d \in Elem : Held(d)' /\ aconn' # d => d \in ssls'
      BY <1>1, <1>5, CustodyTypes DEF SocketInv
    <2>3. \A d \in Elem : Held(d)' /\ ~Taken(d)' => sock'[d] # NoFd
      BY <1>1, <1>3, <1>5, CustodyTypes DEF SocketInv
    <2> QED
      BY <1>1, <2>1, <2>2, <2>3 DEF SocketInv
  <1>8. LetsGo
    <2>1. client'[aconn] = "failed"
      BY <1>1, CustodyTypes
    <2> QED
      BY <1>5, <2>1 DEF LetsGo
  <1> QED
    BY <1>6, <1>7, <1>8 DEF ConnectionStep

\* The handshake succeeds: the connection goes to enqueue_threadpool.
LEMMA SuccessMoves ==
  ASSUME ConnectionInv, HandshakeSucceeds
  PROVE  ConnectionStep
  <1> USE DEF ConnectionInv
  <1>1. /\ apc = "handshake" /\ apc' = "check" /\ aconn' = NullData /\ aconn \in Elem
        /\ ssls' = ssls \cup {aconn} /\ epc = "idle" /\ called' = aconn
        /\ UNCHANGED <<client, sock, rpc, wpc, wdata>>
    BY DEF HandshakeSucceeds, EnqueueCall, ServerInv, AcceptorInv, called
  <1>2. queue' = queue /\ called = NullData
    BY <1>1, QueueUntouched, CustodyTypes DEF HandshakeSucceeds, EnqueueCall
  <1>3. \A d : Queued(d)' = Queued(d) /\ Taken(d)' = Taken(d)
    BY <1>1, <1>2 DEF Queued, Taken
  <1>4. \A d \in Elem : Held(d)' = Held(d)
    BY <1>1, <1>2, <1>3, CustodyTypes DEF Held
  <1>5. CustodyInv'
    BY <1>1, <1>2, <1>3, CustodyTypes DEF CustodyInv
  <1>6. SocketInv'
    BY <1>1, <1>3, <1>4, CustodyTypes DEF SocketInv
  <1> QED
    BY <1>4, <1>5, <1>6 DEF ConnectionStep, LetsGo

\* The append: from the call into the queue.
LEMMA AppendMoves ==
  ASSUME ConnectionInv, EnqueueAppend, UNCHANGED serverVars
  PROVE  ConnectionStep
  <1> USE DEF ConnectionInv
  <1>1. /\ called = edata /\ edata \in Elem /\ called' = NullData
        /\ ring_buffer' = RingBuffer_append(ring_buffer, edata)
        /\ UNCHANGED <<apc, aconn, client, sock, ssls, rpc, wpc, wdata>>
    BY DEF EnqueueAppend, ServerInv, PoolInv, DataInv, called, serverVars
  <1>2. queue' = Append(queue, called)
    <2>1. RingShape(ring_buffer) /\ LiveCellsHoldElements(ring_buffer)
      BY DEF EnqueueAppend, IsAllocated, RingBuffer_destroyed, ServerInv, PoolInv,
             PoolTypeOK
    <2> QED
      BY <1>1, <2>1, AppendShape DEF queue
  <1>3. /\ Len(queue') = Len(queue) + 1 /\ Len(queue) \in Nat
        /\ \A k \in 1 .. Len(queue') :
             queue'[k] = IF k = Len(queue) + 1 THEN called ELSE queue[k]
    BY <1>1, <1>2, CustodyTypes
  <1>4. ~Queued(called) /\ ~Taken(called) /\ aconn # called
    <2>1. aconn = NullData
      BY DEF EnqueueAppend, ServerInv, AcceptorInv, CustodyInv
    <2> QED
      BY <1>1, <2>1, CustodyTypes DEF CustodyInv
  <1>5. \A d \in Elem : (Queued(d)' <=> Queued(d) \/ d = called) /\ Taken(d)' = Taken(d)
    BY <1>1, <1>3 DEF Queued, Taken
  <1>6. \A d \in Elem : Held(d)' <=> Held(d)
    BY <1>1, <1>5, CustodyTypes DEF Held
  <1>7. CustodyInv'
    <2>1. \A j, k \in 1 .. Len(queue') : queue'[j] = queue'[k] => j = k
      BY <1>3, <1>4 DEF CustodyInv, Queued
    <2> QED
      BY <1>1, <1>4, <1>5, <2>1, CustodyTypes DEF CustodyInv
  <1>8. SocketInv'
    BY <1>1, <1>5, <1>6, CustodyTypes DEF SocketInv
  <1> QED
    BY <1>6, <1>7, <1>8 DEF ConnectionStep, LetsGo

\* A worker takes the oldest connection from the queue, or nothing.
LEMMA TakeMoves ==
  ASSUME ConnectionInv, NEW w \in Workers, DequeueTake(w), UNCHANGED serverVars
  PROVE  ConnectionStep
  <1> USE DEF ConnectionInv
  <1>1. /\ UNCHANGED <<apc, aconn, client, sock, ssls, rpc>>
        /\ wpc[w] = "critical" /\ wpc' = [wpc EXCEPT ![w] = "unlock"]
        /\ wdata[w] = NullData /\ called' = called
    BY CallUntouched DEF DequeueTake, ServerInv, PoolInv, DataInv, serverVars
  <1>2. \A v \in Workers : rpc'[v] # "receive" => wpc'[v] = "resolve"
    BY <1>1, CustodyTypes DEF SocketInv
  <1>3. CASE ring_buffer.stored = 0
    <2>1. wdata' = wdata /\ queue' = queue
      BY <1>1, <1>3, QueueUntouched, CustodyTypes DEF DequeueTake
    <2> QED
      BY <1>1, <1>2, <2>1, NothingMoves
  <1>4. CASE ring_buffer.stored # 0
    <2> DEFINE c == Head(queue)
    <2>1. /\ queue # <<>> /\ queue' = Tail(queue)
          /\ wdata' = [wdata EXCEPT ![w] = c]
      <3>1. RingShape(ring_buffer) /\ LiveCellsHoldElements(ring_buffer)
        BY DEF DequeueTake, ServerInv, PoolInv, OwnerInv, PoolTypeOK
      <3>2. /\ ring_buffer' = RingBuffer_retrieve(ring_buffer)
            /\ wdata' = [wdata EXCEPT ![w] = RingBuffer_peek(ring_buffer)]
        BY <1>4 DEF DequeueTake
      <3> QED
        BY <1>4, <3>1, <3>2, RetrieveShape DEF queue
    <2>2. /\ Len(queue) \in Nat \ {0} /\ Len(queue') = Len(queue) - 1
          /\ \A k \in 1 .. Len(queue') : queue'[k] = queue[k + 1]
          /\ c = queue[1] /\ c \in Elem
      BY <2>1, CustodyTypes
    <2> HIDE DEF c
    <2>3. /\ Queued(c) /\ ~Taken(c) /\ called # c /\ aconn # c
      BY <2>2 DEF Queued, CustodyInv
    <2>4. \A d \in Elem : Queued(d)' <=> Queued(d) /\ d # c
      <3>1. ASSUME NEW d \in Elem, Queued(d)'
            PROVE  Queued(d) /\ d # c
        <4>1. PICK k \in 1 .. Len(queue') : queue'[k] = d
          BY <3>1 DEF Queued
        <4>2. k + 1 \in 1 .. Len(queue) /\ queue[k + 1] = d /\ k + 1 # 1
          BY <2>2, <4>1
        <4> QED
          BY <2>2, <4>2 DEF Queued, CustodyInv
      <3>2. ASSUME NEW d \in Elem, Queued(d), d # c
            PROVE  Queued(d)'
        <4>1. PICK k \in 1 .. Len(queue) : queue[k] = d
          BY <3>2 DEF Queued
        <4>2. k - 1 \in 1 .. Len(queue') /\ queue'[k - 1] = d
          BY <2>2, <3>2, <4>1
        <4> QED
          BY <4>2 DEF Queued
      <3> QED
        BY <3>1, <3>2
    <2>5. \A d \in Elem : Taken(d)' <=> Taken(d) \/ d = c
      BY <1>1, <2>1, <2>2, CustodyTypes DEF Taken
    <2>6. \A d \in Elem : Held(d)' <=> Held(d)
      BY <1>1, <2>3, <2>4, <2>5 DEF Held
    <2>7. CustodyInv'
      <3>1. \A j, k \in 1 .. Len(queue') : queue'[j] = queue'[k] => j = k
        <4>1. SUFFICES ASSUME NEW j \in 1 .. Len(queue'), NEW k \in 1 .. Len(queue'),
                              queue'[j] = queue'[k]
                       PROVE  j = k
          OBVIOUS
        <4>2. j + 1 \in 1 .. Len(queue) /\ k + 1 \in 1 .. Len(queue)
          BY <2>2
        <4>3. queue[j + 1] = queue[k + 1]
          BY <2>2, <4>1
        <4>4. j + 1 = k + 1
          BY <4>2, <4>3 DEF CustodyInv
        <4> QED
          BY <4>4
      <3>2. \A u, v \in Workers : wdata'[u] = wdata'[v] /\ wdata'[u] # NullData => u = v
        BY <2>1, <2>3, CustodyTypes DEF CustodyInv, Taken
      <3> QED
        BY <1>1, <2>3, <2>4, <2>5, <3>1, <3>2 DEF CustodyInv
    <2>8. SocketInv'
      <3>1. \A v \in Workers : wdata'[v] \in Elem
                                 => (sock'[wdata'[v]] = NoFd <=> rpc'[v] = "free")
        <4>1. rpc[w] = "receive" /\ sock[c] # NoFd
          BY <1>1, <2>2, <2>3 DEF SocketInv, Held
        <4> QED
          BY <1>1, <2>1, <4>1, CustodyTypes DEF SocketInv
      <3> QED
        BY <1>1, <1>2, <2>4, <2>5, <2>6, <3>1 DEF SocketInv
    <2> QED
      BY <2>6, <2>7, <2>8 DEF ConnectionStep, LetsGo
  <1> QED
    BY <1>3, <1>4

\* The worker closes the socket of its connection.
LEMMA CloseMoves ==
  ASSUME ConnectionInv, NEW w \in Workers, CloseSocket(w)
  PROVE  ConnectionStep
  <1> USE DEF ConnectionInv
  <1> DEFINE c == wdata[w]
  <1>1. /\ wpc[w] = "resolve" /\ rpc[w] = "close" /\ rpc' = [rpc EXCEPT ![w] = "free"]
        /\ sock' = [sock EXCEPT ![c] = NoFd] /\ c \in Elem
        /\ UNCHANGED <<apc, aconn, client, ssls, wpc, wdata>>
    BY DEF CloseSocket, poolVars, ServerInv, PoolInv, DataInv
  <1>2. queue' = queue /\ called' = called
    BY QueueUntouched, CallUntouched DEF CloseSocket, poolVars
  <1>3. \A d : Queued(d)' = Queued(d) /\ Taken(d)' = Taken(d) /\ Held(d)' = Held(d)
    BY <1>1, <1>2 DEF Queued, Taken, Held
  <1>4. CustodyInv'
    BY <1>1, <1>2, <1>3 DEF CustodyInv
  <1>5. SocketInv'
    <2> HIDE DEF c
    <2>1. Taken(c)
      BY DEF Taken, c
    <2>2. \A d, e \in Elem : sock'[d] = sock'[e] /\ sock'[d] # NoFd => d = e
      BY <1>1, CustodyTypes DEF SocketInv
    <2>3. \A v \in Workers : wdata'[v] \in Elem
                               => (sock'[wdata'[v]] = NoFd <=> rpc'[v] = "free")
      <3>1. \A v \in Workers : wdata[v] = c => v = w
        BY <1>1, CustodyTypes DEF CustodyInv, c
      <3>2. wdata[w] = c
        BY DEF c
      <3> QED
        BY <1>1, <3>1, <3>2, CustodyTypes DEF SocketInv
    <2>4. \A v \in Workers : rpc'[v] # "receive" => wpc'[v] = "resolve"
      BY <1>1, CustodyTypes DEF SocketInv
    <2>5. \A d \in Elem : /\ sock'[d] = sock[d] \/ d = c
                          /\ sock[d] = NoFd => sock'[d] = NoFd
      BY <1>1, CustodyTypes
    <2> QED
      BY <1>1, <1>3, <2>1, <2>2, <2>3, <2>4, <2>5 DEF SocketInv
  <1> QED
    BY <1>3, <1>4, <1>5 DEF ConnectionStep, LetsGo

\* The worker frees the SSL object and lets go of its connection, which is closed.
LEMMA DoneMoves ==
  ASSUME ConnectionInv, NEW w \in Workers, DestroyConnection(w)
  PROVE  ConnectionStep
  <1> USE DEF ConnectionInv
  <1> DEFINE c == wdata[w]
  <1>1. /\ wpc[w] = "resolve" /\ rpc[w] = "free" /\ rpc' = [rpc EXCEPT ![w] = "receive"]
        /\ wpc' = [wpc EXCEPT ![w] = "check"] /\ wdata' = [wdata EXCEPT ![w] = NullData]
        /\ ssls' = ssls \ {c} /\ c \in Elem
        /\ UNCHANGED <<apc, aconn, client, sock>>
    BY DEF DestroyConnection, WorkerDone, ServerInv, PoolInv, DataInv
  <1>2. queue' = queue /\ called' = called
    BY QueueUntouched, CallUntouched DEF DestroyConnection, WorkerDone
  <1>3. wdata[w] = c /\ sock[c] = NoFd
    BY <1>1 DEF SocketInv
  <1> HIDE DEF c
  <1>4. \A v \in Workers : wdata[v] = c => v = w
    BY <1>1, <1>3, CustodyTypes DEF CustodyInv
  <1>5. \A v \in Workers : wdata'[v] = IF v = w THEN NullData ELSE wdata[v]
    BY <1>1, CustodyTypes
  <1>6. \A d \in Elem : Queued(d)' = Queued(d) /\ (Taken(d)' <=> Taken(d) /\ d # c)
    <2>1. \A d \in Elem : Taken(d)' <=> Taken(d) /\ d # c
      BY <1>3, <1>4, <1>5, CustodyTypes DEF Taken
    <2> QED
      BY <1>2, <2>1 DEF Queued
  <1>7. Taken(c) /\ aconn # c /\ called # c /\ ~Queued(c)
    BY <1>1, <1>3 DEF Taken, CustodyInv
  <1>8. \A d \in Elem : Held(d)' <=> Held(d) /\ d # c
    BY <1>1, <1>2, <1>6, <1>7 DEF Held
  <1>9. CustodyInv'
    <2>1. \A u, v \in Workers : wdata'[u] = wdata'[v] /\ wdata'[u] # NullData => u = v
      BY <1>5 DEF CustodyInv
    <2> QED
      BY <1>1, <1>2, <1>6, <2>1 DEF CustodyInv
  <1>10. SocketInv'
    <2>1. \A v \in Workers : rpc'[v] # "receive" => wpc'[v] = "resolve"
      BY <1>1, CustodyTypes DEF SocketInv
    <2>2. \A v \in Workers : wdata'[v] \in Elem
                               => (sock'[wdata'[v]] = NoFd <=> rpc'[v] = "free")
      BY <1>1, <1>5, CustodyTypes DEF SocketInv
    <2> QED
      BY <1>1, <1>6, <1>8, <2>1, <2>2 DEF SocketInv
  <1> QED
    BY <1>1, <1>3, <1>8, <1>9, <1>10 DEF ConnectionStep, LetsGo

\* The pool is destroyed with what is still queued.
LEMMA DropMoves ==
  ASSUME ConnectionInv, StopPoolStep, DestroyJoined
  PROVE  ConnectionStep
  <1> USE DEF ConnectionInv
  <1>1. /\ UNCHANGED <<apc, aconn, client, sock, ssls, rpc, wdata>>
        /\ opc = "joining" /\ opc' = "none"
        /\ \A w \in threads : wpc[w] = "exited"
        /\ ring_buffer' = RingBuffer_destroyed
    BY DEF StopPoolStep, DestroyJoined
  <1>2. called' = called
    BY CallUntouched DEF DestroyJoined
  <1>3. queue' = <<>> /\ Len(queue') = 0
    <2>1. queue' = <<>>
      BY <1>1 DEF queue, Contents, RingBuffer_destroyed
    <2> QED
      BY <2>1
  <1>4. \A d : ~Queued(d)' /\ Taken(d)' = Taken(d)
    BY <1>1, <1>3 DEF Queued, Taken
  <1>5. \A d : Held(d)' => Held(d)
    BY <1>1, <1>2, <1>4 DEF Held
  <1>6. \A w \in Workers : rpc[w] = "receive"
    <2>1. \A w \in Workers : wpc[w] # "resolve"
      BY <1>1 DEF ServerInv, PoolInv, PoolTypeOK
    <2> QED
      BY <2>1 DEF SocketInv
  <1>7. CustodyInv'
    BY <1>1, <1>2, <1>3, <1>4 DEF CustodyInv
  <1>8. SocketInv'
    BY <1>1, <1>4, <1>5, <1>6 DEF SocketInv
  <1> QED
    BY <1>1, <1>7, <1>8 DEF ConnectionStep, LetsGo

-----------------------------------------------------------------------------
\* Every step of the main thread keeps the invariant of the connections.
LEMMA MainKeepsConnections ==
  ASSUME ConnectionInv,
         Setup \/ SetupFails \/ Start \/ (\E again \in BOOLEAN : StopCall(again))
           \/ MainStops
  PROVE  ConnectionStep
  <1> USE DEF ConnectionInv
  <1>1. CASE Setup
    <2>1. opc = "none" /\ \A w \in Workers : wpc[w] = "none"
      BY <1>1 DEF Setup, InitializeThreadpool, Initialize, ServerInv, PoolInv, PoolTypeOK,
                  OwnerInv
    <2>2. wdata' = wdata
      <3>1. \A w \in Workers : wdata[w] = NullData
        BY <2>1 DEF ServerInv, PoolInv, DataInv
      <3>2. wdata' = [w \in Workers |-> NullData]
        BY <1>1 DEF Setup, InitializeThreadpool, Initialize
      <3> QED
        BY <3>1, <3>2, CustodyTypes
    <2>3. queue' = queue
      <3>1. /\ ring_buffer.stored = 0
            /\ ring_buffer' = RingBuffer_make(Cardinality(Workers))
        BY <1>1, <2>1 DEF Setup, InitializeThreadpool, Initialize, ServerInv, PoolInv,
                          PoolTypeOK, RingBuffer_destroyed
      <3>2. ring_buffer'.stored = 0
        BY <3>1 DEF RingBuffer_make
      <3> QED
        BY <3>1, <3>2 DEF queue, Contents
    <2>4. \A w \in Workers : rpc[w] = "receive"
      BY <2>1 DEF SocketInv
    <2>5. called' = called
      BY <1>1, CallUntouched DEF Setup, InitializeThreadpool, Initialize
    <2>6. UNCHANGED <<apc, aconn, client, sock, ssls, rpc>>
      BY <1>1 DEF Setup
    <2> QED
      BY <2>2, <2>3, <2>4, <2>5, <2>6, NothingMoves
  <1>2. CASE DestroyJoined /\ StopPoolStep
    BY <1>2, DropMoves
  <1>3. CASE \/ SetupFails \/ Start \/ (\E again \in BOOLEAN : StopCall(again))
             \/ StopDestroyPool \/ StopJoinAcceptor
             \/ (StopPoolStep /\ (DestroyPost \/ DestroyPosted))
    <2>1. /\ UNCHANGED <<ring_buffer, wpc, wdata, epc, edata>>
          /\ UNCHANGED <<aconn, sock, ssls, rpc>>
          /\ apc' # apc => apc' = "check"
      BY <1>3 DEF SetupFails, Start, StopCall, StopDestroyPool, StopJoinAcceptor,
                  StopPoolStep, DestroyBegin, DestroyPost, DestroyPosted, poolVars
    <2>2. apc' # "handshake" => apc # "handshake"
      BY <1>3, <2>1 DEF Start, ServerInv, LifeInv, SetupFails, StopCall, StopDestroyPool,
                        StopJoinAcceptor, StopPoolStep
    <2>3. \A c \in Elem : client'[c] \in {"away", "pending", "refused"}
                            => client[c] \in {"away", "pending", "refused"}
      <3>1. CASE \E again \in BOOLEAN : StopCall(again)
        BY <3>1, CustodyTypes DEF StopCall
      <3>2. CASE client' = client
        BY <3>2
      <3> QED
        BY <1>3, <3>1, <3>2 DEF SetupFails, Start, StopDestroyPool, StopJoinAcceptor,
                                StopPoolStep
    <2>4. \A w \in Workers : rpc[w] # "receive" => wpc[w] = "resolve"
      BY DEF SocketInv
    <2> QED
      BY <2>1, <2>2, <2>3, <2>4, QueueUntouched, CallUntouched, NothingMoves
  <1> QED
    BY <1>1, <1>2, <1>3 DEF MainStops, StopPoolStep, Destroy

\* Every step of the acceptor does.
LEMMA AcceptorKeepsConnections ==
  ASSUME ConnectionInv, Acceptor \/ Handshake \/ AcceptorEnqueues
  PROVE  ConnectionStep
  <1> USE DEF ConnectionInv
  <1>1. \A w \in Workers : rpc[w] # "receive" => wpc[w] = "resolve"
    BY DEF SocketInv
  <1>2. CASE AcceptorCheck \/ AcceptorPoll \/ AcceptFails
    <2>1. /\ UNCHANGED poolVars
          /\ UNCHANGED <<aconn, client, sock, ssls, rpc>>
          /\ apc # "handshake"
      BY <1>2 DEF AcceptorCheck, AcceptorPoll, AcceptFails
    <2> QED
      BY <1>1, <2>1, QueueUntouched, CallUntouched, NothingMoves DEF poolVars
  <1>3. CASE /\ EnqueueLock \/ EnqueuePost \/ EnqueueUnlock \/ EnqueueOnDestroyed
             /\ UNCHANGED serverVars
    <2>1. called' = called /\ UNCHANGED <<ring_buffer, wpc, wdata>>
      BY <1>3 DEF EnqueueLock, EnqueuePost, EnqueueUnlock, EnqueueOnDestroyed, called
    <2> QED
      BY <1>1, <1>3, <2>1, QueueUntouched, NothingMoves DEF serverVars
  <1> QED
    BY <1>2, <1>3, AcceptMoves, FailureMoves, SuccessMoves, AppendMoves
    DEF Acceptor, Handshake, AcceptorEnqueues, Enqueue

\* Every step of a worker does.
LEMMA WorkerKeepsConnections ==
  ASSUME ConnectionInv, NEW w \in Workers, ThreadStep(w) \/ Receive(w)
  PROVE  ConnectionStep
  <1> USE DEF ConnectionInv
  <1>1. CASE /\ WorkerCheck(w) \/ DequeueWait(w) \/ DequeueLock(w) \/ DequeueUnlock(w)
             /\ UNCHANGED serverVars
    <2>1. /\ UNCHANGED <<ring_buffer, wdata, epc, edata>> /\ wpc[w] # "resolve"
          /\ \A v \in Workers : v # w => wpc'[v] = wpc[v]
      BY <1>1, CustodyTypes DEF WorkerCheck, DequeueWait, DequeueLock, DequeueUnlock
    <2>2. \A v \in Workers : rpc[v] # "receive" => wpc'[v] = "resolve"
      BY <2>1 DEF SocketInv
    <2> QED
      BY <1>1, <2>1, <2>2, QueueUntouched, CallUntouched, NothingMoves DEF serverVars
  <1>2. CASE Receive(w) \/ Send(w)
    <2>1. /\ UNCHANGED poolVars /\ UNCHANGED <<apc, aconn, sock, ssls>>
          /\ wpc[w] = "resolve" /\ rpc[w] # "free" /\ rpc'[w] # "free"
          /\ \A v \in Workers : v # w => rpc'[v] = rpc[v]
          /\ client' = client \/ client' = [client EXCEPT ![wdata[w]] = "answered"]
      BY <1>2, CustodyTypes DEF Receive, Send
    <2>2. \A c \in Elem : client'[c] \in {"away", "pending", "refused"}
                            => client[c] \in {"away", "pending", "refused"}
      BY <2>1, CustodyTypes
    <2>3. \A v \in Workers : /\ rpc'[v] # "receive" => wpc'[v] = "resolve"
                             /\ rpc'[v] = "free" <=> rpc[v] = "free"
      BY <2>1 DEF SocketInv, poolVars
    <2> QED
      BY <2>1, <2>2, <2>3, QueueUntouched, CallUntouched, NothingMoves DEF poolVars
  <1> QED
    BY <1>1, <1>2, TakeMoves, CloseMoves, DoneMoves DEF ThreadStep, WorkerStep, Resolve

LEMMA ConnectionInvNext ==
  ASSUME ConnectionInv, [Next]_vars
  PROVE  ConnectionInv' /\ LetsGo
  <1>1. ServerInv'
    BY ServerInvNext DEF ConnectionInv
  <1>2. \A w \in Workers : rpc[w] # "receive" => wpc[w] = "resolve"
    BY DEF ConnectionInv, SocketInv
  <1>3. ASSUME NEW c \in Elem, Connect(c)
        PROVE  ConnectionStep
    <2>1. \A d \in Elem : client'[d] \in {"away", "pending", "refused"}
                            => client[d] \in {"away", "pending", "refused"}
      BY <1>3, CustodyTypes DEF Connect, ConnectionInv
    <2> QED
      BY <1>2, <1>3, <2>1, QueueUntouched, CallUntouched, NothingMoves DEF Connect, poolVars
  <1>4. ASSUME UNCHANGED vars \/ \E t \in Workers \cup {Producer} : SeesStop(t)
        PROVE  ConnectionStep
    <2>1. /\ UNCHANGED <<ring_buffer, wpc, wdata, epc, edata>>
          /\ UNCHANGED <<apc, aconn, client, sock, ssls, rpc>>
      BY <1>4 DEF SeesStop, SeeStop, vars, poolVars, serverVars
    <2> QED
      BY <1>2, <2>1, QueueUntouched, CallUntouched, NothingMoves
  <1>5. ConnectionStep
    BY <1>3, <1>4, MainKeepsConnections, AcceptorKeepsConnections, WorkerKeepsConnections
    DEF Next, Steps, Idle
  <1> QED
    BY <1>1, <1>5 DEF ConnectionInv, ConnectionStep

LEMMA ConnectionInvHolds == Spec => []ConnectionInv
  <1>1. Init => ConnectionInv
    <2>1. ASSUME Init PROVE CustodyInv /\ SocketInv
      <3>1. queue = <<>> /\ called = NullData
        BY <2>1 DEF Init, PoolInit, queue, called, Contents, RingBuffer_destroyed
      <3>2. Len(queue) = 0
        BY <3>1
      <3>3. \A c \in Elem : ~Held(c)
        BY <2>1, <3>1, <3>2, CellAssumption
        DEF Init, PoolInit, ServerInit, Held, Queued, Taken, NullData
      <3>4. CustodyInv
        BY <2>1, <3>2, <3>3 DEF Init, PoolInit, ServerInit, CustodyInv, Held
      <3>5. SocketInv
        BY <2>1, <3>3, CellAssumption
        DEF Init, PoolInit, ServerInit, SocketInv, NullData
      <3> QED
        BY <3>4, <3>5
    <2> QED
      BY <2>1, ServerInvInit DEF ConnectionInv
  <1>2. ConnectionInv /\ [Next]_vars => ConnectionInv'
    BY ConnectionInvNext
  <1> QED
    BY <1>1, <1>2, PTL DEF Spec

-----------------------------------------------------------------------------
\* The queue's places are the live slots.
LEMMA SlotsAreQueued ==
  ASSUME ServerInv, CustodyInv, NEW c \in Elem
  PROVE  LET Slots == {k \in LiveSlots(ring_buffer) : ring_buffer.data[k] = c}
         IN  /\ Slots # {} <=> Queued(c)
             /\ \A i, j \in Slots : i = j
  <1> DEFINE Slots == {k \in LiveSlots(ring_buffer) : ring_buffer.data[k] = c}
  <1>1. /\ Len(queue) = Stored /\ Stored \in Nat
        /\ \A k \in 0 .. Stored - 1 : queue[k + 1] = ring_buffer.data[Slot(ring_buffer, k)]
    <2>1. Len(queue) = Stored /\ Stored \in Nat
      BY CustodyTypes
    <2> QED
      BY <2>1 DEF queue, Contents, Stored
  <1>2. LiveSlots(ring_buffer) = {Slot(ring_buffer, k) : k \in 0 .. Stored - 1}
    BY DEF LiveSlots, Stored
  <1>3. Slots # {} => Queued(c)
    <2> SUFFICES ASSUME NEW i \in Slots PROVE Queued(c)
      OBVIOUS
    <2>1. PICK k \in 0 .. Stored - 1 : i = Slot(ring_buffer, k)
      BY <1>2
    <2>2. k + 1 \in 1 .. Len(queue) /\ queue[k + 1] = c
      BY <1>1, <2>1
    <2> QED
      BY <2>2 DEF Queued
  <1>4. Queued(c) => Slots # {}
    <2> SUFFICES ASSUME NEW n \in 1 .. Len(queue), queue[n] = c PROVE Slots # {}
      BY DEF Queued
    <2>1. n - 1 \in 0 .. Stored - 1 /\ queue[(n - 1) + 1] = c
      BY <1>1
    <2>2. Slot(ring_buffer, n - 1) \in Slots
      BY <1>1, <1>2, <2>1
    <2> QED
      BY <2>2
  <1>5. ASSUME NEW i \in Slots, NEW j \in Slots
        PROVE  i = j
    <2>1. PICK k \in 0 .. Stored - 1 : i = Slot(ring_buffer, k)
      BY <1>2
    <2>2. PICK l \in 0 .. Stored - 1 : j = Slot(ring_buffer, l)
      BY <1>2
    <2>3. /\ k + 1 \in 1 .. Len(queue) /\ l + 1 \in 1 .. Len(queue)
          /\ queue[k + 1] = queue[l + 1]
      BY <1>1, <2>1, <2>2
    <2>4. k + 1 = l + 1
      BY <2>3 DEF CustodyInv
    <2> QED
      BY <2>1, <2>2, <2>4
  <1> QED
    BY <1>3, <1>4, <1>5

\* What Holders says of a connection, in terms of its places.
LEMMA HoldersAreTheHeld ==
  ASSUME ServerInv, CustodyInv, NEW c \in Elem
  PROVE  /\ Holders(c) # {} <=> Held(c)
         /\ \A x, y \in Holders(c) : x = y
  <1> DEFINE Slots == {k \in LiveSlots(ring_buffer) : ring_buffer.data[k] = c}
             A == IF aconn = c THEN {<<"acceptor", 0>>} ELSE {}
             B == IF edata = c /\ epc \in {"lock", "append"} THEN {<<"call", 0>>} ELSE {}
             S == {<<"slot", i>> : i \in Slots}
             W == {<<"worker", w>> : w \in {v \in Workers : wdata[v] = c}}
  <1>1. Holders(c) = A \cup B \cup S \cup W
    BY DEF Holders
  <1>2. A # {} <=> aconn = c
    OBVIOUS
  <1>3. B # {} <=> called = c
    BY CustodyTypes DEF called
  <1>4. S # {} <=> Queued(c)
    <2>1. S # {} <=> Slots # {}
      OBVIOUS
    <2> QED
      BY <2>1, SlotsAreQueued
  <1>5. W # {} <=> Taken(c)
    BY DEF Taken
  <1>6. \A x, y \in A : x = y
    OBVIOUS
  <1>7. \A x, y \in B : x = y
    OBVIOUS
  <1>8. \A x, y \in S : x = y
    <2>1. \A i, j \in Slots : i = j
      BY SlotsAreQueued
    <2> QED
      BY <2>1
  <1>9. \A x, y \in W : x = y
    BY CustodyTypes DEF CustodyInv
  <1> HIDE DEF A, B, S, W
  <1>10. Holders(c) # {} <=> Held(c)
    BY <1>1, <1>2, <1>3, <1>4, <1>5 DEF Held
  <1>11. aconn = c => called # c
    BY CustodyTypes DEF CustodyInv, ServerInv, AcceptorInv
  <1> QED
    BY <1>1, <1>2, <1>3, <1>4, <1>5, <1>6, <1>7, <1>8, <1>9, <1>10, <1>11 DEF CustodyInv

-----------------------------------------------------------------------------
\* No two threads use the same connection: on its way from the acceptor through
\* enqueue_threadpool and the buffer to a worker it has one holder, whatever stop and
\* restart do in between.
THEOREM ServerOneHolder == Spec => []OneHolder
  <1>1. ASSUME ConnectionInv PROVE OneHolder
    <2> SUFFICES ASSUME NEW c \in Elem PROVE Cardinality(Holders(c)) <= 1
      BY DEF OneHolder
    <2>1. \A x, y \in Holders(c) : x = y
      BY <1>1, HoldersAreTheHeld DEF ConnectionInv
    <2>2. CASE Holders(c) = {}
      BY <2>2, FS_EmptySet
    <2>3. CASE Holders(c) # {}
      <3>1. PICK x : Holders(c) = {x}
        BY <2>1, <2>3
      <3> QED
        BY <3>1, FS_Singleton
    <2> QED
      BY <2>2, <2>3
  <1> QED
    BY <1>1, ConnectionInvHolds, PTL

\* No use after close or free: while a thread may use a connection its descriptor is
\* open and no other client's, and its SSL object is allocated.
THEOREM ServerConnectionIsOpen == Spec => []HeldConnectionIsOpen
  <1>1. ASSUME ConnectionInv PROVE HeldConnectionIsOpen
    <2> SUFFICES ASSUME NEW c \in Elem, Holders(c) # {}
                 PROVE  /\ aconn # c => c \in ssls
                        /\ (\A w \in Workers : wdata[w] = c => rpc[w] # "free") =>
                             sock[c] # NoFd /\ \A d \in Elem \ {c} : sock[d] # sock[c]
      BY DEF HeldConnectionIsOpen
    <2>1. Held(c)
      BY <1>1, HoldersAreTheHeld DEF ConnectionInv
    <2>2. aconn # c => c \in ssls
      BY <1>1, <2>1 DEF ConnectionInv, SocketInv
    <2>3. ASSUME \A w \in Workers : wdata[w] = c => rpc[w] # "free"
          PROVE  sock[c] # NoFd
      BY <1>1, <2>1, <2>3 DEF ConnectionInv, SocketInv, Taken
    <2>4. sock[c] # NoFd => \A d \in Elem \ {c} : sock[d] # sock[c]
      BY <1>1 DEF ConnectionInv, SocketInv
    <2> QED
      BY <2>2, <2>3, <2>4
  <1> QED
    BY <1>1, ConnectionInvHolds, PTL

\* A connection that is still open is let go only when its handshake failed, or when the
\* pool is destroyed with the connection queued.
THEOREM ServerDropsNoConnection == Spec => NoOtherConnectionIsDropped
  <1> DEFINE A == \A c \in Elem : Dropped(c) =>
                    \/ client'[c] = "failed"
                    \/ opc = "joining" /\ opc' = "none"
  <1>1. ConnectionInv /\ ConnectionInv' /\ [Next]_vars => [A]_vars
    <2> SUFFICES ASSUME ConnectionInv, ConnectionInv', [Next]_vars,
                        NEW c \in Elem, Dropped(c)
                 PROVE  \/ client'[c] = "failed"
                        \/ opc = "joining" /\ opc' = "none"
      OBVIOUS
    <2>1. Holders(c) # {} <=> Held(c)
      BY HoldersAreTheHeld DEF ConnectionInv
    <2>2. (Holders(c) # {} <=> Held(c))'
      BY HoldersAreTheHeld, PTL DEF ConnectionInv
    <2>3. LetsGo
      BY ConnectionInvNext
    <2> QED
      BY <2>1, <2>2, <2>3 DEF Dropped, LetsGo
  <1> QED
    BY <1>1, ConnectionInvHolds, PTL DEF Spec, NoOtherConnectionIsDropped
=============================================================================
