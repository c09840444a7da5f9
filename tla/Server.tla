------------------------------- MODULE Server -------------------------------
(***************************************************************************)
(* The server of src/server.c: setup, start, stop and restart called by    *)
(* the main thread, the acceptor thread (accept_requests), and the workers *)
(* of the thread pool in resolve_request.  A job of the pool is a          *)
(* connection, named by its client; each client connects once.             *)
(*                                                                         *)
(* External: the kernel's sockets and the wrappers TCP_* and SSL_*, which  *)
(* are not in the repository.  They are modelled from their use: accept    *)
(* needs a pending client and a free descriptor, terminating the listening *)
(* socket refuses the pending clients and wakes poll.                      *)
(***************************************************************************)
EXTENDS ThreadPool

CONSTANTS Fds,               \* the descriptors the process may use for clients
          NoFd,
          HandshakeMayFail,  \* whether SSL_create_connection or SSL_accept_client may
          SetupMayFail,      \* whether setup may exit(1)
          Silent,            \* the clients that shake hands and never send nor close
          MaxStops           \* bound: calls of stop and restart; the last life runs on

ASSUME ServerAssumption == /\ NoFd \notin Fds /\ IsFiniteSet(Fds)
                           /\ HandshakeMayFail \in BOOLEAN
                           /\ SetupMayFail \in BOOLEAN
                           /\ Silent \subseteq Elem
                           /\ MaxStops \in Nat

VARIABLES
  mpc,        \* where the main thread is
  restarting, \* the call of stop comes from restart
  stops,      \* calls of stop so far
  listening,  \* server_socket is open
  apc, aconn, \* where the acceptor is, and the client it accepted
  client,     \* what has become of each client
  sock,       \* the descriptor of its connection, NoFd when closed
  ssls,       \* the clients whose SSL object is allocated
  rpc         \* where each worker is in resolve_request

serverVars == <<mpc, restarting, stops, listening, apc, aconn, client, sock, ssls, rpc>>

vars == <<poolVars, serverVars>>

ServerInit ==
  /\ mpc = "off" /\ restarting = FALSE /\ stops = 0 /\ listening = FALSE
  /\ apc = "none" /\ aconn = NullData
  /\ client = [c \in Elem |-> "away"] /\ sock = [c \in Elem |-> NoFd] /\ ssls = {}
  /\ rpc = [w \in Workers |-> "receive"]

Init == PoolInit /\ ServerInit

FreeFds == Fds \ {sock[c] : c \in Elem}

-----------------------------------------------------------------------------
(* The clients and the listening socket.                                   *)

Connect(c) ==
  /\ listening /\ client[c] = "away"
  /\ client' = [client EXCEPT ![c] = "pending"]
  /\ UNCHANGED <<mpc, restarting, stops, listening, apc, aconn, sock, ssls, rpc>>
  /\ UNCHANGED poolVars

-----------------------------------------------------------------------------
(* The main thread.                                                        *)

Setup ==
  /\ mpc = "off"
  /\ InitializeThreadpool
  /\ listening' = TRUE
  /\ mpc' = "ready"
  /\ UNCHANGED <<restarting, stops, apc, aconn, client, sock, ssls, rpc>>

\* exit(1): nothing of the process is left.
SetupFails ==
  /\ SetupMayFail /\ mpc = "off"
  /\ mpc' = "exit"
  /\ UNCHANGED <<restarting, stops, listening, apc, aconn, client, sock, ssls, rpc>>
  /\ UNCHANGED poolVars

Start ==
  /\ mpc = "ready"
  /\ stop' = FALSE
  /\ apc' = "check"
  /\ mpc' = "serving" /\ restarting' = FALSE
  /\ UNCHANGED <<stops, listening, aconn, client, sock, ssls, rpc>>
  /\ UNCHANGED <<ring_buffer, sempahore, mutex, threads, stop_seen, wpc, wdata,
                 epc, edata, opc, posts, crashed>>

\* stop and restart begin with TCP_terminate.
StopCall(again) ==
  /\ mpc = "serving" /\ stops < MaxStops
  /\ stops' = stops + 1 /\ restarting' = again
  /\ listening' = FALSE
  /\ client' = [c \in Elem |-> IF client[c] = "pending" THEN "refused" ELSE client[c]]
  /\ mpc' = "terminated"
  /\ UNCHANGED <<apc, aconn, sock, ssls, rpc>>
  /\ UNCHANGED poolVars

StopDestroyPool ==
  /\ mpc = "terminated"
  /\ DestroyBegin
  /\ mpc' = "destroying"
  /\ UNCHANGED <<restarting, stops, listening, apc, aconn, client, sock, ssls, rpc>>

StopPoolStep ==
  /\ mpc = "destroying"
  /\ Destroy
  /\ mpc' = IF opc' = "none" THEN "joining" ELSE "destroying"
  /\ UNCHANGED <<restarting, stops, listening, apc, aconn, client, sock, ssls, rpc>>

\* pthread_join of the acceptor, then the SSL context is destroyed.
StopJoinAcceptor_Skipped ==
  /\ mpc = "joining"
  /\ mpc' = "off"
  /\ UNCHANGED <<restarting, stops, listening, apc, aconn, client, sock, ssls, rpc>>
  /\ UNCHANGED poolVars

StopJoinAcceptor ==
  /\ mpc = "joining" /\ apc = "exited"
  /\ mpc' = "off"
  /\ UNCHANGED <<restarting, stops, listening, apc, aconn, client, sock, ssls, rpc>>
  /\ UNCHANGED poolVars

-----------------------------------------------------------------------------
(* The acceptor.  While it is inside enqueue_threadpool, epc is not "idle". *)

AcceptorCheck ==
  /\ apc = "check" /\ epc = "idle"
  /\ apc' = IF Producer \in stop_seen THEN "exited" ELSE "poll"
  /\ UNCHANGED <<mpc, restarting, stops, listening, aconn, client, sock, ssls, rpc>>
  /\ UNCHANGED poolVars

\* poll with no timeout returns for a pending client or a terminated socket.
AcceptorPoll ==
  /\ apc = "poll" /\ (~listening \/ \E c \in Elem : client[c] = "pending")
  /\ apc' = "accept"
  /\ UNCHANGED <<mpc, restarting, stops, listening, aconn, client, sock, ssls, rpc>>
  /\ UNCHANGED poolVars

AcceptClient(c, fd) ==
  /\ apc = "accept" /\ client[c] = "pending" /\ fd \in FreeFds
  /\ client' = [client EXCEPT ![c] = "accepted"]
  /\ sock' = [sock EXCEPT ![c] = fd]
  /\ aconn' = c /\ apc' = "handshake"
  /\ UNCHANGED <<mpc, restarting, stops, listening, ssls, rpc>>
  /\ UNCHANGED poolVars

\* -1: the socket was terminated, or there is no descriptor left.
AcceptFails_NoCheck ==
  /\ apc = "accept" /\ (~listening \/ FreeFds = {})
  /\ apc' = "poll"
  /\ UNCHANGED <<mpc, restarting, stops, listening, aconn, client, sock, ssls, rpc>>
  /\ UNCHANGED poolVars

AcceptFails ==
  /\ apc = "accept" /\ (~listening \/ FreeFds = {})
  /\ apc' = "check"
  /\ UNCHANGED <<mpc, restarting, stops, listening, aconn, client, sock, ssls, rpc>>
  /\ UNCHANGED poolVars

\* SSL_create_connection gave a null pointer: the socket is left as it is.
CreateFails ==
  /\ HandshakeMayFail /\ apc = "handshake"
  /\ client' = [client EXCEPT ![aconn] = "failed"]
  /\ aconn' = NullData /\ apc' = "check"
  /\ UNCHANGED <<mpc, restarting, stops, listening, sock, ssls, rpc>>
  /\ UNCHANGED poolVars

\* SSL_accept_client gave -1: so are the socket and the SSL object.
HandshakeFails ==
  /\ HandshakeMayFail /\ apc = "handshake"
  /\ client' = [client EXCEPT ![aconn] = "failed"]
  /\ ssls' = ssls \cup {aconn}
  /\ aconn' = NullData /\ apc' = "check"
  /\ UNCHANGED <<mpc, restarting, stops, listening, sock, rpc>>
  /\ UNCHANGED poolVars

HandshakeSucceeds_Closes ==
  /\ apc = "handshake"
  /\ ssls' = ssls \cup {aconn}
  /\ EnqueueCall(aconn)
  /\ sock' = [sock EXCEPT ![aconn] = NoFd]
  /\ aconn' = NullData /\ apc' = "check"
  /\ UNCHANGED <<mpc, restarting, stops, listening, client, rpc>>

HandshakeSucceeds ==
  /\ apc = "handshake"
  /\ ssls' = ssls \cup {aconn}
  /\ EnqueueCall(aconn)
  /\ aconn' = NullData /\ apc' = "check"
  /\ UNCHANGED <<mpc, restarting, stops, listening, client, sock, rpc>>

\* SSL_accept_client waits for the client.
Handshake == CreateFails \/ HandshakeFails \/ HandshakeSucceeds

Acceptor == \/ AcceptorCheck \/ AcceptorPoll \/ AcceptFails
            \/ \E c \in Elem, fd \in Fds : AcceptClient(c, fd)

AcceptorEnqueues == /\ Enqueue \/ EnqueueOnDestroyed
                    /\ UNCHANGED serverVars

-----------------------------------------------------------------------------
(* resolve_request, for the connection wdata[w].                           *)

\* SSL_receive_record waits for a record or the end of the stream.
Receive(w) ==
  /\ wpc[w] = "resolve" /\ rpc[w] = "receive" /\ wdata[w] \notin Silent
  /\ \E bytes_received \in {0, 1} :
       rpc' = [rpc EXCEPT ![w] = IF bytes_received > 0 THEN "send" ELSE "close"]
  /\ UNCHANGED <<mpc, restarting, stops, listening, apc, aconn, client, sock, ssls>>
  /\ UNCHANGED poolVars

\* SSL_send_record of the composed response.
Send(w) ==
  /\ wpc[w] = "resolve" /\ rpc[w] = "send"
  /\ rpc' = [rpc EXCEPT ![w] = "close"]
  /\ client' = [client EXCEPT ![wdata[w]] = "answered"]
  /\ UNCHANGED <<mpc, restarting, stops, listening, apc, aconn, sock, ssls>>
  /\ UNCHANGED poolVars

\* TCP_shutdown_socket and TCP_close_socket.
CloseSocket_Forgotten(w) ==
  /\ wpc[w] = "resolve" /\ rpc[w] = "close"
  /\ rpc' = [rpc EXCEPT ![w] = "free"]
  /\ UNCHANGED <<mpc, restarting, stops, listening, apc, aconn, client, sock, ssls>>
  /\ UNCHANGED poolVars

CloseSocket(w) ==
  /\ wpc[w] = "resolve" /\ rpc[w] = "close"
  /\ rpc' = [rpc EXCEPT ![w] = "free"]
  /\ sock' = [sock EXCEPT ![wdata[w]] = NoFd]
  /\ UNCHANGED <<mpc, restarting, stops, listening, apc, aconn, client, ssls>>
  /\ UNCHANGED poolVars

\* SSL_destroy_connection, and back to the loop.
DestroyConnection(w) ==
  /\ rpc[w] = "free"
  /\ WorkerDone(w)
  /\ ssls' = ssls \ {wdata[w]}
  /\ rpc' = [rpc EXCEPT ![w] = "receive"]
  /\ UNCHANGED <<mpc, restarting, stops, listening, apc, aconn, client, sock>>

Resolve(w) == Send(w) \/ CloseSocket(w) \/ DestroyConnection(w)

-----------------------------------------------------------------------------
Running == ~crashed /\ mpc # "exit"

MainStops == StopDestroyPool \/ StopPoolStep \/ StopJoinAcceptor

ThreadStep(w) == \/ WorkerStep(w) /\ UNCHANGED serverVars
                 \/ Resolve(w)

SeesStop(t) == SeeStop(t) /\ UNCHANGED serverVars

Steps ==
  \/ \E c \in Elem : Connect(c)
  \/ Setup \/ SetupFails \/ Start \/ \E again \in BOOLEAN : StopCall(again)
  \/ MainStops
  \/ Acceptor \/ Handshake \/ AcceptorEnqueues
  \/ \E w \in Workers : ThreadStep(w) \/ Receive(w)
  \/ \E t \in Workers \cup {Producer} : SeesStop(t)

\* The process is gone, or every thread waits, some for a silent client, and nothing is
\* there to wake one (a pool none of whose threads could be started leaves its jobs where
\* they are).
Quiescent ==
  \/ ~Running
  \/ /\ mpc = "serving" /\ apc = "poll" /\ \A c \in Elem : client[c] # "pending"
     /\ epc = "idle"
     /\ \A w \in threads : \/ wpc[w] = "wait" /\ sempahore = 0
                           \/ wpc[w] = "resolve" /\ rpc[w] = "receive" /\ wdata[w] \in Silent

Idle == Quiescent /\ UNCHANGED vars

Next == (Running /\ Steps) \/ Idle

Spec == Init /\ [][Next]_vars

(***************************************************************************)
(* Every thread that can run does; a store reaches the other threads; a    *)
(* client that was accepted ends its handshake and, unless it is silent,   *)
(* sends a request or closes; restart goes on to setup and start.  Nothing *)
(* obliges a client to connect, or the application to call setup, start,   *)
(* stop or restart.                                                        *)
(***************************************************************************)
FairSpec ==
  /\ Spec
  /\ WF_vars(Running /\ MainStops)
  /\ WF_vars(Running /\ restarting /\ (Setup \/ Start))
  /\ WF_vars(Running /\ Acceptor)
  /\ WF_vars(Running /\ Handshake)
  /\ WF_vars(Running /\ AcceptorEnqueues)
  /\ \A w \in Workers : /\ WF_vars(Running /\ ThreadStep(w))
                        /\ WF_vars(Running /\ Receive(w))
  /\ \A t \in Workers \cup {Producer} : WF_vars(Running /\ SeesStop(t))

-----------------------------------------------------------------------------
\* Type invariant: the server's own state, and the pool's.
ServerTypeOK ==
  /\ mpc \in {"off", "ready", "serving", "terminated", "destroying", "joining", "exit"}
  /\ restarting \in BOOLEAN /\ stops \in 0 .. MaxStops /\ listening \in BOOLEAN
  /\ apc \in {"none", "check", "poll", "accept", "handshake", "exited"}
  /\ aconn \in Elem \cup {NullData}
  /\ client \in [Elem -> {"away", "pending", "refused", "accepted", "failed", "answered"}]
  /\ sock \in [Elem -> Fds \cup {NoFd}] /\ ssls \subseteq Elem
  /\ rpc \in [Workers -> {"receive", "send", "close", "free"}]

TypeOK == PoolTypeOK /\ ServerTypeOK

\* Who may still use a connection: the acceptor, its call of enqueue_threadpool until
\* the append, a slot of the buffer, a worker.
Holders(c) ==
  (IF aconn = c THEN {<<"acceptor", 0>>} ELSE {})
    \cup (IF edata = c /\ epc \in {"lock", "append"} THEN {<<"call", 0>>} ELSE {})
    \cup {<<"slot", i>> : i \in {k \in LiveSlots(ring_buffer) : ring_buffer.data[k] = c}}
    \cup {<<"worker", w>> : w \in {v \in Workers : wdata[v] = c}}

\* A connection has one holder at a time on its way from the acceptor through the
\* buffer to a worker: no two threads use the same socket or SSL object.
OneHolder == \A c \in Elem : Cardinality(Holders(c)) <= 1

\* Until its worker closes it, a held connection has its own open descriptor, and from
\* the handshake until the worker frees it an SSL object: no use after close or free.
HeldConnectionIsOpen ==
  \A c \in Elem : Holders(c) # {} =>
    /\ aconn # c => c \in ssls
    /\ (\A w \in Workers : wdata[w] = c => rpc[w] # "free") =>
         sock[c] # NoFd /\ \A d \in Elem \ {c} : sock[d] # sock[c]

\* A connection is let go with its socket still open only when its handshake failed
\* or when the pool is destroyed with the connection still queued.
Dropped(c) == Holders(c) # {} /\ Holders(c)' = {} /\ sock'[c] # NoFd

NoOtherConnectionIsDropped ==
  [][\A c \in Elem : Dropped(c) =>
       \/ client'[c] = "failed"
       \/ opc = "joining" /\ opc' = "none"]_vars

\* When stop has returned, neither a worker nor the acceptor runs, and no call of
\* enqueue_threadpool is left, so that the next setup starts from nothing.
StopLeavesNothingRunning ==
  Running /\ mpc = "off" =>
    threads = {} /\ opc = "none" /\ apc \in {"none", "exited"} /\ epc = "idle"

\* stop returns (or the process is killed on the way), and a restart serves again.
StopReturns ==
  /\ mpc = "terminated" ~> mpc = "off" \/ ~Running
  /\ mpc = "terminated" /\ restarting ~> mpc = "serving" \/ ~Running

\* A client is done with: answered, refused, failed to shake hands, or closed.
Settled(c) == \/ client[c] \in {"answered", "refused", "failed"}
              \/ client[c] = "accepted" /\ sock[c] = NoFd

\* "wait for clients to make a connection, give the client socket to a thread for its
\* resolution": until stop is called, and with more threads than silent clients occupy,
\* no other waiting client is forgotten, though there are more clients than descriptors
\* and an acceptor that has none left spins.  (What stop leaves open is missing after a
\* restart.)
Waits(c) == /\ mpc = "serving" /\ stops = 0 /\ client[c] = "pending"
            /\ Cardinality(threads) > Cardinality(Silent)

ClientsAreServed == \A c \in Elem \ Silent : Waits(c) ~> Settled(c) \/ stops > 0

-----------------------------------------------------------------------------
\* "stop the server and its threads": stopping does not kill the process.
StopDoesNotCrash == ~crashed

\* "freeing the leftover data (if any)": destroying the pool closes the connections
\* that are still queued.
LeftoverIsFreed ==
  [][opc = "joining" /\ opc' = "none" => \A c \in Elem : ~Dropped(c)]_vars
=============================================================================
