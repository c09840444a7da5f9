------------------------------ MODULE WorkQueue ------------------------------
(***************************************************************************)
(* What a thread pool promises the code that enqueues jobs: every job goes *)
(* to one worker, in the order of the enqueues, and a worker holds one job *)
(* at a time; only destroying the pool drops what was not taken.           *)
(***************************************************************************)
EXTENDS Sequences

CONSTANTS Job, NoJob, Worker

VARIABLES queue, \* the jobs nobody took yet
          hand   \* the job each worker holds, NoJob when it holds none

Init == queue = <<>> /\ hand = [w \in Worker |-> NoJob]

Submit(j) == queue' = Append(queue, j) /\ UNCHANGED hand

Take(w) == /\ queue # <<>> /\ hand[w] = NoJob
           /\ hand' = [hand EXCEPT ![w] = Head(queue)]
           /\ queue' = Tail(queue)

Finish(w) == /\ hand[w] # NoJob
             /\ hand' = [hand EXCEPT ![w] = NoJob]
             /\ UNCHANGED queue

Discard == queue' = <<>> /\ UNCHANGED hand

Next == \/ \E j \in Job : Submit(j)
        \/ \E w \in Worker : Take(w) \/ Finish(w)
        \/ Discard

Spec == Init /\ [][Next]_<<queue, hand>>
=============================================================================
