------------------------------- MODULE XzPool -------------------------------
(***************************************************************************)
(* The worker pool of src/src/xz/pool.rs, which the parallel reader and    *)
(* the adaptive decoder share: a channel of jobs, a channel of answers and *)
(* threads that are started on demand.  A job is the number of a block;    *)
(* what its decoding comes to is a function of its bytes (DecodeBlock of   *)
(* XzBlock) that nobody sees before the answer is taken.                   *)
(***************************************************************************)
EXTENDS Integers, Sequences, FiniteSets

VARIABLES
    jobs,       \* the channel of jobs
    doneq,      \* the channel of answers
    busy,       \* the jobs that workers have in hand
    live,       \* threads that were started and have not ended
    open        \* FALSE once the sending side of the jobs is gone

workVars == <<jobs, doneq, busy, live, open>>

PoolInit ==
    /\ jobs = <<>>
    /\ doneq = <<>>
    /\ busy = {}
    /\ live = 0
    /\ open = TRUE

InFlight == Len(jobs) + Cardinality(busy) + Len(doneq)

(* dispatch, after `grow` while fewer than `threads` run: a thread that    *)
(* will not start is not an error.                                         *)
Dispatch(i, threads, starved) ==
    /\ jobs' = Append(jobs, i)
    /\ live' \in IF live < threads
                   THEN {live + 1} \cup (IF starved THEN {live} ELSE {})
                   ELSE {live}
    /\ UNCHANGED <<busy, open>>

(* Mutation of NoneAlive: jobs that nobody will take are waited for. *)
NoneAliveNorWork == live = 0 /\ jobs = <<>>

(* What `collect` looks at each time its wait runs out: every handle is    *)
(* finished.                                                               *)
NoneAlive == live = 0

Shutdown ==
    /\ open' = FALSE
    /\ UNCHANGED <<jobs, doneq, busy, live>>

-----------------------------------------------------------------------------
WorkerTakes ==
    /\ jobs # <<>>
    /\ Cardinality(busy) < live
    /\ jobs' = Tail(jobs)
    /\ busy' = busy \cup {Head(jobs)}
    /\ UNCHANGED <<doneq, live, open>>

WorkerAnswers ==
    \E i \in busy :
        /\ busy' = busy \ {i}
        /\ doneq' = Append(doneq, i)
        /\ UNCHANGED <<jobs, live, open>>

(* A worker ends when the sending side is gone and every job was taken.    *)
WorkerEnds ==
    /\ ~open
    /\ jobs = <<>>
    /\ Cardinality(busy) < live
    /\ live' = live - 1
    /\ UNCHANGED <<jobs, doneq, busy, open>>

WorkerStep == WorkerTakes \/ WorkerAnswers \/ WorkerEnds

WorkerReady ==
    \/ busy # {}
    \/ Cardinality(busy) < live /\ (jobs # <<>> \/ ~open)

=============================================================================
