------------------------------- MODULE JobPool -------------------------------
(***************************************************************************)
(* What the worker pool promises its callers (spec.md sections 3 to 5),    *)
(* with no locks, queues of channels or threads.  A job's lifetime is      *)
(* submission, then queued for a while, then assignment to an idle worker, *)
(* execution, and done.  stop discards the queued jobs; an assigned job    *)
(* runs to completion; a submit after stop is rejected.  WorkerPool is     *)
(* checked to implement this module.                                       *)
(***************************************************************************)
CONSTANTS Jobs, Workers, None

VARIABLES
    queue,      \* jobs accepted and not yet assigned
    matching,   \* jobs the matching loop has popped, not yet assigned
    slot,       \* slot[w]: the job assigned to worker w, not yet started
    running,    \* running[w]: the job worker w executes
    done,       \* jobs executed
    discarded,  \* jobs dropped by stop
    stopping

vars == <<queue, matching, slot, running, done, discarded, stopping>>

Idle(w) == slot[w] = None /\ running[w] = None

Known == queue \cup matching \cup done \cup discarded
         \cup {slot[w] : w \in Workers} \cup {running[w] : w \in Workers}

TypeOK ==
    /\ queue \subseteq Jobs /\ matching \subseteq Jobs /\ done \subseteq Jobs /\ discarded \subseteq Jobs
    /\ slot \in [Workers -> Jobs \cup {None}]
    /\ running \in [Workers -> Jobs \cup {None}]
    /\ stopping \in BOOLEAN

Init ==
    /\ queue = {} /\ matching = {} /\ done = {} /\ discarded = {}
    /\ slot = [w \in Workers |-> None] /\ running = [w \in Workers |-> None]
    /\ stopping = FALSE

\* submit: rejected once stopping; otherwise handed to an idle worker at
\* once, or queued.
Submit(j) ==
    /\ ~stopping /\ j \notin Known
    /\ \/ queue' = queue \cup {j} /\ UNCHANGED slot
       \/ \E w \in Workers : Idle(w) /\ slot' = [slot EXCEPT ![w] = j]
                             /\ UNCHANGED queue
    /\ UNCHANGED <<matching, running, done, discarded, stopping>>

\* The matching loop (section 4.3), while not stopping, pops a queued job;
\* it releases the lock before the job is assigned, so stop does not
\* discard it.
Take(j) ==
    /\ ~stopping /\ j \in queue
    /\ queue' = queue \ {j}
    /\ matching' = matching \cup {j}
    /\ UNCHANGED <<slot, running, done, discarded, stopping>>

\* The popped job is assigned to an idle worker's slot.
Give(j, w) ==
    /\ j \in matching /\ Idle(w)
    /\ matching' = matching \ {j}
    /\ slot' = [slot EXCEPT ![w] = j]
    /\ UNCHANGED <<queue, running, done, discarded, stopping>>

\* No worker is idle any more: the popped job goes back to the queue.
Requeue(j) ==
    /\ j \in matching
    /\ matching' = matching \ {j}
    /\ queue' = queue \cup {j}
    /\ UNCHANGED <<slot, running, done, discarded, stopping>>

\* The worker takes the job from its slot and executes it.
Begin(w) ==
    /\ slot[w] # None
    /\ running' = [running EXCEPT ![w] = slot[w]]
    /\ slot' = [slot EXCEPT ![w] = None]
    /\ UNCHANGED <<queue, matching, done, discarded, stopping>>

End(w) ==
    /\ running[w] # None
    /\ done' = done \cup {running[w]}
    /\ running' = [running EXCEPT ![w] = None]
    /\ UNCHANGED <<queue, matching, slot, discarded, stopping>>

\* stop: set stopping and discard every queued job.
Stop ==
    /\ ~stopping
    /\ stopping' = TRUE
    /\ discarded' = discarded \cup queue
    /\ queue' = {}
    /\ UNCHANGED <<matching, slot, running, done>>

Next ==
    \/ \E j \in Jobs : Submit(j)
    \/ \E j \in Jobs : Take(j) \/ Requeue(j)
    \/ \E j \in Jobs, w \in Workers : Give(j, w)
    \/ \E w \in Workers : Begin(w) \/ End(w)
    \/ Stop

Spec == Init /\ [][Next]_vars
=============================================================================
