--------------------------- MODULE MC_WorkerPool ---------------------------
(***************************************************************************)
(* Instances of WorkerPool for TLC: the caller programs the runs use.      *)
(***************************************************************************)
EXTENDS WorkerPool

CONSTANTS j1, j2, j3, j4, main, other

Submit(j) == [op |-> "submit", job |-> j]
Start == [op |-> "start"]
Stop == [op |-> "stop"]

\* main() of worker_pool.c, scaled down: two jobs queued before the workers
\* exist, the pool started, two more jobs, then worker_pool_stop.
MainPrograms == [c \in {main} |->
    <<Submit(j1), Submit(j2), Start, Submit(j3), Submit(j4), Stop>>]

\* The same calls without worker_pool_stop: the application keeps running.
NoStopPrograms == [c \in {main} |->
    <<Submit(j1), Submit(j2), Start, Submit(j3), Submit(j4)>>]

\* Two queued jobs, then a submit once a worker is ready: the fast path can
\* take the worker the dispatcher thread is about to hand a queued job to.
FifoPrograms == [c \in {main} |->
    <<Submit(j1), Submit(j2), Start, Submit(j3)>>]

\* A second caller submits concurrently with main's start and stop.
LatePrograms == [c \in {main, other} |->
    IF c = main THEN <<Start, Stop>> ELSE <<Submit(j1)>>]

\* Two jobs submitted to a running pool, then worker_pool_stop.
StopPrograms == [c \in {main} |-> <<Start, Submit(j1), Submit(j2), Stop>>]
=============================================================================
