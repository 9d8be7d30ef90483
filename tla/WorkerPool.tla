----------------------------- MODULE WorkerPool -----------------------------
(***************************************************************************)
(* The worker-pool job dispatcher of src/worker_pool.c.                    *)
(*                                                                         *)
(* Threads: NumWorkers worker threads (worker_thread_start), one           *)
(* dispatcher thread (dispatch_thread_start) and the caller threads that   *)
(* run a program of dispatch_job / worker_pool_start / worker_pool_stop    *)
(* calls (main() is one such program).                                     *)
(*                                                                         *)
(* Every critical section of d->lock or of a channel lock is one atomic    *)
(* action: no thread blocks while it holds either lock, except a worker    *)
(* that holds its own channel lock while it takes d->lock, and nobody      *)
(* holds d->lock while taking a channel lock.  The unlocked write of       *)
(* channel->job in dispatch_job is a step of its own.                      *)
(*                                                                         *)
(* pthread_cond_signal is a flag on the waiter (wsignal, dsignal) that is  *)
(* lost when nobody waits; a spurious wakeup, which POSIX allows, is       *)
(* enabled by the constant SpuriousWakeups.                                *)
(***************************************************************************)
EXTENDS Naturals, Sequences, FiniteSets, SequencesExt

CONSTANTS
    NumWorkers,       \* d->num_workers; worker_num runs over 1..NumWorkers
    Jobs,             \* job pointers (model values)
    Callers,          \* caller threads
    Programs,         \* Programs[c]: the calls caller c makes, in order
    Dispatcher,       \* the dispatcher thread (model value)
    None,             \* NULL
    SpuriousWakeups   \* may pthread_cond_wait return without a signal?

Workers == 1..NumWorkers
Threads == Callers \cup {Dispatcher}   \* threads that run dispatch_job

Ops == [op : {"submit"}, job : Jobs] \cup [op : {"start", "stop"}]

\* The positions of the calls of every program, and the job of a submit.
Calls == UNION {{<<c, i>> : i \in DOMAIN Programs[c]} : c \in Callers}
JobOf(ci) == Programs[ci[1]][ci[2]].job
Submits == {ci \in Calls : Programs[ci[1]][ci[2]].op = "submit"}
OpAt(c, op) == {i \in DOMAIN Programs[c] : Programs[c][i].op = op}

ASSUME ProgramsOK ==
    /\ NumWorkers \in Nat \ {0}
    /\ Dispatcher \notin Callers
    /\ SpuriousWakeups \in BOOLEAN
    /\ Programs \in [Callers -> Seq(Ops)]
    \* every job pointer is submitted at most once
    /\ \A x, y \in Submits : JobOf(x) = JobOf(y) => x = y
    \* worker_pool_start is called once, and worker_pool_stop (which reads
    \* d->workers) at most once and only after it, by the same caller
    /\ Cardinality({ci \in Calls : Programs[ci[1]][ci[2]].op = "start"}) = 1
    /\ \A c \in Callers : \A s \in OpAt(c, "stop") :
          \E b \in OpAt(c, "start") : b < s
    /\ Cardinality({ci \in Calls : Programs[ci[1]][ci[2]].op = "stop"}) <= 1

VARIABLES
    \* dispatcher_t, guarded by d->lock
    ready_channel_root,         \* Seq(Workers): channels of ready workers
    job_root,                   \* Seq(Jobs): the pending job queue
    job_pending_cnt,
    stop,                       \* d->stop
    dispatcher_thread_waiting,
    dsignal,                    \* d->cond signalled, waiter not yet woken
    \* worker_t and its worker_channel_t
    wpc,                        \* worker thread: where it is in its loop
    worker_stop,                \* worker->stop
    channel_job,                \* worker->channel.job
    wsignal,                    \* channel.cond signalled, not yet woken
    \* threads running dispatch_job, dispatch_all_pending_jobs, main
    pc,                         \* [Threads -> pc]
    ip,                         \* [Callers -> index of the current call]
    job,                        \* [Threads -> the job argument of dispatch_job]
    top,                        \* [Threads -> worker_channel_top]
    widx,                       \* [Callers -> i of worker_pool_stop's loop]
    \* history, for the properties only
    executed,                   \* Seq(<<worker, job>>): "got the job"
    inbox,                      \* [Workers -> jobs written to the channel,
                                \*   not yet read by the worker]
    queued,                     \* Seq(Jobs): jobs queued by a caller's submit
    handed,                     \* Seq(Jobs): jobs handed out by the dispatcher
    discarded,                  \* jobs drained by worker_pool_stop
    late                        \* jobs submitted after d->stop was set

dvars == <<ready_channel_root, job_root, job_pending_cnt, stop,
           dispatcher_thread_waiting, dsignal>>
wvars == <<wpc, worker_stop, channel_job, wsignal>>
tvars == <<pc, ip, job, top, widx>>
hvars == <<executed, inbox, queued, handed, discarded, late>>
vars == <<dvars, wvars, tvars, hvars>>

ThreadPcs == {"next", "top", "wait", "dapj", "dj", "assign", "signal",
              "stop_signal", "stop_join", "exit"}

TypeOK ==
    /\ ready_channel_root \in Seq(Workers)
    /\ job_root \in Seq(Jobs)
    /\ job_pending_cnt \in Nat
    /\ stop \in BOOLEAN
    /\ dispatcher_thread_waiting \in BOOLEAN
    /\ dsignal \in BOOLEAN
    /\ wpc \in [Workers -> {"unborn", "loop", "wait", "run", "done"}]
    /\ worker_stop \in [Workers -> BOOLEAN]
    /\ channel_job \in [Workers -> Jobs \cup {None}]
    /\ wsignal \in [Workers -> BOOLEAN]
    /\ pc \in [Threads -> ThreadPcs]
    /\ ip \in [Callers -> Nat \ {0}]
    /\ job \in [Threads -> Jobs \cup {None}]
    /\ top \in [Threads -> Workers \cup {None}]
    /\ widx \in [Callers -> Workers]
    /\ executed \in Seq(Workers \X (Jobs \cup {None}))
    /\ inbox \in [Workers -> SUBSET Jobs]
    /\ queued \in Seq(Jobs)
    /\ handed \in Seq(Jobs)
    /\ discarded \in SUBSET Jobs
    /\ late \in SUBSET Jobs

\* new_dispatcher: the dispatcher struct zeroed, its thread started; the
\* workers are not created until worker_pool_start.
Init ==
    /\ ready_channel_root = <<>>
    /\ job_root = <<>>
    /\ job_pending_cnt = 0
    /\ stop = FALSE
    /\ dispatcher_thread_waiting = FALSE
    /\ dsignal = FALSE
    /\ wpc = [w \in Workers |-> "unborn"]
    /\ worker_stop = [w \in Workers |-> FALSE]
    /\ channel_job = [w \in Workers |-> None]
    /\ wsignal = [w \in Workers |-> FALSE]
    /\ pc = [t \in Threads |-> IF t = Dispatcher THEN "top" ELSE "next"]
    /\ ip = [c \in Callers |-> 1]
    /\ job = [t \in Threads |-> None]
    /\ top = [t \in Threads |-> None]
    /\ widx = [c \in Callers |-> 1]
    /\ executed = <<>>
    /\ inbox = [w \in Workers |-> {}]
    /\ queued = <<>>
    /\ handed = <<>>
    /\ discarded = {}
    /\ late = {}
-----------------------------------------------------------------------------
(***************************************************************************)
(* The two linked-list queues: append at the tail, remove the first node   *)
(* that holds the given pointer.                                           *)
(***************************************************************************)
add_channel(root, channel) == Append(root, channel)
remove_channel(root, channel) == RemoveFirst(root, channel)
add_job(root, j) == Append(root, j)
remove_job(root, j) == RemoveFirst(root, j)

-----------------------------------------------------------------------------
(***************************************************************************)
(* dispatch_job, run by a caller (submit) or by the dispatcher thread.     *)
(***************************************************************************)

\* dispatch_job returns 1 (handed to a worker) or 0 (queued): the
\* dispatcher thread continues dispatch_all_pending_jobs on 1 and breaks out
\* of it on 0; a caller goes on with its next call.
Returned(t, r) ==
    IF t = Dispatcher
    THEN /\ pc' = [pc EXCEPT ![t] = IF r = 1 THEN "dapj" ELSE "top"]
         /\ UNCHANGED ip
    ELSE /\ pc' = [pc EXCEPT ![t] = "next"]
         /\ ip' = [ip EXCEPT ![t] = @ + 1]

\* Mutant: the fast path pops the tail of the ready queue but hands the job
\* to the channel at its head.
dispatch_job_wrong_end(t, j) ==
    /\ \/ /\ ready_channel_root = <<>>
          /\ job_pending_cnt' = job_pending_cnt + 1
          /\ job_root' = Append(job_root, j)
          /\ queued' = IF t = Dispatcher THEN queued ELSE Append(queued, j)
          /\ Returned(t, 0)
          /\ UNCHANGED <<ready_channel_root, job, top>>
       \/ /\ ready_channel_root # <<>>
          /\ top' = [top EXCEPT ![t] = Head(ready_channel_root)]
          /\ ready_channel_root' = Front(ready_channel_root)
          /\ job' = [job EXCEPT ![t] = j]
          /\ pc' = [pc EXCEPT ![t] = "assign"]
          /\ UNCHANGED <<job_pending_cnt, job_root, queued, ip>>
    /\ late' = IF stop /\ t # Dispatcher THEN late \cup {j} ELSE late
    /\ UNCHANGED <<stop, dispatcher_thread_waiting, dsignal, wvars, widx,
                   executed, inbox, handed, discarded>>

\* Mutant: the fast path takes the head channel without remove_channel.
dispatch_job_no_remove(t, j) ==
    /\ \/ /\ ready_channel_root = <<>>
          /\ job_pending_cnt' = job_pending_cnt + 1
          /\ job_root' = Append(job_root, j)
          /\ queued' = IF t = Dispatcher THEN queued ELSE Append(queued, j)
          /\ Returned(t, 0)
          /\ UNCHANGED <<ready_channel_root, job, top>>
       \/ /\ ready_channel_root # <<>>
          /\ top' = [top EXCEPT ![t] = Head(ready_channel_root)]
          /\ UNCHANGED ready_channel_root
          /\ job' = [job EXCEPT ![t] = j]
          /\ pc' = [pc EXCEPT ![t] = "assign"]
          /\ UNCHANGED <<job_pending_cnt, job_root, queued, ip>>
    /\ late' = IF stop /\ t # Dispatcher THEN late \cup {j} ELSE late
    /\ UNCHANGED <<stop, dispatcher_thread_waiting, dsignal, wvars, widx,
                   executed, inbox, handed, discarded>>

\* The d->lock section of dispatch_job: queue the job when no channel is
\* ready, else pop the head channel.  It does not look at d->stop.
dispatch_job(t, j) ==
    /\ \/ /\ ready_channel_root = <<>>
          /\ job_pending_cnt' = job_pending_cnt + 1
          /\ job_root' = add_job(job_root, j)
          /\ queued' = IF t = Dispatcher THEN queued ELSE Append(queued, j)
          /\ Returned(t, 0)
          /\ UNCHANGED <<ready_channel_root, job, top>>
       \/ /\ ready_channel_root # <<>>
          /\ top' = [top EXCEPT ![t] = Head(ready_channel_root)]
          /\ ready_channel_root' =
                remove_channel(ready_channel_root, Head(ready_channel_root))
          /\ job' = [job EXCEPT ![t] = j]
          /\ pc' = [pc EXCEPT ![t] = "assign"]
          /\ UNCHANGED <<job_pending_cnt, job_root, queued, ip>>
    /\ late' = IF stop /\ t # Dispatcher THEN late \cup {j} ELSE late
    /\ UNCHANGED <<stop, dispatcher_thread_waiting, dsignal, wvars, widx,
                   executed, inbox, handed, discarded>>

\* worker_channel_top->channel->job = job, written without any lock.
dispatch_job_assign(t) ==
    /\ pc[t] = "assign"
    /\ channel_job' = [channel_job EXCEPT ![top[t]] = job[t]]
    /\ inbox' = [inbox EXCEPT ![top[t]] = @ \cup {job[t]}]
    /\ handed' = IF t = Dispatcher THEN Append(handed, job[t]) ELSE handed
    /\ pc' = [pc EXCEPT ![t] = "signal"]
    /\ UNCHANGED <<dvars, worker_stop, wpc, wsignal, ip, job, top, widx,
                   executed, queued, discarded, late>>

\* Lock the channel, signal its cond (lost if the worker is not waiting),
\* unlock, return 1.
dispatch_job_signal(t) ==
    /\ pc[t] = "signal"
    /\ wsignal' = [wsignal EXCEPT ![top[t]] = @ \/ wpc[top[t]] = "wait"]
    /\ Returned(t, 1)
    /\ job' = [job EXCEPT ![t] = None]
    /\ top' = [top EXCEPT ![t] = None]
    /\ UNCHANGED <<dvars, wpc, worker_stop, channel_job, widx, hvars>>

-----------------------------------------------------------------------------
(***************************************************************************)
(* The dispatcher thread: dispatch_thread_start and                       *)
(* dispatch_all_pending_jobs.                                              *)
(***************************************************************************)

NothingToMatch == job_pending_cnt = 0 \/ ready_channel_root = <<>>

\* Top of the for loop: exit on d->stop, else wait on d->cond when there is
\* no pending job or no ready channel, else drain.
dispatch_thread_start(t) ==
    /\ pc[t] = "top"
    /\ IF stop
       THEN /\ pc' = [pc EXCEPT ![t] = "exit"]
            /\ UNCHANGED dispatcher_thread_waiting
       ELSE IF NothingToMatch
            THEN /\ dispatcher_thread_waiting' = TRUE
                 /\ pc' = [pc EXCEPT ![t] = "wait"]
            ELSE /\ pc' = [pc EXCEPT ![t] = "dapj"]
                 /\ UNCHANGED dispatcher_thread_waiting
    /\ UNCHANGED <<ready_channel_root, job_root, job_pending_cnt, stop,
                   dsignal, wvars, ip, job, top, widx, hvars>>

\* pthread_cond_wait on d->cond returns with d->lock held.
dispatch_thread_wake(t) ==
    /\ pc[t] = "wait"
    /\ dsignal \/ SpuriousWakeups
    /\ dsignal' = FALSE
    /\ dispatcher_thread_waiting' = FALSE
    /\ pc' = [pc EXCEPT ![t] = IF stop THEN "exit"
                               ELSE IF NothingToMatch THEN "top"
                               ELSE "dapj"]
    /\ UNCHANGED <<ready_channel_root, job_root, job_pending_cnt, stop,
                   wvars, ip, job, top, widx, hvars>>

\* Mutant: the pending counter is decremented but remove_job is not called.
dispatch_all_pending_jobs_no_remove(t) ==
    /\ pc[t] = "dapj"
    /\ IF job_root = <<>> \/ stop \/ ready_channel_root = <<>>
       THEN /\ pc' = [pc EXCEPT ![t] = "top"]
            /\ UNCHANGED <<job_root, job_pending_cnt, job>>
       ELSE /\ job_pending_cnt' = job_pending_cnt - 1
            /\ UNCHANGED job_root
            /\ job' = [job EXCEPT ![t] = Head(job_root)]
            /\ pc' = [pc EXCEPT ![t] = "dj"]
    /\ UNCHANGED <<ready_channel_root, stop, dispatcher_thread_waiting,
                   dsignal, wvars, ip, top, widx, hvars>>

\* One iteration of dispatch_all_pending_jobs: under d->lock, break out
\* when there is no job, d->stop is set or no channel is ready; otherwise
\* take the head job off the queue and call dispatch_job with it after
\* unlocking.
dispatch_all_pending_jobs(t) ==
    /\ pc[t] = "dapj"
    /\ IF job_root = <<>> \/ stop \/ ready_channel_root = <<>>
       THEN /\ pc' = [pc EXCEPT ![t] = "top"]
            /\ UNCHANGED <<job_root, job_pending_cnt, job>>
       ELSE /\ job_pending_cnt' = job_pending_cnt - 1
            /\ job_root' = remove_job(job_root, Head(job_root))
            /\ job' = [job EXCEPT ![t] = Head(job_root)]
            /\ pc' = [pc EXCEPT ![t] = "dj"]
    /\ UNCHANGED <<ready_channel_root, stop, dispatcher_thread_waiting,
                   dsignal, wvars, ip, top, widx, hvars>>

dispatch_pending_job(t) ==
    /\ pc[t] = "dj"
    /\ dispatch_job(t, job[t])

-----------------------------------------------------------------------------
(***************************************************************************)
(* A worker thread: worker_thread_start.                                   *)
(***************************************************************************)

\* Mutant: the channel is queued but d->cond is never signalled.
worker_signal_channel_ready_no_signal(w) ==
    IF stop
    THEN UNCHANGED <<ready_channel_root, dsignal>>
    ELSE /\ ready_channel_root' = Append(ready_channel_root, w)
         /\ UNCHANGED dsignal

\* Under d->lock: unless d->stop, append the channel to the ready queue and
\* signal d->cond if the dispatcher thread waits on it.
worker_signal_channel_ready(w) ==
    IF stop
    THEN UNCHANGED <<ready_channel_root, dsignal>>
    ELSE /\ ready_channel_root' = add_channel(ready_channel_root, w)
         /\ dsignal' = (dsignal \/ dispatcher_thread_waiting)

\* Mutant: a stopping worker goes round its loop again instead of breaking.
worker_thread_start_continue(w) ==
    /\ wpc[w] = "loop"
    /\ worker_signal_channel_ready(w)
    /\ wpc' = [wpc EXCEPT ![w] = IF worker_stop[w] THEN "loop" ELSE "wait"]
    /\ UNCHANGED <<job_root, job_pending_cnt, stop, dispatcher_thread_waiting,
                   worker_stop, channel_job, wsignal, tvars, hvars>>

\* Holding its channel lock, the worker announces itself ready, then exits
\* if its stop flag is set, else waits on its channel cond (releasing the
\* lock).  The channel lock is held from before the announcement until the
\* wait, so no signal of a thread that popped the channel can come first.
worker_thread_start(w) ==
    /\ wpc[w] = "loop"
    /\ worker_signal_channel_ready(w)
    /\ wpc' = [wpc EXCEPT ![w] = IF worker_stop[w] THEN "done" ELSE "wait"]
    /\ UNCHANGED <<job_root, job_pending_cnt, stop, dispatcher_thread_waiting,
                   worker_stop, channel_job, wsignal, tvars, hvars>>

\* pthread_cond_wait returns: exit if stopping, else take the job in the
\* channel ("got the job") and unlock.  The code does not check that a job
\* was actually handed over.
worker_thread_wake(w) ==
    /\ wpc[w] = "wait"
    /\ wsignal[w] \/ SpuriousWakeups
    /\ wsignal' = [wsignal EXCEPT ![w] = FALSE]
    /\ IF worker_stop[w]
       THEN /\ wpc' = [wpc EXCEPT ![w] = "done"]
            /\ UNCHANGED <<executed, inbox>>
       ELSE /\ wpc' = [wpc EXCEPT ![w] = "run"]
            /\ executed' = Append(executed, <<w, channel_job[w]>>)
            /\ inbox' = [inbox EXCEPT ![w] = {}]
    /\ UNCHANGED <<dvars, worker_stop, channel_job, tvars,
                   queued, handed, discarded, late>>

\* sleep(5), the job's work, outside every lock; then loop.
worker_thread_run(w) ==
    /\ wpc[w] = "run"
    /\ wpc' = [wpc EXCEPT ![w] = "loop"]
    /\ UNCHANGED <<dvars, worker_stop, channel_job, wsignal, tvars, hvars>>

-----------------------------------------------------------------------------
(***************************************************************************)
(* The calls of a caller thread.                                           *)
(***************************************************************************)

Call(c) == Programs[c][ip[c]]
Calling(c, op) ==
    /\ pc[c] = "next"
    /\ ip[c] <= Len(Programs[c])
    /\ Call(c).op = op

submit(c) ==
    /\ Calling(c, "submit")
    /\ dispatch_job(c, Call(c).job)

\* worker_pool_start: create and start every worker thread.
worker_pool_start(c) ==
    /\ Calling(c, "start")
    /\ wpc' = [w \in Workers |-> "loop"]
    /\ ip' = [ip EXCEPT ![c] = @ + 1]
    /\ UNCHANGED <<dvars, worker_stop, channel_job, wsignal,
                   pc, job, top, widx, hvars>>

\* Mutant: the drain loop decrements job_pending_cnt once more than it
\* frees jobs.
worker_pool_stop_extra_dec(c) ==
    /\ Calling(c, "stop")
    /\ stop' = TRUE
    /\ job_root' = <<>>
    /\ job_pending_cnt' = job_pending_cnt - Len(job_root) - 1
    /\ discarded' = discarded \cup ToSet(job_root)
    /\ pc' = [pc EXCEPT ![c] = "stop_signal"]
    /\ widx' = [widx EXCEPT ![c] = 1]
    /\ UNCHANGED <<ready_channel_root, dispatcher_thread_waiting, dsignal,
                   wvars, ip, job, top, executed, inbox, queued, handed, late>>

\* Mutant: stop sets d->stop but leaves the pending jobs in job_root.
worker_pool_stop_no_drain(c) ==
    /\ Calling(c, "stop")
    /\ stop' = TRUE
    /\ pc' = [pc EXCEPT ![c] = "stop_signal"]
    /\ widx' = [widx EXCEPT ![c] = 1]
    /\ UNCHANGED <<ready_channel_root, job_root, job_pending_cnt,
                   dispatcher_thread_waiting, dsignal, wvars, ip, job, top,
                   executed, inbox, queued, handed, discarded, late>>

\* worker_pool_stop, under d->lock: set d->stop and free every pending job.
\* The ready queue is left as it is, and d->cond is not signalled.
worker_pool_stop(c) ==
    /\ Calling(c, "stop")
    /\ stop' = TRUE
    /\ job_root' = <<>>
    /\ job_pending_cnt' = job_pending_cnt - Len(job_root)
    /\ discarded' = discarded \cup ToSet(job_root)
    /\ pc' = [pc EXCEPT ![c] = "stop_signal"]
    /\ widx' = [widx EXCEPT ![c] = 1]
    /\ UNCHANGED <<ready_channel_root, dispatcher_thread_waiting, dsignal,
                   wvars, ip, job, top, executed, inbox, queued, handed, late>>

\* For worker widx: under its channel lock set its stop flag and signal.
worker_pool_stop_signal(c) ==
    /\ pc[c] = "stop_signal"
    /\ LET i == widx[c] IN
         /\ worker_stop' = [worker_stop EXCEPT ![i] = TRUE]
         /\ wsignal' = [wsignal EXCEPT ![i] = @ \/ wpc[i] = "wait"]
    /\ pc' = [pc EXCEPT ![c] = "stop_join"]
    /\ UNCHANGED <<dvars, wpc, channel_job, ip, job, top, widx, hvars>>

\* pthread_join(worker widx), then the next worker or return.
worker_pool_stop_join(c) ==
    /\ pc[c] = "stop_join"
    /\ wpc[widx[c]] = "done"
    /\ IF widx[c] < NumWorkers
       THEN /\ widx' = [widx EXCEPT ![c] = @ + 1]
            /\ pc' = [pc EXCEPT ![c] = "stop_signal"]
            /\ UNCHANGED ip
       ELSE /\ pc' = [pc EXCEPT ![c] = "next"]
            /\ ip' = [ip EXCEPT ![c] = @ + 1]
            /\ UNCHANGED widx
    /\ UNCHANGED <<dvars, wvars, job, top, hvars>>

\* Every caller has returned from its last call: the process ends.
Finished ==
    /\ \A c \in Callers : ip[c] > Len(Programs[c])
    /\ UNCHANGED vars

-----------------------------------------------------------------------------
DispatcherThread(t) ==
    \/ dispatch_thread_start(t)
    \/ dispatch_thread_wake(t)
    \/ dispatch_all_pending_jobs(t)
    \/ dispatch_pending_job(t)
    \/ dispatch_job_assign(t)
    \/ dispatch_job_signal(t)

WorkerThread(w) ==
    \/ worker_thread_start(w)
    \/ worker_thread_wake(w)
    \/ worker_thread_run(w)

CallerThread(c) ==
    \/ submit(c)
    \/ dispatch_job_assign(c)
    \/ dispatch_job_signal(c)
    \/ worker_pool_start(c)
    \/ worker_pool_stop(c)
    \/ worker_pool_stop_signal(c)
    \/ worker_pool_stop_join(c)

Next ==
    \/ DispatcherThread(Dispatcher)
    \/ \E w \in Workers : WorkerThread(w)
    \/ \E c \in Callers : CallerThread(c)
    \/ Finished

\* The scheduler runs every runnable thread: weak fairness per thread.
Fairness ==
    /\ WF_vars(DispatcherThread(Dispatcher))
    /\ \A w \in Workers : WF_vars(WorkerThread(w))
    /\ \A c \in Callers : WF_vars(CallerThread(c))

Spec == Init /\ [][Next]_vars /\ Fairness
-----------------------------------------------------------------------------
(***************************************************************************)
(* Properties.                                                             *)
(***************************************************************************)

ExecutedJobs == {executed[i][2] : i \in DOMAIN executed} \ {None}

\* A caller's dispatch_job call for j has returned.
Submitted(j) ==
    \E ci \in Submits : JobOf(ci) = j /\ ip[ci[1]] > ci[2]

\* Until worker_pool_stop, every channel in the ready queue is there once
\* and belongs to a worker parked in pthread_cond_wait with no signal on
\* its way: the fast path of dispatch_job and the dispatcher thread may hand
\* it a job.  It rests on the worker holding its channel lock from the
\* announcement in worker_signal_channel_ready to its wait, and on
\* dispatch_job popping a channel before signalling it.
ReadyWorkersIdle ==
    ~stop =>
        /\ IsInjective(ready_channel_root)
        /\ \A i \in DOMAIN ready_channel_root :
              LET w == ready_channel_root[i] IN wpc[w] = "wait" /\ ~wsignal[w]

\* A worker's channel holds at most one job the worker has not read: no
\* thread writes worker_channel_top->channel->job over a job not yet taken
\* (spec: "a WorkerHandle holds zero or one Job").
SlotHoldsOne == \A w \in Workers : Cardinality(inbox[w]) <= 1

\* No job is executed twice (by one worker or by two): a job leaves the
\* pending queue in dispatch_all_pending_jobs exactly once and a worker
\* reads each channel write once.
AtMostOnce ==
    \A i, k \in DOMAIN executed :
        i # k /\ executed[i][2] # None => executed[i][2] # executed[k][2]

\* Once worker_pool_stop has set d->stop, every worker thread terminates,
\* including one whose stop signal came while it ran a job and was lost
\* (spec section 9).
WorkersTerminate == stop ~> \A w \in Workers : wpc[w] = "done"

\* Without worker_pool_stop, every job whose dispatch_job call has returned
\* is eventually executed: a job queued while every worker is busy is
\* matched by the dispatcher thread when a worker becomes ready, though
\* dispatch_job does not signal d->cond when it queues.
JobEventuallyRuns == \A j \in Jobs : Submitted(j) ~> (j \in ExecutedJobs)

\* Spec 4.2/8: jobs that went through the pending queue are handed out by
\* the dispatcher thread in the order the callers queued them.
PendingFIFO ==
    \A i, k \in DOMAIN handed :
        i < k => IndexFirstSubSeq(<<handed[i]>>, queued)
                   < IndexFirstSubSeq(<<handed[k]>>, queued)

\* Spec 4.3: the dispatcher thread exits once d->stop is set.
DispatcherExits == stop ~> pc[Dispatcher] = "exit"

\* Spec 4.2/8: a submit after worker_pool_stop never causes a job to run.
NoRunAfterStop == late \cap ExecutedJobs = {}

\* Spec 4.2/8: every job a dispatch_job call accepted is accounted for: it
\* is eventually executed by a worker, or discarded by the drain loop of
\* worker_pool_stop.  A job the dispatcher thread holds between
\* dispatch_all_pending_jobs and dispatch_job when stop comes, or one handed
\* to a worker that is exiting, must not vanish.
JobAccounted ==
    \A j \in Jobs : Submitted(j) ~> (j \in ExecutedJobs \cup discarded)

-----------------------------------------------------------------------------
(***************************************************************************)
(* Refinement: the pool implements the job lifecycle of JobPool.  A job   *)
(* in job_root is queued; the job the dispatcher thread holds between     *)
(* dispatch_all_pending_jobs and dispatch_job is being matched; a job a   *)
(* thread has committed to a popped channel, or written to it and the     *)
(* worker has not read, is in that worker's slot; a worker at "run" runs  *)
(* the job it read last.                                                   *)
(***************************************************************************)

\* The job committed to worker w and not yet taken by it.
SlotOf(w) ==
    IF inbox[w] # {} THEN CHOOSE j \in inbox[w] : TRUE
    ELSE IF \E t \in Threads : pc[t] = "assign" /\ top[t] = w
         THEN job[CHOOSE t \in Threads : pc[t] = "assign" /\ top[t] = w]
         ELSE None

RunningOf(w) ==
    IF wpc[w] = "run"
    THEN executed[Max({i \in DOMAIN executed : executed[i][1] = w})][2]
    ELSE None

JP == INSTANCE JobPool WITH
        queue <- ToSet(job_root),
        matching <- IF pc[Dispatcher] = "dj" THEN {job[Dispatcher]} ELSE {},
        slot <- [w \in Workers |-> SlotOf(w)],
        running <- [w \in Workers |-> RunningOf(w)],
        done <- ExecutedJobs \ {RunningOf(w) : w \in Workers},
        discarded <- discarded,
        stopping <- stop

\* Every step of the callers, the dispatcher thread and the workers is a
\* step of the job lifecycle the spec describes, or leaves it unchanged:
\* no job is taken from the queue after stop, assigned to a worker that is
\* not idle, executed by a worker it was not assigned to, duplicated, lost
\* from the queue other than by stop's discard, or submitted after stop.
ImplementsJobPool == JP!Spec

=============================================================================
