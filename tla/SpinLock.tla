------------------------------- MODULE SpinLock -------------------------------
(***************************************************************************)
(* src/lock.c: a mutex built from __sync_bool_compare_and_swap on         *)
(* resource.counter, with the owner recorded in resource.owner_ctxt, used   *)
(* by N threads that loop lock / sleep / unlock until SIGINT.              *)
(*                                                                         *)
(* Each thread passes ctxt_p->thread_id as the owner.  main() creates the  *)
(* threads with pthread_create(&ctxt_p[i].thread_id, ...), so whether the  *)
(* new thread can read its thread_id before it is stored depends on the C  *)
(* library: glibc stores it before the thread is started, POSIX does not   *)
(* require it (musl stores it after clone returns).  IdStoredFirst picks   *)
(* the build; when it is FALSE the store is a separate step of main and    *)
(* the thread may read the calloc'ed 0, which is NULL.                     *)
(***************************************************************************)
EXTENDS Naturals, FiniteSets

CONSTANTS N, IdStoredFirst

ASSUME N \in Nat \ {0} /\ IdStoredFirst \in BOOLEAN

Threads == 1..N
NULL == 0           \* the pthread_t of thread t is modelled as t

VARIABLES
    counter,        \* resource.counter
    owner_ctxt,     \* resource.owner_ctxt
    interrupted,    \* the sig_atomic_t set by sighandler
    thread_id,      \* ctxt_p[t].thread_id
    pc,             \* where each thread is in thread_loop
    arg,            \* the owner_ctxt argument of a thread's current call
    mpc,            \* where main() is
    mi              \* main()'s loop index

vars == <<counter, owner_ctxt, interrupted, thread_id, pc, arg, mpc, mi>>

ThreadPcs == {"unborn", "loop", "lock", "lock_chk", "lock_cas", "lock_own",
              "cs", "unlock", "unlock_clear", "unlock_cas", "done"}

TypeOK ==
    /\ counter \in {0, 1}
    /\ owner_ctxt \in Threads \cup {NULL}
    /\ interrupted \in BOOLEAN
    /\ thread_id \in [Threads -> Threads \cup {NULL}]
    /\ pc \in [Threads -> ThreadPcs]
    /\ arg \in [Threads -> Threads \cup {NULL}]
    /\ mpc \in {"create", "start", "store", "join", "exit"}
    /\ mi \in 1..N+1

\* memset(&resource, 0, ...) and calloc of the contexts.
Init ==
    /\ counter = 0
    /\ owner_ctxt = NULL
    /\ interrupted = FALSE
    /\ thread_id = [t \in Threads |-> NULL]
    /\ pc = [t \in Threads |-> "unborn"]
    /\ arg = [t \in Threads |-> NULL]
    /\ mpc = "create"
    /\ mi = 1
-----------------------------------------------------------------------------
(* init_threads: pthread_create for thread mi is two steps, the start of  *)
(* the thread and the store of its id into ctxt_p[mi].thread_id, in the   *)
(* order of the build.                                                     *)
NextIndex == IF mi = N THEN "join" ELSE "create"

init_threads ==
    /\ mpc = IF IdStoredFirst THEN "start" ELSE "create"
    /\ pc' = [pc EXCEPT ![mi] = "loop"]
    /\ mpc' = IF IdStoredFirst THEN NextIndex ELSE "store"
    /\ mi' = IF IdStoredFirst THEN mi + 1 ELSE mi
    /\ UNCHANGED <<counter, owner_ctxt, interrupted, thread_id, arg>>

store_thread_id ==
    /\ mpc = IF IdStoredFirst THEN "create" ELSE "store"
    /\ thread_id' = [thread_id EXCEPT ![mi] = mi]
    /\ mpc' = IF IdStoredFirst THEN "start" ELSE NextIndex
    /\ mi' = IF IdStoredFirst THEN mi ELSE mi + 1
    /\ UNCHANGED <<counter, owner_ctxt, interrupted, pc, arg>>

\* main's pthread_join loop returns once every thread has left thread_loop.
join_threads ==
    /\ mpc = "join"
    /\ \A t \in Threads : pc[t] = "done"
    /\ mpc' = "exit"
    /\ UNCHANGED <<counter, owner_ctxt, interrupted, thread_id, pc, arg, mi>>

\* SIGINT may arrive at any time.
sighandler ==
    /\ ~interrupted
    /\ interrupted' = TRUE
    /\ UNCHANGED <<counter, owner_ctxt, thread_id, pc, arg, mpc, mi>>
-----------------------------------------------------------------------------
(* thread_loop(t), one action per step.                                    *)

\* Mutant: the non-volatile read of interrupted hoisted out of the loop.
thread_loop_hoisted(t) ==
    /\ pc[t] = "loop"
    /\ pc' = [pc EXCEPT ![t] = "lock"]
    /\ UNCHANGED <<counter, owner_ctxt, interrupted, thread_id, arg, mpc, mi>>

\* while (!interrupted): the loop test.
thread_loop(t) ==
    /\ pc[t] = "loop"
    /\ pc' = [pc EXCEPT ![t] = IF interrupted THEN "done" ELSE "lock"]
    /\ UNCHANGED <<counter, owner_ctxt, interrupted, thread_id, arg, mpc, mi>>

\* The argument ctxt_p->thread_id of mutex_lock is read.
lock_call(t) ==
    /\ pc[t] = "lock"
    /\ arg' = [arg EXCEPT ![t] = thread_id[t]]
    /\ pc' = [pc EXCEPT ![t] = "lock_chk"]
    /\ UNCHANGED <<counter, owner_ctxt, interrupted, thread_id, mpc, mi>>

\* mutex_lock: "if (owner_ctxt == res_p->owner_ctxt) return -1".  The
\* caller ignores the result and goes on to its critical section.
mutex_lock(t) ==
    /\ pc[t] = "lock_chk"
    /\ pc' = [pc EXCEPT ![t] = IF arg[t] = owner_ctxt THEN "cs" ELSE "lock_cas"]
    /\ UNCHANGED <<counter, owner_ctxt, interrupted, thread_id, arg, mpc, mi>>

\* Mutant: the compare-and-swap replaced by a plain store.
mutex_lock_cas_store(t) ==
    /\ pc[t] = "lock_cas"
    /\ counter' = 1
    /\ pc' = [pc EXCEPT ![t] = "lock_own"]
    /\ UNCHANGED <<owner_ctxt, interrupted, thread_id, arg, mpc, mi>>

\* Mutant: the CAS replaced by an atomic increment (__sync_fetch_and_add).
mutex_lock_cas_inc(t) ==
    /\ pc[t] = "lock_cas"
    /\ counter' = counter + 1
    /\ pc' = [pc EXCEPT ![t] = "lock_own"]
    /\ UNCHANGED <<owner_ctxt, interrupted, thread_id, arg, mpc, mi>>

\* The CAS loop: counter 0 -> 1, or spin (a step that changes nothing).
mutex_lock_cas(t) ==
    /\ pc[t] = "lock_cas"
    /\ IF counter = 0
         THEN counter' = 1 /\ pc' = [pc EXCEPT ![t] = "lock_own"]
         ELSE UNCHANGED <<counter, pc>>
    /\ UNCHANGED <<owner_ctxt, interrupted, thread_id, arg, mpc, mi>>

\* res_p->owner_ctxt = owner_ctxt; return 0.
mutex_lock_own(t) ==
    /\ pc[t] = "lock_own"
    /\ owner_ctxt' = arg[t]
    /\ pc' = [pc EXCEPT ![t] = "cs"]
    /\ UNCHANGED <<counter, interrupted, thread_id, arg, mpc, mi>>

\* printf and sleep(1), then the argument of mutex_unlock is read.
critical_section(t) ==
    /\ pc[t] = "cs"
    /\ arg' = [arg EXCEPT ![t] = thread_id[t]]
    /\ pc' = [pc EXCEPT ![t] = "unlock"]
    /\ UNCHANGED <<counter, owner_ctxt, interrupted, thread_id, mpc, mi>>

\* mutex_unlock: "if (owner_ctxt != res_p->owner_ctxt) return -1".
mutex_unlock(t) ==
    /\ pc[t] = "unlock"
    /\ pc' = [pc EXCEPT ![t] = IF arg[t] # owner_ctxt THEN "loop" ELSE "unlock_clear"]
    /\ UNCHANGED <<counter, owner_ctxt, interrupted, thread_id, arg, mpc, mi>>

\* Mutant: the counter released before the owner is cleared.
mutex_unlock_clear_swapped(t) ==
    /\ pc[t] = "unlock_clear"
    /\ counter' = 0
    /\ pc' = [pc EXCEPT ![t] = "unlock_cas"]
    /\ UNCHANGED <<owner_ctxt, interrupted, thread_id, arg, mpc, mi>>

\* res_p->owner_ctxt = NULL.
mutex_unlock_clear(t) ==
    /\ pc[t] = "unlock_clear"
    /\ owner_ctxt' = NULL
    /\ pc' = [pc EXCEPT ![t] = "unlock_cas"]
    /\ UNCHANGED <<counter, interrupted, thread_id, arg, mpc, mi>>

\* The CAS loop: counter 1 -> 0, or spin.
mutex_unlock_cas(t) ==
    /\ pc[t] = "unlock_cas"
    /\ IF counter = 1
         THEN counter' = 0 /\ pc' = [pc EXCEPT ![t] = "loop"]
         ELSE UNCHANGED <<counter, pc>>
    /\ UNCHANGED <<owner_ctxt, interrupted, thread_id, arg, mpc, mi>>

Thread(t) ==
    \/ thread_loop(t)
    \/ lock_call(t)
    \/ mutex_lock(t)
    \/ mutex_lock_cas(t)
    \/ mutex_lock_own(t)
    \/ critical_section(t)
    \/ mutex_unlock(t)
    \/ mutex_unlock_clear(t)
    \/ mutex_unlock_cas(t)

Main == init_threads \/ store_thread_id \/ join_threads

\* main() has returned: the process is over.
Finished == mpc = "exit" /\ UNCHANGED vars

Next == Main \/ sighandler \/ (\E t \in Threads : Thread(t)) \/ Finished

\* Every runnable thread, and main, is scheduled; a spinning CAS is a step
\* that changes nothing, so fairness does not force it to succeed.
\* SIGINT comes from outside and is not assumed.
Fairness == WF_vars(Main) /\ \A t \in Threads : WF_vars(Thread(t))

Spec == Init /\ [][Next]_vars /\ Fairness
-----------------------------------------------------------------------------
(* Properties.                                                             *)

\* At most one thread is between a return of mutex_lock and its call of
\* mutex_unlock.
MutualExclusion ==
    \A t1, t2 \in Threads : pc[t1] = "cs" /\ pc[t2] = "cs" => t1 = t2

\* The threads that hold the lock in the sense of Mutex: from a successful
\* CAS 0 -> 1 until the CAS 1 -> 0 of the matching unlock.
HeldPcs == {"lock_own", "cs", "unlock", "unlock_clear", "unlock_cas"}

Holder ==
    IF \E t \in Threads : pc[t] \in HeldPcs
      THEN CHOOSE t \in Threads : pc[t] \in HeldPcs
      ELSE NULL

Abstract == INSTANCE Mutex WITH holder <- Holder, NoHolder <- NULL

\* The CAS lock implements the abstract mutex (refinement mapping Holder):
\* every successful CAS 0 -> 1 acquires a free lock and every CAS 1 -> 0
\* releases the caller's own.
ImplementsMutex == Abstract!Spec

\* After SIGINT, every thread leaves thread_loop and main's joins return.
ThreadsExit == interrupted ~> mpc = "exit"
=============================================================================
