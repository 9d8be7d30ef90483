------------------------------- MODULE IdCache --------------------------------
(***************************************************************************)
(* src/get_id.c run with -c: main() calls _next_id MaxCalls times; ids come *)
(* from the buffer ids_cur, and every ID_CACHE_SIZE calls id_refresh swaps *)
(* buffers and posts s1 so that the background thread id_loop refills      *)
(* ids_double under the binary semaphore s2.                               *)
(*                                                                         *)
(* The buffers are the two malloc'ed arrays of id_init, A (ids) and B      *)
(* (first ids_double).  Their contents are abstracted to which slots main  *)
(* has served since the buffer was last filled.  A fill by id_loop takes   *)
(* ID_CACHE_SIZE * 20 ms and is a region between taking and posting s2.    *)
(* main's loop index equals counter, so it is not a separate variable.     *)
(***************************************************************************)
EXTENDS Naturals

CONSTANTS
    CacheSize,      \* ID_CACHE_SIZE
    MaxCalls        \* the 10000 iterations of main's loop

ASSUME CacheSize \in Nat \ {0} /\ MaxCalls \in Nat

Bufs == {"A", "B"}
NULL == "NULL"
Slots == 0..CacheSize-1

VARIABLES
    counter, next_id, ids, ids_double, ids_cur,
    s1, s2,
    mpc,            \* where main is: "loop", "refresh", "read", "exit"
    bpc,            \* where id_loop is: "wait_s1", "wait_s2", "fill", "cancelled"
    served          \* served[b]: slots of b handed out since b was last filled

vars == <<counter, next_id, ids, ids_double, ids_cur, s1, s2, mpc, bpc, served>>

TypeOK ==
    /\ counter \in 0..MaxCalls
    /\ next_id \in Slots
    /\ {ids, ids_double, ids_cur} \subseteq Bufs \cup {NULL}
    /\ s1 \in 0..MaxCalls /\ s2 \in {0, 1}
    /\ mpc \in {"loop", "refresh", "read", "exit"}
    /\ bpc \in {"wait_s1", "wait_s2", "fill", "cancelled"}
    /\ served \in [Bufs -> SUBSET Slots]

\* Globals as initialised, sem_init(&s1, 0, 0) and sem_init(&s2, 0, 1).
Init ==
    /\ counter = 0 /\ next_id = 0
    /\ ids = NULL /\ ids_double = NULL /\ ids_cur = NULL
    /\ s1 = 0 /\ s2 = 1
    /\ mpc = "loop" /\ bpc = "wait_s1"
    /\ served = [b \in Bufs |-> {}]
-----------------------------------------------------------------------------
(* main thread.                                                            *)

\* Mutant: main's loop bound off by one (i <= 10000).
next_id_call_offbyone ==
    /\ mpc = "loop" /\ counter <= MaxCalls
    /\ next_id' = counter % CacheSize
    /\ IF next_id' = 0
         THEN mpc' = "refresh" /\ UNCHANGED counter
         ELSE mpc' = "read" /\ counter' = counter + 1
    /\ UNCHANGED <<ids, ids_double, ids_cur, s1, s2, bpc, served>>

\* _next_id: next_id = counter % ID_CACHE_SIZE; refresh on 0.
next_id_call ==
    /\ mpc = "loop" /\ counter < MaxCalls
    /\ next_id' = counter % CacheSize
    /\ IF next_id' = 0
         THEN mpc' = "refresh" /\ UNCHANGED counter
         ELSE mpc' = "read" /\ counter' = counter + 1
    /\ UNCHANGED <<ids, ids_double, ids_cur, s1, s2, bpc, served>>

\* id_refresh on the first call: id_init fills both buffers and points
\* ids_cur at ids; then counter++.
id_init ==
    /\ mpc = "refresh" /\ (ids = NULL \/ ids_double = NULL)
    /\ ids' = "A" /\ ids_double' = "B" /\ ids_cur' = "A"
    /\ served' = [b \in Bufs |-> {}]
    /\ counter' = counter + 1 /\ mpc' = "read"
    /\ UNCHANGED <<next_id, s1, s2, bpc>>

\* id_refresh otherwise: under s2, switch ids_cur and post s1; then counter++.
id_refresh ==
    /\ mpc = "refresh" /\ ids # NULL /\ ids_double # NULL
    /\ s2 = 1
    /\ IF ids_cur = ids_double
         THEN ids_cur' = ids /\ UNCHANGED ids_double
         ELSE ids_cur' = ids_double /\ ids_double' = ids
    /\ s1' = s1 + 1
    /\ counter' = counter + 1 /\ mpc' = "read"
    /\ UNCHANGED <<next_id, ids, s2, bpc, served>>

\* return ids_cur[next_id], read without s2.
read_id ==
    /\ mpc = "read"
    /\ served' = [served EXCEPT ![ids_cur] = @ \cup {next_id}]
    /\ mpc' = "loop"
    /\ UNCHANGED <<counter, next_id, ids, ids_double, ids_cur, s1, s2, bpc>>

\* After the loop, pthread_cancel and pthread_join: id_loop is cancelled at
\* its next cancellation point (sem_wait or the nanosleep of get_id).
main_exit ==
    /\ mpc = "loop" /\ counter = MaxCalls
    /\ mpc' = "exit" /\ bpc' = "cancelled"
    /\ UNCHANGED <<counter, next_id, ids, ids_double, ids_cur, s1, s2, served>>
-----------------------------------------------------------------------------
(* id_loop, the background thread.                                         *)

\* sem_wait(&s1): a refresh has been posted.
id_loop_wait_s1 ==
    /\ bpc = "wait_s1" /\ s1 > 0
    /\ s1' = s1 - 1 /\ bpc' = "wait_s2"
    /\ UNCHANGED <<counter, next_id, ids, ids_double, ids_cur, s2, mpc, served>>

\* sem_wait(&s2), then the fill loop over ids_double begins.
id_loop_wait_s2 ==
    /\ bpc = "wait_s2" /\ s2 = 1
    /\ s2' = 0 /\ bpc' = "fill"
    /\ UNCHANGED <<counter, next_id, ids, ids_double, ids_cur, s1, mpc, served>>

\* Mutant: the fill loop without its sem_post(&s2).
id_loop_fill_nopost ==
    /\ bpc = "fill"
    /\ served' = [served EXCEPT ![ids_double] = {}]
    /\ bpc' = "wait_s1"
    /\ UNCHANGED <<counter, next_id, ids, ids_double, ids_cur, s1, s2, mpc>>

\* The fill loop ends: ids_double holds fresh ids; sem_post(&s2).
id_loop_fill ==
    /\ bpc = "fill"
    /\ served' = [served EXCEPT ![ids_double] = {}]
    /\ s2' = 1 /\ bpc' = "wait_s1"
    /\ UNCHANGED <<counter, next_id, ids, ids_double, ids_cur, s1, mpc>>

MainThread ==
    next_id_call \/ id_init \/ id_refresh \/ read_id \/ main_exit

IdLoop == id_loop_wait_s1 \/ id_loop_wait_s2 \/ id_loop_fill

\* main has returned.
Finished == mpc = "exit" /\ UNCHANGED vars

Next == MainThread \/ IdLoop \/ Finished

\* Both threads are scheduled whenever they can run.
Spec == Init /\ [][Next]_vars /\ WF_vars(MainThread) /\ WF_vars(IdLoop)
-----------------------------------------------------------------------------
(* Properties.                                                             *)

\* main's loop completes: _next_id never blocks for good on s2.
MainCompletes == <>(mpc = "exit")

\* main never reads ids_cur[next_id] while id_loop is writing that buffer
\* (the double buffer: id_loop refills the buffer main is not using).
NoTornRead == ~(mpc = "read" /\ bpc = "fill" /\ ids_cur = ids_double)

\* No id is handed out twice: a slot of a buffer is served again only after
\* id_loop has refilled that buffer.
NoIdServedTwice ==
    [][mpc = "read" /\ mpc' = "loop" => next_id \notin served[ids_cur]]_vars
=============================================================================
