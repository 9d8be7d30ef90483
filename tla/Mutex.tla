-------------------------------- MODULE Mutex --------------------------------
(***************************************************************************)
(* What a mutual-exclusion lock promises, with no mechanism: at most one    *)
(* thread holds it, a thread acquires it only when it is free, and only    *)
(* the holder releases it.  SpinLock is checked to implement this module.  *)
(***************************************************************************)
CONSTANTS Threads, NoHolder

VARIABLE holder

TypeOK == holder \in Threads \cup {NoHolder}

Init == holder = NoHolder

Acquire(t) == holder = NoHolder /\ holder' = t

Release(t) == holder = t /\ holder' = NoHolder

Next == \E t \in Threads : Acquire(t) \/ Release(t)

Spec == Init /\ [][Next]_holder
=============================================================================
