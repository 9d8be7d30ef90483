\* main()'s call sequence with two workers: safety of the hand-off protocol
\* and termination of worker_pool_stop.
CONSTANTS
    NumWorkers = 2
    Jobs = {j1, j2, j3, j4}
    j1 = j1
    j2 = j2
    j3 = j3
    j4 = j4
    main = main
    other = other
    Callers = {main}
    Programs <- MainPrograms
    Dispatcher = Dispatcher
    None = None
    SpuriousWakeups = FALSE
SPECIFICATION Spec
INVARIANT TypeOK
INVARIANT ReadyWorkersIdle
INVARIANT SlotHoldsOne
INVARIANT AtMostOnce
PROPERTY WorkersTerminate
PROPERTY ImplementsJobPool
