\* A second caller submits while main runs worker_pool_stop.
CONSTANTS
    NumWorkers = 2
    Jobs = {j1, j2, j3, j4}
    j1 = j1
    j2 = j2
    j3 = j3
    j4 = j4
    main = main
    other = other
    Callers = {main, other}
    Programs <- LatePrograms
    Dispatcher = Dispatcher
    None = None
    SpuriousWakeups = FALSE
SPECIFICATION Spec
INVARIANT NoRunAfterStop
