\* pthread_cond_wait may return spuriously; the worker does not re-check for a job.
CONSTANTS
    NumWorkers = 1
    Jobs = {j1, j2, j3, j4}
    j1 = j1
    j2 = j2
    j3 = j3
    j4 = j4
    main = main
    other = other
    Callers = {main}
    Programs <- FifoPrograms
    Dispatcher = Dispatcher
    None = None
    SpuriousWakeups = TRUE
SPECIFICATION Spec
INVARIANT AtMostOnce
