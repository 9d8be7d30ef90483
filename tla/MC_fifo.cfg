\* A fast-path submit racing the dispatcher thread re-queues a pending job at the tail.
CONSTANTS
    NumWorkers = 1
    Jobs = {j1, j2, j3, j4}
    j1 = j1
    j2 = j2
    j3 = j3
    j4 = j4
    main = main
    other = other
    Callers = {main}
    Programs <- FifoPrograms
    Dispatcher = Dispatcher
    None = None
    SpuriousWakeups = FALSE
SPECIFICATION Spec
INVARIANT PendingFIFO
