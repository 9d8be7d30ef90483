\* main() without worker_pool_stop: every returned submit is eventually run.
CONSTANTS
    NumWorkers = 2
    Jobs = {j1, j2, j3, j4}
    j1 = j1
    j2 = j2
    j3 = j3
    j4 = j4
    main = main
    other = other
    Callers = {main}
    Programs <- NoStopPrograms
    Dispatcher = Dispatcher
    None = None
    SpuriousWakeups = FALSE
SPECIFICATION Spec
PROPERTY JobEventuallyRuns
