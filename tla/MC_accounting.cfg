\* A running pool with one worker is stopped after two submits: is every
\* accepted job executed or discarded?
CONSTANTS
    NumWorkers = 1
    Jobs = {j1, j2, j3, j4}
    j1 = j1
    j2 = j2
    j3 = j3
    j4 = j4
    main = main
    other = other
    Callers = {main}
    Programs <- StopPrograms
    Dispatcher = Dispatcher
    None = None
    SpuriousWakeups = FALSE
SPECIFICATION Spec
PROPERTY JobAccounted
