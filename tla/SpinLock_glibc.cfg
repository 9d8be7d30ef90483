\* Three threads, thread ids stored before the threads run (glibc):
\* mutual exclusion, refinement of Mutex, and exit after SIGINT.
CONSTANTS
    N = 3
    IdStoredFirst = TRUE
SPECIFICATION Spec
INVARIANT TypeOK
INVARIANT MutualExclusion
PROPERTY ImplementsMutex
PROPERTY ThreadsExit
