\* Three threads, thread ids stored after the threads start (POSIX allows
\* it): a thread may pass NULL as owner and get past mutex_lock unlocked.
CONSTANTS
    N = 3
    IdStoredFirst = FALSE
SPECIFICATION Spec
INVARIANT MutualExclusion
