\* A lifetime from 1 to 4 with a reserve of 1, entered at any instant: time for
\* two readings with seconds left, one in the reserve, the deadline and one after.
SPECIFICATION FairCallSpec
CONSTANTS
    Start = 1
    Total = 3
    CleanupReserve = 1
    NoReading = NoReading
    Readings = {0, 1, 2, 3, 4, 5}
    Faulty = {0, NoReading}
    MaxTime = 5
    Reasons = {"worker_timeout", "worker_aborted", "worker_cleanup_failed",
               "request_expired", "request_cancelled"}
INVARIANTS
    NothingLeftBehind
    ResultAfterReap
PROPERTIES
    ImplementsWorkerCall
    CallEnds
CHECK_DEADLOCK FALSE
