\* A deadline at 10 with a reserve of 2; the clock is read from before the
\* start until after the deadline, in any order.
CONSTANTS
    Start = 1
    Total = 9
    CleanupReserve = 2
    Readings = {0, 1, 2, 3, 4, 5, 6, 7, 8, 9, 10, 11, 12}
    NoReading = NoReading
    Reasons = {"request_cancelled", "worker_timeout"}
SPECIFICATION Spec
INVARIANTS
    RefusalIsFinal
PROPERTIES
    FirstReasonWins
    ImplementsBudgetPhase
