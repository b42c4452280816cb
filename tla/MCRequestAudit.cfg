CONSTANTS
    r1 = r1
    a = a
    b = b
    fa = fa
    fb = fb
    Runs = {r1}
    Refs = {a, b}
    FieldIds = {fa, fb}
    FieldOf <- MCFieldOf
    MaxTime = 2
    RapidSpan = 1
    DeepSpan = 1
SPECIFICATION MCSpec
INVARIANTS
    AuditInv
    RetryFollowsTransientFailure
    ForceExcludesOrdinary
    TerminalAccountsForReservations
    TerminalClosesHistory
PROPERTIES
    TerminalIsFrozen
SYMMETRY Swap
CHECK_DEADLOCK FALSE
