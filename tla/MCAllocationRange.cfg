SPECIFICATION MCSpec
CONSTANTS
    p1 = p1
    p2 = p2
    owner = owner
    Procs = {p1, p2}
    Payloads = {owner}
    due <- DueAt1
    horizon <- DueAt1
    ProfileTerm = 2
    AssessmentTerm = 1
    MaxTime = 2
    MaxProfiles = 2
    MaxAssessments = 2
    MaxAllocations = 2
INVARIANTS
    RangesStayAuthentic
    OneRowPerFingerprint
    OnlyEarlyRowsAreRefused
PROPERTIES
    FreshMeansUndisturbed
SYMMETRY ProcSymmetry
