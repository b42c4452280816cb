\* The deadline is at 1 and the clock runs to 2, so that every step can come
\* before, at and after the deadline.
CONSTANTS
    r0 = r0
    g1 = g1
    g2 = g2
    s1 = s1
    s2 = s2
    f1 = f1
    f2 = f2
    NoEntry = NoEntry
    Runs = {r0, r1}
    Refs = {g1, g2}
    FieldIds = {f1, f2}
    FieldOf <- TwoFieldOf
    Sections = {s1, s2}
    SectionsOf <- TwoSectionsOf
    Plan <- TwoPlan
    Earlier = {"none", "success", "transient_failure"}
    Forces = {FALSE, TRUE}
    MaxTime = 2
    RapidSpan = 1
    DeepSpan = 1
    Cooldown = 1
    Answers = {"parsed", "unpublishable", "transient", "unavailable"}
    Disruptions = {"interrupt", "fault", "abort", "crash"}
SPECIFICATION MCSpec
INVARIANTS
    EndedIsTerminal
    CompleteMeansAudited
    PublishedWithAudit
    LateMeansExpired
PROPERTIES
    NothingPublishedAfterClose
    RequestEnds
CHECK_DEADLOCK FALSE
