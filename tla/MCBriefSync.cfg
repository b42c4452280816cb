\* One brief of two stages, with everything that may go wrong.
CONSTANTS
    g1 = g1
    g2 = g2
    s1 = s1
    s2 = s2
    s3 = s3
    field = field
    profile = profile
    holdings = holdings
    nav = nav
    Runs = {r1}
    Refs = {g1, g2}
    FieldIds = {field, profile, holdings, nav}
    FieldOf <- TwoFieldOf
    Sections = {s1, s2, s3}
    SectionsOf <- TwoSectionsOf
    Stages <- TwoStages
    OtherWork = {nav}
    NoEntry = NoEntry
    StartTimes = {0}
    MaxTime = 2
    RapidSpan = 1
    DeepSpan = 1
    Cooldown = 2
    Answers = {"parsed", "unpublishable", "transient", "unavailable"}
    Disruptions = {"interrupt", "fault", "abort", "crash"}
SPECIFICATION MCSpec
INVARIANTS
    BriefEndsItsRequest
    CompleteBriefHasEveryField
    StuckOnlyByUnusedRetry
CHECK_DEADLOCK FALSE
