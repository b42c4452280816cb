\* One brief of one stage whose source answers; only Ctrl-C may disturb it.
CONSTANTS
    g1 = g1
    g2 = g2
    s1 = s1
    s2 = s2
    s3 = s3
    field = field
    profile = profile
    holdings = holdings
    nav = nav
    Runs = {r1}
    Refs = {g1}
    FieldIds = {field, profile, nav}
    FieldOf <- OneFieldOf
    Sections = {s1}
    SectionsOf <- OneSectionsOf
    Stages <- OneStage
    OtherWork = {nav}
    NoEntry = NoEntry
    StartTimes = {0}
    MaxTime = 2
    RapidSpan = 1
    DeepSpan = 1
    Cooldown = 2
    Answers = {"parsed", "unpublishable", "transient", "unavailable"}
    Disruptions = {"interrupt"}
SPECIFICATION MCSpec
INVARIANT BriefEndsTerminal
CHECK_DEADLOCK FALSE
