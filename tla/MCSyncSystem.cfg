CONSTANTS
    g1 = g1
    s1 = s1
    field = field
    profile = profile
    Runs = {r1, r2}
    Refs = {g1}
    FieldIds = {field, profile}
    FieldOf <- MCFieldOf
    Sections = {s1}
    SectionsOf <- MCSectionsOf
    Plan <- MCPlan
    Stages <- MCStages
    OtherWork = {}
    NoEntry = NoEntry
    StartTimes = {0, 1}
    MaxTime = 2
    RapidSpan = 1
    DeepSpan = 1
    Cooldown = 2
    Answers = {"parsed", "transient"}
    Disruptions = {}
SPECIFICATION MCSpec
INVARIANTS
    PublishedWithAudit
    SequentialRequestsHonourCooldown
    BriefsInOrder
PROPERTY ImplementsPromise
SYMMETRY Symmetric
CHECK_DEADLOCK FALSE
