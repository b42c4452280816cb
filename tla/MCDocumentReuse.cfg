SPECIFICATION Spec
CONSTANTS
    q1 = q1
    q2 = q2
    contract = contract
    body = body
    p1 = p1
    p2 = p2
    Procs = {p1}
    Syncs = {p1}
    Readers = {}
    Docs = {q1, q2, contract}
    Contents = {body}
    Discoverable <- Found
    kindOf <- Kinds
    published <- PublishedAt
    periodEnd <- PeriodEnds
    factsIn <- Facts
    due <- DueAt
    Parts = 2
    MayStop = FALSE
    MaxTime = 1
    MaxRefreshes = 2
    MaxVersion = 1
    MaxClassifications = 0
PROPERTY SyncEndsItsRefresh
