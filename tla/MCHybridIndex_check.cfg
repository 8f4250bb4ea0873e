SPECIFICATION FairSpec
CONSTANTS
    c1 = c1
    c2 = c2
    q1 = q1
    q2 = q2
    Chunks = {c1, c2}
    Pages <- TwoPages
    Queries = {q1, q2}
    Refresher = refresher
    HasMarker = TRUE
    Timed = TRUE
    MaxChunks = 1
    MaxChanges = 1
    MaxStamp = 2
    MaxFailures = 1
INVARIANTS
    ServedForVersion
    FreshWhenSignalFaithful
    NothingRunsAfterClose
PROPERTIES
    KeepsPromise
    QueryAnswered
    EventuallyFresh
CHECK_DEADLOCK FALSE
