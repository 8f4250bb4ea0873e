SPECIFICATION FairSpec
CONSTANTS
    q1 = q1
    q2 = q2
    s1 = s1
    s2 = s2
    s3 = s3
    Requests = {q1, q2}
    Refresher = refresher
    Signals = {s1, s2, s3}
    TooLarge = {s3}
    NoLabel = none
    MaxChanges = 2
    MaxFailures = 1
INVARIANTS
    ListedForVersion
PROPERTIES
    KeepsPromise
    RequestAnswered
    EventuallyRefreshed
