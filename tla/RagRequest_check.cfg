SPECIFICATION FairSpec
CONSTANTS
    K = 2
    Factor = 2
    MaxIter = 3
    Candidates = {0, 3}
    Limits = {3, 6, 9, 24}
    MinCall = 3
    Prompt = 1
    Listing = 2
    MaxParts = 3
INVARIANTS
    BudgetRespected
    CallsBounded
    SourcesWereGiven
    NoticeHonest
PROPERTIES
    Answered
