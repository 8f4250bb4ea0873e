SPECIFICATION FairSpec
CONSTANTS
    a = a
    b = b
    p1 = p1
    p2 = p2
    Absent = absent
    Garbled = garbled
    Modes <- TwoModes
    Configs = {a, b}
    Dims <- TwoDims
    Paths = {p1, p2}
    MaxVersion = 2
    Persistence = {TRUE, FALSE}
    MaxChanges = 1
    MaxEdits = 1
    MaxStarts = 3
INVARIANTS
    Replica
    FingerprintTells
PROPERTIES
    ChangeConfirmed
    RiskIsTaken
    EventuallyInSync
CHECK_DEADLOCK FALSE
