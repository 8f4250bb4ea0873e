SPECIFICATION FairSpec
CONSTANTS
    Rows = {r1, r2}
    Poller = poller
    Handlers = {h1}
    Searches = {s1}
    Refresher = refresher
    HasMarker = TRUE
    LockWait = 1
    MaxLost = 1
    MaxOutages = 1
    Steady = {"late", "twice", "lookup", "early", "file"}
    Missing = {"file", "twice"}
    MaxClock = 2
    MaxChanges = 2
INVARIANTS
    InUseIsOpen
    ClosedForGood
    ClientsBounded
PROPERTIES
    NeverRollsBack
    EventuallyKnown
    ShutdownCompletes
CHECK_DEADLOCK FALSE
