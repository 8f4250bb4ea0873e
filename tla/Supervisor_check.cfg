SPECIFICATION FairSpec
CONSTANTS
    MaxSignals = 2
INVARIANTS
    ChildrenStopped
    ExitTells
    ServerHeldBack
PROPERTIES
    TeardownCompletes
    ServerStarts
