SPECIFICATION CompareSpec
CONSTANTS
    Lines <- SomeLines
    Short = "s"
    Mask <- SomeMasks
    Within <- SomeWithin
    Words <- SomeWords
    Topical = {"b", "c"}
    Stores <- SomeStores
    Updates <- SomeUpdates
    Budgets = {2, 9}
    EdgeLines = 3
    RunningLines = 2
    MaxPairings = 3
    Substantial = 2
INVARIANT EdgesAreElsewhere
CHECK_DEADLOCK FALSE
