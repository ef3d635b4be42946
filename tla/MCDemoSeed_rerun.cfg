SPECIFICATION Spec
CONSTANTS
    p1 = p1
    p2 = p2
    e1 = e1
    e2 = e2
    b1 = b1
    b2 = b2
    Players <- DemoPlayers
    Events <- DemoEvents
    Bets <- DemoBets
    Twice = 2
INVARIANTS SchemaIsAtRevision NothingOwedIsDropped NothingSeededTwice SuccessIsComplete NoRunRaises
CHECK_DEADLOCK FALSE
