SPECIFICATION FairSpec
CONSTANTS
    m1 = m1
    Markets = {m1}
    Categories <- OneCategory
    Runs = {r1, r2}
    Winners = {"YES"}
    Overrides = {"NO"}
    None = None
INVARIANTS TypeOK OnTimeRunHoldsLock
PROPERTIES AutoSpec MirrorFollowsOracle
CHECK_DEADLOCK FALSE
