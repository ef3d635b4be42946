SPECIFICATION FairSpec
CONSTANTS
    m1 = m1
    Markets = {m1}
    Categories <- OneCategory
    Runs = {r1}
    Winners = {"YES"}
    Overrides = {}
    None = None
PROPERTY MirroredBetsSettle
CHECK_DEADLOCK FALSE
