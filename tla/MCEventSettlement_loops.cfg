SPECIFICATION FairSpec
CONSTANTS
    MaxChildren = 4
    Lists = {{1, 2}, {3, 4}}
    Popular = {1}
    Requests = {r1, r2}
    r1 = r1
    r2 = r2
    Takes <- TwoSlots
    None = None
INVARIANTS TypeOK ReportTellsTheTruth
PROPERTIES SiblingsStayIntact EveryRunEnds RerunFinishes
CHECK_DEADLOCK FALSE
