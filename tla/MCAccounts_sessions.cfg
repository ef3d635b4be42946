SPECIFICATION Spec
CONSTANTS
    Tokens = {t1}
    Requests = {r1, r2, r3}
    MaxPassword = 3
    MaxBalance = 1
    None = None
SYMMETRY Slots
INVARIANTS TypeOK NoSessionSurvivesReset BonusOnce AuditSaysWhoIsBanned
CHECK_DEADLOCK FALSE
