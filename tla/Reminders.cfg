CONSTANTS
    Ids = {r1, r2}
    Increments = {0, 1, 2}
    DayLen = 2
    Midnight = 0
    CronTick = 1
    MaxDay = 4
    Null = Null
SPECIFICATION Spec
SYMMETRY IdSymmetry
INVARIANTS
    TypeOK
    EveryDateMailed
    MailedOnce
