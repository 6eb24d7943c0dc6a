SPECIFICATION FairSpec
CONSTANTS
    Calls = {c1, c2}
    None = None
    c1 = c1
    c2 = c2
    c3 = c3
INVARIANTS TypeOK FormatUnderstood OnePlace
PROPERTIES EveryCallAnswered KeepsPromise
CHECK_DEADLOCK FALSE
