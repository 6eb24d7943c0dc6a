CONSTANTS
    Complaints = {c1, c2, c3}
    Users = {u1}
    Statuses = {Registered, Closed}
    InitialStatus = Registered
    Memos = {none, memo}
    NoMemo = none
    Undefined = undefined
    Threads = {t1, t2}
    MaxTime = 4
    MaxYear = 2
    MaxAssigns = 1
    NoOne = NoOne
SPECIFICATION Spec
SYMMETRY IdSymmetry
INVARIANTS
    RefsInOrder
    StatusHistory
PROPERTY HistoryKept
