CONSTANTS
    Priorities = {p1, p2, p3}
    Items = {i1, i2, i3, i4}
    MaxLevel = 3
    MaxRoot = 3
    MinLast = 0
    Depth = 2
SPECIFICATION Spec
SYMMETRY IdSymmetry
INVARIANTS
    TypeOK
    LevelsUnique
    Numbered
PROPERTIES
    PriorityOrderKept
    SiblingOrderKept
