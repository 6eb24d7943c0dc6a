CONSTANTS
    Docs = {d1, d2, d3}
    Groups = {g1, g2, g3}
    Titles = {a, b}
    Threads = {t1, t2}
    NoGroup = NoGroup
    MaxRevision = 2
    Explicit = {2}
    MaxDisturbed = 0
    MaxDrift = 1
SPECIFICATION Spec
SYMMETRY Symmetry
INVARIANTS
    GroupsCounted
    NoOrphan
    SameTitle
    AssignedRevisionsDistinct
PROPERTY GroupsKept
CHECK_DEADLOCK FALSE
