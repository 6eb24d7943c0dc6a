CONSTANTS
    Complaints = {c1, c2, c3, c4}
    Groups = {g1, g2, g3}
    Threads = {t1}
    NamesSelf = TRUE
    NoGroup = NoGroup
SPECIFICATION Spec
SYMMETRY IdSymmetry
INVARIANTS
    CountCoversMembers
PROPERTIES
    NeverParted
    UpdateJoins
