------------------------- MODULE MCDuplicationGroups -------------------------
EXTENDS DuplicationGroups, TLC

IdSymmetry == Permutations(Complaints) \cup Permutations(Groups)
=============================================================================
