------------------------- MODULE MCComplaintRegister -------------------------
EXTENDS ComplaintRegister, TLC

IdSymmetry == Permutations(Complaints) \cup Permutations(Users) \cup Permutations(Threads)
=============================================================================
