----------------------------- MODULE MCReminders -----------------------------
EXTENDS Reminders, TLC

IdSymmetry == Permutations(Ids)
=============================================================================
