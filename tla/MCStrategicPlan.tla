--------------------------- MODULE MCStrategicPlan ---------------------------
\* A plan small enough for TLC.  The ids of the rows are interchangeable.
EXTENDS StrategicPlan, TLC

IdSymmetry == Permutations(Priorities) \cup Permutations(Items)
=============================================================================
