------------------------- MODULE MCInternalDocuments -------------------------
EXTENDS InternalDocuments, TLC

Symmetry ==
    Permutations(Docs) \cup Permutations(Groups) \cup Permutations(Titles)
        \cup Permutations(Threads)
=============================================================================
