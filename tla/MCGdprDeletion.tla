--------------------------- MODULE MCGdprDeletion ---------------------------
\* TLC instances of GdprDeletion.
EXTENDS GdprDeletion, TLC

Symmetry == Permutations(Users) \cup Permutations(Slots)
              \cup Permutations(JobIds)
=============================================================================
