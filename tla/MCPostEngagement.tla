-------------------------- MODULE MCPostEngagement --------------------------
\* TLC instances of PostEngagement.
EXTENDS PostEngagement, TLC

Symmetry == Permutations(Users) \cup Permutations(Posts)
              \cup Permutations(Slots)
=============================================================================
