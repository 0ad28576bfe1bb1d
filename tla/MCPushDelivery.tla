--------------------------- MODULE MCPushDelivery ---------------------------
\* TLC instances of PushDelivery.
EXTENDS PushDelivery, TLC

Symmetry == Permutations(Users) \cup Permutations(Tokens)
              \cup Permutations(Jobs)
=============================================================================
