---------------------------- MODULE MCFeedPaging ----------------------------
\* TLC instances of FeedPaging: two posts of one author, one of another.
EXTENDS FeedPaging, TLC

CONSTANTS p1, p2, p3, a1, a2

MCAuthorOf == (p1 :> a1) @@ (p2 :> a1) @@ (p3 :> a2)
Symmetry == Permutations(Readers) \cup Permutations({p1, p2})
=============================================================================
