----------------------------- MODULE MCReviews -----------------------------
EXTENDS Reviews, TLC

Symmetry == Permutations(ReviewIds) \cup Permutations(Requests) \cup Permutations(Flags)
=============================================================================
