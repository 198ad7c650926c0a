--------------------------- MODULE MCAnnotations ---------------------------
EXTENDS Annotations, TLC

CONSTANTS k1, l1, l2

MCRank == k1 :> 1 @@ l1 :> 0 @@ l2 :> 2
Symmetry == Permutations(AnnotationIds) \cup Permutations(Requests) \cup Permutations(Words)
=============================================================================
