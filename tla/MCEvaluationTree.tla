-------------------------- MODULE MCEvaluationTree --------------------------
(* Small instances of EvaluationTree for TLC. *)
EXTENDS EvaluationTree, TLC

\* Rows and requests of one kind are interchangeable.
Symmetry == Permutations(Convs) \cup Permutations(Groups) \cup Permutations(Txs)
              \cup Permutations(Assignments)

=============================================================================
