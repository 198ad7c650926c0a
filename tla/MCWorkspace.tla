---------------------------- MODULE MCWorkspace ----------------------------
EXTENDS Workspace, TLC

Symmetry == Permutations(Convs) \cup Permutations(Groups) \cup Permutations(CompletionIds)
              \cup Permutations(Requests) \cup Permutations(Texts)
=============================================================================
