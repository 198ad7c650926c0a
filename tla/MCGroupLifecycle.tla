-------------------------- MODULE MCGroupLifecycle --------------------------
EXTENDS GroupLifecycle, TLC

CONSTANTS u1, m1, o1

\* A member of the organization and a manager outside it.
MCHome == u1 :> o1 @@ m1 :> None

Symmetry == Permutations(Groups) \cup Permutations(Evals) \cup Permutations(Requests)
=============================================================================
