---------------------------- MODULE MCOnboarding ----------------------------
(* Model-checking instances of Onboarding.                                  *)
EXTENDS Onboarding, TLC

Symmetry == Permutations(Txs) \cup Permutations(Verifications) \cup Permutations(Platform)
                \cup Permutations(Group) \cup Permutations(Resets)
=============================================================================
