---------------------------- MODULE MCScenarios ----------------------------
EXTENDS Scenarios, TLC

Symmetry == Permutations(ScenarioIds) \cup Permutations(Requests) \cup Permutations(Keys)
=============================================================================
