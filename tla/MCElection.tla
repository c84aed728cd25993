------------------------------ MODULE MCElection ------------------------------
EXTENDS LeaderElection, TLC

Symmetry == Permutations(Holders) \cup Permutations(Values)
=============================================================================
