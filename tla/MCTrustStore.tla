----------------------------- MODULE MCTrustStore -----------------------------
EXTENDS TrustStore, TLC

Symmetry == Permutations(Processes) \cup Permutations(Values)
=============================================================================
