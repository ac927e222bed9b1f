--------------------------- MODULE MCIpfsPublisher ---------------------------
EXTENDS IpfsPublisher, TLC

Symmetry == Permutations(Publishers) \cup Permutations(Digests)
=============================================================================
