-------------------------- MODULE MCTrustPublication --------------------------
EXTENDS TrustPublication, TLC
=============================================================================
