---------------------------- MODULE MCTrustService ----------------------------
EXTENDS TrustService, TLC

CONSTANTS t1, t2, sa, sb

(* Two requests served by one process, or by two that share the store.     *)
OneHost == [t \in Threads |-> sa]
TwoHosts == [t \in Threads |-> IF t = t1 THEN sa ELSE sb]

Symmetry == Permutations(Grants) \cup Permutations(Principals)
=============================================================================
