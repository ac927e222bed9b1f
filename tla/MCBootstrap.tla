----------------------------- MODULE MCBootstrap -----------------------------
(* Two coordinators on one journal, short transactions, both kinds of      *)
(* failure of Save, crashes and power loss.                                *)
EXTENDS Bootstrap, TLC

Symmetry == Permutations(Coordinators) \cup Permutations(TxIDs)
                \cup Permutations(Digests)
=============================================================================
