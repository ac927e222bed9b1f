----------------------------- MODULE MCKeyManager -----------------------------
(***************************************************************************)
(* Two processes, a lifetime identity with its one handle and a            *)
(* certificate authority with two.                                         *)
(***************************************************************************)
EXTENDS KeyManager, TLC

CONSTANTS c1, c2, identity, ca, h1, h2, h3

MCPool == identity :> <<h1>> @@ ca :> <<h2, h3>>

Symmetry == Permutations(Processes)
=============================================================================
