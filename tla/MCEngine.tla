------------------------------ MODULE MCEngine ------------------------------
(***************************************************************************)
(* An instance of the engine for TLC: two symbols, which may change their  *)
(* names, and two orders.                                                  *)
(***************************************************************************)
EXTENDS EngineProperties, TLC

CONSTANTS s1, s2, n1, n2, o1, o2

Symmetry == Permutations({s1, s2}) \union Permutations({n1, n2}) \union Permutations({o1, o2})
=============================================================================
