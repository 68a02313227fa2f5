--------------------------- MODULE MCCounterparts ---------------------------
(***************************************************************************)
(* An instance of Counterparts for TLC.                                    *)
(***************************************************************************)
EXTENDS CounterpartsProps, TLC

CONSTANTS u1, u2, s1, s2, d1

Symmetry == Permutations({s1, s2}) \union Permutations({u1, u2})
=============================================================================
