----------------------- MODULE MCMemoryConsolidation -----------------------
(***************************************************************************)
(* Instances of MemoryConsolidation for TLC.                               *)
(***************************************************************************)
EXTENDS MemoryConsolidationProps

\* All beliefs are about the same thing.
OneScope == [b \in Beliefs |-> "scope:global"]
=============================================================================
