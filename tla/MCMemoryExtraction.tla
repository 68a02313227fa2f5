------------------------- MODULE MCMemoryExtraction -------------------------
(***************************************************************************)
(* Instances of MemoryExtraction for TLC.                                  *)
(***************************************************************************)
EXTENDS MemoryExtractionProps

\* The last record of session 1 is a tool trace.
LastIsTrace == {<<1, MaxSources>>}
NoTraces == {}
=============================================================================
