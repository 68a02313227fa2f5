------------------------- MODULE MCLoopCoordinator -------------------------
(***************************************************************************)
(* Instances of LoopCoordinator for TLC.                                   *)
(***************************************************************************)
EXTENDS LoopCoordinatorProps

CONSTANTS background, consolidation, drive, turn1, turn2

\* Two consolidation loops that yield, a drive loop and two foreground
\* turns that share the loop name "runtime_turn".
ScheduledLoops == {background, consolidation, drive, turn1, turn2}
ScheduledBlocking == {background, consolidation, drive}
ScheduledYielders == {background, consolidation}

MCPriority ==
  [l \in Loops |->
     IF l \in {turn1, turn2} THEN 0 ELSE IF l = drive THEN 1 ELSE 2]

MCName == [l \in Loops |-> IF l \in {turn1, turn2} THEN "runtime_turn" ELSE l]
=============================================================================
