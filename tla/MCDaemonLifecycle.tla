------------------------- MODULE MCDaemonLifecycle -------------------------
(***************************************************************************)
(* Instances of DaemonLifecycle for TLC.                                   *)
(***************************************************************************)
EXTENDS DaemonLifecycleProps

CONSTANTS dead, p1, p2, r1
=============================================================================
