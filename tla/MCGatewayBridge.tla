-------------------------- MODULE MCGatewayBridge --------------------------
(***************************************************************************)
(* Instances of GatewayBridge for TLC.                                     *)
(***************************************************************************)
EXTENDS GatewayBridgeProps

CONSTANTS m1, m2, m3, m4, h1, h2

\* All messages belong to one chat, whose turns have to be kept apart, but the
\* commands have a chat of their own.
CommandsApart == [m \in Messages |-> IF m \in Control THEN "commands" ELSE "chat"]
=============================================================================
