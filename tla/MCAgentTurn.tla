---------------------------- MODULE MCAgentTurn ----------------------------
(***************************************************************************)
(* An instance of AgentTurn for TLC.                                       *)
(***************************************************************************)
EXTENDS AgentTurnProps

CONSTANTS c1, c2

\* Texts, structures, and errors with and without details, small and large.
Outputs ==
  {Output("text", [text |-> n]): n \in {2, 12, 40}}
  \union {Output("mapping", [content |-> n, path |-> 2]): n \in {2, 12, 40}}
  \union {Output("mapping", [code |-> 2, message |-> m]): m \in {2, 12, 40}}
  \union {Output("mapping", [code |-> 2, message |-> m, details |-> d]): m \in {2, 12}, d \in {2, 12, 40}}

\* The calls of a turn: up to four, of two kinds.
Calls == UNION {[1..n -> [name: {"read_file"}, arguments: {"a", "b"}]]: n \in 1..4}

Limits == {1, 4, 8, 10, 16, 30, 60}

\* The length of the marker grows with the digits of what it counts.
Marker(omitted) == IF omitted < 10 THEN 4 ELSE 5
=============================================================================
