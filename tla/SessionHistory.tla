--------------------------- MODULE SessionHistory ---------------------------
(***************************************************************************)
(* What the compaction of a session promises, whatever turns, handovers,   *)
(* failures and crashes do: nothing that was said is ever out of the       *)
(* model's sight.  A message stands in the prompt word for word, or the    *)
(* handover that replaced it has read it.                                  *)
(***************************************************************************)
VARIABLES
  said,      \* the messages stored in the session
  verbatim,  \* those the next prompt shows as they are
  gist       \* those a handover summary stands for

vars == <<said, verbatim, gist>>

Init ==
  /\ said = {}
  /\ verbatim = {}
  /\ gist = {}

\* A message is stored and shown.
Say ==
  \E m \in said':
    /\ m \notin said
    /\ said' = said \union {m}
    /\ verbatim' = verbatim \union {m}
    /\ UNCHANGED gist

\* A handover replaces all that is shown, and only what it has read.
HandOver ==
  /\ verbatim' = {}
  /\ gist' = gist \union verbatim
  /\ UNCHANGED said

Next ==
  \/ Say
  \/ HandOver

Spec == Init /\ [][Next]_vars
=============================================================================
