-------------------------- MODULE BeliefLifecycle --------------------------
(***************************************************************************)
(* What the belief store promises about atomic beliefs, whoever writes     *)
(* them: the memory tools of a turn, the extraction and the consolidation  *)
(* of drafts, the archiving of expired beliefs (models/enums.py            *)
(* BeliefLifecycle, projections/belief.py supersede_many).                 *)
(*                                                                         *)
(* A belief is formed active or awaiting confirmation, and is retired for  *)
(* good.  It is superseded at most once, by one belief formed in the same  *)
(* transaction, so that a chain of successors never forks.  One that bears *)
(* the label superseded or retracted is not superseded; but a writer that  *)
(* read a belief while it was active may yet archive it, whatever it has   *)
(* become, and one that is archived may still be superseded or retracted.  *)
(***************************************************************************)
EXTENDS Integers

CONSTANT Beliefs   \* ids of atomic beliefs, positive numbers

VARIABLES
  life,       \* lifecycle of each belief
  successor   \* superseded_by, 0 when there is none

Lifecycle == {"absent", "active", "pending", "superseded", "retracted", "archived"}
Retired   == {"superseded", "retracted", "archived"}

\* The lifecycles a transaction may give to a belief that has lifecycle l.
Moves(l) ==
  {l} \cup CASE l = "absent" -> {"active", "pending"}
             [] l \in {"active", "archived"} -> Retired
             [] l \in {"superseded", "retracted"} -> {"archived"}
             [] OTHER -> {}

Init ==
  /\ life = [b \in Beliefs |-> "absent"]
  /\ successor = [b \in Beliefs |-> 0]

\* b is superseded by a belief formed in this very step.
Superseded(b) ==
  /\ life[b] \in {"active", "archived"}
  /\ life'[b] = "superseded"
  /\ successor[b] = 0
  /\ successor'[b] \in Beliefs
  /\ life[successor'[b]] = "absent"
  /\ life'[successor'[b]] = "active"

\* b keeps its successor, and is not superseded without one.
Kept(b) ==
  /\ successor'[b] = successor[b]
  /\ life'[b] \in Moves(life[b])
  /\ life'[b] = "superseded" => life[b] = "superseded"

Transact ==
  /\ life' \in [Beliefs -> Lifecycle]
  /\ successor' \in [Beliefs -> Beliefs \cup {0}]
  /\ \A b \in Beliefs : Superseded(b) \/ Kept(b)

Spec == Init /\ [][Transact]_<<life, successor>>
=============================================================================
