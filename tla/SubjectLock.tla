---------------------------- MODULE SubjectLock ----------------------------
(***************************************************************************)
(* What the loop coordinator promises to the loops of one Subject: at any  *)
(* moment at most one of them is inside.  Nothing is said here about who   *)
(* enters next; LoopCoordinator refines this specification with priorities,*)
(* a queue, refusals and cooperative yields.                               *)
(***************************************************************************)

CONSTANT Loops          \* the loops (threads) that share the Subject

VARIABLE inside         \* the loops currently inside the critical section

TypeOK == inside \subseteq Loops

Init == inside = {}

Enter(l) == /\ inside = {}
            /\ inside' = {l}

Leave(l) == /\ inside = {l}
            /\ inside' = {}

Next == \E l \in Loops : Enter(l) \/ Leave(l)

Spec == Init /\ [][Next]_inside
=============================================================================
