----------------------- MODULE LoopCoordinatorProps -----------------------
(***************************************************************************)
(* Properties of LoopCoordinator.                                          *)
(***************************************************************************)
EXTENDS LoopCoordinator

Holding == {l \in Loops : pc[l] = "holding"}

\* Two loops of one Subject never run at once, although the lock is released
\* by name and a yielder writes itself back as holder
\* (coordinator.py _release_if_holder, yield_to_higher_priority).
MutualExclusion == \A l, m \in Holding : l = m

\* The recorded holder is a loop that really runs, under the name and priority
\* it asked with: no path leaves the lock taken by nobody or by somebody else.
HolderIsRunning ==
  /\ holder # NoName => Holding # {}
  /\ \A l \in Holding : holder = Name[l] /\ holderPriority = Priority[l]

\* A reservation always belongs to a loop that is still inside its yield: a
\* reservation left behind would lock out every waiter of its priority.
ReservationIsLive == yieldingHolder # NoLoop => Yielding(yieldingHolder)

\* Scheduled loops enter in order of priority and, within one priority, in
\* order of arrival, also while a yield is in progress.
EntersInOrder ==
  \A l, w \in Loops :
    /\ pc[l] = "waiting" /\ pc'[l] = "holding"
    /\ pc[w] = "waiting" /\ w # l
    => Before(l, w)
QueueOrder == [][EntersInOrder]_vars

\* While a loop yields, a queued loop gets in ahead of it only with a strictly
\* higher priority: a yield never loses the slot to an equal or lower loop.
PassesYielders ==
  \A y, l \in Loops :
    Yielding(y) /\ pc[l] = "waiting" /\ pc'[l] = "holding"
    => Priority[l] < Priority[y]
YieldSlotKept == [][PassesYielders]_vars

\* Who enters next, with yields in progress or not (coordinator.py
\* _can_acquire): the minimum of the queue, and past a yielder only those it
\* yielded to.
EntryOrder == [][EntersInOrder /\ PassesYielders]_vars

\* Nobody of a higher priority is active.
Quiet(l) == \A h \in Loops : Priority[h] < Priority[l] => pc[h] = "idle"

\* A queued loop gets the lock once the loops above it fall silent: equal
\* loops cannot starve it, nor can a reservation outlive its yield.
WaiterEventuallyHolds ==
  \A l \in Blocking :
    <>[]Quiet(l) => (pc[l] = "waiting" ~> pc[l] = "holding")

\* A loop that yielded gets the lock back once the loops above it fall silent.
YielderEventuallyResumes ==
  \A l \in Yielders :
    <>[]Quiet(l) => (Yielding(l) ~> pc[l] = "holding")

\* The waiters wait for the reservation of the yielder and the yielder for the
\* waiters above it: neither starves the other.
NoLoopStarves == WaiterEventuallyHolds /\ YielderEventuallyResumes

\* The coordinator implements the plain lock of the Subject.
Lock == INSTANCE SubjectLock WITH inside <- Holding
ImplementsSubjectLock == Lock!Spec
=============================================================================
