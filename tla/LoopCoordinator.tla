-------------------------- MODULE LoopCoordinator --------------------------
(***************************************************************************)
(* The cooperative lock of src/alpha_agent/cognition/coordinator.py, under *)
(* which every loop of one Subject runs.  Scheduled loops queue in         *)
(* acquire(); foreground turns use try_acquire() and are refused when the  *)
(* lock is busy; a holder gives way only when it calls                     *)
(* yield_to_higher_priority() itself.                                      *)
(*                                                                         *)
(* Every method body runs under one threading.Condition, so each critical  *)
(* section is one action and every wait_for() is the guard of the action   *)
(* that follows it.  Sequence numbers are kept as the order they induce on *)
(* the waiters (queuedBefore); deadlines of pending yield requests are     *)
(* kept as a step (ExpireRequest) that may drop a request at any time.     *)
(***************************************************************************)
EXTENDS Integers, FiniteSets

CONSTANTS
  Loops,      \* threads that use the coordinator
  Blocking,   \* the loops that call acquire(); the others call try_acquire()
  Yielders,   \* the loops that call yield_to_higher_priority() while holding
  Priority,   \* Priority[l]: LoopPriority of the requests of l, lower runs first
  Name,       \* Name[l]: loop_name of the requests of l
  NoLoop,     \* None, where a loop is expected
  NoName,     \* None, where a loop name is expected
  MaxChecks   \* yield checks of one hold (bounds the worker's chunk loop)

\* REACTIVE = 0, DRIVE = 1, CONSOLIDATION = 2
LoopPriority == 0..2
NoPriority == 3

ASSUME LoopAssumption ==
  /\ Blocking \subseteq Loops
  /\ Yielders \subseteq Blocking
  /\ Priority \in [Loops -> LoopPriority]
  /\ NoLoop \notin Loops
  /\ \A l \in Loops : Name[l] # NoName
  /\ MaxChecks \in Nat

VARIABLES
  pc,              \* where each loop is: see Location
  holder,          \* _holder: name of the holding loop
  holderPriority,  \* _holder_priority
  queuedBefore,    \* pairs of _waiters, by increasing sequence number
  pendingYield,    \* priorities in _pending_yield_requests
  yieldingHolder,  \* _yielding_holder
  checks           \* yield checks made during the current hold

vars == <<pc, holder, holderPriority, queuedBefore, pendingYield,
          yieldingHolder, checks>>

\* "handover": inside yield_to_higher_priority(), a higher waiter was queued;
\* "pausing": inside it without one, in the 10 ms window.
Location == {"idle", "waiting", "holding", "handover", "pausing"}

TypeOK ==
  /\ pc \in [Loops -> Location]
  /\ holderPriority \in LoopPriority \cup {NoPriority}
  /\ queuedBefore \subseteq Loops \X Loops
  /\ pendingYield \subseteq LoopPriority
  /\ yieldingHolder \in Loops \cup {NoLoop}
  /\ checks \in [Loops -> 0..MaxChecks]

Init ==
  /\ pc = [l \in Loops |-> "idle"]
  /\ holder = NoName
  /\ holderPriority = NoPriority
  /\ queuedBefore = {}
  /\ pendingYield = {}
  /\ yieldingHolder = NoLoop
  /\ checks = [l \in Loops |-> 0]

-----------------------------------------------------------------------------
Waiters == {l \in Loops : pc[l] = "waiting"}

Yielding(l) == pc[l] \in {"handover", "pausing"}

\* waiter.priority < priority for some queued waiter
HigherWaiter(p) == \E w \in Waiters : Priority[w] < p

\* The key (priority, sequence) of l is smaller than that of w.
Before(l, w) ==
  \/ Priority[l] < Priority[w]
  \/ Priority[l] = Priority[w] /\ <<l, w>> \in queuedBefore

EligibleWaiters ==
  IF yieldingHolder = NoLoop
  THEN Waiters
  ELSE {w \in Waiters : Priority[w] < Priority[yieldingHolder]}

\* Mutation: a yield does not reserve the slot.
CanAcquireUnreserved(l) ==
  /\ holder = NoName
  /\ l \in Waiters
  /\ \A w \in Waiters \ {l} : Before(l, w)

CanAcquire(l) ==
  /\ holder = NoName
  /\ yieldingHolder # NoLoop => Priority[l] < Priority[yieldingHolder]
  /\ l \in EligibleWaiters
  /\ \A w \in EligibleWaiters \ {l} : Before(l, w)

SetHolder(l) ==
  /\ holder' = Name[l]
  /\ holderPriority' = Priority[l]

ClearHolder ==
  /\ holder' = NoName
  /\ holderPriority' = NoPriority

\* A fresh hold of the lock by l: its chunk starts.
StartHold(l) ==
  /\ SetHolder(l)
  /\ checks' = [checks EXCEPT ![l] = 0]

-----------------------------------------------------------------------------
(* acquire(): _enqueue, then wait_for(_can_acquire) and _set_holder.        *)

Enqueue(l) ==
  /\ l \in Blocking
  /\ pc[l] = "idle"
  /\ pc' = [pc EXCEPT ![l] = "waiting"]
  /\ queuedBefore' = queuedBefore \cup (Waiters \X {l})
  /\ UNCHANGED <<holder, holderPriority, pendingYield, yieldingHolder, checks>>

Acquire(l) ==
  /\ pc[l] = "waiting"
  /\ CanAcquire(l)
  /\ pc' = [pc EXCEPT ![l] = "holding"]
  /\ queuedBefore' = {q \in queuedBefore : l \notin {q[1], q[2]}}
  /\ StartHold(l)
  /\ UNCHANGED <<pendingYield, yieldingHolder>>

(* try_acquire(): free, or LockBusy after noting the request.               *)

\* Mutation: a turn enters a busy lock.
TryAcquireBusy(l) ==
  /\ l \in Loops \ Blocking
  /\ pc[l] = "idle"
  /\ pc' = [pc EXCEPT ![l] = "holding"]
  /\ StartHold(l)
  /\ UNCHANGED <<queuedBefore, pendingYield, yieldingHolder>>

TryAcquire(l) ==
  /\ l \in Loops \ Blocking
  /\ pc[l] = "idle"
  /\ holder = NoName
  /\ pc' = [pc EXCEPT ![l] = "holding"]
  /\ StartHold(l)
  /\ UNCHANGED <<queuedBefore, pendingYield, yieldingHolder>>

Refuse(l) ==
  /\ l \in Loops \ Blocking
  /\ pc[l] = "idle"
  /\ holder # NoName
  /\ Priority[l] < holderPriority
  /\ pendingYield' = pendingYield \cup {Priority[l]}
  /\ UNCHANGED <<pc, holder, holderPriority, queuedBefore, yieldingHolder,
                 checks>>

ExpireRequest ==
  /\ \E p \in pendingYield : pendingYield' = pendingYield \ {p}
  /\ UNCHANGED <<pc, holder, holderPriority, queuedBefore, yieldingHolder,
                 checks>>

(* _release_if_holder(): the lock is released by name.                      *)

Release(l) ==
  /\ pc[l] = "holding"
  /\ pc' = [pc EXCEPT ![l] = "idle"]
  /\ IF holder = Name[l]
     THEN ClearHolder
     ELSE UNCHANGED <<holder, holderPriority>>
  /\ UNCHANGED <<queuedBefore, pendingYield, yieldingHolder, checks>>

-----------------------------------------------------------------------------
(* yield_to_higher_priority(): consume the pending requests of a higher     *)
(* priority, then keep the lock, hand it over, or open a short window.      *)

ConsumeRequests(l) ==
  pendingYield' = {p \in pendingYield : p >= Priority[l]}

HasPendingYield(l) == \E p \in pendingYield : p < Priority[l]

CheckYield(l) ==
  /\ l \in Yielders
  /\ pc[l] = "holding"
  /\ checks[l] < MaxChecks
  /\ checks' = [checks EXCEPT ![l] = @ + 1]
  /\ ConsumeRequests(l)

\* A refused turn, nobody queued: True is returned and the lock is kept.
YieldKeep(l) ==
  /\ HasPendingYield(l)
  /\ ~HigherWaiter(Priority[l])
  /\ CheckYield(l)
  /\ UNCHANGED <<pc, holder, holderPriority, queuedBefore, yieldingHolder>>

YieldRelease(l) ==
  /\ HigherWaiter(Priority[l]) \/ ~HasPendingYield(l)
  /\ CheckYield(l)
  /\ pc' = [pc EXCEPT ![l] = IF HigherWaiter(Priority[l])
                             THEN "handover" ELSE "pausing"]
  /\ ClearHolder
  /\ yieldingHolder' = l
  /\ UNCHANGED <<queuedBefore>>

\* Mutation: the reservation outlives the yield.
ResumeReserved(l) ==
  /\ Yielding(l)
  /\ holder = NoName
  /\ pc[l] = "handover" => ~HigherWaiter(Priority[l])
  /\ pc' = [pc EXCEPT ![l] = "holding"]
  /\ SetHolder(l)
  /\ UNCHANGED <<queuedBefore, pendingYield, yieldingHolder, checks>>

\* The yielder takes the lock back.
Resume(l) ==
  /\ Yielding(l)
  /\ holder = NoName
  /\ pc[l] = "handover" => ~HigherWaiter(Priority[l])
  /\ pc' = [pc EXCEPT ![l] = "holding"]
  /\ SetHolder(l)
  /\ yieldingHolder' = NoLoop
  /\ UNCHANGED <<queuedBefore, pendingYield, checks>>

-----------------------------------------------------------------------------
LoopStep(l) ==
  \/ Enqueue(l)
  \/ Acquire(l)
  \/ TryAcquire(l)
  \/ Refuse(l)
  \/ Release(l)
  \/ YieldKeep(l)
  \/ YieldRelease(l)
  \/ Resume(l)

Next == ExpireRequest \/ \E l \in Loops : LoopStep(l)

Spec == Init /\ [][Next]_vars

\* A thread whose wait_for() holds is woken by notify_all() and runs; a
\* holder's with-block ends.  Nothing obliges a loop to ask for the lock.
Fairness ==
  \A l \in Loops : /\ WF_vars(Acquire(l))
                   /\ WF_vars(Resume(l))
                   /\ WF_vars(Release(l))

FairSpec == Spec /\ Fairness
=============================================================================
