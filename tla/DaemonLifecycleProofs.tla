----------------------- MODULE DaemonLifecycleProofs -----------------------
(***************************************************************************)
(* Proofs about DaemonLifecycle: type correctness, and, as long as no      *)
(* process dies without giving its lock back, that the runtime paths never *)
(* have two owners.                                                        *)
(***************************************************************************)
EXTENDS DaemonLifecycleProps, TLAPS

-----------------------------------------------------------------------------
(***************************************************************************)
(* Type correctness.                                                       *)
(***************************************************************************)

LEMMA InitTypeOK == Init => TypeOK
BY LifecycleAssumption DEF LifecycleAssumption, Init, TypeOK, Location, Lock

\* The steps of a process before it owns the lock.
LEMMA ContendTypeOK ==
  ASSUME TypeOK, NEW p \in Processes,
         Start(p) \/ Respawn(p) \/ Contend(p)
  PROVE  TypeOK'
<1> USE LifecycleAssumption DEF LifecycleAssumption, TypeOK, Location, Lock,
        main, files, stops, GoTo
<1>1. CASE Start(p)      BY <1>1 DEF Start
<1>2. CASE Respawn(p)    BY <1>2 DEF Respawn
<1>3. CASE ReadStatus(p) BY <1>3 DEF ReadStatus
<1>4. CASE Link(p)       BY <1>4 DEF Link
<1>5. CASE Inspect(p)
  <2>1. seen' \in [Processes -> Processes \cup {Free}]
    BY <1>5 DEF Inspect
  <2>2. pc' \in [Processes -> Location]
    BY <1>5 DEF Inspect
  <2> QED BY <1>5, <2>1, <2>2 DEF Inspect
<1>6. CASE Probe(p)      BY <1>6 DEF Probe
<1>7. CASE Recheck(p)    BY <1>7 DEF Recheck
<1>8. CASE UnlinkStale(p) BY <1>8 DEF UnlinkStale
<1> QED BY <1>1, <1>2, <1>3, <1>4, <1>5, <1>6, <1>7, <1>8 DEF Contend

\* The steps of an owner.
LEMMA RunTypeOK ==
  ASSUME TypeOK, NEW p \in Processes, Run(p) \/ StartupFails(p) \/ Crash(p)
  PROVE  TypeOK'
<1> USE LifecycleAssumption DEF LifecycleAssumption, TypeOK, Location, Lock,
        main, files, stops, GoTo
<1>1. CASE WriteStarting(p) BY <1>1 DEF WriteStarting
<1>2. CASE CreateServer(p)  BY <1>2 DEF CreateServer
<1>3. CASE WriteRunning(p)  BY <1>3 DEF WriteRunning
<1>4. CASE Bind(p)          BY <1>4 DEF Bind
<1>5. CASE StartupFails(p)  BY <1>5 DEF StartupFails
<1>6. CASE LeaveLoop(p)     BY <1>6 DEF LeaveLoop
<1>7. CASE SelectFails(p)   BY <1>7 DEF SelectFails
<1>8. CASE CloseServer(p)   BY <1>8 DEF CloseServer
<1>9. CASE WriteError(p)    BY <1>9 DEF WriteError
<1>10. CASE Drain(p)        BY <1>10 DEF Drain
<1>11. CASE Cleanup(p)      BY <1>11 DEF Cleanup
<1>12. CASE WriteIdle(p)    BY <1>12 DEF WriteIdle
<1>13. CASE Release(p)      BY <1>13 DEF Release
<1>14. CASE Unlock(p)       BY <1>14 DEF Unlock
<1>15. CASE Exit(p)         BY <1>15 DEF Exit
<1>16. CASE Crash(p)        BY <1>16 DEF Crash
<1> QED BY <1>1, <1>2, <1>3, <1>4, <1>5, <1>6, <1>7, <1>8, <1>9, <1>10, <1>11,
           <1>12, <1>13, <1>14, <1>15, <1>16 DEF Run

\* Stop requests move one entry of the stopper table.
LEMMA SetStopperType ==
  ASSUME TypeOK, NEW p \in Processes, NEW r \in Requests,
         NEW there \in {"none", "writing", "setting", "unlinking", "done"},
         SetStopper(p, r, there)
  PROVE  stopper' \in [Processes -> [Requests ->
                        {"none", "writing", "setting", "unlinking", "done"}]]
BY DEF TypeOK, SetStopper

LEMMA RequestTypeOK ==
  ASSUME TypeOK, NEW p \in Processes, NEW r \in Requests,
         RequestStop(p, r) \/ Stopper(p, r)
  PROVE  TypeOK'
<1>1. /\ stopper' \in [Processes -> [Requests ->
                        {"none", "writing", "setting", "unlinking", "done"}]]
      /\ UNCHANGED <<pc, seen, failed, lock, turn>>
  BY SetStopperType
     DEF RequestStop, Stopper, WriteStopping, StopServer, UnlinkSocket, main, files
<1>2. /\ status' \in Processes \cup {Free}
      /\ socket' \in Processes \cup {Free}
  BY DEF TypeOK, RequestStop, Stopper, WriteStopping, StopServer, UnlinkSocket, files
<1>3. /\ listening' \in [Processes -> BOOLEAN]
      /\ stopEvent' \in [Processes -> BOOLEAN]
      /\ stopping' \in [Processes -> BOOLEAN]
  BY DEF TypeOK, RequestStop, Stopper, WriteStopping, StopServer, UnlinkSocket
<1> QED BY <1>1, <1>2, <1>3 DEF TypeOK

LEMMA OtherTypeOK ==
  ASSUME TypeOK, NEW p \in Processes,
         Signal(p) \/ BeginTurn(p) \/ EndTurn(p)
  PROVE  TypeOK'
<1> USE LifecycleAssumption DEF LifecycleAssumption, TypeOK, Lock, main, files, stops
<1>1. CASE Signal(p)    BY <1>1 DEF Signal
<1>2. CASE BeginTurn(p) BY <1>2 DEF BeginTurn
<1>3. CASE EndTurn(p)   BY <1>3 DEF EndTurn
<1> QED BY <1>1, <1>2, <1>3

LEMMA AgeLockTypeOK == TypeOK /\ AgeLock => TypeOK'
BY DEF TypeOK, AgeLock, Lock, main, stops

LEMMA NextTypeOK == TypeOK /\ [Next]_vars => TypeOK'
<1> SUFFICES ASSUME TypeOK, [Next]_vars PROVE TypeOK'
  OBVIOUS
<1>1. CASE UNCHANGED vars
  BY <1>1 DEF TypeOK, vars, main, files, stops
<1>2. ASSUME NEW p \in Processes,
             Start(p) \/ Respawn(p) \/ Contend(p) \/ Run(p) \/ StartupFails(p)
             \/ Crash(p) \/ Signal(p) \/ BeginTurn(p) \/ EndTurn(p)
      PROVE  TypeOK'
  BY <1>2, ContendTypeOK, RunTypeOK, OtherTypeOK
<1>3. ASSUME NEW p \in Processes, NEW r \in Requests,
             RequestStop(p, r) \/ Stopper(p, r)
      PROVE  TypeOK'
  BY <1>3, RequestTypeOK
<1> QED BY <1>1, <1>2, <1>3, AgeLockTypeOK DEF Next

\* Every file and every thread of the daemon stays in its declared set.
THEOREM TypeCorrect == Spec => []TypeOK
<1>1. Init => TypeOK
  BY InitTypeOK
<1>2. TypeOK /\ [Next]_vars => TypeOK'
  BY NextTypeOK
<1> QED BY <1>1, <1>2, PTL DEF Spec

-----------------------------------------------------------------------------
(***************************************************************************)
(* One owner.  Without crashes and leftovers the lock file names exactly   *)
(* the process between its link() and its unlink().  A contender that saw  *)
(* a process q and later finds it gone will not find q's pid in the lock   *)
(* again, so that nobody ever removes a lock that is not its own.          *)
(***************************************************************************)

\* The lock file is the owner's, and unreadable to nobody.
LockIsOwners ==
  /\ lock \in Processes \cup {Free}
  /\ \A p \in Processes : lock = p <=> pc[p] \in Owning

\* What a contender knows of the process it read from the lock.
Knows(p) ==
  /\ pc[p] \notin {"clearing", "unlinking"}
  /\ pc[p] = "probing" =>
       /\ seen[p] \in Processes
       /\ pc[seen[p]] \in Owning \cup {"returned", "gone"}
  /\ pc[p] = "rechecking" =>
       /\ seen[p] \in Processes
       /\ pc[seen[p]] = "gone"

OwnerInv == TypeOK /\ LockIsOwners /\ \A p \in Processes : Knows(p)

\* The main threads do not move.
Still == UNCHANGED <<pc, seen, lock>>

LEMMA StillKeeps == ASSUME OwnerInv, TypeOK', Still PROVE OwnerInv'
BY DEF OwnerInv, LockIsOwners, Knows, Still

\* A process that moves, and neither takes nor gives up the lock, keeps the
\* invariant if it never moves back and knows what it has to know.
LEMMA MoveKeeps ==
  ASSUME OwnerInv, TypeOK', NEW p \in Processes, NEW there \in Location,
         GoTo(p, there), lock' = lock,
         seen' = seen \/ \E q \in Processes : seen' = [seen EXCEPT ![p] = q],
         pc[p] \in Owning <=> there \in Owning,
         pc[p] = "returned" => there \in {"returned", "gone"},
         pc[p] # "gone",
         Knows(p)'
  PROVE  OwnerInv'
<1> USE DEF OwnerInv
<1>1. pc' = [pc EXCEPT ![p] = there]
  BY DEF GoTo
<1>2. LockIsOwners'
  BY <1>1 DEF LockIsOwners, TypeOK
<1>3. ASSUME NEW q \in Processes, q # p PROVE Knows(q)'
  <2>1. pc'[q] = pc[q] /\ seen'[q] = seen[q]
    BY <1>1, <1>3 DEF TypeOK
  <2>2. ASSUME seen[q] \in Processes, pc[seen[q]] \in Owning \cup {"returned", "gone"}
        PROVE  pc'[seen[q]] \in Owning \cup {"returned", "gone"}
    BY <1>1, <2>2 DEF TypeOK
  <2>3. ASSUME seen[q] \in Processes, pc[seen[q]] = "gone"
        PROVE  pc'[seen[q]] = "gone"
    BY <1>1, <2>3 DEF TypeOK
  <2> QED BY <2>1, <2>2, <2>3 DEF Knows
<1> QED BY <1>2, <1>3

LEMMA ContendKeeps ==
  ASSUME OwnerInv, TypeOK', NEW p \in Processes,
         Start(p) \/ Respawn(p) \/ Contend(p)
  PROVE  OwnerInv'
<1> USE LifecycleAssumption DEF LifecycleAssumption
<1>0. TypeOK /\ LockIsOwners /\ Knows(p)
  BY DEF OwnerInv
<1>1. ASSUME NEW there \in {"reading", "linking", "refused"}, GoTo(p, there),
             pc[p] \in {"idle", "reading", "probing", "rechecking", "inspecting"},
             seen' = seen, lock' = lock
      PROVE  OwnerInv'
  <2>1. Knows(p)'
    BY <1>0, <1>1 DEF Knows, GoTo, TypeOK
  <2>2. there \in Location /\ (pc[p] \in Owning <=> there \in Owning)
    BY <1>1 DEF Location, Owning
  <2> QED BY <1>1, <2>1, <2>2, MoveKeeps
<1>2. CASE Start(p)      BY <1>1, <1>2 DEF Start, files
<1>3. CASE Respawn(p)    BY <1>1, <1>3 DEF Respawn, files
<1>4. CASE ReadStatus(p) BY <1>1, <1>4 DEF ReadStatus, files
<1>5. CASE Link(p)
  <2>1. CASE lock = Free
    <3>1. pc' = [pc EXCEPT ![p] = "locked"] /\ lock' = p /\ seen' = seen
      BY <1>5, <2>1 DEF Link, GoTo
    <3>2. \A q \in Processes : pc[q] \notin Owning
      BY <1>0, <2>1 DEF LockIsOwners
    <3>3. LockIsOwners'
      BY <1>0, <3>1, <3>2 DEF LockIsOwners, TypeOK, Owning
    <3>4. ASSUME NEW q \in Processes PROVE Knows(q)'
      BY <1>0, <1>5, <3>1 DEF Knows, OwnerInv, TypeOK, Owning, Link
    <3> QED BY <3>3, <3>4 DEF OwnerInv
  <2>2. CASE lock # Free
    <3>1. GoTo(p, "inspecting") /\ seen' = seen /\ lock' = lock
      BY <1>5, <2>2 DEF Link
    <3>2. Knows(p)'
      BY <1>0, <3>1 DEF Knows, GoTo, TypeOK
    <3>3. "inspecting" \in Location /\ pc[p] = "linking"
          /\ (pc[p] \in Owning <=> "inspecting" \in Owning)
      BY <1>5 DEF Link, Location, Owning
    <3> QED BY <3>1, <3>2, <3>3, MoveKeeps
  <2> QED BY <2>1, <2>2
<1>6. CASE Inspect(p)
  <2>1. CASE lock \in Processes
    <3>1. /\ GoTo(p, "probing") /\ lock' = lock
          /\ seen' = [seen EXCEPT ![p] = lock] /\ pc[p] = "inspecting"
      BY <1>6, <2>1 DEF Inspect, files
    <3>2. pc[lock] \in Owning /\ lock # p
      BY <1>0, <2>1, <3>1 DEF LockIsOwners, Owning
    <3>3. Knows(p)'
      BY <1>0, <2>1, <3>1, <3>2 DEF Knows, GoTo, TypeOK
    <3>4. "probing" \in Location /\ (pc[p] \in Owning <=> "probing" \in Owning)
      BY <3>1 DEF Location, Owning
    <3> QED BY <2>1, <3>1, <3>3, <3>4, MoveKeeps
  <2>2. CASE lock \notin Processes
    <3>1. lock # Stale
      BY <1>0, <2>2 DEF LockIsOwners
    <3> QED BY <1>1, <1>6, <2>2, <3>1 DEF Inspect, files
  <2> QED BY <2>1, <2>2
<1>7. CASE Probe(p)
  <2>1. CASE IsPidRunning(seen[p])
    BY <1>1, <1>7, <2>1 DEF Probe, files
  <2>2. CASE ~IsPidRunning(seen[p])
    <3>1. /\ GoTo(p, "rechecking") /\ lock' = lock /\ seen' = seen
          /\ pc[p] = "probing"
      BY <1>7, <2>2 DEF Probe, files
    <3>2. seen[p] \in Processes /\ pc[seen[p]] = "gone"
      BY <1>0, <2>2, <3>1 DEF Knows, IsPidRunning, Owning
    <3>3. Knows(p)'
      BY <1>0, <3>1, <3>2 DEF Knows, GoTo, TypeOK
    <3>4. "rechecking" \in Location
          /\ (pc[p] \in Owning <=> "rechecking" \in Owning)
      BY <3>1 DEF Location, Owning
    <3> QED BY <3>1, <3>3, <3>4, MoveKeeps
  <2> QED BY <2>1, <2>2
<1>8. CASE Recheck(p)
  <2>1. pc[p] = "rechecking"
    BY <1>0, <1>8 DEF Recheck, Knows
  <2>2. lock # seen[p]
    BY <1>0, <2>1 DEF Knows, LockIsOwners, Owning
  <2> QED BY <1>1, <1>8, <2>1, <2>2 DEF Recheck, files
<1>9. CASE UnlinkStale(p)
  BY <1>0, <1>9 DEF UnlinkStale, Knows
<1> QED BY <1>2, <1>3, <1>4, <1>5, <1>6, <1>7, <1>8, <1>9 DEF Contend

LEMMA RunKeeps ==
  ASSUME OwnerInv, TypeOK', NEW p \in Processes, Run(p) \/ StartupFails(p)
  PROVE  OwnerInv'
<1> USE LifecycleAssumption DEF LifecycleAssumption
<1>0. TypeOK /\ LockIsOwners /\ Knows(p)
  BY DEF OwnerInv
<1>1. ASSUME NEW there \in Owning, GoTo(p, there), pc[p] \in Owning,
             seen' = seen, lock' = lock
      PROVE  OwnerInv'
  <2>1. Knows(p)'
    BY <1>0, <1>1 DEF Knows, GoTo, TypeOK, Owning
  <2>2. there \in Location /\ pc[p] # "gone" /\ pc[p] # "returned"
    BY <1>1 DEF Location, Owning
  <2> QED BY <1>1, <2>1, <2>2, MoveKeeps
<1> DEFINE Inside ==
      \/ WriteStarting(p) \/ CreateServer(p) \/ WriteRunning(p) \/ Bind(p)
      \/ LeaveLoop(p) \/ SelectFails(p) \/ CloseServer(p) \/ WriteError(p)
      \/ Drain(p) \/ Cleanup(p) \/ WriteIdle(p) \/ StartupFails(p)
<1>2. CASE Inside
  <2>1. seen' = seen /\ lock' = lock /\ pc[p] \in Owning
    BY <1>2 DEF WriteStarting, CreateServer, WriteRunning, Bind, LeaveLoop,
         SelectFails, CloseServer, WriteError, Drain, Cleanup, WriteIdle,
         StartupFails, files, Owning
  <2>2. \E there \in Owning : GoTo(p, there)
    BY <1>2 DEF WriteStarting, CreateServer, WriteRunning, Bind, LeaveLoop,
         SelectFails, CloseServer, WriteError, Drain, Cleanup, WriteIdle,
         StartupFails, Owning
  <2> QED BY <2>1, <2>2, <1>1
<1>3. CASE Release(p)
  <2>1. pc[p] = "releasing" /\ seen' = seen /\ lock' = lock
    BY <1>3 DEF Release, files
  <2>2. lock = p
    BY <1>0, <2>1 DEF LockIsOwners, Owning
  <2> QED BY <1>1, <1>3, <2>1, <2>2 DEF Release, Owning
<1>4. CASE Unlock(p)
  <2>1. /\ pc[p] = "unlocking" /\ lock' = Free /\ seen' = seen
        /\ pc' = [pc EXCEPT ![p] = "returned"]
    BY <1>4 DEF Unlock, GoTo
  <2>2. lock = p
    BY <1>0, <2>1 DEF LockIsOwners, Owning
  <2>3. LockIsOwners'
    BY <1>0, <2>1, <2>2 DEF LockIsOwners, TypeOK, Owning
  <2>4. ASSUME NEW q \in Processes PROVE Knows(q)'
    BY <1>0, <2>1 DEF Knows, OwnerInv, TypeOK, Owning
  <2> QED BY <2>3, <2>4 DEF OwnerInv
<1>5. CASE Exit(p)
  <2>1. /\ pc[p] = "returned" /\ lock' = lock /\ seen' = seen
        /\ GoTo(p, "gone")
    BY <1>5 DEF Exit, files
  <2>2. Knows(p)'
    BY <1>0, <2>1 DEF Knows, GoTo, TypeOK
  <2>3. "gone" \in Location /\ (pc[p] \in Owning <=> "gone" \in Owning)
    BY <2>1 DEF Location, Owning
  <2> QED BY <2>1, <2>2, <2>3, MoveKeeps
<1> QED BY <1>2, <1>3, <1>4, <1>5 DEF Run

LEMMA NextKeeps ==
  ASSUME ~CanCrash, OwnerInv, [Next]_vars PROVE OwnerInv'
<1>1. TypeOK'
  BY NextTypeOK DEF OwnerInv
<1>2. CASE UNCHANGED vars
  BY <1>1, <1>2, StillKeeps DEF Still, vars, main, files
<1>3. ASSUME NEW p \in Processes,
             Start(p) \/ Respawn(p) \/ Contend(p) \/ Run(p) \/ StartupFails(p)
      PROVE  OwnerInv'
  BY <1>1, <1>3, ContendKeeps, RunKeeps
<1>4. ASSUME NEW p \in Processes, Crash(p) PROVE OwnerInv'
  BY <1>4 DEF Crash
<1>5. ASSUME NEW p \in Processes, Signal(p) \/ BeginTurn(p) \/ EndTurn(p)
      PROVE  OwnerInv'
  BY <1>1, <1>5, StillKeeps DEF Signal, BeginTurn, EndTurn, Still, main, files
<1>6. ASSUME NEW p \in Processes, NEW r \in Requests,
             RequestStop(p, r) \/ Stopper(p, r)
      PROVE  OwnerInv'
  BY <1>1, <1>6, StillKeeps
     DEF RequestStop, Stopper, WriteStopping, StopServer, UnlinkSocket, Still,
         main, files
<1>7. CASE AgeLock
  BY <1>7, LifecycleAssumption
     DEF AgeLock, OwnerInv, LockIsOwners, LifecycleAssumption
<1> QED BY <1>2, <1>3, <1>4, <1>5, <1>6, <1>7 DEF Next

\* As long as every process gives its lock back, for any number of processes
\* that start, are refused, are stopped and fail in any interleaving, the
\* runtime paths have at most one owner.
THEOREM SingleOwnerHolds ==
  ASSUME ~CanCrash, Leftovers = {Free} PROVE Spec => []SingleOwner
<1>1. Init => OwnerInv
  BY InitTypeOK, LifecycleAssumption
     DEF Init, OwnerInv, LockIsOwners, Knows, Owning, LifecycleAssumption
<1>2. OwnerInv /\ [Next]_vars => OwnerInv'
  BY NextKeeps
<1>3. OwnerInv => SingleOwner
  BY DEF OwnerInv, LockIsOwners, SingleOwner
<1> QED BY <1>1, <1>2, <1>3, PTL DEF Spec
=============================================================================
