----------------------- MODULE MemoryExtractionProofs -----------------------
(***************************************************************************)
(* Proofs about MemoryExtraction, for any number of sessions, sources and  *)
(* compact workers, any batch size and any number of mishaps.              *)
(***************************************************************************)
EXTENDS MemoryExtractionProps, TLAPS

USE ExtractionAssumption

(* Type correctness.  A phase belongs to a turn, so that the point of a     *)
(* handover is a stored record, and the worker reads a session it has.      *)

TurnHasPhase == phase # "none" => turn \in Sessions

ReadsSession == pc[backlog] = "reading" => cursor \in Sessions

\* Where a thread has selected a window.
Selected == Location \ {"idle", "eligible", "scanning", "reading"}

HasWindow == \A t \in Threads : pc[t] \in Selected => refs[t] # {}

TypeInv == TypeOK /\ TurnHasPhase /\ ReadsSession /\ HasWindow

\* The ledger's helpers keep it typed.
LEMMA SetProgressType ==
  ASSUME TypeOK, NEW S, NEW status \in Progress, SetProgress(S, status)
  PROVE  progress' \in [Sources -> Progress]
BY DEF TypeOK, SetProgress

LEMMA MarkFailedType ==
  ASSUME TypeOK, NEW t, MarkFailed(t)
  PROVE  /\ progress' \in [Sources -> Progress]
         /\ window' \in [Windows -> Status]
         /\ extracted' \in [Sources -> 0..2]
<1>1. progress' \in [Sources -> Progress]
  BY SetProgressType DEF MarkFailed, Progress
<1> QED BY <1>1 DEF TypeOK, MarkFailed, Status

\* Moving a thread, and ending its attempt, keep the threads typed.
LEMMA GoType ==
  ASSUME TypeOK, NEW t, NEW location \in Location, Go(t, location)
  PROVE  pc' \in [Threads -> Location]
BY DEF TypeOK, Go

LEMMA FinishType ==
  ASSUME TypeOK, NEW t, Finish(t)
  PROVE  /\ pc' \in [Threads -> Location]
         /\ refs' \in [Threads -> SUBSET Sources]
         /\ job' \in [Threads -> SUBSET Sources]
<1>1. pc' \in [Threads -> Location]
  BY GoType DEF Finish, Location
<1> QED BY <1>1 DEF TypeOK, Finish

\* Only the walk over the sessions makes the background worker read.
LEMMA GoReads ==
  ASSUME TypeOK, ReadsSession, NEW t, NEW location, Go(t, location),
         cursor' = cursor, location # "reading" \/ t # backlog
  PROVE  ReadsSession'
BY DEF TypeOK, ReadsSession, Go, Threads

\* A thread keeps the window it selected, and ends without one.
LEMMA GoKeeps ==
  ASSUME TypeOK, HasWindow, NEW t \in Threads, NEW location, Go(t, location),
         refs' = refs, pc[t] \in Selected \/ location \notin Selected
  PROVE  HasWindow'
BY DEF TypeOK, HasWindow, Go

LEMMA FinishKeeps ==
  ASSUME TypeOK, HasWindow, NEW t \in Threads, Finish(t)
  PROVE  HasWindow'
BY DEF TypeOK, HasWindow, Finish, Go, Selected

LEMMA OpenWindowsType ==
  ASSUME TypeInv, NEW T \in SUBSET Threads
  PROVE  OpenWindows(T) \subseteq Windows
<1> SUFFICES ASSUME NEW u \in T, pc[u] \in Working PROVE WindowOf(u) \in Windows
  BY DEF OpenWindows
<1>1. refs[u] # {} /\ refs[u] \subseteq Sources
  BY DEF TypeInv, TypeOK, HasWindow, Working, Selected, Location
<1> QED BY <1>1 DEF WindowOf, Windows

LEMMA MishapType ==
  ASSUME TypeOK, NEW kind, Mishap(kind)
  PROVE  mishaps' \in 0..MaxMishaps
BY DEF TypeOK, Mishap

\* The walk over one session keeps the worker typed.
LEMMA StoredType == \A s : Stored(s) \subseteq Sources
BY DEF Stored

LEMMA ForegroundType ==
  ASSUME TypeInv, Foreground
  PROVE  TypeInv'
<1> USE DEF TypeInv, TypeOK, TurnHasPhase, Phase, ledger, scan
<1>1. ASSUME NEW s \in Sessions, Activate(s) \/ Evict(s) \/ StartTurn(s)
      PROVE  TypeInv'
  BY <1>1 DEF Activate, Evict, StartTurn, ReadsSession, HasWindow
<1>2. CASE AppendSource
  <2>1. turn \in Sessions /\ arrived[turn] + 1 \in 0..MaxSources
    BY <1>2 DEF AppendSource, ExtractionAssumption
  <2> QED BY <1>2, <2>1 DEF AppendSource, ReadsSession, HasWindow
<1>3. CASE EndTurn
  BY <1>3 DEF EndTurn, ReadsSession, HasWindow
<1>4. CASE StartHandover
  <2>1. Point \in Sources
    BY <1>4 DEF StartHandover, Point, Sources
  <2>2. handovers' \subseteq Sources /\ mishaps' \in 0..MaxMishaps
    BY <1>4, <2>1, MishapType DEF StartHandover, TraceWritten, TraceLost
  <2> QED BY <1>4, <2>2 DEF StartHandover, ReadsSession, HasWindow
<1>5. CASE CompleteHandover
  <2>1. handovers' \subseteq Sources /\ mishaps' \in 0..MaxMishaps
    BY <1>5, MishapType DEF CompleteHandover, TraceWritten, TraceLost
  <2>2. pendingJob' \subseteq Sources
    BY <1>5, StoredType DEF CompleteHandover
  <2> QED BY <1>5, <2>1, <2>2 DEF CompleteHandover, ReadsSession, HasWindow
<1>6. CASE FailHandover
  <2>1. handovers' \subseteq Sources /\ mishaps' \in 0..MaxMishaps
    BY <1>6, MishapType DEF FailHandover, TraceWritten, TraceLost
  <2> QED BY <1>6, <2>1 DEF FailHandover, ReadsSession, HasWindow
<1>7. CASE SubmitJob
  <2>1. /\ pc' \in [Threads -> Location]
        /\ job' \in [Threads -> SUBSET Sources]
        /\ ReadsSession' /\ HasWindow'
    <3>1. CASE FreeWorkers = {}
      BY <1>7, <3>1 DEF SubmitJob, ReadsSession, HasWindow
    <3>2. CASE FreeWorkers # {}
      <4>1. PICK t \in FreeWorkers :
              Go(t, "reading") /\ job' = [job EXCEPT ![t] = pendingJob]
        BY <1>7, <3>2 DEF SubmitJob
      <4>2. t # backlog
        BY DEF FreeWorkers
      <4>3. ReadsSession'
        BY <1>7, <4>1, <4>2, GoReads DEF SubmitJob
      <4>4. HasWindow'
        BY <1>7, <4>1, GoKeeps DEF SubmitJob, FreeWorkers, Threads, Selected
      <4> QED BY <4>1, <4>3, <4>4, GoType DEF Location
    <3> QED BY <3>1, <3>2
  <2> QED BY <1>7, <2>1 DEF SubmitJob
<1> QED BY <1>1, <1>2, <1>3, <1>4, <1>5, <1>6, <1>7 DEF Foreground

LEMMA BacklogType ==
  ASSUME TypeInv, BacklogStep
  PROVE  TypeInv'
<1> USE DEF TypeInv, TypeOK, TurnHasPhase, foreground, ledger
<1>1. CASE StartTick
  BY <1>1, GoType, GoReads, GoKeeps DEF StartTick, Location, scan, Threads, Selected
<1>2. CASE EnterLock
  <2>1. pc' \in [Threads -> Location]
    BY <1>2, GoType DEF EnterLock, Location
  <2>2. cursor' \in 1..(NSessions + 1)
    BY <1>2 DEF EnterLock
  <2>3. ReadsSession'
    BY <1>2 DEF EnterLock, Go, ReadsSession, Threads
  <2>4. HasWindow'
    BY <1>2, GoKeeps DEF EnterLock, Threads, Selected
  <2> QED BY <1>2, <2>1, <2>2, <2>3, <2>4 DEF EnterLock
<1>3. CASE Scan
  <2> USE DEF SkipSession, EnterSession, LeaveScan, EndScan, scan
  <2>1. pc' \in [Threads -> Location]
    BY <1>3, GoType DEF Scan, Location
  <2>2. cursor' \in 1..(NSessions + 1)
    BY <1>3, ExtractionAssumption DEF ExtractionAssumption, Scan, Sessions
  <2>3. snapshot' \subseteq Sessions
    BY <1>3 DEF Scan
  <2>4. ReadsSession'
    BY <1>3 DEF Scan, Go, ReadsSession, Threads
  <2>5. HasWindow'
    BY <1>3, GoKeeps DEF Scan, Threads, Selected, HasWindow
  <2> QED BY <1>3, <2>1, <2>2, <2>3, <2>4, <2>5 DEF Scan
<1>4. CASE SelectBacklog
  <2>1. Retryable(Stored(cursor)) \subseteq Sources
    BY StoredType DEF Retryable
  <2>2. pc' \in [Threads -> Location]
    BY <1>4, GoType DEF SelectBacklog, Location
  <2>3. refs' \in [Threads -> SUBSET Sources]
    BY <1>4, <2>1 DEF SelectBacklog
  <2>4. cursor' \in 1..(NSessions + 1) /\ snapshot' \subseteq Sessions
    <3>1. \/ cursor' = cursor + 1 /\ snapshot' = snapshot
          \/ cursor' = 1 /\ snapshot' = {}
      BY <1>4 DEF SelectBacklog, EndScan
    <3>2. cursor \in 1..NSessions /\ NSessions \in Nat
      BY <1>4, ExtractionAssumption
         DEF ExtractionAssumption, SelectBacklog, ReadsSession, Sessions
    <3> QED BY <3>1, <3>2
  <2>5. ReadsSession'
    BY <1>4 DEF SelectBacklog, Go, Threads, ReadsSession
  <2>6. HasWindow'
    BY <1>4 DEF SelectBacklog, Go, HasWindow, Threads, Selected
  <2> QED BY <1>4, <2>2, <2>3, <2>4, <2>5, <2>6 DEF SelectBacklog
<1>5. CASE YieldEarly
  <2>1. ReadsSession'
    BY <1>5, GoReads DEF YieldEarly, Finish, scan
  <2> QED BY <1>5, <2>1, FinishType, FinishKeeps, MishapType
         DEF YieldEarly, scan, Threads
<1>6. CASE Pause("selected", "pausing") \/ Pause("started", "pausing late")
  BY <1>6, GoType, GoReads, GoKeeps DEF Pause, Location, scan, Threads, Selected
<1>7. CASE Resume("pausing", "ready") \/ Resume("pausing late", "calling")
  BY <1>7, GoType, GoReads, GoKeeps DEF Resume, Location, scan, Threads, Selected
<1>8. CASE YieldLate
  BY <1>8, GoType, GoReads, GoKeeps, MishapType
  DEF YieldLate, Location, scan, Threads, Selected
<1> QED BY <1>1, <1>2, <1>3, <1>4, <1>5, <1>6, <1>7, <1>8 DEF BacklogStep

LEMMA AttemptType ==
  ASSUME TypeInv, NEW t \in Threads,
         AttemptStep(t) \/ SelectCompact(t) \/ Abort(t)
  PROVE  TypeInv'
<1> USE DEF TypeInv, TypeOK, TurnHasPhase, foreground, scan
<1>1. CASE CreateWindow(t)
  <2>1. window' \in [Windows -> Status]
    BY <1>1 DEF CreateWindow, Status
  <2>2. /\ pc' \in [Threads -> Location]
        /\ refs' \in [Threads -> SUBSET Sources]
        /\ job' \in [Threads -> SUBSET Sources]
    BY <1>1, FinishType, GoType DEF CreateWindow, Location
  <2>3. ReadsSession'
    BY <1>1, GoReads DEF CreateWindow, Finish
  <2>4. HasWindow'
    BY <1>1, GoKeeps, FinishKeeps DEF CreateWindow, Selected, Location
  <2> QED BY <1>1, <2>1, <2>2, <2>3, <2>4 DEF CreateWindow
<1>2. CASE ClaimWindow(t)
  <2>1. progress' \in [Sources -> Progress] /\ window' \in [Windows -> Status]
    BY <1>2, SetProgressType DEF ClaimWindow, Progress, Status
  <2> QED BY <1>2, <2>1, GoType, GoReads, GoKeeps DEF ClaimWindow, Location, Selected
<1>3. CASE StartRun(t)
  BY <1>3, GoType, GoReads, GoKeeps DEF StartRun, Location, ledger, Selected
<1>4. CASE CallFails(t)
  BY <1>4, GoType, GoReads, GoKeeps, MishapType DEF CallFails, Location, ledger, Selected
<1>5. CASE Reject(t)
  BY <1>5, GoType, GoReads, GoKeeps, MishapType, MarkFailedType
  DEF Reject, Location, Selected
<1>6. CASE EndFailed(t)
  <2>1. ReadsSession'
    BY <1>6, GoReads DEF EndFailed, Finish
  <2>2. /\ progress' \in [Sources -> Progress]
        /\ window' \in [Windows -> Status]
        /\ extracted' \in [Sources -> 0..2]
    BY <1>6, MarkFailedType DEF EndFailed, ledger
  <2> QED BY <1>6, <2>1, <2>2, FinishType, FinishKeeps DEF EndFailed
<1>7. CASE Accept(t)
  <2>1. progress' \in [Sources -> Progress] /\ window' \in [Windows -> Status]
    BY <1>7, SetProgressType DEF Accept, Progress, Status
  <2>2. extracted' \in [Sources -> 0..2]
    BY <1>7 DEF Accept
  <2>3. /\ pc' \in [Threads -> Location]
        /\ refs' \in [Threads -> SUBSET Sources]
        /\ job' \in [Threads -> SUBSET Sources]
    BY <1>7, FinishType, GoType DEF Accept, Location
  <2>4. ReadsSession'
    BY <1>7, GoReads DEF Accept, Finish
  <2>5. HasWindow'
    BY <1>7, GoKeeps, FinishKeeps DEF Accept, Selected
  <2> QED BY <1>7, <2>1, <2>2, <2>3, <2>4, <2>5 DEF Accept
<1>8. CASE SelectCompact(t)
  <2>1. Retryable(job[t]) \subseteq Sources
    BY DEF Retryable
  <2>2. ReadsSession'
    BY <1>8, GoReads DEF SelectCompact
  <2>3. /\ pc' \in [Threads -> Location]
        /\ refs' \in [Threads -> SUBSET Sources]
        /\ job' \in [Threads -> SUBSET Sources]
    BY <1>8, <2>1, GoType DEF SelectCompact, Location
  <2>4. HasWindow'
    BY <1>8 DEF SelectCompact, Go, HasWindow, Threads, Selected
  <2> QED BY <1>8, <2>2, <2>3, <2>4 DEF SelectCompact, ledger
<1>9. CASE Abort(t)
  <2>1. orphans' \subseteq Windows
    BY <1>9, OpenWindowsType DEF Abort
  <2>2. ReadsSession'
    BY <1>9, GoReads DEF Abort, Finish
  <2> QED BY <1>9, <2>1, <2>2, FinishType, FinishKeeps, MishapType DEF Abort, ledger
<1> QED BY <1>1, <1>2, <1>3, <1>4, <1>5, <1>6, <1>7, <1>8, <1>9 DEF AttemptStep

LEMMA TypeNext == TypeInv /\ [Next]_vars => TypeInv'
<1> SUFFICES ASSUME TypeInv, [Next]_vars PROVE TypeInv'
  OBVIOUS
<1>1. CASE UNCHANGED vars
  BY <1>1 DEF vars, foreground, ledger, scan, TypeInv, TypeOK, TurnHasPhase,
              ReadsSession, HasWindow
<1>2. CASE Crash
  <2>1. orphans' \subseteq Windows
    BY <1>2, OpenWindowsType DEF Crash, TypeInv, TypeOK
  <2>2. mishaps' \in 0..MaxMishaps
    BY <1>2, MishapType DEF Crash, TypeInv
  <2> QED BY <1>2, <2>1, <2>2
          DEF Crash, ledger, scan, TypeInv, TypeOK, TurnHasPhase, ReadsSession,
              HasWindow, Phase, Location, Selected, Threads
<1> QED BY <1>1, <1>2, ForegroundType, BacklogType, AttemptType DEF Next, Threads

LEMMA TypeInit == Init => TypeInv
<1> SUFFICES ASSUME Init PROVE TypeInv
  OBVIOUS
<1>1. cursor \in 1..(NSessions + 1) /\ mishaps \in 0..MaxMishaps
  BY DEF Init, ExtractionAssumption
<1>2. /\ arrived \in [Sessions -> 0..MaxSources]
      /\ compressed \in [Sessions -> 0..MaxSources]
  BY DEF Init, ExtractionAssumption
<1>3. /\ progress \in [Sources -> Progress]
      /\ window \in [Windows -> Status]
      /\ extracted \in [Sources -> 0..2]
  BY DEF Init, Progress, Status
<1>4. /\ pc \in [Threads -> Location]
      /\ refs \in [Threads -> SUBSET Sources]
      /\ job \in [Threads -> SUBSET Sources]
  BY DEF Init, Location
<1>5. TypeOK
  BY <1>1, <1>2, <1>3, <1>4 DEF Init, TypeOK, Phase
<1>6. TurnHasPhase /\ ReadsSession /\ HasWindow
  BY DEF Init, TurnHasPhase, ReadsSession, HasWindow, Selected, Threads
<1> QED BY <1>5, <1>6 DEF TypeInv

\* No step leaves the declared state space, whatever runs concurrently.
THEOREM TypeCorrect == Spec => []TypeOK
<1>1. TypeInv => TypeOK
  BY DEF TypeInv
<1> QED BY <1>1, TypeInit, TypeNext, PTL DEF Spec

(* Two attempts never work on the same source window: the paths differ, and *)
(* compact jobs cover disjoint stretches of a session.                      *)

Covered == {m \in Sources : m[2] <= compressed[m[1]]}

JobsCovered ==
  /\ pendingJob \subseteq Covered
  /\ \A t \in Workers : refs[t] \subseteq job[t] /\ job[t] \subseteq Covered

JobsDisjoint ==
  /\ \A t \in Workers : job[t] \cap pendingJob = {}
  /\ \A t, u \in Workers : t # u => job[t] \cap job[u] = {}

IdleHasNothing == \A t \in Workers : pc[t] = "idle" => refs[t] = {}

CoveredStored == \A s \in Sessions : compressed[s] <= arrived[s]

\* An attempt's window is claimed until the attempt settles it.
Claimed == {"claimed", "started", "pausing late", "calling"}

ClaimedWindow ==
  \A t \in Threads :
    /\ pc[t] \in Claimed => window[WindowOf(t)] = "claimed"
    /\ pc[t] = "failing" => window[WindowOf(t)] \in {"claimed", "failed"}

\* A claimed source has an attempt whose window is claimed still.
SourceOwned ==
  \A m \in Sources :
    progress[m] = "claimed" =>
      \/ \E t \in Threads : /\ pc[t] \in Working
                            /\ m \in refs[t]
                            /\ window[WindowOf(t)] = "claimed"
      \/ \E w \in orphans : m \in w[2]

WindowOwned ==
  \A w \in Windows :
    window[w] \in {"pending", "claimed"} =>
      \/ \E t \in Threads : pc[t] \in Working /\ WindowOf(t) = w
      \/ w \in orphans

JobInv   == JobsCovered /\ JobsDisjoint /\ CoveredStored /\ IdleHasNothing
ClaimInv == TypeInv /\ JobInv /\ ClaimedWindow /\ SourceOwned /\ WindowOwned

LEMMA OwnWindow ==
  ASSUME TypeInv, JobInv, NEW t \in Threads, NEW u \in Threads, t # u,
         pc[t] \in Selected
  PROVE  WindowOf(t) # WindowOf(u)
<1>1. refs[t] # {}
  BY DEF TypeInv, HasWindow
<1>2. CASE t = backlog \/ u = backlog
  BY <1>2 DEF WindowOf
<1>3. CASE t \in Workers /\ u \in Workers
  <2>1. refs[t] \subseteq job[t] /\ refs[u] \subseteq job[u]
    BY <1>3 DEF JobInv, JobsCovered
  <2>2. job[t] \cap job[u] = {}
    BY <1>3 DEF JobInv, JobsDisjoint
  <2>3. refs[t] # refs[u]
    BY <1>1, <2>1, <2>2
  <2> QED BY <2>3 DEF WindowOf
<1> QED BY <1>2, <1>3 DEF Threads

\* Whatever gives sources up, and takes no new ones, keeps the jobs apart.
LEMMA JobsShrink ==
  ASSUME TypeInv, JobInv, compressed' = compressed, arrived' = arrived,
         pendingJob' \subseteq pendingJob,
         \A t \in Workers : job'[t] \subseteq job[t] /\ refs'[t] \subseteq job'[t],
         IdleHasNothing'
  PROVE  JobInv'
<1>1. JobsCovered'
  BY DEF JobInv, JobsCovered, Covered
<1>2. JobsDisjoint'
  BY DEF JobInv, JobsDisjoint
<1> QED BY <1>1, <1>2 DEF JobInv, CoveredStored

LEMMA FinishJobs ==
  ASSUME TypeInv, JobInv, NEW t \in Threads, Finish(t), UNCHANGED foreground
  PROVE  JobInv'
<1>1. \A u \in Workers : job'[u] \subseteq job[u] /\ refs'[u] \subseteq job'[u]
  BY DEF TypeInv, TypeOK, Threads, Finish, JobInv, JobsCovered
<1>2. IdleHasNothing'
  BY DEF TypeInv, TypeOK, Threads, Finish, Go, JobInv, IdleHasNothing
<1> QED BY <1>1, <1>2, JobsShrink DEF foreground

LEMMA ForegroundJobs ==
  ASSUME TypeInv, JobInv, Foreground
  PROVE  JobInv'
<1> USE DEF TypeInv, TypeOK
<1>1. CASE \/ \E s \in Sessions : Activate(s) \/ Evict(s) \/ StartTurn(s)
           \/ EndTurn \/ StartHandover \/ FailHandover
  <2>1. UNCHANGED <<arrived, compressed, pendingJob, refs, job, pc>>
    BY <1>1 DEF Activate, Evict, StartTurn, EndTurn, StartHandover, FailHandover
  <2> QED BY <2>1, JobsShrink DEF JobInv, JobsCovered, IdleHasNothing
<1>2. CASE AppendSource
  <2>1. CoveredStored'
    BY <1>2 DEF AppendSource, CoveredStored, JobInv, TurnHasPhase
  <2>2. JobsCovered' /\ JobsDisjoint' /\ IdleHasNothing'
    BY <1>2 DEF AppendSource, JobInv, JobsCovered, JobsDisjoint, Covered, IdleHasNothing
  <2> QED BY <2>1, <2>2 DEF JobInv
<1>3. CASE CompleteHandover
  <2>1. turn \in Sessions
    BY <1>3 DEF CompleteHandover, TurnHasPhase
  <2>2. /\ compressed' = [compressed EXCEPT ![turn] = arrived[turn]]
        /\ pendingJob' = {m \in Stored(turn) \ Traces : m[2] > compressed[turn]}
        /\ UNCHANGED <<arrived, refs, job, pc>>
    BY <1>3 DEF CompleteHandover
  <2>3. Covered \subseteq Covered'
    <3> SUFFICES ASSUME NEW m \in Sources, m[2] <= compressed[m[1]]
                 PROVE  m[2] <= compressed'[m[1]]
      BY DEF Covered
    <3>1. m[1] \in Sessions /\ m[2] \in Nat
      BY DEF Sources
    <3>2. compressed[m[1]] <= arrived[m[1]] /\ compressed[m[1]] \in Nat /\ arrived[m[1]] \in Nat
      BY <3>1 DEF JobInv, CoveredStored
    <3> QED BY <2>1, <2>2, <3>1, <3>2
  <2>4. pendingJob' \subseteq Covered'
    BY <2>1, <2>2 DEF Covered, Stored
  <2>5. CoveredStored'
    BY <2>1, <2>2 DEF CoveredStored, JobInv
  <2>6. Covered \cap pendingJob' = {}
    <3> SUFFICES ASSUME NEW m \in Sources, m[2] <= compressed[m[1]],
                        m[1] = turn, m[2] > compressed[turn]
                 PROVE  FALSE
      BY <2>2 DEF Covered, Stored
    <3> QED BY <2>1 DEF Sources
  <2>7. JobsCovered'
    BY <2>2, <2>3, <2>4 DEF JobInv, JobsCovered
  <2>8. JobsDisjoint'
    BY <2>2, <2>6 DEF JobInv, JobsDisjoint, JobsCovered
  <2> QED BY <2>2, <2>5, <2>7, <2>8 DEF JobInv, IdleHasNothing
<1>4. CASE SubmitJob
  <2>1. CASE FreeWorkers = {}
    <3>1. pendingJob' \subseteq pendingJob /\ UNCHANGED <<arrived, compressed, refs, job, pc>>
      BY <1>4, <2>1 DEF SubmitJob
    <3> QED BY <3>1, JobsShrink DEF JobInv, JobsCovered, IdleHasNothing
  <2>2. CASE FreeWorkers # {}
    <3>1. PICK t \in FreeWorkers :
            Go(t, "reading") /\ job' = [job EXCEPT ![t] = pendingJob]
      BY <1>4, <2>2 DEF SubmitJob
    <3>2. t \in Workers /\ t \in Threads /\ pc[t] = "idle"
      BY DEF FreeWorkers, Threads
    <3>3. pendingJob' = {} /\ UNCHANGED <<arrived, compressed, refs>>
      BY <1>4 DEF SubmitJob
    <3>4. \A u \in Workers : job'[u] = IF u = t THEN pendingJob ELSE job[u]
      BY <3>1, <3>2 DEF Threads
    <3>5. refs[t] = {}
      BY <3>2 DEF IdleHasNothing, JobInv
    <3>6. JobsCovered'
      BY <3>3, <3>4, <3>5 DEF JobInv, JobsCovered, Covered
    <3>7. JobsDisjoint'
      BY <3>3, <3>4 DEF JobInv, JobsDisjoint
    <3>8. IdleHasNothing'
      BY <3>1, <3>2, <3>3, <3>4 DEF Go, JobInv, IdleHasNothing, Threads
    <3> QED BY <3>3, <3>6, <3>7, <3>8 DEF JobInv, CoveredStored
  <2> QED BY <2>1, <2>2
<1> QED BY <1>1, <1>2, <1>3, <1>4 DEF Foreground

\* A step of an attempt that is not its last leaves the jobs alone.
LEMMA GoJobs ==
  ASSUME TypeInv, JobInv, NEW t, NEW location, Go(t, location), location # "idle",
         UNCHANGED <<foreground, refs, job>>
  PROVE  JobInv'
<1>1. IdleHasNothing'
  BY DEF TypeInv, TypeOK, Threads, Go, JobInv, IdleHasNothing
<1> QED BY <1>1, JobsShrink DEF JobInv, JobsCovered, foreground

LEMMA BacklogJobs ==
  ASSUME TypeInv, JobInv, BacklogStep
  PROVE  JobInv'
<1>1. CASE YieldEarly
  BY <1>1, FinishJobs DEF YieldEarly, Threads
<1>2. CASE BacklogStep /\ ~YieldEarly
  <2>1. UNCHANGED <<foreground, job>> /\ \A u \in Workers : refs'[u] = refs[u] /\ pc'[u] = pc[u]
    BY <1>2 DEF BacklogStep, StartTick, EnterLock, Scan, SkipSession, EnterSession,
                LeaveScan, EndScan, SelectBacklog, Pause, Resume, YieldLate, Go, TypeInv, TypeOK,
                Threads, ExtractionAssumption
  <2> QED BY <2>1, JobsShrink DEF JobInv, JobsCovered, IdleHasNothing, foreground
<1> QED BY <1>1, <1>2

LEMMA AttemptJobs ==
  ASSUME TypeInv, JobInv, NEW t \in Threads,
         AttemptStep(t) \/ SelectCompact(t) \/ Abort(t)
  PROVE  JobInv'
<1>1. CASE CreateWindow(t)
  BY <1>1, FinishJobs, GoJobs DEF CreateWindow
<1>2. CASE \/ ClaimWindow(t) \/ StartRun(t) \/ CallFails(t) \/ Reject(t)
  BY <1>2, GoJobs DEF ClaimWindow, StartRun, CallFails, Reject
<1>3. CASE EndFailed(t) \/ Abort(t)
  BY <1>3, FinishJobs DEF EndFailed, Abort
<1>4. CASE Accept(t)
  BY <1>4, FinishJobs, GoJobs DEF Accept
<1>5. CASE SelectCompact(t)
  <2>1. Retryable(job[t]) \subseteq job[t]
    BY DEF Retryable
  <2>2. t \in Workers /\ UNCHANGED foreground
    BY <1>5 DEF SelectCompact
  <2>3. \A u \in Workers : job'[u] \subseteq job[u] /\ refs'[u] \subseteq job'[u]
    BY <1>5, <2>1 DEF SelectCompact, JobInv, JobsCovered, TypeInv, TypeOK, Threads
  <2>4. IdleHasNothing'
    BY <1>5 DEF SelectCompact, Go, JobInv, IdleHasNothing, TypeInv, TypeOK, Threads
  <2> QED BY <2>2, <2>3, <2>4, JobsShrink DEF foreground
<1> QED BY <1>1, <1>2, <1>3, <1>4, <1>5 DEF AttemptStep

LEMMA JobsNext == TypeInv /\ JobInv /\ [Next]_vars => JobInv'
<1> SUFFICES ASSUME TypeInv, JobInv, [Next]_vars PROVE JobInv'
  OBVIOUS
<1>1. CASE UNCHANGED vars
  BY <1>1, JobsShrink DEF vars, foreground, JobInv, JobsCovered, IdleHasNothing
<1>2. CASE Crash
  BY <1>2, JobsShrink DEF Crash, JobInv, JobsCovered, IdleHasNothing, Threads
<1> QED BY <1>1, <1>2, ForegroundJobs, BacklogJobs, AttemptJobs DEF Next, Threads

(* The claims of the ledger and their owners.                               *)

\* Outside an attempt's own steps, and the crashes, attempts move on with their
\* windows and the ledger keeps still.
LEMMA QuietSteps ==
  ASSUME TypeInv, Foreground \/ BacklogStep \/ \E t \in Workers : SelectCompact(t)
  PROVE  /\ UNCHANGED <<ledger, orphans>>
         /\ \A u \in Threads :
              /\ pc[u] \in Working => pc'[u] \in Working /\ refs'[u] = refs[u]
              /\ pc'[u] \in Claimed => pc[u] \in Claimed
              /\ pc'[u] = "failing" => pc[u] \in Claimed \cup {"failing"}
<1> USE DEF Go, TypeInv, TypeOK, Working, Claimed
<1>1. CASE Foreground
  <2>1. CASE SubmitJob
    BY <2>1 DEF SubmitJob, FreeWorkers
  <2>2. CASE Foreground /\ ~SubmitJob
    <3>1. UNCHANGED <<ledger, orphans, pc, refs>>
      BY <2>2 DEF Foreground, Activate, Evict, StartTurn, EndTurn, StartHandover,
                  FailHandover, AppendSource, CompleteHandover
    <3> QED BY <3>1
  <2> QED BY <1>1, <2>1, <2>2
<1>2. CASE BacklogStep
  <2>1. CASE StartTick \/ EnterLock \/ Scan
    BY <2>1 DEF StartTick, EnterLock, Scan, SkipSession, EnterSession, LeaveScan, EndScan
  <2>2. CASE SelectBacklog
    BY <2>2 DEF SelectBacklog
  <2>3. CASE YieldEarly
    BY <2>3 DEF YieldEarly, Finish
  <2>4. CASE YieldLate
    BY <2>4 DEF YieldLate
  <2>5. CASE Pause("selected", "pausing") \/ Pause("started", "pausing late")
    BY <2>5 DEF Pause
  <2>6. CASE Resume("pausing", "ready") \/ Resume("pausing late", "calling")
    BY <2>6 DEF Resume
  <2> QED BY <1>2, <2>1, <2>2, <2>3, <2>4, <2>5, <2>6 DEF BacklogStep
<1>3. CASE \E t \in Workers : SelectCompact(t)
  BY <1>3 DEF SelectCompact
<1> QED BY <1>1, <1>2, <1>3

LEMMA WorkingWindow ==
  ASSUME TypeInv, NEW u \in Threads, pc[u] \in Working
  PROVE  WindowOf(u) \in Windows /\ WindowOf(u)[2] = refs[u]
<1>1. refs[u] # {} /\ refs[u] \subseteq Sources
  BY DEF TypeInv, TypeOK, HasWindow, Working, Selected, Location
<1> QED BY <1>1 DEF WindowOf, Windows

LEMMA QuietClaims ==
  ASSUME ClaimInv, Foreground \/ BacklogStep \/ \E t \in Workers : SelectCompact(t)
  PROVE  ClaimedWindow' /\ SourceOwned' /\ WindowOwned'
<1>1. /\ UNCHANGED <<ledger, orphans>>
      /\ \A u \in Threads :
              /\ pc[u] \in Working => pc'[u] \in Working /\ refs'[u] = refs[u]
              /\ pc'[u] \in Claimed => pc[u] \in Claimed
              /\ pc'[u] = "failing" => pc[u] \in Claimed \cup {"failing"}
  BY QuietSteps DEF ClaimInv
<1>2. progress' = progress /\ window' = window /\ orphans' = orphans
  BY <1>1 DEF ledger
<1>3. \A u \in Threads : pc[u] \in Working => WindowOf(u)' = WindowOf(u)
  BY <1>1 DEF WindowOf
<1>4. ClaimedWindow'
  BY <1>1, <1>2, <1>3 DEF ClaimInv, ClaimedWindow, Working, Claimed
<1>5. SourceOwned'
  BY <1>1, <1>2, <1>3 DEF ClaimInv, SourceOwned
<1>6. WindowOwned'
  BY <1>1, <1>2, <1>3 DEF ClaimInv, WindowOwned
<1> QED BY <1>4, <1>5, <1>6

\* An attempt touches its own window and its own sources, and nobody else's
\* place; its window is nobody else's.
LEMMA OwnStep ==
  ASSUME TypeInv, JobInv, NEW t \in Threads, AttemptStep(t)
  PROVE  /\ orphans' = orphans
         /\ \A m \in Sources : m \notin refs[t] => progress'[m] = progress[m]
         /\ \A w \in Windows : w # WindowOf(t) => window'[w] = window[w]
         /\ \A u \in Threads : u # t => /\ pc'[u] = pc[u] /\ refs'[u] = refs[u]
                                        /\ WindowOf(u)' = WindowOf(u)
                                        /\ WindowOf(u) # WindowOf(t)
<1>1. pc[t] \in Selected
  BY DEF AttemptStep, CreateWindow, ClaimWindow, StartRun, CallFails, Reject,
         EndFailed, Accept, Selected, Location
<1>2. \A u \in Threads : u # t => WindowOf(u) # WindowOf(t)
  BY <1>1, OwnWindow
<1>3. \A u \in Threads : u # t => pc'[u] = pc[u] /\ refs'[u] = refs[u]
  BY DEF AttemptStep, CreateWindow, ClaimWindow, StartRun, CallFails, Reject,
         EndFailed, Accept, Finish, Go, TypeInv, TypeOK
<1>4. orphans' = orphans
  BY DEF AttemptStep, CreateWindow, ClaimWindow, StartRun, CallFails, Reject,
         EndFailed, Accept
<1>5. \A m \in Sources : m \notin refs[t] => progress'[m] = progress[m]
  BY DEF AttemptStep, CreateWindow, ClaimWindow, StartRun, CallFails, Reject,
         EndFailed, Accept, SetProgress, MarkFailed, ledger
<1>6. \A w \in Windows : w # WindowOf(t) => window'[w] = window[w]
  BY DEF AttemptStep, CreateWindow, ClaimWindow, StartRun, CallFails, Reject,
         EndFailed, Accept, MarkFailed, ledger, TypeInv, TypeOK
<1> QED BY <1>2, <1>3, <1>4, <1>5, <1>6 DEF WindowOf

\* Where the attempt of thread t and its window are after its step.
LEMMA OwnWindowStep ==
  ASSUME TypeInv, ClaimedWindow, NEW t \in Threads, AttemptStep(t)
  PROVE  \/ /\ pc'[t] = "created" /\ refs'[t] = refs[t] /\ progress' = progress
            /\ window[WindowOf(t)] \in {"pending", "claimed"} =>
                 window'[WindowOf(t)] = window[WindowOf(t)]
            /\ pc[t] \notin Working
         \/ /\ pc'[t] \in Claimed /\ refs'[t] = refs[t]
            /\ window'[WindowOf(t)] = "claimed"
         \/ /\ pc'[t] = "failing" /\ refs'[t] = refs[t]
            /\ pc[t] \in Working
            /\ \/ window'[WindowOf(t)] = "claimed"
               \/ /\ window'[WindowOf(t)] = "failed"
                  /\ \A m \in refs[t] : progress'[m] # "claimed"
         \/ /\ pc'[t] \notin Claimed \cup {"failing"}
            /\ window'[WindowOf(t)] \notin {"pending", "claimed"}
            /\ \/ \A m \in refs[t] : progress'[m] # "claimed"
               \/ progress' = progress /\ window[WindowOf(t)] \notin {"claimed"}
<1> USE DEF Go, Finish, Claimed, Working, TypeInv, TypeOK, Status
<1>0. pc[t] \in Working \cup {"ready"} => WindowOf(t) \in Windows
  <2> SUFFICES ASSUME pc[t] \in Working \cup {"ready"} PROVE WindowOf(t) \in Windows
    OBVIOUS
  <2>1. refs[t] # {} /\ refs[t] \subseteq Sources
    BY DEF HasWindow, Selected, Location
  <2> QED BY <2>1 DEF WindowOf, Windows
<1>1. CASE CreateWindow(t)
  BY <1>0, <1>1 DEF CreateWindow
<1>2. CASE ClaimWindow(t)
  BY <1>0, <1>2 DEF ClaimWindow
<1>3. CASE StartRun(t) \/ CallFails(t)
  BY <1>0, <1>3 DEF StartRun, CallFails, ClaimedWindow, ledger
<1>4. CASE Reject(t)
  BY <1>0, <1>4 DEF Reject, MarkFailed, SetProgress
<1>5. CASE EndFailed(t)
  BY <1>0, <1>5 DEF EndFailed, MarkFailed, SetProgress, ledger
<1>6. CASE Accept(t)
  BY <1>0, <1>6 DEF Accept, SetProgress
<1> QED BY <1>1, <1>2, <1>3, <1>4, <1>5, <1>6 DEF AttemptStep

LEMMA AttemptClaims ==
  ASSUME ClaimInv, NEW t \in Threads, AttemptStep(t)
  PROVE  ClaimedWindow' /\ SourceOwned' /\ WindowOwned'
<1> USE DEF ClaimInv
<1>1. /\ orphans' = orphans
      /\ \A m \in Sources : m \notin refs[t] => progress'[m] = progress[m]
      /\ \A w \in Windows : w # WindowOf(t) => window'[w] = window[w]
      /\ \A u \in Threads : u # t => /\ pc'[u] = pc[u] /\ refs'[u] = refs[u]
                                     /\ WindowOf(u)' = WindowOf(u)
                                     /\ WindowOf(u) # WindowOf(t)
  BY OwnStep
<1>2. \A u \in Threads : u # t /\ pc[u] \in Working =>
        WindowOf(u) \in Windows /\ window'[WindowOf(u)] = window[WindowOf(u)]
  BY <1>1, WorkingWindow
<1>3. refs'[t] = refs[t] => WindowOf(t)' = WindowOf(t)
  BY DEF WindowOf
<1>4. Claimed \subseteq Working /\ "failing" \in Working /\ "created" \in Working
      /\ "created" \notin Claimed
  BY DEF Working, Claimed
<1>5. ClaimedWindow'
  <2> SUFFICES ASSUME NEW u \in Threads
               PROVE  /\ pc'[u] \in Claimed => window'[WindowOf(u)'] = "claimed"
                      /\ pc'[u] = "failing" => window'[WindowOf(u)'] \in {"claimed", "failed"}
    BY DEF ClaimedWindow
  <2>1. CASE u = t
    BY <2>1, <1>3, <1>4, OwnWindowStep DEF Claimed
  <2>2. CASE u # t
    BY <2>2, <1>1, <1>2, <1>4 DEF ClaimedWindow
  <2> QED BY <2>1, <2>2
<1>6. SourceOwned'
  <2> SUFFICES ASSUME NEW m \in Sources, progress'[m] = "claimed",
                      \A w \in orphans : m \notin w[2]
               PROVE  \E u \in Threads : /\ pc'[u] \in Working
                                         /\ m \in refs'[u]
                                         /\ window'[WindowOf(u)'] = "claimed"
    BY <1>1 DEF SourceOwned
  <2>1. CASE m \in refs[t] /\ pc'[t] \in Claimed
    BY <2>1, <1>3, <1>4, OwnWindowStep DEF Claimed
  <2>2. CASE progress[m] = "claimed" /\ ~(m \in refs[t] /\ pc'[t] \in Claimed)
    <3>1. PICK u \in Threads : /\ pc[u] \in Working
                               /\ m \in refs[u]
                               /\ window[WindowOf(u)] = "claimed"
      BY <2>2 DEF SourceOwned
    <3>2. CASE u # t
      BY <3>1, <3>2, <1>1, <1>2
    <3>3. CASE u = t
      BY <3>1, <3>3, <2>2, <1>3, <1>4, OwnWindowStep
    <3> QED BY <3>2, <3>3
  <2>3. CASE m \notin refs[t]
    BY <2>3, <2>2, <1>1
  <2>4. CASE m \in refs[t] /\ pc'[t] \notin Claimed /\ progress[m] # "claimed"
    BY <2>4, <1>3, <1>4, OwnWindowStep
  <2> QED BY <2>1, <2>2, <2>3, <2>4
<1>7. WindowOwned'
  <2> SUFFICES ASSUME NEW w \in Windows, window'[w] \in {"pending", "claimed"},
                      w \notin orphans
               PROVE  \E u \in Threads : pc'[u] \in Working /\ WindowOf(u)' = w
    BY <1>1 DEF WindowOwned
  <2>1. CASE w = WindowOf(t)
    BY <2>1, <1>3, <1>4, OwnWindowStep
  <2>2. CASE w # WindowOf(t)
    <3>1. PICK u \in Threads : pc[u] \in Working /\ WindowOf(u) = w
      BY <2>2, <1>1 DEF WindowOwned
    <3> QED BY <3>1, <2>2, <1>1
  <2> QED BY <2>1, <2>2
<1> QED BY <1>5, <1>6, <1>7

\* A crash, or the death of one thread, leaves its open windows to nobody.
LEMMA CrashClaims ==
  ASSUME ClaimInv, Crash
  PROVE  ClaimedWindow' /\ SourceOwned' /\ WindowOwned'
<1> USE DEF ClaimInv
<1>1. /\ UNCHANGED <<progress, window>>
      /\ orphans' = orphans \cup OpenWindows(Threads)
      /\ \A t \in Threads : pc'[t] = "idle"
  BY DEF Crash, ledger
<1>2. ClaimedWindow'
  BY <1>1 DEF ClaimedWindow, Claimed
<1>3. SourceOwned'
  <2> SUFFICES ASSUME NEW m \in Sources, progress[m] = "claimed"
               PROVE  \E w \in orphans' : m \in w[2]
    BY <1>1 DEF SourceOwned
  <2>1. CASE \E w \in orphans : m \in w[2]
    BY <2>1, <1>1
  <2>2. CASE ~\E w \in orphans : m \in w[2]
    <3>1. PICK t \in Threads : /\ pc[t] \in Working
                               /\ m \in refs[t]
                               /\ window[WindowOf(t)] = "claimed"
      BY <2>2 DEF SourceOwned
    <3>2. WindowOf(t) \in orphans'
      BY <3>1, <1>1 DEF OpenWindows
    <3> QED BY <3>1, <3>2, WorkingWindow
  <2> QED BY <2>1, <2>2
<1>4. WindowOwned'
  BY <1>1 DEF WindowOwned, OpenWindows
<1> QED BY <1>2, <1>3, <1>4

LEMMA AbortClaims ==
  ASSUME ClaimInv, NEW t \in Threads, Abort(t)
  PROVE  ClaimedWindow' /\ SourceOwned' /\ WindowOwned'
<1> USE DEF ClaimInv
<1>1. /\ UNCHANGED <<progress, window>>
      /\ orphans' = orphans \cup OpenWindows({t})
      /\ pc'[t] = "idle"
      /\ \A u \in Threads : u # t => pc'[u] = pc[u] /\ refs'[u] = refs[u]
  BY DEF Abort, ledger, Finish, Go, TypeInv, TypeOK
<1>2. \A u \in Threads : u # t => WindowOf(u)' = WindowOf(u)
  BY <1>1 DEF WindowOf
<1>3. ClaimedWindow'
  BY <1>1, <1>2 DEF ClaimedWindow, Claimed
<1>4. SourceOwned'
  <2> SUFFICES ASSUME NEW m \in Sources, progress[m] = "claimed",
                      ~\E w \in orphans' : m \in w[2]
               PROVE  \E u \in Threads : /\ pc'[u] \in Working
                                         /\ m \in refs'[u]
                                         /\ window[WindowOf(u)'] = "claimed"
    BY <1>1 DEF SourceOwned
  <2>1. PICK u \in Threads : /\ pc[u] \in Working
                             /\ m \in refs[u]
                             /\ window[WindowOf(u)] = "claimed"
    BY <1>1 DEF SourceOwned
  <2>2. CASE u = t
    <3>1. WindowOf(t) \in orphans'
      BY <2>1, <2>2, <1>1 DEF OpenWindows
    <3> QED BY <2>1, <2>2, <3>1, WorkingWindow
  <2>3. CASE u # t
    BY <2>1, <2>3, <1>1, <1>2
  <2> QED BY <2>2, <2>3
<1>5. WindowOwned'
  BY <1>1, <1>2 DEF WindowOwned, OpenWindows
<1> QED BY <1>3, <1>4, <1>5

LEMMA ClaimNext == ClaimInv /\ [Next]_vars => ClaimInv'
<1> SUFFICES ASSUME ClaimInv, [Next]_vars PROVE ClaimInv'
  OBVIOUS
<1>1. TypeInv' /\ JobInv'
  BY TypeNext, JobsNext DEF ClaimInv
<1>2. CASE UNCHANGED vars
  BY <1>1, <1>2 DEF vars, ledger, ClaimInv, ClaimedWindow, SourceOwned, WindowOwned, WindowOf
<1>3. CASE Next
  <2>1. ClaimedWindow' /\ SourceOwned' /\ WindowOwned'
    BY <1>3, QuietClaims, AttemptClaims, CrashClaims, AbortClaims DEF Next
  <2> QED BY <1>1, <2>1 DEF ClaimInv
<1> QED BY <1>2, <1>3

LEMMA ClaimInit == Init => ClaimInv
<1> SUFFICES ASSUME Init PROVE ClaimInv
  OBVIOUS
<1>1. TypeInv
  BY TypeInit
<1>2. JobInv
  BY ExtractionAssumption DEF Init, JobInv, JobsCovered, JobsDisjoint, CoveredStored,
     IdleHasNothing, Threads, ExtractionAssumption
<1>3. ClaimedWindow /\ SourceOwned /\ WindowOwned
  BY DEF Init, ClaimedWindow, SourceOwned, WindowOwned, Claimed
<1> QED BY <1>1, <1>2, <1>3 DEF ClaimInv

LEMMA ClaimInvariant == Spec => []ClaimInv
BY ClaimInit, ClaimNext, PTL DEF Spec

\* Every claimed source and every open window has a thread at work on it, or a
\* crash left it there.
THEOREM ClaimHasOwnerHolds == Spec => []ClaimHasOwner
<1>1. ClaimInv => ClaimHasOwner
  BY DEF ClaimInv, SourceOwned, WindowOwned, ClaimHasOwner
<1> QED BY <1>1, ClaimInvariant, PTL

(* What the statuses of the ledger say about the beliefs.                   *)

\* Only an attempt changes the ledger.
LEMMA LedgerStep ==
  ASSUME TypeInv, [Next]_vars
  PROVE  UNCHANGED ledger \/ \E t \in Threads : AttemptStep(t)
<1>1. CASE UNCHANGED vars
  BY <1>1 DEF vars
<1>2. CASE Crash \/ \E t \in Threads : Abort(t)
  BY <1>2 DEF Crash, Abort
<1> QED BY <1>1, <1>2, QuietSteps DEF Next

\* No late handler overwrites what another attempt has settled.
THEOREM ClosedTogetherHolds == Spec => ClosedTogether
<1>1. ClaimInv /\ [Next]_vars => [SettlesWithWindow]_ledger
  <2> SUFFICES ASSUME ClaimInv, [Next]_vars PROVE [SettlesWithWindow]_ledger
    OBVIOUS
  <2>1. CASE UNCHANGED ledger
    BY <2>1
  <2>2. ASSUME NEW t \in Threads, AttemptStep(t)
        PROVE  SettlesWithWindow
    <3> SUFFICES ASSUME NEW m \in Sources, progress'[m] # progress[m],
                        progress'[m] \in {"processed", "failed"}
                 PROVE  /\ m \in refs[t]
                        /\ pc[t] \in Working
                        /\ window[WindowOf(t)] = "claimed"
                        /\ window'[WindowOf(t)] = progress'[m]
      BY WorkingWindow DEF SettlesWithWindow, ClaimInv
    <3>1. CASE CreateWindow(t) \/ ClaimWindow(t) \/ StartRun(t) \/ CallFails(t)
      BY <3>1 DEF CreateWindow, ClaimWindow, StartRun, CallFails, SetProgress, ledger
    <3>2. CASE Reject(t) \/ EndFailed(t) \/ Accept(t)
      <4>1. pc[t] \in Working /\ m \in refs[t] /\ window[WindowOf(t)] = "claimed"
        BY <3>2 DEF Reject, EndFailed, Accept, MarkFailed, SetProgress, ledger,
                    ClaimInv, ClaimedWindow, Claimed, Working
      <4>2. WindowOf(t) \in Windows
        BY <4>1, WorkingWindow DEF ClaimInv
      <4> QED BY <3>2, <4>1, <4>2
              DEF Reject, EndFailed, Accept, MarkFailed, SetProgress, ledger,
                  ClaimInv, TypeInv, TypeOK
    <3> QED BY <2>2, <3>1, <3>2 DEF AttemptStep
  <2> QED BY <2>1, <2>2, LedgerStep DEF ClaimInv
<1> QED BY <1>1, ClaimInvariant, PTL DEF Spec, ClosedTogether

LEMMA OutputNext == TypeInv /\ ProcessedHasOutput /\ [Next]_vars => ProcessedHasOutput'
<1> SUFFICES ASSUME TypeInv, ProcessedHasOutput, [Next]_vars PROVE ProcessedHasOutput'
  OBVIOUS
<1>1. CASE UNCHANGED ledger
  BY <1>1 DEF ledger, ProcessedHasOutput
<1>2. ASSUME NEW t \in Threads, AttemptStep(t)
      PROVE  ProcessedHasOutput'
  <2> USE DEF TypeInv, TypeOK
  <2>1. CASE Accept(t)
    <3>1. WindowOf(t) \in Windows /\ WindowOf(t)[2] = refs[t]
      BY <2>1, WorkingWindow DEF Accept, Working
    <3>2. \A m \in Sources : /\ m \in refs[t] \/ extracted[m] > 0 => extracted'[m] > 0
                             /\ progress'[m] = IF m \in refs[t] THEN "processed" ELSE progress[m]
      BY <2>1 DEF Accept, SetProgress
    <3>3. window' = [window EXCEPT ![WindowOf(t)] = "processed"]
      BY <2>1 DEF Accept
    <3>4. \A w \in Windows : w[2] \subseteq Sources
      BY DEF Windows
    <3>5. \A m \in Sources : progress'[m] = "processed" => extracted'[m] > 0
      BY <3>2 DEF ProcessedHasOutput
    <3>6. \A w \in Windows :
            window'[w] = "processed" => \A m \in w[2] : extracted'[m] > 0
      BY <3>1, <3>2, <3>3, <3>4 DEF ProcessedHasOutput
    <3> QED BY <3>5, <3>6 DEF ProcessedHasOutput
  <2>2. CASE AttemptStep(t) /\ ~Accept(t)
    <3>1. /\ extracted' = extracted
          /\ \A m \in Sources : progress'[m] = "processed" => progress[m] = "processed"
          /\ \A w \in Windows : window'[w] = "processed" => window[w] = "processed"
      BY <2>2 DEF AttemptStep, CreateWindow, ClaimWindow, StartRun, CallFails, Reject,
                  EndFailed, MarkFailed, SetProgress, ledger
    <3> QED BY <3>1 DEF ProcessedHasOutput
  <2> QED BY <1>2, <2>1, <2>2
<1> QED BY <1>1, <1>2, LedgerStep

\* Nothing counts as processed before a belief was accepted from it.
THEOREM ProcessedHasOutputHolds == Spec => []ProcessedHasOutput
<1>1. Init => ProcessedHasOutput
  BY DEF Init, ProcessedHasOutput
<1>2. Spec => []TypeInv
  BY TypeInit, TypeNext, PTL DEF Spec
<1> QED BY <1>1, <1>2, OutputNext, PTL DEF Spec

(* The background path alone never extracts a source twice: what it works   *)
(* on was retryable when it was selected, and nobody else settles it.       *)

Unsettled ==
  pc[backlog] \in Selected => \A m \in refs[backlog] : progress[m] # "processed"

LEMMA OnceNext ==
  ASSUME Workers = {}, TypeInv, ExtractedOnce, Unsettled, [Next]_vars
  PROVE  ExtractedOnce' /\ Unsettled'
<1> USE DEF TypeInv, TypeOK
<1>1. CASE UNCHANGED ledger
  <2>1. ExtractedOnce'
    BY <1>1 DEF ledger, ExtractedOnce
  <2>2. Unsettled'
    <3>1. CASE UNCHANGED vars \/ Foreground
      <4>1. UNCHANGED <<pc, refs>>
        BY <3>1 DEF vars, Foreground, Activate, Evict, StartTurn, EndTurn, StartHandover,
           FailHandover, AppendSource, CompleteHandover, SubmitJob, FreeWorkers
      <4> QED BY <4>1, <1>1 DEF ledger, Unsettled
    <3>2. CASE SelectBacklog
      BY <3>2, <1>1 DEF SelectBacklog, Retryable, Unsettled, ledger, Go, Selected, Threads
    <3>3. CASE BacklogStep /\ ~SelectBacklog
      <4>1. /\ pc'[backlog] \in Selected => pc[backlog] \in Selected
            /\ refs'[backlog] = refs[backlog] \/ pc'[backlog] = "idle"
        BY <3>3 DEF BacklogStep, StartTick, EnterLock, Scan, SkipSession, EnterSession,
           LeaveScan, EndScan, YieldEarly, YieldLate, Pause, Resume, Finish, Go, Selected, Location,
           Threads
      <4> QED BY <4>1, <1>1 DEF ledger, Unsettled, Selected
    <3>4. CASE Crash \/ \E t \in Threads : Abort(t)
      BY <3>4 DEF Crash, Abort, Finish, Go, Unsettled, Selected, Threads
    <3>5. CASE \E t \in Threads : AttemptStep(t)
      BY <3>5, <1>1
      DEF AttemptStep, CreateWindow, ClaimWindow, StartRun, CallFails, Reject, EndFailed,
          Accept, Finish, Go, Unsettled, Selected, Location, Threads, ledger
    <3> QED BY <3>1, <3>2, <3>3, <3>4, <3>5 DEF Next
  <2> QED BY <2>1, <2>2
<1>2. ASSUME NEW t \in Threads, AttemptStep(t)
      PROVE  ExtractedOnce' /\ Unsettled'
  <2>1. t = backlog /\ Threads = {backlog}
    BY DEF Threads
  <2>2. pc[backlog] \in Selected
    BY <1>2, <2>1 DEF AttemptStep, CreateWindow, ClaimWindow, StartRun, CallFails,
       Reject, EndFailed, Accept, Selected, Location
  <2>3. CASE Accept(t)
    <3>1. \A m \in refs[backlog] : progress[m] # "processed" /\ extracted[m] = 0
      BY <2>1, <2>2 DEF Unsettled, ExtractedOnce
    <3>2. /\ progress' = [m \in Sources |-> IF m \in refs[backlog] THEN "processed"
                                           ELSE progress[m]]
          /\ extracted' = [m \in Sources |-> IF m \in refs[backlog] /\ extracted[m] < 2
                                            THEN extracted[m] + 1 ELSE extracted[m]]
          /\ Finish(backlog)
      BY <2>1, <2>3 DEF Accept, SetProgress
    <3>3. ExtractedOnce'
      BY <3>1, <3>2 DEF ExtractedOnce
    <3>4. pc'[backlog] = "idle"
      BY <2>1, <3>2 DEF Finish, Go
    <3> QED BY <3>3, <3>4 DEF Unsettled, Selected
  <2>4. CASE AttemptStep(t) /\ ~Accept(t)
    <3>1. /\ extracted' = extracted
          /\ \A m \in Sources : progress'[m] = "processed" <=> progress[m] = "processed"
      BY <2>1, <2>2, <2>4 DEF AttemptStep, CreateWindow, ClaimWindow, StartRun, CallFails,
         Reject, EndFailed, MarkFailed, SetProgress, ledger, Unsettled
    <3>2. refs'[backlog] = refs[backlog] \/ pc'[backlog] = "idle"
      BY <2>1, <2>4 DEF AttemptStep, CreateWindow, ClaimWindow, StartRun, CallFails,
         Reject, EndFailed, Finish, Go
    <3>3. \A m \in refs[backlog] : m \in Sources
      BY <2>1
    <3> QED BY <2>2, <3>1, <3>2, <3>3 DEF ExtractedOnce, Unsettled, Selected
  <2> QED BY <1>2, <2>3, <2>4
<1> QED BY <1>1, <1>2, LedgerStep

\* With compact extraction disabled a source yields its belief exactly once,
\* across failures, yields and restarts.
THEOREM ExtractedOnceHolds ==
  ASSUME Workers = {} PROVE Spec => []ExtractedOnce
<1>1. Init => ExtractedOnce /\ Unsettled
  BY DEF Init, ExtractedOnce, Unsettled, Selected, Threads
<1>2. Spec => []TypeInv
  BY TypeInit, TypeNext, PTL DEF Spec
<1>3. TypeInv /\ ExtractedOnce /\ Unsettled /\ [Next]_vars => ExtractedOnce' /\ Unsettled'
  BY OnceNext
<1> QED BY <1>1, <1>2, <1>3, PTL DEF Spec
=============================================================================
