--------------------- MODULE MemoryConsolidationProofs ---------------------
(***************************************************************************)
(* Proofs about MemoryConsolidation: type correctness, the owner of a      *)
(* claim, the promise of the belief store as a refinement, and that a      *)
(* draft and what it became are never both active, for any number of       *)
(* beliefs, scopes and processes.                                          *)
(***************************************************************************)
EXTENDS MemoryConsolidationProps, WellFoundedInduction, TLAPS

-----------------------------------------------------------------------------
(* Type correctness.  The cursor is a belief because a walk in progress has *)
(* one left to visit, and the next one exists.                              *)

LEMMA LeastExists ==
  ASSUME NEW S \in SUBSET Nat, S # {}
  PROVE  \E x \in S : \A y \in S : x <= y
<1>1. \E x \in S : \A y \in S : <<y, x>> \notin OpToRel(<, Nat)
  BY NatLessThanWellFounded, WFMin
<1>2. PICK x \in S : \A y \in S : <<y, x>> \notin OpToRel(<, Nat)
  BY <1>1
<1>3. ASSUME NEW y \in S PROVE x <= y
  <2>1. y \in Nat /\ x \in Nat
    OBVIOUS
  <2>2. y < x => <<y, x>> \in OpToRel(<, Nat)
    BY <2>1 DEF OpToRel
  <2>3. ~(y < x)
    BY <1>2, <2>2, Zenon
  <2> QED BY <2>1, <2>3
<1> QED BY <1>3

LEMMA NextOfIsLeft ==
  ASSUME NEW w, walk[w] \in SUBSET Beliefs, walk[w] # {}
  PROVE  NextOf(w) \in walk[w]
<1> DEFINE later == {b \in walk[w] : b > from[w]}
           rest  == IF later # {} THEN later ELSE walk[w]
<1>1. rest \in SUBSET Nat /\ rest # {} /\ rest \subseteq walk[w]
  BY ConsolidationAssumption DEF ConsolidationAssumption, Beliefs
<1> HIDE DEF rest
<1>2. \E x \in rest : \A y \in rest : x <= y
  BY <1>1, LeastExists
<1>3. NextOf(w) = CHOOSE b \in rest : \A c \in rest : b <= c
  BY DEF NextOf, rest
<1> QED BY <1>1, <1>2, <1>3

LEMMA NoBeliefZero == 0 \notin Beliefs
  BY ConsolidationAssumption DEF ConsolidationAssumption, Beliefs

\* A walk of the background thread has a belief left to visit.
WalkGoesOn == pc \in {"walking", "pausing walk"} => walk[daemon] # {}

\* An attempt has a draft.
DraftAtHand ==
  pc \notin {"idle", "ticking", "walking", "pausing walk"} => draft # 0

TypeInv == TypeOK /\ WalkGoesOn /\ DraftAtHand

LEMMA InitType == Init => TypeInv
<1> SUFFICES ASSUME Init PROVE TypeInv
  OBVIOUS
<1>1. mishaps \in 0..MaxMishaps
  BY ConsolidationAssumption DEF ConsolidationAssumption, Init
<1>2. WalkGoesOn /\ DraftAtHand
  BY DEF Init, WalkGoesOn, DraftAtHand
<1>3. life \in [Beliefs -> Lifecycle] /\ progress \in [Beliefs -> Progress]
  BY DEF Init, Lifecycle, Progress
<1>4. update \in Updates
  BY DEF Init, NoUpdate, Updates
<1> QED BY <1>1, <1>2, <1>3, <1>4 DEF Init, TypeInv, TypeOK, Location

\* What turns, drafts from elsewhere and the clock write.
LEMMA ForegroundType ==
  TypeInv /\ (Foreground \/ Extract \/ Expire) => TypeInv'
<1> SUFFICES ASSUME TypeInv, Foreground \/ Extract \/ Expire PROVE TypeInv'
  OBVIOUS
<1> USE DEF TypeInv, TypeOK, WalkGoesOn, DraftAtHand, Lifecycle, Absent, Active, Form, Mark,
            beliefs, foreground, elsewhere, ledger, attempt, walks
<1>0. NoUpdate \in Updates
  BY DEF NoUpdate, Updates
<1>1. CASE StartTurn BY <1>1 DEF StartTurn
<1>2. CASE EndTurn   BY <1>0, <1>2 DEF EndTurn
<1>3. CASE Propose   BY <1>3 DEF Propose
<1>4. CASE PlanUpdate
  <2>1. PICK S \in SUBSET Active, op \in {"supersede", "retract"} :
          update' = [operation |-> op, targets |-> S]
    BY <1>4 DEF PlanUpdate
  <2>2. update' \in Updates
    BY <2>1 DEF Updates
  <2> QED BY <1>4, <2>2 DEF PlanUpdate
<1>5. CASE Replace
  <2>1. PICK n \in Absent : Supersede(update.targets, n)
    BY <1>5 DEF Replace
  <2>2. life' \in [Beliefs -> Lifecycle] /\ successor' \in [Beliefs -> Beliefs \cup {0}]
    BY <2>1 DEF Supersede
  <2> QED BY <1>0, <1>5, <2>2 DEF Replace
<1>6. CASE Retract
  <2>1. PICK b \in update.targets :
          /\ Mark(b, "retracted")
          /\ update' = IF update.targets = {b} THEN NoUpdate
                       ELSE [update EXCEPT !.targets = @ \ {b}]
    BY <1>6 DEF Retract
  <2>2. life' \in [Beliefs -> Lifecycle] /\ successor' = successor
    BY <2>1
  <2>3. update' \in Updates
    BY <1>0, <2>1 DEF Updates
  <2> QED BY <1>6, <2>2, <2>3 DEF Retract
<1>7. CASE Extract
  <2>1. PICK n \in Absent, l \in {"active", "pending"} :
          Form(n, l) /\ drafts' = drafts \cup {n}
    BY <1>7 DEF Extract
  <2>2. life' \in [Beliefs -> Lifecycle] /\ successor' = successor /\ drafts' \subseteq Beliefs
    BY <2>1
  <2> QED BY <1>7, <2>2 DEF Extract
<1>8. CASE Expire    BY <1>8 DEF Expire
<1> QED BY <1>1, <1>2, <1>3, <1>4, <1>5, <1>6, <1>7, <1>8 DEF Foreground

LEMMA MishapType ==
  ASSUME TypeOK, NEW kind, Mishap(kind)
  PROVE  mishaps' \in 0..MaxMishaps
  BY ConsolidationAssumption DEF ConsolidationAssumption, TypeOK, Mishap

LEMMA ReportType ==
  ASSUME TypeOK, NEW worker, Reported(worker) \/ Yielded
  PROVE  todo' \subseteq {"consolidation", "archive"} /\ pc' \in {"idle", "ticking"}
  BY DEF TypeOK, Reported, Yielded

LEMMA ProgressType ==
  ASSUME TypeOK, NEW p \in Progress, progress' = [progress EXCEPT ![draft] = p]
  PROVE  progress' \in [Beliefs -> Progress]
  BY DEF TypeOK

\* The answers that are accepted.
LEMMA CommitType ==
  ASSUME TypeInv, NEW after \in [Beliefs -> Lifecycle], pc = "calling", Commit(after),
         successor' \in [Beliefs -> Beliefs \cup {0}],
         origin' \in [Beliefs -> Beliefs \cup {0}]
  PROVE  TypeInv'
<1>1. ArchiveDraft(after) \in [Beliefs -> Lifecycle]
  BY DEF ArchiveDraft, Lifecycle
<1>2. progress' \in [Beliefs -> Progress]
  BY DEF Commit, TypeInv, TypeOK, Progress
<1>3. Window \in Windows
  BY DEF TypeInv, TypeOK, DraftAtHand, Windows, Window
<1>4. /\ life' \in [Beliefs -> Lifecycle]
      /\ processed' \subseteq Windows
      /\ UNCHANGED <<drafts, outside, mishaps, orphans>>
      /\ draft' = 0 /\ targets' = {}
  BY <1>1, <1>3 DEF Commit, EndAttempt, TypeInv, TypeOK
<1>5. todo' \subseteq {"consolidation", "archive"} /\ pc' \in {"idle", "ticking"}
  BY ReportType DEF Commit, TypeInv
<1> QED BY <1>2, <1>4, <1>5
        DEF TypeInv, TypeOK, WalkGoesOn, DraftAtHand, outside, foreground, walks, Location

LEMMA AcceptType ==
  TypeInv /\ (AcceptCreate \/ AcceptSupersede \/ AcceptRetire \/ AcceptNoted) => TypeInv'
<1> SUFFICES ASSUME TypeInv,
                    AcceptCreate \/ AcceptSupersede \/ AcceptRetire \/ AcceptNoted
             PROVE  TypeInv'
  OBVIOUS
<1> USE DEF Lifecycle, Absent, Active
<1>0. /\ life \in [Beliefs -> Lifecycle] /\ draft \in Beliefs \cup {0}
      /\ successor \in [Beliefs -> Beliefs \cup {0}]
      /\ origin \in [Beliefs -> Beliefs \cup {0}]
  BY DEF TypeInv, TypeOK
<1>1. CASE AcceptCreate
  <2>1. PICK n \in Absent, l \in {"active", "pending"} :
          Commit([life EXCEPT ![n] = l]) /\ origin' = [origin EXCEPT ![n] = draft]
    BY <1>1 DEF AcceptCreate
  <2>2. [life EXCEPT ![n] = l] \in [Beliefs -> Lifecycle]
    BY <1>0
  <2> QED BY <1>0, <1>1, <2>1, <2>2, CommitType DEF AcceptCreate
<1>2. CASE AcceptSupersede
  <2>1. PICK t \in Updatable, n \in Absent :
          /\ Commit([life EXCEPT ![n] = "active", ![t] = "superseded"])
          /\ successor' = [successor EXCEPT ![t] = n]
          /\ origin' = [origin EXCEPT ![n] = draft]
    BY <1>2 DEF AcceptSupersede
  <2>2. [life EXCEPT ![n] = "active", ![t] = "superseded"] \in [Beliefs -> Lifecycle]
    BY <1>0 DEF Updatable
  <2> QED BY <1>0, <1>2, <2>1, <2>2, CommitType DEF AcceptSupersede
<1>3. CASE AcceptRetire
  <2>1. PICK t \in Updatable, l \in {"retracted", "archived"} :
          Commit([life EXCEPT ![t] = l])
    BY <1>3 DEF AcceptRetire
  <2>2. [life EXCEPT ![t] = l] \in [Beliefs -> Lifecycle]
    BY <1>0 DEF Updatable
  <2> QED BY <1>0, <1>3, <2>1, <2>2, CommitType DEF AcceptRetire
<1>4. CASE AcceptNoted
  BY <1>0, <1>4, CommitType DEF AcceptNoted
<1> QED BY <1>1, <1>2, <1>3, <1>4

\* The other steps of an attempt.
LEMMA ConsolidationType == TypeInv /\ ConsolidationStep => TypeInv'
<1> SUFFICES ASSUME TypeInv, ConsolidationStep PROVE TypeInv'
  OBVIOUS
<1>0. CASE AcceptCreate \/ AcceptSupersede \/ AcceptRetire \/ AcceptNoted
  BY <1>0, AcceptType
<1> USE DEF TypeInv, WalkGoesOn, DraftAtHand, EndAttempt, beliefs, ledger, outside,
            foreground, attempt, walks
<1>1. CASE SelectDraft
  <2>1. CASE Reported("consolidation") /\ UNCHANGED attempt
    BY <1>1, <2>1, ReportType DEF SelectDraft, TypeOK, Location
  <2>2. CASE \E d \in Backlog :
               /\ draft' = d
               /\ targets' = {b \in Active \ drafts : Scope[b] = Scope[d]}
               /\ pc' = "selected"
               /\ UNCHANGED todo
    <3>1. draft' \in Beliefs \cup {0} /\ targets' \subseteq Beliefs
      BY <2>2 DEF Backlog, Retryable, Active
    <3>2. draft' # 0
      BY <2>2, NoBeliefZero DEF Backlog, Retryable, Active
    <3> QED BY <1>1, <2>2, <3>1, <3>2 DEF SelectDraft, TypeOK, Location
  <2> QED BY <1>1, <2>1, <2>2 DEF SelectDraft
<1>2. CASE YieldEarly
  BY <1>2, MishapType, ReportType DEF YieldEarly, TypeOK, Location
<1>3. CASE CreateWindow
  BY <1>3, ReportType DEF CreateWindow, TypeOK, Location
<1>4. CASE ClaimDraft
  BY <1>4, ProgressType DEF ClaimDraft, TypeOK, Location, Progress
<1>5. CASE StartRun
  BY <1>5 DEF StartRun, TypeOK, Location
<1>6. CASE YieldLate
  BY <1>6, MishapType, ReportType, ProgressType DEF YieldLate, TypeOK, Location, Progress
<1>7. CASE CallFails
  BY <1>7, MishapType DEF CallFails, TypeOK, Location
<1>8. CASE Reject
  <2>1. progress' \in [Beliefs -> Progress]
    BY <1>8, ProgressType DEF Reject, Progress
  <2>2. mishaps' \in 0..MaxMishaps
    BY <1>8, MishapType DEF Reject, TypeOK
  <2> QED BY <1>8, <2>1, <2>2 DEF Reject, TypeOK, Location
<1>9. CASE EndFailed
  BY <1>9, ReportType, ProgressType DEF EndFailed, TypeOK, Location, Progress
<1>10. CASE Pause("selected", "pausing") \/ Pause("started", "pausing late")
  BY <1>10 DEF Pause, TypeOK, Location
<1>11. CASE Resume("pausing", "ready") \/ Resume("pausing late", "calling")
  BY <1>11 DEF Resume, TypeOK, Location
<1> QED BY <1>0, <1>1, <1>2, <1>3, <1>4, <1>5, <1>6, <1>7, <1>8, <1>9, <1>10, <1>11
        DEF ConsolidationStep

\* The archive walks, of the background thread and of other processes.
LEMMA WalkType ==
  ASSUME TypeOK, NEW w \in Walkers, StartWalk(w) \/ EndWalk(w)
  PROVE  /\ walk' \in [Walkers -> SUBSET Beliefs]
         /\ from' \in [Walkers -> Beliefs \cup {0}]
         /\ due' \in [Walkers -> SUBSET Beliefs]
         /\ \A v \in Walkers \ {w} : walk'[v] = walk[v]
  BY DEF TypeOK, StartWalk, EndWalk, Active

LEMMA DaemonWalks == daemon \in Walkers /\ daemon \notin Clis
  BY ConsolidationAssumption DEF ConsolidationAssumption, Walkers

LEMMA ArchiveType == TypeInv /\ ArchiveStep => TypeInv'
<1> SUFFICES ASSUME TypeInv, ArchiveStep PROVE TypeInv'
  OBVIOUS
<1> USE DaemonWalks DEF TypeInv, WalkGoesOn, DraftAtHand, beliefs, ledger, foreground, attempt, walks
<1>0. TypeOK
  OBVIOUS
<1>1. CASE BeginArchive
  <2>1. CASE Reported("archive") /\ cursor' = 0 /\ UNCHANGED walks
    BY <1>1, <2>1, ReportType DEF BeginArchive, TypeOK, Location
  <2>2. CASE /\ Active # {} /\ pc' = "walking" /\ StartWalk(daemon)
             /\ UNCHANGED <<todo, cursor>>
    <3>1. walk'[daemon] # {}
      BY <2>2 DEF StartWalk, TypeOK
    <3> QED BY <1>0, <1>1, <2>2, <3>1, WalkType DEF BeginArchive, TypeOK, Location
  <2> QED BY <1>1, <2>1, <2>2 DEF BeginArchive
<1>2. CASE Visit
  <2>1. life' \in [Beliefs -> Lifecycle] /\ successor' = successor
    BY <1>2 DEF Visit, ArchiveIfDue, Mark, TypeOK, Lifecycle
  <2> QED BY <1>2, <2>1 DEF Visit, TypeOK, Location
<1>3. CASE YieldWalk
  <2>1. NextOf(daemon) \in Beliefs
    BY <1>3, NextOfIsLeft DEF YieldWalk, TypeOK
  <2> QED BY <1>0, <1>3, <2>1, WalkType, ReportType DEF YieldWalk, TypeOK, Location
<1>4. CASE ContinueWalk
  <2> DEFINE rest == walk[daemon] \ {NextOf(daemon)}
  <2>1. CASE EndWalk(daemon) /\ Reported("archive") /\ cursor' = 0
    BY <1>0, <1>4, <2>1, WalkType, ReportType DEF ContinueWalk, TypeOK, Location
  <2>2. CASE /\ rest # {} /\ walk' = [walk EXCEPT ![daemon] = rest] /\ pc' = "walking"
             /\ UNCHANGED <<from, due, todo, cursor>>
    <3>1. walk' \in [Walkers -> SUBSET Beliefs] /\ walk'[daemon] # {}
      BY <2>2 DEF TypeOK
    <3> HIDE DEF rest
    <3> QED BY <1>4, <2>2, <3>1 DEF ContinueWalk, TypeOK, Location
  <2> QED BY <1>4, <2>1, <2>2 DEF ContinueWalk
<1> QED BY <1>1, <1>2, <1>3, <1>4 DEF ArchiveStep

LEMMA CliType ==
  ASSUME TypeInv, NEW w \in Clis, CliBegin(w) \/ CliVisit(w)
  PROVE  TypeInv'
<1> USE DaemonWalks DEF TypeInv, WalkGoesOn, DraftAtHand, beliefs, ledger, foreground, attempt, walks
<1>0. TypeOK /\ w \in Walkers /\ w # daemon
  BY DEF Walkers
<1>1. CASE CliBegin(w)
  BY <1>0, <1>1, WalkType DEF CliBegin, TypeOK
<1>2. CASE CliVisit(w)
  <2>1. life' \in [Beliefs -> Lifecycle] /\ successor' = successor
    BY <1>2 DEF CliVisit, ArchiveIfDue, Mark, TypeOK, Lifecycle
  <2>2. CASE EndWalk(w) /\ cursor' = 0
    BY <1>0, <1>2, <2>1, <2>2, WalkType DEF CliVisit, TypeOK
  <2>3. CASE /\ walk' = [walk EXCEPT ![w] = walk[w] \ {NextOf(w)}]
             /\ UNCHANGED <<from, due, cursor>>
    <3>1. walk' \in [Walkers -> SUBSET Beliefs] /\ walk'[daemon] = walk[daemon]
      BY <1>0, <2>3 DEF TypeOK
    <3> QED BY <1>2, <2>1, <2>3, <3>1 DEF CliVisit, TypeOK
  <2> QED BY <1>2, <2>2, <2>3 DEF CliVisit
<1> QED BY <1>1, <1>2

LEMMA NextType == TypeInv /\ [Next]_vars => TypeInv'
<1> SUFFICES ASSUME TypeInv, [Next]_vars PROVE TypeInv'
  OBVIOUS
<1>1. CASE UNCHANGED vars
  BY <1>1 DEF vars, beliefs, foreground, ledger, attempt, walks, TypeInv, TypeOK, WalkGoesOn, DraftAtHand
<1>2. CASE Foreground \/ Extract \/ Expire
  BY <1>2, ForegroundType
<1>3. CASE StartTick
  BY <1>3 DEF StartTick, TypeInv, TypeOK, WalkGoesOn, DraftAtHand, Location,
              beliefs, foreground, ledger, attempt, walks
<1>4. CASE CutShort
  BY <1>4, MishapType, ReportType
  DEF CutShort, TypeInv, TypeOK, WalkGoesOn, DraftAtHand, Location,
      beliefs, foreground, ledger, attempt, walks
<1>5. CASE ConsolidationStep
  BY <1>5, ConsolidationType
<1>6. CASE ArchiveStep
  BY <1>6, ArchiveType
<1>7. CASE \E w \in Clis : CliBegin(w) \/ CliVisit(w)
  BY <1>7, CliType
<1>8. CASE Crash
  <2>1. orphans' \subseteq Beliefs /\ update' \in Updates
    BY <1>8 DEF Crash, TypeInv, TypeOK, NoUpdate, Updates
  <2>2. TypeOK /\ mishaps' \in 0..MaxMishaps
    BY <1>8, MishapType DEF Crash, TypeInv
  <2>3. /\ walk' \in [Walkers -> SUBSET Beliefs]
        /\ from' \in [Walkers -> Beliefs \cup {0}]
        /\ due' \in [Walkers -> SUBSET Beliefs]
    BY <1>8, <2>2, WalkType, DaemonWalks DEF Crash
  <2> QED BY <1>8, <2>1, <2>2, <2>3, ReportType
          DEF Crash, EndAttempt, Yielded, TypeInv, TypeOK, WalkGoesOn, DraftAtHand, Location,
              beliefs, ledger
<1> QED BY <1>1, <1>2, <1>3, <1>4, <1>5, <1>6, <1>7, <1>8 DEF Next, BackgroundStep

\* Every variable keeps to its declared set: the beliefs, the ledger and the
\* places of the workers (state_service.py, processing_ledger.py).
THEOREM TypeCorrect == Spec => []TypeOK
<1>1. TypeInv => TypeOK
  BY DEF TypeInv
<1> QED BY InitType, NextType, <1>1, PTL DEF Spec

-----------------------------------------------------------------------------
(* The owner of a claim.                                                    *)

ClaimInv == TypeInv /\ ClaimHasWorker

LEMMA NextClaim == ClaimInv /\ [Next]_vars => ClaimInv'
<1> SUFFICES ASSUME ClaimInv, [Next]_vars PROVE ClaimHasWorker'
  BY NextType DEF ClaimInv
<1>0. /\ TypeOK /\ ClaimHasWorker
      /\ progress \in [Beliefs -> Progress]
  BY DEF ClaimInv, TypeInv, TypeOK
<1> USE DEF ClaimHasWorker, Working
<1>1. ASSUME UNCHANGED <<progress, pc, draft, orphans>> PROVE ClaimHasWorker'
  BY <1>0, <1>1
<1>2. ASSUME UNCHANGED <<progress, orphans>>, pc \notin Working PROVE ClaimHasWorker'
  BY <1>0, <1>2
<1>3. ASSUME UNCHANGED orphans, NEW p \in Progress \ {"claimed"},
             progress' = [progress EXCEPT ![draft] = p]
      PROVE  ClaimHasWorker'
  BY <1>0, <1>3
<1> USE DEF beliefs, ledger, attempt, walks, outside, elsewhere
<1>4. CASE UNCHANGED vars
  BY <1>1, <1>4 DEF vars
<1>5. CASE Foreground \/ Extract \/ Expire
  BY <1>1, <1>5 DEF Foreground, StartTurn, EndTurn, Propose, PlanUpdate, Replace, Retract,
                    Extract, Expire
<1>6. CASE StartTick \/ CutShort
  BY <1>2, <1>6 DEF StartTick, CutShort
<1>7. CASE ConsolidationStep
  <2>1. CASE SelectDraft \/ YieldEarly \/ CreateWindow
    BY <1>2, <2>1 DEF SelectDraft, YieldEarly, CreateWindow
  <2>2. CASE Pause("selected", "pausing") \/ Resume("pausing", "ready")
    BY <1>2, <2>2 DEF Pause, Resume
  <2>3. CASE Pause("started", "pausing late") \/ Resume("pausing late", "calling")
    BY <1>0, <2>3 DEF Pause, Resume
  <2>4. CASE ClaimDraft
    BY <1>0, <2>4 DEF ClaimDraft, Progress
  <2>5. CASE StartRun
    BY <1>0, <2>5 DEF StartRun
  <2>6. CASE YieldLate \/ Reject \/ EndFailed
    BY <1>3, <2>6 DEF YieldLate, Reject, EndFailed, Progress
  <2>7. CASE CallFails
    BY <1>0, <2>7 DEF CallFails
  <2>8. CASE AcceptCreate \/ AcceptSupersede \/ AcceptRetire \/ AcceptNoted
    <3>1. progress' = [progress EXCEPT ![draft] = "processed"] /\ UNCHANGED orphans
      BY <2>8 DEF AcceptCreate, AcceptSupersede, AcceptRetire, AcceptNoted, Commit
    <3> QED BY <1>3, <3>1 DEF Progress
  <2> QED BY <1>7, <2>1, <2>2, <2>3, <2>4, <2>5, <2>6, <2>7, <2>8 DEF ConsolidationStep
<1>8. CASE ArchiveStep
  BY <1>2, <1>8 DEF ArchiveStep, BeginArchive, Visit, YieldWalk, ContinueWalk
<1>9. CASE \E w \in Clis : CliBegin(w) \/ CliVisit(w)
  BY <1>1, <1>9 DEF CliBegin, CliVisit
<1>10. CASE Crash
  BY <1>0, <1>10, NoBeliefZero DEF Crash
<1> QED BY <1>4, <1>5, <1>6, <1>7, <1>8, <1>9, <1>10 DEF Next, BackgroundStep

\* A claimed draft belongs to the attempt in progress, or a crash left it: no
\* path through an attempt forgets its claim (_mark_failed_if_needed).
THEOREM ClaimHasWorkerHolds == Spec => []ClaimHasWorker
<1>1. Init => ClaimInv
  BY InitType DEF Init, ClaimInv, ClaimHasWorker
<1>2. ClaimInv => ClaimHasWorker
  BY DEF ClaimInv
<1> QED BY <1>1, NextClaim, <1>2, PTL DEF Spec

-----------------------------------------------------------------------------
(* The promise of the belief store.  Whoever writes to a belief he has read *)
(* earlier must know what can have become of it: the archive walk and the   *)
(* worker with its draft, that it is neither absent nor pending; a turn with *)
(* its update, that it was at most archived, because the worker cannot have  *)
(* been at it while the turn had the lock.                                  *)

Standing(b) == life[b] \notin {"absent", "pending"}

\* A turn has the lock, and the beliefs it is about to update have at most
\* been archived since.
TurnHasLock == turn => LockOpen

Updatables ==
  \A b \in update.targets :
    turn /\ life[b] \in {"active", "archived"} /\ successor[b] = 0

StoreInv ==
  /\ TypeInv
  /\ TurnHasLock
  /\ Updatables
  /\ \A w \in Walkers : \A b \in due[w] : Standing(b)
  /\ draft # 0 => Standing(draft)
  /\ \A b \in Beliefs : successor[b] # 0 => life[b] \in Store!Retired
  /\ \A b \in Beliefs : origin[b] # 0 => life[origin[b]] \in Store!Retired

Transacts == \A b \in Beliefs : Store!Superseded(b) \/ Store!Kept(b)

LEMMA KeptAsItIs ==
  ASSUME NEW b, life'[b] = life[b], successor'[b] = successor[b]
  PROVE  Store!Kept(b)
  BY DEF Store!Kept, Store!Moves

LEMMA SameTransacts == UNCHANGED <<life, successor>> => Transacts
  BY KeptAsItIs DEF Transacts

LEMMA FormTransacts ==
  ASSUME TypeOK, NEW n, NEW l \in {"active", "pending"}, Form(n, l)
  PROVE  Transacts
<1>1. SUFFICES ASSUME NEW b \in Beliefs PROVE Store!Kept(b)
  BY DEF Transacts
<1>2. CASE b = n
  BY <1>2 DEF TypeOK, Form, Absent, Store!Kept, Store!Moves
<1>3. CASE b # n
  BY <1>3, KeptAsItIs DEF TypeOK, Form
<1> QED BY <1>2, <1>3

LEMMA MarkTransacts ==
  ASSUME TypeOK, NEW d \in Beliefs, NEW l, Mark(d, l),
         \/ Standing(d) /\ l = "archived"
         \/ life[d] \in {"active", "archived"} /\ l = "retracted"
  PROVE  Transacts
<1>1. SUFFICES ASSUME NEW b \in Beliefs PROVE Store!Kept(b)
  BY DEF Transacts
<1>2. CASE b = d
  BY <1>2 DEF TypeOK, Lifecycle, Mark, Standing, Store!Kept, Store!Moves, Store!Retired
<1>3. CASE b # d
  BY <1>3, KeptAsItIs DEF TypeOK, Mark
<1> QED BY <1>2, <1>3

LEMMA SupersedeTransacts ==
  ASSUME StoreInv, NEW n, Supersede(update.targets, n)
  PROVE  Transacts
<1>0. /\ n \in Beliefs /\ life[n] = "absent"
      /\ \A b \in update.targets : life[b] \in {"active", "archived"} /\ successor[b] = 0
  BY DEF Supersede, Absent, StoreInv, Updatables
<1>1. SUFFICES ASSUME NEW b \in Beliefs PROVE Store!Superseded(b) \/ Store!Kept(b)
  BY DEF Transacts
<1>2. CASE b = n
  BY <1>0, <1>2 DEF Supersede, Store!Kept, Store!Moves
<1>3. CASE b \in update.targets
  BY <1>0, <1>3 DEF Supersede, Store!Superseded
<1>4. CASE b \notin update.targets /\ b # n
  BY <1>4, KeptAsItIs DEF Supersede
<1> QED BY <1>2, <1>3, <1>4

\* The source draft is archived with the rest of the operation.
LEMMA AcceptTransacts ==
  ASSUME StoreInv,
         AcceptCreate \/ AcceptSupersede \/ AcceptRetire \/ AcceptNoted
  PROVE  /\ Transacts
         /\ life'[draft] \in Store!Retired
<1>0. /\ life \in [Beliefs -> Lifecycle]
      /\ successor \in [Beliefs -> Beliefs \cup {0}]
      /\ draft \in Beliefs /\ Standing(draft)
  BY DEF StoreInv, TypeInv, TypeOK, DraftAtHand, AcceptCreate, AcceptSupersede,
         AcceptRetire, AcceptNoted
<1>1. ASSUME NEW after \in [Beliefs -> Lifecycle], life' = ArchiveDraft(after),
             after[draft] \in {"active", "superseded", "retracted", "archived"}
      PROVE  /\ life'[draft] \in Store!Retired
             /\ after[draft] # "active" => life'[draft] = after[draft]
             /\ after[draft] = "active" => life'[draft] = "archived"
             /\ \A b \in Beliefs \ {draft} : life'[b] = after[b]
  BY <1>0, <1>1 DEF ArchiveDraft, Store!Retired
<1>2. life[draft] \in {"active", "superseded", "retracted", "archived"}
  BY <1>0 DEF Standing, Lifecycle
<1>3. ASSUME successor' = successor, life'[draft] = "archived" \/ life'[draft] = life[draft]
      PROVE  Store!Kept(draft)
  BY <1>0, <1>2, <1>3 DEF Store!Kept, Store!Moves, Store!Retired
<1>4. CASE AcceptCreate
  <2>1. PICK n \in Absent, l \in {"active", "pending"} :
          life' = ArchiveDraft([life EXCEPT ![n] = l])
    BY <1>4 DEF AcceptCreate, Commit
  <2> DEFINE after == [life EXCEPT ![n] = l]
  <2>2. n \in Beliefs /\ life[n] = "absent" /\ n # draft /\ successor' = successor
    BY <1>2, <1>4 DEF Absent, AcceptCreate
  <2>3. after \in [Beliefs -> Lifecycle] /\ after[draft] = life[draft]
    BY <1>0, <2>2 DEF Lifecycle
  <2>4. /\ life'[draft] \in Store!Retired
        /\ life'[draft] = "archived" \/ life'[draft] = life[draft]
        /\ \A b \in Beliefs \ {draft} : life'[b] = after[b]
    BY <1>1, <1>2, <2>1, <2>3
  <2>5. ASSUME NEW b \in Beliefs PROVE Store!Kept(b)
    <3>1. CASE b = draft BY <1>3, <2>2, <2>4, <3>1
    <3>2. CASE b = n     BY <1>0, <2>2, <2>4, <3>2 DEF Store!Kept, Store!Moves
    <3>3. CASE b \notin {draft, n}
      BY <1>0, <2>2, <2>4, <3>3, KeptAsItIs
    <3> QED BY <3>1, <3>2, <3>3
  <2> QED BY <2>4, <2>5 DEF Transacts
<1>5. CASE AcceptSupersede
  <2>1. PICK t \in Updatable, n \in Absent :
          /\ life' = ArchiveDraft([life EXCEPT ![n] = "active", ![t] = "superseded"])
          /\ successor' = [successor EXCEPT ![t] = n]
    BY <1>5 DEF AcceptSupersede, Commit
  <2> DEFINE after == [life EXCEPT ![n] = "active", ![t] = "superseded"]
  <2>2. /\ n \in Beliefs /\ life[n] = "absent" /\ n # draft
        /\ t \in Beliefs /\ life[t] = "active" /\ n # t
    BY <1>2 DEF Absent, Updatable, Active
  <2>3. /\ after \in [Beliefs -> Lifecycle]
        /\ after[t] = "superseded" /\ after[n] = "active"
        /\ \A b \in Beliefs \ {t, n} : after[b] = life[b]
    BY <1>0, <2>2 DEF Lifecycle
  <2>4. after[draft] \in {"active", "superseded", "retracted", "archived"}
    BY <1>0, <1>2, <2>2, <2>3
  <2>5. /\ life'[draft] \in Store!Retired
        /\ life'[t] = "superseded" /\ life'[n] = "active"
        /\ draft # t => life'[draft] = "archived" \/ life'[draft] = life[draft]
        /\ \A b \in Beliefs \ {draft} : life'[b] = after[b]
    BY <1>0, <1>1, <2>1, <2>2, <2>3, <2>4
  <2>6. successor[t] = 0
    BY <2>2 DEF StoreInv, Store!Retired
  <2>7. Store!Superseded(t)
    BY <1>0, <2>1, <2>2, <2>5, <2>6 DEF Store!Superseded
  <2>8. ASSUME NEW b \in Beliefs \ {t} PROVE Store!Kept(b)
    <3>1. CASE b = draft
      BY <1>0, <1>2, <2>1, <2>2, <2>5, <3>1 DEF Store!Kept, Store!Moves, Store!Retired
    <3>2. CASE b = n
      BY <1>0, <2>1, <2>2, <2>5, <3>2 DEF Store!Kept, Store!Moves
    <3>3. CASE b \notin {draft, n}
      BY <1>0, <2>1, <2>2, <2>3, <2>5, <3>3, KeptAsItIs
    <3> QED BY <3>1, <3>2, <3>3
  <2> QED BY <2>5, <2>7, <2>8 DEF Transacts
<1>6. CASE AcceptRetire
  <2>1. PICK t \in Updatable, l \in {"retracted", "archived"} :
          life' = ArchiveDraft([life EXCEPT ![t] = l])
    BY <1>6 DEF AcceptRetire, Commit
  <2> DEFINE after == [life EXCEPT ![t] = l]
  <2>2. t \in Beliefs /\ life[t] = "active" /\ successor' = successor
    BY <1>6 DEF Updatable, Active, AcceptRetire
  <2>3. after \in [Beliefs -> Lifecycle] /\ after[t] = l
        /\ \A b \in Beliefs \ {t} : after[b] = life[b]
    BY <1>0, <2>2 DEF Lifecycle
  <2>4. after[draft] \in {"active", "superseded", "retracted", "archived"}
    BY <1>0, <1>2, <2>3
  <2>5. /\ life'[draft] \in Store!Retired
        /\ life'[t] = l
        /\ draft # t => life'[draft] = "archived" \/ life'[draft] = life[draft]
        /\ \A b \in Beliefs \ {draft} : life'[b] = after[b]
    BY <1>0, <1>1, <2>1, <2>2, <2>3, <2>4
  <2>6. ASSUME NEW b \in Beliefs PROVE Store!Kept(b)
    <3>1. CASE b = t
      BY <2>2, <2>5, <3>1 DEF Store!Kept, Store!Moves, Store!Retired
    <3>2. CASE b = draft /\ b # t
      BY <1>3, <2>2, <2>5, <3>2
    <3>3. CASE b \notin {draft, t}
      BY <2>2, <2>3, <2>5, <3>3, KeptAsItIs
    <3> QED BY <3>1, <3>2, <3>3
  <2> QED BY <2>5, <2>6 DEF Transacts
<1>7. CASE AcceptNoted
  <2>1. life' = ArchiveDraft(life) /\ successor' = successor
    BY <1>7 DEF AcceptNoted, Commit
  <2>2. /\ life'[draft] \in Store!Retired
        /\ life'[draft] = "archived" \/ life'[draft] = life[draft]
        /\ \A b \in Beliefs \ {draft} : life'[b] = life[b]
    BY <1>0, <1>1, <1>2, <2>1
  <2> QED BY <1>3, <2>1, <2>2, KeptAsItIs DEF Transacts
<1> QED BY <1>4, <1>5, <1>6, <1>7

LEMMA StepTransacts == StoreInv /\ [Next]_vars => Transacts
<1> SUFFICES ASSUME StoreInv, [Next]_vars PROVE Transacts
  OBVIOUS
<1>0. /\ TypeOK
      /\ \A w \in Walkers : \A b \in due[w] : b \in Beliefs /\ Standing(b)
  BY DEF StoreInv, TypeInv, TypeOK
<1>1. ASSUME NEW w \in Walkers, ArchiveIfDue(w, NextOf(w)) PROVE Transacts
  BY <1>0, <1>1, MarkTransacts, SameTransacts DEF ArchiveIfDue
<1> USE DEF beliefs
<1>2. CASE UNCHANGED vars
  BY <1>2, SameTransacts DEF vars
<1>3. CASE StartTurn \/ EndTurn \/ PlanUpdate \/ Expire
  BY <1>3, SameTransacts DEF StartTurn, EndTurn, PlanUpdate, Expire
<1>4. CASE Propose
  BY <1>0, <1>4, FormTransacts DEF Propose
<1>5. CASE Extract
  BY <1>0, <1>5, FormTransacts DEF Extract
<1>6. CASE Replace
  BY <1>6, SupersedeTransacts DEF Replace
<1>7. CASE Retract
  <2>1. PICK b \in update.targets : Mark(b, "retracted")
    BY <1>7 DEF Retract
  <2>2. b \in Beliefs /\ life[b] \in {"active", "archived"}
    BY <1>0, <2>1 DEF StoreInv, Updatables, TypeOK, Updates
  <2> QED BY <1>0, <2>1, <2>2, MarkTransacts
<1>8. CASE StartTick \/ CutShort \/ Crash
  BY <1>8, SameTransacts DEF StartTick, CutShort, Crash
<1>9. CASE ConsolidationStep
  <2>1. CASE AcceptCreate \/ AcceptSupersede \/ AcceptRetire \/ AcceptNoted
    BY <2>1, AcceptTransacts
  <2>2. CASE \/ SelectDraft \/ YieldEarly \/ CreateWindow \/ ClaimDraft \/ StartRun
             \/ YieldLate \/ CallFails \/ Reject \/ EndFailed
    BY <2>2, SameTransacts
    DEF SelectDraft, YieldEarly, CreateWindow, ClaimDraft, StartRun, YieldLate,
        CallFails, Reject, EndFailed
  <2>3. ASSUME NEW here, NEW there, Pause(here, there) \/ Resume(here, there)
        PROVE  Transacts
    BY <2>3, SameTransacts DEF Pause, Resume
  <2> QED BY <1>9, <2>1, <2>2, <2>3 DEF ConsolidationStep
<1>10. CASE BeginArchive \/ YieldWalk \/ ContinueWalk
  BY <1>10, SameTransacts DEF BeginArchive, YieldWalk, ContinueWalk
<1>11. CASE Visit
  BY <1>1, <1>11, DaemonWalks DEF Visit
<1>12. ASSUME NEW w \in Clis, CliBegin(w) \/ CliVisit(w) PROVE Transacts
  BY <1>1, <1>12, SameTransacts DEF CliBegin, CliVisit, Walkers
<1> QED BY <1>2, <1>3, <1>4, <1>5, <1>6, <1>7, <1>8, <1>9, <1>10, <1>11, <1>12
        DEF Next, Foreground, BackgroundStep, ArchiveStep

\* Once neither absent nor pending, a belief stays so; once retired likewise.
LEMMA TransactsKeep ==
  ASSUME TypeOK, Transacts, NEW b \in Beliefs
  PROVE  /\ Standing(b) => Standing(b)'
         /\ life[b] \in Store!Retired => life'[b] \in Store!Retired
         /\ successor'[b] # successor[b] => life'[b] \in Store!Retired
<1>1. CASE Store!Superseded(b)
  BY <1>1 DEF Store!Superseded, Standing, Store!Retired
<1>2. CASE Store!Kept(b)
  <2>1. life[b] \in Lifecycle /\ life'[b] \in Store!Moves(life[b])
    BY <1>2 DEF Store!Kept, TypeOK
  <2>2. Standing(b) => life[b] \in Store!Retired \cup {"active"}
    BY <2>1 DEF Standing, Lifecycle, Store!Retired
  <2>3. life[b] \in Store!Retired => life'[b] \in Store!Retired
    BY <2>1 DEF Store!Moves, Store!Retired
  <2>4. life[b] = "active" => life'[b] \in Store!Retired \cup {"active"}
    BY <2>1 DEF Store!Moves, Store!Retired
  <2>5. successor'[b] = successor[b]
    BY <1>2 DEF Store!Kept
  <2> QED BY <2>2, <2>3, <2>4, <2>5 DEF Standing, Store!Retired
<1> QED BY <1>1, <1>2 DEF Transacts

\* What a worker reads is active then, and origins are noted by the
\* transaction that retires the draft.
ReadsActive ==
  /\ \A w \in Walkers : \A b \in due'[w] : b \in due[w] \/ life[b] = "active"
  /\ draft' # 0 => draft' = draft \/ life[draft'] = "active"

NotesOrigin ==
  \/ UNCHANGED origin
  \/ /\ life'[draft] \in Store!Retired
     /\ \E n \in Beliefs : origin' = [origin EXCEPT ![n] = draft]

LEMMA StepReads == StoreInv /\ [Next]_vars => ReadsActive /\ NotesOrigin
<1> SUFFICES ASSUME StoreInv, [Next]_vars PROVE ReadsActive /\ NotesOrigin
  OBVIOUS
<1>0. TypeOK
  BY DEF StoreInv, TypeInv
<1>1. ASSUME NEW w \in Walkers, StartWalk(w) \/ EndWalk(w), UNCHANGED draft PROVE ReadsActive
  BY <1>0, <1>1 DEF TypeOK, StartWalk, EndWalk, Active, ReadsActive
<1>2. ASSUME UNCHANGED <<due, draft>> PROVE ReadsActive
  BY <1>2 DEF ReadsActive
<1>3. ASSUME UNCHANGED due, EndAttempt PROVE ReadsActive
  BY <1>3 DEF ReadsActive, EndAttempt
<1> USE DaemonWalks DEF beliefs, ledger, attempt, walks, outside, elsewhere, NotesOrigin
<1>4. CASE UNCHANGED vars
  BY <1>2, <1>4 DEF vars
<1>5. CASE Foreground \/ Extract \/ Expire
  BY <1>2, <1>5 DEF Foreground, StartTurn, EndTurn, Propose, PlanUpdate, Replace, Retract,
                    Extract, Expire
<1>6. CASE StartTick \/ CutShort
  BY <1>2, <1>6 DEF StartTick, CutShort
<1>7. CASE ConsolidationStep
  <2>1. CASE SelectDraft
    BY <1>2, <2>1 DEF SelectDraft, Backlog, Retryable, Active, ReadsActive
  <2>2. CASE YieldEarly \/ CreateWindow \/ YieldLate \/ EndFailed
    BY <1>2, <1>3, <2>2 DEF YieldEarly, CreateWindow, YieldLate, EndFailed
  <2>3. CASE ClaimDraft \/ StartRun \/ CallFails \/ Reject
    BY <1>2, <2>3 DEF ClaimDraft, StartRun, CallFails, Reject
  <2>4. ASSUME NEW here, NEW there, Pause(here, there) \/ Resume(here, there)
        PROVE  ReadsActive /\ NotesOrigin
    BY <1>2, <2>4 DEF Pause, Resume
  <2>5. CASE AcceptCreate \/ AcceptSupersede \/ AcceptRetire \/ AcceptNoted
    <3>1. life'[draft] \in Store!Retired
      BY <2>5, AcceptTransacts
    <3>2. NotesOrigin
      BY <2>5, <3>1
      DEF AcceptCreate, AcceptSupersede, AcceptRetire, AcceptNoted, Absent
    <3>3. EndAttempt /\ UNCHANGED due
      BY <2>5 DEF AcceptCreate, AcceptSupersede, AcceptRetire, AcceptNoted, Commit
    <3> QED BY <1>3, <3>2, <3>3
  <2> QED BY <1>7, <2>1, <2>2, <2>3, <2>4, <2>5 DEF ConsolidationStep
<1>8. CASE ArchiveStep
  BY <1>1, <1>2, <1>8 DEF ArchiveStep, BeginArchive, Visit, YieldWalk, ContinueWalk
<1>9. ASSUME NEW w \in Clis, CliBegin(w) \/ CliVisit(w)
      PROVE  ReadsActive /\ NotesOrigin
  BY <1>1, <1>2, <1>9 DEF CliBegin, CliVisit, Walkers
<1>10. CASE Crash
  BY <1>0, <1>10 DEF Crash, EndWalk, EndAttempt, ReadsActive, TypeOK
<1> QED BY <1>4, <1>5, <1>6, <1>7, <1>8, <1>9, <1>10 DEF Next, BackgroundStep

\* The lock is left to the turn until it ends.
LEMMA StepLock == StoreInv /\ [Next]_vars => TurnHasLock'
<1> SUFFICES ASSUME StoreInv, [Next]_vars PROVE TurnHasLock'
  OBVIOUS
<1> USE DEF TurnHasLock, LockOpen, foreground, outside, elsewhere
<1>0. TurnHasLock
  BY DEF StoreInv
<1>1. ASSUME UNCHANGED <<turn, pc>> PROVE TurnHasLock'
  BY <1>0, <1>1
<1>2. ASSUME UNCHANGED turn, ~turn \/ pc \notin {"idle", "ticking", "pausing",
                                               "pausing late", "pausing walk"}
      PROVE  TurnHasLock'
  BY <1>0, <1>2
<1>3. CASE UNCHANGED vars
  BY <1>1, <1>3 DEF vars
<1>4. CASE Foreground \/ Extract \/ Expire
  BY <1>0, <1>4 DEF Foreground, StartTurn, EndTurn, Propose, PlanUpdate, Replace, Retract,
                    Extract, Expire
<1>5. CASE StartTick \/ CutShort
  BY <1>0, <1>5 DEF StartTick, CutShort, Yielded
<1>6. CASE ConsolidationStep
  <2>1. CASE \/ SelectDraft \/ YieldEarly \/ CreateWindow \/ ClaimDraft \/ StartRun
             \/ YieldLate \/ CallFails \/ Reject \/ EndFailed
    BY <1>2, <2>1
    DEF SelectDraft, YieldEarly, CreateWindow, ClaimDraft, StartRun, YieldLate,
        CallFails, Reject, EndFailed
  <2>2. CASE Pause("selected", "pausing") \/ Pause("started", "pausing late")
    BY <1>2, <2>2 DEF Pause
  <2>3. CASE Resume("pausing", "ready") \/ Resume("pausing late", "calling")
    BY <1>2, <2>3 DEF Resume
  <2>4. CASE AcceptCreate \/ AcceptSupersede \/ AcceptRetire \/ AcceptNoted
    BY <1>2, <2>4 DEF AcceptCreate, AcceptSupersede, AcceptRetire, AcceptNoted, Commit
  <2> QED BY <1>6, <2>1, <2>2, <2>3, <2>4 DEF ConsolidationStep
<1>7. CASE ArchiveStep
  BY <1>2, <1>7 DEF ArchiveStep, BeginArchive, Visit, YieldWalk, ContinueWalk
<1>8. CASE \E w \in Clis : CliBegin(w) \/ CliVisit(w)
  BY <1>1, <1>8 DEF CliBegin, CliVisit
<1>9. CASE Crash
  BY <1>9 DEF Crash
<1> QED BY <1>3, <1>4, <1>5, <1>6, <1>7, <1>8, <1>9 DEF Next, BackgroundStep

LEMMA StepUpdates == StoreInv /\ [Next]_vars => Updatables'
<1> SUFFICES ASSUME StoreInv, [Next]_vars PROVE Updatables'
  OBVIOUS
<1> USE DEF beliefs, foreground, outside, elsewhere
<1>0. /\ TypeOK /\ Updatables /\ TurnHasLock
      /\ life \in [Beliefs -> Lifecycle] /\ update.targets \subseteq Beliefs
  BY DEF StoreInv, TypeInv, TypeOK, Updates
<1>1. ASSUME UNCHANGED <<life, successor, foreground>> PROVE Updatables'
  BY <1>0, <1>1 DEF Updatables
<1>2. ASSUME update' = NoUpdate PROVE Updatables'
  BY <1>2 DEF Updatables, NoUpdate
<1>3. ASSUME NEW n, NEW l, Form(n, l), UNCHANGED foreground PROVE Updatables'
  <2>1. ASSUME NEW b \in update.targets PROVE life'[b] = life[b]
    BY <1>0, <1>3, <2>1 DEF Form, Absent, Updatables
  <2> QED BY <1>0, <1>3, <2>1 DEF Form, Updatables
<1>4. ASSUME NEW w \in Walkers, ArchiveIfDue(w, NextOf(w)), UNCHANGED foreground
      PROVE  Updatables'
  <2>1. ASSUME NEW b \in update.targets
        PROVE  life'[b] \in {life[b], "archived"} /\ successor'[b] = successor[b]
    BY <1>0, <1>4, <2>1 DEF ArchiveIfDue, Mark
  <2> QED BY <1>0, <1>4, <2>1 DEF Updatables
<1>5. CASE UNCHANGED vars
  BY <1>1, <1>5 DEF vars
<1>6. CASE StartTurn
  BY <1>0, <1>6 DEF StartTurn, Updatables
<1>7. CASE EndTurn \/ Replace \/ Crash
  BY <1>2, <1>7 DEF EndTurn, Replace, Crash
<1>8. CASE Propose \/ Extract
  BY <1>3, <1>8 DEF Propose, Extract
<1>9. CASE PlanUpdate
  <2>1. PICK S \in SUBSET Active, op \in {"supersede", "retract"} :
          update' = [operation |-> op, targets |-> S]
    BY <1>9 DEF PlanUpdate
  <2>2. ASSUME NEW b \in S PROVE life[b] = "active" /\ successor[b] = 0
    BY <2>1 DEF Active, StoreInv, Store!Retired
  <2> QED BY <1>9, <2>1, <2>2 DEF PlanUpdate, Updatables
<1>10. CASE Retract
  <2>1. PICK d \in update.targets :
          /\ Mark(d, "retracted")
          /\ update' = IF update.targets = {d} THEN NoUpdate
                       ELSE [update EXCEPT !.targets = @ \ {d}]
    BY <1>10 DEF Retract
  <2>2. update'.targets = update.targets \ {d}
    BY <1>0, <2>1 DEF NoUpdate, TypeOK, Updates
  <2>3. ASSUME NEW b \in update.targets \ {d}
        PROVE  life'[b] = life[b] /\ successor'[b] = successor[b]
    BY <1>0, <2>1, <2>3 DEF Mark
  <2> QED BY <1>0, <1>10, <2>2, <2>3 DEF Retract, Updatables
<1>11. CASE Expire \/ StartTick \/ CutShort
  BY <1>1, <1>11 DEF Expire, StartTick, CutShort
<1>12. CASE ConsolidationStep
  <2>1. CASE \/ SelectDraft \/ YieldEarly \/ CreateWindow \/ ClaimDraft \/ StartRun
             \/ YieldLate \/ CallFails \/ Reject \/ EndFailed
    BY <1>1, <2>1
    DEF SelectDraft, YieldEarly, CreateWindow, ClaimDraft, StartRun, YieldLate,
        CallFails, Reject, EndFailed
  <2>2. ASSUME NEW here, NEW there, Pause(here, there) \/ Resume(here, there)
        PROVE  Updatables'
    BY <1>1, <2>2 DEF Pause, Resume
  <2>3. CASE AcceptCreate \/ AcceptSupersede \/ AcceptRetire \/ AcceptNoted
    <3>1. pc = "calling" /\ UNCHANGED update
      BY <2>3 DEF AcceptCreate, AcceptSupersede, AcceptRetire, AcceptNoted, Commit
    <3>2. ~turn
      BY <1>0, <3>1 DEF TurnHasLock, LockOpen
    <3> QED BY <1>0, <3>1, <3>2 DEF Updatables
  <2> QED BY <1>12, <2>1, <2>2, <2>3 DEF ConsolidationStep
<1>13. CASE BeginArchive \/ YieldWalk \/ ContinueWalk
  BY <1>1, <1>13 DEF BeginArchive, YieldWalk, ContinueWalk
<1>14. CASE Visit
  BY <1>4, <1>14, DaemonWalks DEF Visit
<1>15. ASSUME NEW w \in Clis, CliBegin(w) \/ CliVisit(w) PROVE Updatables'
  BY <1>1, <1>4, <1>15 DEF CliBegin, CliVisit, Walkers
<1> QED BY <1>5, <1>6, <1>7, <1>8, <1>9, <1>10, <1>11, <1>12, <1>13, <1>14, <1>15
        DEF Next, Foreground, BackgroundStep, ArchiveStep

LEMMA NextStore == StoreInv /\ [Next]_vars => StoreInv'
<1> SUFFICES ASSUME StoreInv, [Next]_vars PROVE StoreInv'
  OBVIOUS
<1>1. TypeInv /\ TypeOK /\ TypeInv' /\ TypeOK'
  BY NextType DEF StoreInv, TypeInv
<1>2. Transacts /\ ReadsActive /\ NotesOrigin /\ TurnHasLock' /\ Updatables'
  BY StepTransacts, StepReads, StepLock, StepUpdates
<1>3. ASSUME NEW b \in Beliefs, Standing(b) \/ life[b] = "active" PROVE Standing(b)'
  BY <1>1, <1>2, <1>3, TransactsKeep DEF Standing
<1>4. \A w \in Walkers : \A b \in due'[w] : Standing(b)'
  <2> TAKE w \in Walkers
  <2> TAKE b \in due'[w]
  <2>1. b \in Beliefs
    BY <1>1 DEF TypeOK
  <2>2. Standing(b) \/ life[b] = "active"
    BY <1>2 DEF ReadsActive, StoreInv
  <2> QED BY <1>3, <2>1, <2>2
<1>5. draft' # 0 => Standing(draft)'
  <2> HAVE draft' # 0
  <2>1. CASE draft' = draft
    <3>1. draft \in Beliefs /\ Standing(draft)
      BY <1>1, <2>1 DEF TypeOK, StoreInv
    <3> QED BY <1>3, <2>1, <3>1 DEF Standing
  <2>2. CASE life[draft'] = "active"
    <3>1. draft' \in Beliefs
      BY <1>1 DEF TypeOK
    <3>2. life'[draft'] \notin {"absent", "pending"}
      BY <1>1, <1>2, <2>2, <3>1, TransactsKeep DEF Standing
    <3> QED BY <3>2 DEF Standing
  <2> QED BY <1>2, <2>1, <2>2 DEF ReadsActive
<1>6. \A b \in Beliefs : successor'[b] # 0 => life'[b] \in Store!Retired
  BY <1>1, <1>2, TransactsKeep DEF StoreInv
<1>7. \A b \in Beliefs : origin'[b] # 0 => life'[origin'[b]] \in Store!Retired
  <2> TAKE b \in Beliefs
  <2> HAVE origin'[b] # 0
  <2>1. CASE origin'[b] = origin[b]
    <3>1. origin[b] \in Beliefs /\ life[origin[b]] \in Store!Retired
      BY <1>1, <2>1 DEF TypeOK, StoreInv
    <3> QED BY <1>1, <1>2, <2>1, <3>1, TransactsKeep
  <2>2. CASE origin'[b] # origin[b]
    BY <1>1, <1>2, <2>2 DEF NotesOrigin, TypeOK
  <2> QED BY <2>1, <2>2
<1> QED BY <1>1, <1>2, <1>4, <1>5, <1>6, <1>7 DEF StoreInv, Store!Retired

LEMMA InitStore == Init => StoreInv
  BY InitType DEF Init, StoreInv, TurnHasLock, Updatables, NoUpdate

\* Whatever the turns, the drafts, the consolidation and the archive walks do
\* to each other, a belief is superseded once, by a belief formed with it, and
\* never becomes active again (_require_active_atomic_target, supersede_many).
THEOREM Refinement == Spec => ImplementsBeliefLifecycle
<1>1. Init => Store!Init
  BY DEF Init, Store!Init
<1>2. StoreInv /\ [Next]_vars => [Store!Transact]_<<life, successor>>
  <2> SUFFICES ASSUME StoreInv, [Next]_vars PROVE Store!Transact
    OBVIOUS
  <2>1. TypeOK'
    BY NextType DEF StoreInv, TypeInv
  <2> QED BY <2>1, StepTransacts
          DEF TypeOK, Lifecycle, Transacts, Store!Transact, Store!Lifecycle
<1> QED BY InitStore, NextStore, <1>1, <1>2, PTL
        DEF Spec, ImplementsBeliefLifecycle, Store!Spec

\* A draft and the belief it was consolidated into are never both active: what
\* is recalled is not said twice (_archive_consolidated_source_drafts).
THEOREM SaidOnceHolds == Spec => []SaidOnce
<1>1. StoreInv => SaidOnce
  BY DEF StoreInv, SaidOnce, Store!Retired
<1> QED BY InitStore, NextStore, <1>1, PTL DEF Spec
=============================================================================
