------------------------ MODULE MemoryConsolidation ------------------------
(***************************************************************************)
(* Memory consolidation: extracted drafts are compared with the active     *)
(* beliefs of their scope and become consolidated beliefs, and beliefs     *)
(* whose validity has ended are archived.                                  *)
(*                                                                         *)
(* Four kinds of actors write atomic beliefs.  A turn's memory_propose     *)
(* runs under the Subject's lock.  The background thread runs the          *)
(* consolidation worker and the archive worker one after the other within  *)
(* a tick, each under the lock, which every yield check opens for a        *)
(* moment.  A compact extraction writes drafts without the lock.  And      *)
(* "alpha cognition consolidate --now" is a process of its own: its        *)
(* archive walk has a lock that nobody shares.                             *)
(*                                                                         *)
(* Each SQLite transaction is one action.  The LLM is external: it answers *)
(* with one operation of the contract, fails, or is refused.               *)
(* Reaffirming a belief changes its sources only and is left out.          *)
(***************************************************************************)
EXTENDS Integers, FiniteSets

CONSTANTS
  NBeliefs,    \* beliefs are 1..NBeliefs, in the order of their ids (bound)
  Scope,       \* Scope[b]: target unit (scope and about) of belief b
  Expiring,    \* the beliefs that have a valid_until
  MinDrafts,   \* cognition.background.consolidation.min_drafts
  daemon,      \* the background thread
  Clis,        \* "consolidate --now" processes
  Faults,      \* kinds of mishap that may happen: see Mishaps
  MaxMishaps   \* mishaps in one behaviour (bound)

Beliefs == 1..NBeliefs
Walkers == {daemon} \cup Clis
Mishaps == {"llm", "yield", "crash"}

ASSUME ConsolidationAssumption ==
  /\ NBeliefs \in Nat
  /\ DOMAIN Scope = Beliefs
  /\ Expiring \subseteq Beliefs
  /\ MinDrafts \in Nat
  /\ daemon \notin Clis
  /\ Faults \subseteq Mishaps
  /\ MaxMishaps \in Nat

\* A source window: the draft and the update targets that its key hashes.
Windows == Beliefs \X SUBSET Beliefs

VARIABLES
  life,       \* lifecycle of each belief
  successor,  \* superseded_by, 0 when there is none
  drafts,     \* beliefs with derivation stage background_extracted
  origin,     \* draft a consolidated belief was made of, else 0 (history)
  expired,    \* beliefs whose valid_until has passed
  progress,   \* background_source_progress.status for stage consolidation
  processed,  \* source windows that are processed
  turn,       \* a turn holds the Subject's lock
  update,     \* what its memory_propose has planned and not yet written
  pc,         \* where the background thread is
  todo,       \* workers that this tick has still to run
  draft,      \* the selected draft, 0 when there is none
  targets,    \* the active beliefs shown to the LLM
  walk,       \* walk[w]: active beliefs that archive walk w has still to visit
  from,       \* from[w]: the cursor walk w started after
  due,        \* due[w]: beliefs that walk w found expired when it started
  cursor,     \* the checkpoint's last_belief_id, 0 when there is none
  mishaps,    \* mishaps so far
  orphans     \* drafts left claimed by a crash (history)

beliefs == <<life, successor, drafts, origin>>
ledger  == <<progress, processed>>
attempt == <<draft, targets>>
walks   == <<walk, from, due>>
foreground == <<turn, update>>
vars == <<beliefs, expired, ledger, foreground, pc, todo, attempt, walks, cursor,
          mishaps, orphans>>

Lifecycle == {"absent", "active", "pending", "superseded", "retracted", "archived"}
Progress  == {"none", "claimed", "failed", "processed"}
Updates   == [operation : {"none", "supersede", "retract"}, targets : SUBSET Beliefs]
NoUpdate  == [operation |-> "none", targets |-> {}]
Location  == {"idle", "ticking", "selected", "pausing", "ready", "created",
              "claimed", "started", "pausing late", "calling", "failing",
              "walking", "pausing walk"}

\* Inside an attempt whose draft is claimed.
Working == {"claimed", "started", "pausing late", "calling", "failing"}

TypeOK ==
  /\ life \in [Beliefs -> Lifecycle]
  /\ successor \in [Beliefs -> Beliefs \cup {0}]
  /\ drafts \subseteq Beliefs
  /\ origin \in [Beliefs -> Beliefs \cup {0}]
  /\ expired \subseteq Expiring
  /\ progress \in [Beliefs -> Progress]
  /\ processed \subseteq Windows
  /\ turn \in BOOLEAN
  /\ update \in Updates
  /\ pc \in Location
  /\ todo \subseteq {"consolidation", "archive"}
  /\ draft \in Beliefs \cup {0}
  /\ targets \subseteq Beliefs
  /\ walk \in [Walkers -> SUBSET Beliefs]
  /\ from \in [Walkers -> Beliefs \cup {0}]
  /\ due \in [Walkers -> SUBSET Beliefs]
  /\ cursor \in Beliefs \cup {0}
  /\ mishaps \in 0..MaxMishaps
  /\ orphans \subseteq Beliefs

Init ==
  /\ life = [b \in Beliefs |-> "absent"]
  /\ successor = [b \in Beliefs |-> 0]
  /\ drafts = {}
  /\ origin = [b \in Beliefs |-> 0]
  /\ expired = {}
  /\ progress = [b \in Beliefs |-> "none"]
  /\ processed = {}
  /\ turn = FALSE
  /\ update = NoUpdate
  /\ pc = "idle"
  /\ todo = {}
  /\ draft = 0
  /\ targets = {}
  /\ walk = [w \in Walkers |-> {}]
  /\ from = [w \in Walkers |-> 0]
  /\ due = [w \in Walkers |-> {}]
  /\ cursor = 0
  /\ mishaps = 0
  /\ orphans = {}

-----------------------------------------------------------------------------
Absent == {b \in Beliefs : life[b] = "absent"}
Active == {b \in Beliefs : life[b] = "active"}

\* Where a turn's try_acquire finds no holder.
LockOpen == pc \in {"idle", "ticking", "pausing", "pausing late", "pausing walk"}

Mishap(kind) ==
  /\ kind \in Faults
  /\ mishaps < MaxMishaps
  /\ mishaps' = mishaps + 1

-----------------------------------------------------------------------------
(* Writes to the belief store.  A new belief gets a random id.              *)

\* write_atomic_belief() of belief n.
Form(n, lifecycle) ==
  /\ n \in Absent
  /\ life' = [life EXCEPT ![n] = lifecycle]
  /\ UNCHANGED successor

\* supersede_many(): n is formed and the beliefs of S now point to it.
Supersede(S, n) ==
  /\ n \in Absent
  /\ life' = [b \in Beliefs |-> IF b = n THEN "active"
                                ELSE IF b \in S THEN "superseded" ELSE life[b]]
  /\ successor' = [b \in Beliefs |-> IF b \in S THEN n ELSE successor[b]]

\* mark_lifecycle(): whatever the lifecycle was.
Mark(b, lifecycle) ==
  /\ life' = [life EXCEPT ![b] = lifecycle]
  /\ UNCHANGED successor

-----------------------------------------------------------------------------
(* Turns, their memory_propose tool, drafts from elsewhere, time.           *)

elsewhere == <<expired, ledger, pc, todo, attempt, walks, cursor, mishaps, orphans>>

StartTurn ==
  /\ LockOpen
  /\ ~turn
  /\ turn' = TRUE
  /\ UNCHANGED <<beliefs, update, elsewhere>>

\* ... also by an exception half way through an update.
EndTurn ==
  /\ turn
  /\ turn' = FALSE
  /\ update' = NoUpdate
  /\ UNCHANGED <<beliefs, elsewhere>>

\* Bound: an id is left for what each open draft will be consolidated into.
Room(k) ==
  Cardinality(Absent) >= k + Cardinality({d \in drafts : progress[d] # "processed"})

\* append_distinct, or an update that waits for confirmation
Propose ==
  /\ turn
  /\ update = NoUpdate
  /\ Room(1)
  /\ \E n \in Absent, l \in {"active", "pending"} : Form(n, l)
  /\ UNCHANGED <<drafts, origin, foreground, elsewhere>>

\* _plan_update() reads the targets: they are active, and share the scope of
\* what is to replace them.
PlanUpdate ==
  /\ turn
  /\ update = NoUpdate
  /\ \E S \in SUBSET Active \ {{}}, op \in {"supersede", "retract"} :
       /\ op = "supersede" => \A b, c \in S : Scope[b] = Scope[c]
       /\ update' = [operation |-> op, targets |-> S]
  /\ UNCHANGED <<beliefs, turn, elsewhere>>

\* replace (one target) and merge (several), in a later transaction that does
\* not look at the targets again
Replace ==
  /\ update.operation = "supersede"
  /\ Room(1)
  /\ \E n \in Absent :
       /\ \A b \in update.targets : Scope[b] = Scope[n]
       /\ Supersede(update.targets, n)
  /\ update' = NoUpdate
  /\ UNCHANGED <<drafts, origin, turn, elsewhere>>

\* retract: one transaction per target
Retract ==
  /\ update.operation = "retract"
  /\ \E b \in update.targets :
       /\ Mark(b, "retracted")
       /\ update' = IF update.targets = {b} THEN NoUpdate
                    ELSE [update EXCEPT !.targets = @ \ {b}]
  /\ UNCHANGED <<drafts, origin, turn, elsewhere>>

\* An extraction is accepted: compact extractions do not ask for the lock.
Extract ==
  /\ Room(2)
  /\ \E n \in Absent, l \in {"active", "pending"} :
       /\ Form(n, l)
       /\ drafts' = drafts \cup {n}
  /\ UNCHANGED <<origin, foreground, elsewhere>>

Expire ==
  /\ \E b \in Expiring \ expired :
       /\ life[b] = "active"
       /\ expired' = expired \cup {b}
  /\ UNCHANGED <<beliefs, foreground, ledger, pc, todo, attempt, walks, cursor,
                 mishaps, orphans>>

-----------------------------------------------------------------------------
(* A tick of the background thread: the eligible workers, in order.         *)

\* Mutation: a failed draft is not tried again.
RetryableFresh(S) == {d \in S : progress[d] = "none"}

Retryable(S) == {d \in S : progress[d] \in {"none", "failed"}}

\* The drafts the worker may select, by what _source_status() says of them.
Backlog == Retryable(drafts \cap Active)

\* _eligible_workers(), read without the lock
StartTick ==
  /\ pc = "idle"
  /\ pc' = "ticking"
  /\ todo' = {w \in {"consolidation", "archive"} :
                IF w = "archive" THEN Active \cap expired # {}
                ELSE Cardinality(Backlog) >= MinDrafts}
  /\ todo' # {}
  /\ UNCHANGED <<beliefs, expired, ledger, foreground, attempt, walks, cursor,
                 mishaps, orphans>>

\* A worker has reported: the tick goes on with the next one.
Reported(worker) ==
  /\ todo' = todo \ {worker}
  /\ pc' = IF todo' = {} THEN "idle" ELSE "ticking"

\* It has yielded: the tick is over.
Yielded == todo' = {} /\ pc' = "idle"

\* The tick's budget ends, or a stop is requested, between two workers.
CutShort ==
  /\ pc = "ticking"
  /\ Mishap("yield")
  /\ Yielded
  /\ UNCHANGED <<beliefs, expired, ledger, foreground, attempt, walks, cursor, orphans>>

-----------------------------------------------------------------------------
(* MemoryConsolidationWorker._run_with(): one draft.                        *)

outside == <<expired, foreground, walks, cursor>>

\* _next_consolidation_candidate(): the retryable draft with the least id, and
\* the active beliefs of its scope that are not drafts themselves.
SelectDraft ==
  /\ pc = "ticking"
  /\ "consolidation" \in todo
  /\ ~turn
  /\ IF Backlog = {}
     THEN Reported("consolidation") /\ UNCHANGED attempt
     ELSE \E d \in Backlog :
            /\ \A e \in Backlog : d <= e
            /\ draft' = d
            /\ targets' = {b \in Active \ drafts : Scope[b] = Scope[d]}
            /\ pc' = "selected"
            /\ UNCHANGED todo
  /\ UNCHANGED <<beliefs, ledger, outside, mishaps, orphans>>

\* The attempt is over: its locals are gone.
EndAttempt == draft' = 0 /\ targets' = {}

YieldEarly ==
  /\ pc = "selected"
  /\ Mishap("yield")
  /\ Yielded
  /\ EndAttempt
  /\ UNCHANGED <<beliefs, ledger, outside, orphans>>

\* A yield check opens the lock for a moment: a turn may run in between, and
\* when nobody was queued the check returns False all the same.
Pause(here, there) ==
  /\ pc = here
  /\ pc' = there
  /\ UNCHANGED <<beliefs, ledger, outside, todo, attempt, mishaps, orphans>>

Resume(here, there) ==
  /\ pc = here
  /\ ~turn
  /\ pc' = there
  /\ UNCHANGED <<beliefs, ledger, outside, todo, attempt, mishaps, orphans>>

Window == <<draft, targets>>

\* create_source_window() gives the existing window back; a processed one
\* ends the attempt.
CreateWindow ==
  /\ pc = "ready"
  /\ IF Window \in processed
     THEN Reported("consolidation") /\ EndAttempt
     ELSE pc' = "created" /\ UNCHANGED <<todo, attempt>>
  /\ UNCHANGED <<beliefs, ledger, outside, mishaps, orphans>>

\* Source and window in one transaction, whatever their statuses.
ClaimDraft ==
  /\ pc = "created"
  /\ pc' = "claimed"
  /\ progress' = [progress EXCEPT ![draft] = "claimed"]
  /\ UNCHANGED <<beliefs, processed, outside, todo, attempt, mishaps, orphans>>

StartRun ==
  /\ pc = "claimed"
  /\ pc' = "started"
  /\ UNCHANGED <<beliefs, ledger, outside, todo, attempt, mishaps, orphans>>

YieldLate ==
  /\ pc = "started"
  /\ Mishap("yield")
  /\ progress' = [progress EXCEPT ![draft] = "failed"]
  /\ Yielded
  /\ EndAttempt
  /\ UNCHANGED <<beliefs, processed, outside, orphans>>

CallFails ==
  /\ pc = "calling"
  /\ Mishap("llm")
  /\ pc' = "failing"
  /\ UNCHANGED <<beliefs, ledger, outside, todo, attempt, orphans>>

\* The contract refuses the answer, or it updates a belief that was active
\* when the LLM was shown it and is no longer.
\* _mark_background_validation_failed(), then the exception goes on.
Reject ==
  /\ pc = "calling"
  /\ \/ Mishap("llm")
     \/ targets \ Active # {} /\ UNCHANGED mishaps
  /\ progress' = [progress EXCEPT ![draft] = "failed"]
  /\ pc' = "failing"
  /\ UNCHANGED <<beliefs, processed, outside, todo, attempt, orphans>>

\* _mark_failed_if_needed()
EndFailed ==
  /\ pc = "failing"
  /\ progress' = [progress EXCEPT ![draft] = "failed"]
  /\ Reported("consolidation")
  /\ EndAttempt
  /\ UNCHANGED <<beliefs, processed, outside, mishaps, orphans>>

\* Mutation: the source draft stays.
ArchiveDraftNever(after) == after

\* _archive_consolidated_source_drafts(), in the store the operation leaves
ArchiveDraft(after) ==
  IF after[draft] = "active" THEN [after EXCEPT ![draft] = "archived"] ELSE after

\* One transaction: the operation leaves lifecycles "after", the source draft
\* is archived, source, window and run are closed.
Commit(after) ==
  /\ life' = ArchiveDraft(after)
  /\ progress' = [progress EXCEPT ![draft] = "processed"]
  /\ processed' = processed \cup {Window}
  /\ Reported("consolidation")
  /\ EndAttempt
  /\ UNCHANGED <<drafts, outside, mishaps, orphans>>

\* create, pending-confirmation, and a supersede that waits for confirmation
AcceptCreate ==
  /\ pc = "calling"
  /\ \E n \in Absent, l \in {"active", "pending"} :
       /\ Commit([life EXCEPT ![n] = l])
       /\ origin' = [origin EXCEPT ![n] = draft]
  /\ UNCHANGED successor

\* Mutation: a target need not be active any more.
UpdatableAsShown == targets

\* _require_active_atomic_target(): a target must be active at this moment.
Updatable == targets \cap Active

AcceptSupersede ==
  /\ pc = "calling"
  /\ \E t \in Updatable, n \in Absent :
       /\ Commit([life EXCEPT ![n] = "active", ![t] = "superseded"])
       /\ successor' = [successor EXCEPT ![t] = n]
       /\ origin' = [origin EXCEPT ![n] = draft]

\* retract and archive
AcceptRetire ==
  /\ pc = "calling"
  /\ \E t \in Updatable, l \in {"retracted", "archived"} :
       Commit([life EXCEPT ![t] = l])
  /\ UNCHANGED <<successor, origin>>

\* strengthen, or an update that waits for confirmation
AcceptNoted ==
  /\ pc = "calling"
  /\ Updatable # {}
  /\ Commit(life)
  /\ UNCHANGED <<successor, origin>>

-----------------------------------------------------------------------------
(* ArchiveExpiredWorker.run(): a walk over the beliefs active at its start. *)

\* after_cursor_wrap(): what follows the cursor first, then the rest.
NextOf(w) ==
  LET later == {b \in walk[w] : b > from[w]}
      rest  == IF later # {} THEN later ELSE walk[w]
  IN CHOOSE b \in rest : \A c \in rest : b <= c

StartWalk(w) ==
  /\ walk' = [walk EXCEPT ![w] = Active]
  /\ from' = [from EXCEPT ![w] = cursor]
  /\ due' = [due EXCEPT ![w] = Active \cap expired]

EndWalk(w) ==
  /\ walk' = [walk EXCEPT ![w] = {}]
  /\ from' = [from EXCEPT ![w] = 0]
  /\ due' = [due EXCEPT ![w] = {}]

\* The belief is judged by the copy read at the start of the walk.
ArchiveIfDue(w, b) ==
  IF b \in due[w] THEN Mark(b, "archived") ELSE UNCHANGED <<life, successor>>

BeginArchive ==
  /\ pc = "ticking"
  /\ todo = {"archive"}
  /\ ~turn
  /\ IF Active = {}
     THEN Reported("archive") /\ cursor' = 0 /\ UNCHANGED walks
     ELSE pc' = "walking" /\ StartWalk(daemon) /\ UNCHANGED <<todo, cursor>>
  /\ UNCHANGED <<beliefs, expired, ledger, foreground, attempt, mishaps, orphans>>

Visit ==
  /\ pc = "walking"
  /\ ArchiveIfDue(daemon, NextOf(daemon))
  /\ pc' = "pausing walk"
  /\ UNCHANGED <<drafts, origin, expired, ledger, foreground, todo, attempt, walks,
                 cursor, mishaps, orphans>>

\* The yield check after each belief ends the walk, remembering how far it came.
YieldWalk ==
  /\ pc = "pausing walk"
  /\ ~turn
  /\ cursor' = NextOf(daemon)
  /\ EndWalk(daemon)
  /\ Yielded
  /\ UNCHANGED <<beliefs, expired, ledger, foreground, attempt, mishaps, orphans>>

ContinueWalk ==
  /\ pc = "pausing walk"
  /\ ~turn
  /\ LET rest == walk[daemon] \ {NextOf(daemon)} IN
       IF rest = {}
       THEN EndWalk(daemon) /\ Reported("archive") /\ cursor' = 0
       ELSE /\ walk' = [walk EXCEPT ![daemon] = rest]
            /\ pc' = "walking"
            /\ UNCHANGED <<from, due, todo, cursor>>
  /\ UNCHANGED <<beliefs, expired, ledger, foreground, attempt, mishaps, orphans>>

\* The same worker in a process of its own.  Nobody waits for its lock.
CliBegin(w) ==
  /\ walk[w] = {}
  /\ IF Active = {}
     THEN cursor' = 0 /\ UNCHANGED walks
     ELSE StartWalk(w) /\ UNCHANGED cursor
  /\ UNCHANGED <<beliefs, expired, ledger, foreground, pc, todo, attempt, mishaps, orphans>>

CliVisit(w) ==
  /\ walk[w] # {}
  /\ ArchiveIfDue(w, NextOf(w))
  /\ LET rest == walk[w] \ {NextOf(w)} IN
       IF rest = {}
       THEN EndWalk(w) /\ cursor' = 0
       ELSE walk' = [walk EXCEPT ![w] = rest] /\ UNCHANGED <<from, due, cursor>>
  /\ UNCHANGED <<drafts, origin, expired, ledger, foreground, pc, todo, attempt,
                 mishaps, orphans>>

-----------------------------------------------------------------------------
\* The daemon dies and starts again, or a store error escapes the worker: a
\* claim stays behind.
Crash ==
  /\ Mishap("crash")
  /\ turn' = FALSE
  /\ update' = NoUpdate
  /\ Yielded
  /\ EndAttempt
  /\ EndWalk(daemon)
  /\ orphans' = IF draft # 0 /\ progress[draft] = "claimed"
                THEN orphans \cup {draft} ELSE orphans
  /\ UNCHANGED <<beliefs, expired, ledger, cursor>>

Foreground == StartTurn \/ Propose \/ PlanUpdate \/ Replace \/ Retract \/ EndTurn

ConsolidationStep ==
  \/ SelectDraft
  \/ YieldEarly
  \/ Pause("selected", "pausing")
  \/ Resume("pausing", "ready")
  \/ CreateWindow
  \/ ClaimDraft
  \/ StartRun
  \/ YieldLate
  \/ Pause("started", "pausing late")
  \/ Resume("pausing late", "calling")
  \/ CallFails
  \/ Reject
  \/ EndFailed
  \/ AcceptCreate
  \/ AcceptSupersede
  \/ AcceptRetire
  \/ AcceptNoted

ArchiveStep == BeginArchive \/ Visit \/ YieldWalk \/ ContinueWalk

BackgroundStep == StartTick \/ CutShort \/ ConsolidationStep \/ ArchiveStep

Next ==
  \/ Foreground
  \/ Extract
  \/ Expire
  \/ BackgroundStep
  \/ \E w \in Clis : CliBegin(w) \/ CliVisit(w)
  \/ Crash

Spec == Init /\ [][Next]_vars

\* The service keeps ticking and an LLM call returns; a turn ends, and between
\* turns a thread that waits for the lock gets it at last (see LoopCoordinator).
Fairness ==
  /\ SF_vars(BackgroundStep)
  /\ WF_vars(EndTurn)

FairSpec == Spec /\ Fairness
=============================================================================
