--------------------------- MODULE MemorySummary ---------------------------
(***************************************************************************)
(* The memory summary worker beside the turns that its summaries guide.    *)
(*                                                                         *)
(* The worker looks for the first target whose consolidated beliefs call   *)
(* for a summary, claims a window for it, has an LLM write the summary,    *)
(* and accepts it in one transaction; a second one supersedes the summary  *)
(* it replaces.  It runs under the Subject's lock, which its yield checks  *)
(* open for a moment.  Each transaction is one action.                     *)
(*                                                                         *)
(* Around it: the consolidation worker of the same thread forms and        *)
(* supersedes beliefs, and the archive walk of "consolidate --now"         *)
(* archives them without the lock.  Drafts that direct compact extraction  *)
(* may write meanwhile are left out: they take no part in a summary before *)
(* they are consolidated.                                                  *)
(***************************************************************************)
EXTENDS MemoryTools, BackgroundContract

CONSTANTS
  Units,           \* the targets, in the order of their target_unit
  InitialMin, ChangedMin, InvalidatedMin,  \* cognition.background.summary.*_min
  Replies(_),      \* what an LLM may answer for a target
  MaxSummaries,    \* summaries that are written (bound)
  Faults,          \* kinds of mishap that may happen: see Mishaps
  MaxMishaps       \* mishaps in one behaviour (bound)

Mishaps == {"llm", "yield", "store", "crash"}

\* _target_keys_for_belief(): the profile of a counterpart, the agent's own
\* summary, and the domains the belief is to guide.
TargetsOf(b) ==
  LET Target(kind, domain) == [kind |-> kind, scope |-> Traits[b].scope,
                               about |-> Traits[b].about, domain |-> domain]
  IN (IF Traits[b].scope = "counterpart" THEN {Target("counterpart_profile", "")} ELSE {})
     \cup (IF Traits[b].scope = "self" THEN {Target("self_memory_summary", "")} ELSE {})
     \cup {Target("domain_summary", d) : d \in Traits[b].domains}

ASSUME SummaryAssumption ==
  /\ Units \in Seq(UNION {TargetsOf(b) : b \in Beliefs})
  /\ \A b \in Beliefs : TargetsOf(b) \subseteq {Units[i] : i \in DOMAIN Units}
  \* a domain is a stripped name, a project belief has the project's reference
  /\ \A b \in Beliefs : /\ "" \notin Traits[b].domains
                        /\ Traits[b].scope = "project" => Traits[b].about # {}
  /\ {InitialMin, ChangedMin, InvalidatedMin} \subseteq Nat \ {0}
  /\ MaxSummaries \in Nat
  /\ Faults \subseteq Mishaps
  /\ MaxMishaps \in Nat

VARIABLES
  at,        \* where the worker is
  job,       \* the selected target, see Jobs
  spent,     \* windows that are processed
  held,      \* windows that are claimed
  orphans,   \* windows left claimed by a crash (history)
  torn,      \* targets whose old summary was left active (history)
  mishaps    \* mishaps so far

windows == <<spent, held>>
history == <<orphans, torn>>
summaryVars == <<toolVars, at, job, windows, history, mishaps>>

\* old: the summary to replace, 0 when there is none
Job(target, sources, old, gate) ==
  [target |-> target, sources |-> sources, old |-> old, gate |-> gate]
NoJob == Job([kind |-> "", scope |-> "", about |-> {}, domain |-> ""], {}, 0, "none")

\* _target_idempotency_key(): the summary it replaces is not part of it.
Key == <<job.target, job.sources, job.gate>>

SummaryInit ==
  /\ life = [b \in Beliefs |-> "absent"]
  /\ expired = {}
  /\ summaries = <<>>
  /\ turn = FALSE
  /\ plan = NoPlan
  /\ at = "idle"
  /\ job = NoJob
  /\ spent = {}
  /\ held = {}
  /\ orphans = {}
  /\ torn = {}
  /\ mishaps = 0

Mishap(kind) ==
  /\ kind \in Faults
  /\ mishaps < MaxMishaps
  /\ mishaps' = mishaps + 1

\* Where a turn's try_acquire finds no holder.
LockOpen == at \in {"idle", "pausing", "pausing late"}

\* Mutation: a yield check does not take the lock back.
TakenAnyway == TRUE

\* The background thread may take the Subject's lock (again).
LockFree == ~turn

-----------------------------------------------------------------------------
(* The store around the worker.                                             *)

worker == <<at, job, windows, history, mishaps>>

StartTurn ==
  /\ LockOpen
  /\ ~turn
  /\ turn' = TRUE
  /\ UNCHANGED <<life, expired, summaries, plan, worker>>

\* ... also by an exception half way through an update.
FinishTurn ==
  /\ turn
  /\ turn' = FALSE
  /\ plan' = NoPlan
  /\ UNCHANGED <<life, expired, summaries, worker>>

ToolCall == Propose /\ UNCHANGED worker

\* The consolidation worker, before this one in a tick.
Consolidate ==
  /\ at = "idle"
  /\ LockFree
  /\ \E n \in Absent, S \in SUBSET Active :
       /\ Traits[n].by = "worker"
       /\ Cardinality(S) <= 1
       /\ \A b \in S : Traits[b].scope = Traits[n].scope /\ Traits[b].about = Traits[n].about
       /\ life' = Superseded(S, n)
  /\ UNCHANGED <<expired, summaries, turn, plan, worker>>

Expire ==
  /\ \E b \in Expiring \ expired : life[b] = "active" /\ expired' = expired \cup {b}
  /\ UNCHANGED <<life, summaries, turn, plan, worker>>

Archive ==
  /\ \E b \in Active \cap expired : life' = Marked(b)
  /\ UNCHANGED <<expired, summaries, turn, plan, worker>>

\* The validity of a summary ends.
Lapse ==
  /\ \E i \in DOMAIN summaries :
       /\ summaries[i].until = "ahead"
       /\ summaries' = [summaries EXCEPT ![i].until = "past"]
  /\ UNCHANGED <<life, expired, turn, plan, worker>>

-----------------------------------------------------------------------------
(* Which target is due: _summary_targets().                                 *)

Eligible == {b \in Active \ expired : Traits[b].by = "worker"}

Sources(target) == {b \in Eligible : target \in TargetsOf(b)}

\* _active_summary_for_target(): summaries of a target that is theirs as well
Fitting(target) ==
  {i \in DOMAIN summaries :
     /\ summaries[i].life = "active"
     /\ summaries[i].until # "past"
     /\ \A f \in {"kind", "scope", "about", "domain"} : summaries[i][f] = target[f]}

\* ... the latest one
ActiveSummary(target) ==
  IF Fitting(target) = {} THEN 0
  ELSE CHOOSE i \in Fitting(target) : \A k \in Fitting(target) : k <= i

Invalidated(i) == summaries[i].sources \ (Active \ expired)

\* _summary_gate()
Gate(sources, old) ==
  IF old = 0 THEN IF Cardinality(sources) >= InitialMin THEN "initial" ELSE "none"
  ELSE IF Cardinality(Invalidated(old)) >= InvalidatedMin /\ sources # {}
  THEN "invalidated_source"
  ELSE IF Cardinality(sources \ summaries[old].sources) >= ChangedMin
  THEN "changed_source" ELSE "none"

JobOf(target) ==
  LET old == ActiveSummary(target)
  IN Job(target, Sources(target), old, Gate(Sources(target), old))

\* A target that no belief has is in no group.
Due == {i \in DOMAIN Units : JobOf(Units[i]).gate # "none" /\ Sources(Units[i]) # {}}

\* _next_summary_target()
NextTarget == JobOf(Units[CHOOSE i \in Due : \A k \in Due : i <= k])

-----------------------------------------------------------------------------
(* MemorySummaryWorker._run_with(): one target.                             *)

\* The worker has reported: its locals are gone.
Report == at' = "idle" /\ job' = NoJob

SelectTarget ==
  /\ at = "idle"
  /\ LockFree
  /\ Due # {}
  /\ Len(summaries) < MaxSummaries
  /\ job' = NextTarget
  /\ at' = "selected"
  /\ UNCHANGED <<toolVars, windows, history, mishaps>>

YieldEarly ==
  /\ at = "selected"
  /\ Mishap("yield")
  /\ Report
  /\ UNCHANGED <<toolVars, windows, history>>

\* A yield check opens the lock for a moment: a turn may run in between, and
\* when nobody was queued the check returns False all the same.
OpenLock(here, there) ==
  /\ at = here
  /\ at' = there
  /\ UNCHANGED <<toolVars, job, windows, history, mishaps>>

Resume(here, there) ==
  /\ at = here
  /\ LockFree
  /\ at' = there
  /\ UNCHANGED <<toolVars, job, windows, history, mishaps>>

\* create_source_window() gives an existing window back: only a pending or a
\* failed one is tried.
Claimable == Key \notin spent \cup held

\* _claim_window_and_sources()
Claimed == held \cup {Key}

\* The window is claimed in the transaction after the one that made it (a pending
\* one is as good as none), start_stage_run() follows.
Claim ==
  /\ at = "ready"
  /\ IF Claimable
     THEN held' = Claimed /\ at' = "started" /\ UNCHANGED job
     ELSE Report /\ UNCHANGED held
  /\ UNCHANGED <<toolVars, spent, history, mishaps>>

\* Mutation: a failure leaves the window claimed.
FailedStillHeld(windowsHeld) == windowsHeld

\* _mark_failed_if_needed(), _mark_background_validation_failed()
Failed(windowsHeld) == windowsHeld \ {Key}

YieldLate ==
  /\ at = "started"
  /\ Mishap("yield")
  /\ held' = Failed(held)
  /\ Report
  /\ UNCHANGED <<toolVars, spent, history>>

-----------------------------------------------------------------------------
(* The answer.                                                              *)

\* _validation_context(): updates are not for this stage.
Context == [stage |-> "summary", sourceKind |-> "background_synthesis",
            updatable |-> {}, refs |-> job.target.about, required |-> {job.target}]

Acceptable == {out \in Replies(job.target) : Accepted(out, Context)}

\* The LLM call fails, or the contract refuses what it returns.
CallFails ==
  /\ at = "calling"
  /\ IF Acceptable = {} THEN UNCHANGED mishaps ELSE Mishap("llm")
  /\ held' = Failed(held)
  /\ Report
  /\ UNCHANGED <<toolVars, spent, history>>

\* _materialized_about(): the store makes the reference of a project itself.
MaterializedAbout(draft) ==
  IF draft.scope = "project" THEN {<<"project", "described">>} ELSE draft.about

\* _summary_belief_from_draft()
SummaryFrom(out) ==
  [life |-> FirstLifecycle(out.confirm), kind |-> out.draft.kind, scope |-> out.draft.scope,
   about |-> MaterializedAbout(out.draft), domain |-> out.draft.domain,
   asks |-> out.draft.asks, until |-> out.draft.until, sources |-> job.sources]

\* _apply_create_like_output()
Stored(out) == Append(summaries, SummaryFrom(out))

\* finish_stage_run() closes the sources and the window with the run.
CloseWindow ==
  /\ spent' = spent \cup {Key}
  /\ held' = held \ {Key}

\* Mutation: the new summary is thought to be the only one.
AfterAcceptDone(old) == "idle"

AfterAccept(old) == IF old = 0 THEN "idle" ELSE "superseding"

\* One transaction: the summary is written, sources, window and run are closed.
Accept ==
  /\ at = "calling"
  /\ \E out \in Acceptable :
       /\ Persistable(out, Context)
       /\ summaries' = Stored(out)
  /\ CloseWindow
  /\ at' = AfterAccept(job.old)
  /\ job' = IF at' = "idle" THEN NoJob ELSE job
  /\ UNCHANGED <<life, expired, turn, plan, history, mishaps>>

\* Another transaction, whatever the new summary's lifecycle is.
SupersedeOld ==
  /\ at = "superseding"
  /\ summaries' = [summaries EXCEPT ![job.old].life = "superseded"]
  /\ Report
  /\ UNCHANGED <<life, expired, turn, plan, windows, history, mishaps>>

\* An error there marks the processed window failed.
SupersedeFails ==
  /\ at = "superseding"
  /\ Mishap("store")
  /\ spent' = spent \ {Key}
  /\ torn' = torn \cup {job.target}
  /\ Report
  /\ UNCHANGED <<toolVars, held, orphans>>

\* The process dies, and with it the turn and the lock.
Crash ==
  /\ at # "idle"
  /\ Mishap("crash")
  /\ Report
  /\ turn' = FALSE
  /\ plan' = NoPlan
  /\ orphans' = orphans \cup ({Key} \cap held)
  /\ torn' = IF at = "superseding" THEN torn \cup {job.target} ELSE torn
  /\ UNCHANGED <<life, expired, summaries, windows>>

-----------------------------------------------------------------------------
Step ==
  \/ SelectTarget \/ YieldEarly
  \/ OpenLock("selected", "pausing") \/ Resume("pausing", "ready")
  \/ Claim \/ YieldLate
  \/ OpenLock("started", "pausing late") \/ Resume("pausing late", "calling")
  \/ CallFails \/ Accept \/ SupersedeOld \/ SupersedeFails

SummaryNext ==
  \/ Step
  \/ StartTurn \/ ToolCall \/ FinishTurn
  \/ Consolidate \/ Expire \/ Archive \/ Lapse
  \/ Crash

SummarySpec == SummaryInit /\ [][SummaryNext]_summaryVars

\* The background thread waits in turn for the lock, every turn ends.
SummaryFairSpec == SummarySpec /\ SF_summaryVars(Step) /\ WF_summaryVars(FinishTurn)
=============================================================================
