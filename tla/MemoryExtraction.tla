------------------------- MODULE MemoryExtraction -------------------------
(***************************************************************************)
(* Memory extraction: raw session records become atomic beliefs, exactly   *)
(* one belief per accepted source window.                                  *)
(*                                                                         *)
(* Two paths feed it.  The background worker walks over the inactive       *)
(* sessions inside the Subject's lock (loops/workers/memory_extraction.py).*)
(* A compact job, started when a turn compresses its context, works on the *)
(* covered messages in a thread of its own, without the lock               *)
(* (loops/compact_extraction.py).  They meet in the processing ledger      *)
(* (processing_ledger.py): a status per source, a status per window.       *)
(*                                                                         *)
(* Each SQLite transaction is one action, and so is each independent read  *)
(* that decides what happens next.  The status reads of one selection are  *)
(* taken together.  The LLM is external: it answers, fails, or returns     *)
(* something the contract rejects.                                         *)
(***************************************************************************)
EXTENDS Integers, FiniteSets

CONSTANTS
  NSessions,    \* sessions are 1..NSessions, in the order of their ids
  MaxSources,   \* raw records a session may receive (bound)
  Traces,       \* the sources that are runtime traces; no handover covers them
  BatchSize,    \* cognition.background.extraction.batch_size
  MinSources,   \* cognition.background.extraction.min_sources
  backlog,      \* the background worker's thread
  Workers,      \* slots of DirectCompactExtractionService; {} when disabled
  Faults,       \* kinds of mishap that may happen: see Mishap
  MaxMishaps    \* mishaps in one behaviour (bound)

Sessions == 1..NSessions
Sources  == Sessions \X (1..MaxSources)
Threads  == {backlog} \cup Workers
Mishaps  == {"llm", "yield", "trace", "crash"}

ASSUME ExtractionAssumption ==
  /\ NSessions \in Nat
  /\ MaxSources \in Nat
  /\ Traces \subseteq Sources
  /\ BatchSize \in Nat \ {0}
  /\ MinSources \in Nat
  /\ backlog \notin Workers
  /\ Faults \subseteq Mishaps
  /\ MaxMishaps \in Nat

\* Source windows are identified by their path and their sources: the
\* idempotency key hashes these and what follows from them.
Windows == {"backlog", "compact"} \X ((SUBSET Sources) \ {{}})

VARIABLES
  arrived,     \* arrived[s]: raw records stored for session s
  compressed,  \* compressed[s]: records covered by the latest handover of s
  handovers,   \* <<s, point>>: a "started" trace without a terminal trace
  active,      \* AgentManager.session_ids(): sessions with a cached agent
  turn,        \* session whose turn holds the lock, 0 when none does
  phase,       \* "none", "answering", "compressing" or "compacted"
  pendingJob,  \* sources covered by the handover about to be submitted
  progress,    \* background_source_progress.status for stage extraction
  window,      \* background_source_window.status
  extracted,   \* beliefs accepted from each source, up to 2 (history)
  pc,          \* where each thread is
  refs,        \* refs[t]: the selected source window of thread t
  job,         \* job[t]: sources covered by the compact job of thread t
  cursor,      \* the session the background worker looks at
  snapshot,    \* active sessions, as read when the worker started
  mishaps,     \* mishaps so far
  orphans      \* windows left open by a crash (history)

foreground == <<arrived, compressed, handovers, active, turn, phase, pendingJob>>
ledger     == <<progress, window, extracted>>
scan       == <<cursor, snapshot>>
vars == <<foreground, ledger, pc, refs, job, scan, mishaps, orphans>>

Phase    == {"none", "answering", "compressing", "compacted"}
Progress == {"none", "claimed", "processed", "failed"}
Status   == {"none", "pending", "claimed", "processed", "failed"}
Location == {"idle", "eligible", "scanning", "reading", "selected", "pausing",
             "ready", "created", "claimed", "started", "pausing late",
             "calling", "failing"}

\* Inside an attempt on a window, from its creation to its end.
Working == {"created", "claimed", "started", "pausing late", "calling", "failing"}

TypeOK ==
  /\ arrived \in [Sessions -> 0..MaxSources]
  /\ compressed \in [Sessions -> 0..MaxSources]
  /\ handovers \subseteq Sources
  /\ active \subseteq Sessions
  /\ turn \in Sessions \cup {0}
  /\ phase \in Phase
  /\ pendingJob \subseteq Sources
  /\ progress \in [Sources -> Progress]
  /\ window \in [Windows -> Status]
  /\ extracted \in [Sources -> 0..2]
  /\ pc \in [Threads -> Location]
  /\ refs \in [Threads -> SUBSET Sources]
  /\ job \in [Threads -> SUBSET Sources]
  /\ cursor \in 1..(NSessions + 1)
  /\ snapshot \subseteq Sessions
  /\ mishaps \in 0..MaxMishaps
  /\ orphans \subseteq Windows

Init ==
  /\ arrived = [s \in Sessions |-> 0]
  /\ compressed = [s \in Sessions |-> 0]
  /\ handovers = {}
  /\ active = {}
  /\ turn = 0
  /\ phase = "none"
  /\ pendingJob = {}
  /\ progress = [m \in Sources |-> "none"]
  /\ window = [w \in Windows |-> "none"]
  /\ extracted = [m \in Sources |-> 0]
  /\ pc = [t \in Threads |-> "idle"]
  /\ refs = [t \in Threads |-> {}]
  /\ job = [t \in Threads |-> {}]
  /\ cursor = 1
  /\ snapshot = {}
  /\ mishaps = 0
  /\ orphans = {}

-----------------------------------------------------------------------------
Stored(s) == {m \in Sources : m[1] = s /\ m[2] <= arrived[s]}

\* Messages by ordinal, then traces in the order they were written.
Earlier(a, b) ==
  \/ a \notin Traces /\ b \in Traces
  \/ (a \in Traces <=> b \in Traces) /\ a[2] < b[2]

\* Mutation: processed sources are taken up again.
RetryableProcessed(C) == {m \in C : progress[m] # "claimed"}

Retryable(C) == {m \in C : progress[m] \in {"none", "failed"}}

\* S is R[:source_batch_size]
IsBatch(S, R) ==
  /\ S \subseteq R
  /\ Cardinality(S) <= BatchSize
  /\ S # R => Cardinality(S) = BatchSize
  /\ \A a \in S, b \in R \ S : Earlier(a, b)

PendingHandover(s) == \E p \in handovers : p[1] = s

ActiveWindow(s) ==
  \E w \in Windows : window[w] \in {"pending", "claimed"} /\ \E m \in w[2] : m[1] = s

WindowOf(t) == <<IF t = backlog THEN "backlog" ELSE "compact", refs[t]>>

LockFree == turn = 0 /\ pc[backlog] \in {"idle", "eligible", "pausing", "pausing late"}

\* Things that go wrong: the LLM fails or answers nonsense, a check asks the
\* worker to yield, a trace write is swallowed, a process or a thread dies.
Mishap(kind) ==
  /\ kind \in Faults
  /\ mishaps < MaxMishaps
  /\ mishaps' = mishaps + 1

Go(t, location) == pc' = [pc EXCEPT ![t] = location]

-----------------------------------------------------------------------------
(* The foreground: cached agents, turns and handovers.                      *)

Activate(s) ==
  /\ s \notin active
  /\ active' = active \cup {s}
  /\ UNCHANGED <<arrived, compressed, handovers, turn, phase, pendingJob, ledger,
                 pc, refs, job, scan, mishaps, orphans>>

\* Idle and overflow eviction do not look at turns in progress.
Evict(s) ==
  /\ s \in active
  /\ active' = active \ {s}
  /\ UNCHANGED <<arrived, compressed, handovers, turn, phase, pendingJob, ledger,
                 pc, refs, job, scan, mishaps, orphans>>

StartTurn(s) ==
  /\ LockFree
  /\ turn' = s
  /\ phase' = "answering"
  /\ UNCHANGED <<arrived, compressed, handovers, active, pendingJob, ledger,
                 pc, refs, job, scan, mishaps, orphans>>

AppendSource ==
  /\ phase = "answering"
  /\ arrived[turn] < MaxSources
  /\ arrived' = [arrived EXCEPT ![turn] = @ + 1]
  /\ UNCHANGED <<compressed, handovers, active, turn, phase, pendingJob, ledger,
                 pc, refs, job, scan, mishaps, orphans>>

EndTurn ==
  /\ phase = "answering"
  /\ turn' = 0
  /\ phase' = "none"
  /\ UNCHANGED <<arrived, compressed, handovers, active, pendingJob, ledger,
                 pc, refs, job, scan, mishaps, orphans>>

Point == <<turn, arrived[turn]>>

\* What _append_compression_trace does to the open handovers; it swallows errors.
TraceWritten(open) == handovers' = open /\ UNCHANGED mishaps
TraceLost == UNCHANGED handovers /\ Mishap("trace")

StartHandover ==
  /\ phase = "answering"
  /\ arrived[turn] > compressed[turn]
  /\ phase' = "compressing"
  /\ TraceWritten(handovers \cup {Point}) \/ TraceLost
  /\ UNCHANGED <<arrived, compressed, active, turn, pendingJob, ledger,
                 pc, refs, job, scan, orphans>>

CompleteHandover ==
  /\ phase = "compressing"
  /\ phase' = "compacted"
  /\ compressed' = [compressed EXCEPT ![turn] = arrived[turn]]
  /\ pendingJob' = {m \in Stored(turn) \ Traces : m[2] > compressed[turn]}
  /\ TraceWritten(handovers \ {Point}) \/ TraceLost
  /\ UNCHANGED <<arrived, active, turn, ledger, pc, refs, job, scan, orphans>>

\* The LLM or the store failed: the turn ends with the exception.
FailHandover ==
  /\ phase = "compressing"
  /\ turn' = 0
  /\ phase' = "none"
  /\ TraceWritten(handovers \ {Point}) \/ TraceLost
  /\ UNCHANGED <<arrived, compressed, active, pendingJob, ledger,
                 pc, refs, job, scan, orphans>>

FreeWorkers == {t \in Workers : pc[t] = "idle"}

\* submit(): a free slot runs the job, a saturated or disabled service drops it.
SubmitJob ==
  /\ phase = "compacted"
  /\ phase' = "answering"
  /\ pendingJob' = {}
  /\ IF FreeWorkers = {}
     THEN UNCHANGED <<pc, job>>
     ELSE \E t \in FreeWorkers :
            Go(t, "reading") /\ job' = [job EXCEPT ![t] = pendingJob]
  /\ UNCHANGED <<arrived, compressed, handovers, active, turn, ledger, refs,
                 scan, mishaps, orphans>>

-----------------------------------------------------------------------------
(* The background worker selects a window under the Subject's lock.         *)

\* _eligible_workers(): enough retryable sources, of whatever session.
StartTick ==
  /\ pc[backlog] = "idle"
  /\ \E S \in SUBSET (UNION {Retryable(Stored(s)) : s \in Sessions}) :
       S # {} /\ Cardinality(S) >= MinSources
  /\ Go(backlog, "eligible")
  /\ UNCHANGED <<foreground, ledger, refs, job, scan, mishaps, orphans>>

\* The lock is acquired, then _worker_config() lists the sessions.
EnterLock ==
  /\ pc[backlog] = "eligible"
  /\ turn = 0
  /\ Go(backlog, "scanning")
  /\ cursor' = 1
  /\ snapshot' = active
  /\ UNCHANGED <<foreground, ledger, refs, job, mishaps, orphans>>

SkipSession ==
  /\ cursor \in Sessions
  /\ \/ cursor \in snapshot
     \/ PendingHandover(cursor)
     \/ ActiveWindow(cursor)
  /\ cursor' = cursor + 1
  /\ UNCHANGED <<pc, snapshot>>

EnterSession ==
  /\ cursor \in Sessions
  /\ cursor \notin snapshot
  /\ ~PendingHandover(cursor)
  /\ ~ActiveWindow(cursor)
  /\ Go(backlog, "reading")
  /\ UNCHANGED scan

\* The walk is over, and its locals are gone.
EndScan == cursor' = 1 /\ snapshot' = {}

LeaveScan ==
  /\ cursor \notin Sessions
  /\ Go(backlog, "idle")
  /\ EndScan

Scan ==
  /\ pc[backlog] = "scanning"
  /\ SkipSession \/ EnterSession \/ LeaveScan
  /\ UNCHANGED <<foreground, ledger, refs, job, mishaps, orphans>>

\* Mutation: a session without retryable sources ends the walk.
SelectBacklogStops ==
  /\ pc[backlog] = "reading"
  /\ LET R == Retryable(Stored(cursor)) IN
       \/ R = {} /\ Go(backlog, "idle") /\ UNCHANGED refs
       \/ \E S \in (SUBSET R) \ {{}} :
          /\ IsBatch(S, R)
          /\ Go(backlog, "selected")
          /\ refs' = [refs EXCEPT ![backlog] = S]
  /\ EndScan
  /\ UNCHANGED <<foreground, ledger, job, mishaps, orphans>>

SelectBacklog ==
  /\ pc[backlog] = "reading"
  /\ LET R == Retryable(Stored(cursor)) IN
       \/ /\ R = {}
          /\ Go(backlog, "scanning")
          /\ cursor' = cursor + 1
          /\ UNCHANGED <<refs, snapshot>>
       \/ \E S \in (SUBSET R) \ {{}} :
          /\ IsBatch(S, R)
          /\ Go(backlog, "selected")
          /\ refs' = [refs EXCEPT ![backlog] = S]
          /\ EndScan
  /\ UNCHANGED <<foreground, ledger, job, mishaps, orphans>>

(* _compact_job_candidate(): no look at sessions or windows.                *)

SelectCompact(t) ==
  /\ t \in Workers
  /\ pc[t] = "reading"
  /\ LET R == Retryable(job[t]) IN
       \/ /\ R = {}
          /\ Go(t, "idle")
          /\ refs' = [refs EXCEPT ![t] = {}]
          /\ job' = [job EXCEPT ![t] = {}]
       \/ \E S \in (SUBSET R) \ {{}} :
          /\ IsBatch(S, R)
          /\ Go(t, "ready")
          /\ refs' = [refs EXCEPT ![t] = S]
          /\ UNCHANGED job
  /\ UNCHANGED <<foreground, ledger, scan, mishaps, orphans>>

-----------------------------------------------------------------------------
(* _run_candidate(): one attempt on the selected window.                    *)

\* The attempt is over: the thread keeps nothing of it.
Finish(t) ==
  /\ Go(t, "idle")
  /\ refs' = [refs EXCEPT ![t] = {}]
  /\ job' = [job EXCEPT ![t] = {}]

\* The budget is exhausted, a turn was refused, or an immediate stop is on.
YieldEarly ==
  /\ pc[backlog] = "selected"
  /\ Mishap("yield")
  /\ Finish(backlog)
  /\ UNCHANGED <<foreground, ledger, scan, orphans>>

\* A yield check opens the lock for a moment: turns may run in between.
Pause(from, to) ==
  /\ pc[backlog] = from
  /\ Go(backlog, to)
  /\ UNCHANGED <<foreground, ledger, refs, job, scan, mishaps, orphans>>

Resume(from, to) ==
  /\ pc[backlog] = from
  /\ turn = 0
  /\ Go(backlog, to)
  /\ UNCHANGED <<foreground, ledger, refs, job, scan, mishaps, orphans>>

\* INSERT OR IGNORE; an already processed window ends the attempt.
CreateWindow(t) ==
  /\ pc[t] = "ready"
  /\ window' = IF window[WindowOf(t)] = "none"
               THEN [window EXCEPT ![WindowOf(t)] = "pending"]
               ELSE window
  /\ IF window[WindowOf(t)] = "processed"
     THEN Finish(t)
     ELSE Go(t, "created") /\ UNCHANGED <<refs, job>>
  /\ UNCHANGED <<foreground, progress, extracted, scan, mishaps, orphans>>

SetProgress(S, status) ==
  progress' = [m \in Sources |-> IF m \in S THEN status ELSE progress[m]]

\* One transaction, without a look at the current statuses.
ClaimWindow(t) ==
  /\ pc[t] = "created"
  /\ SetProgress(refs[t], "claimed")
  /\ window' = [window EXCEPT ![WindowOf(t)] = "claimed"]
  /\ Go(t, "claimed")
  /\ UNCHANGED <<foreground, extracted, refs, job, scan, mishaps, orphans>>

StartRun(t) ==
  /\ pc[t] = "claimed"
  /\ Go(t, IF t = backlog THEN "started" ELSE "calling")
  /\ UNCHANGED <<foreground, ledger, refs, job, scan, mishaps, orphans>>

\* Mutation: a yield after the claim leaves the ledger as it is.
YieldLateSilently ==
  /\ pc[backlog] = "started"
  /\ Mishap("yield")
  /\ Finish(backlog)
  /\ UNCHANGED <<foreground, ledger, scan, orphans>>

YieldLate ==
  /\ pc[backlog] = "started"
  /\ Mishap("yield")
  /\ Go(backlog, "failing")
  /\ UNCHANGED <<foreground, ledger, refs, job, scan, orphans>>

\* The LLM call raises; the ledger is written by the handler, in EndFailed.
CallFails(t) ==
  /\ pc[t] = "calling"
  /\ Mishap("llm")
  /\ Go(t, "failing")
  /\ UNCHANGED <<foreground, ledger, refs, job, scan, orphans>>

MarkFailed(t) ==
  /\ SetProgress(refs[t], "failed")
  /\ window' = [window EXCEPT ![WindowOf(t)] = "failed"]
  /\ UNCHANGED extracted

\* _mark_background_validation_failed(), which then re-raises.
Reject(t) ==
  /\ pc[t] = "calling"
  /\ Mishap("llm")
  /\ MarkFailed(t)
  /\ Go(t, "failing")
  /\ UNCHANGED <<foreground, refs, job, scan, orphans>>

\* _mark_failed_if_needed(): only this thread writes this window and its run.
EndFailed(t) ==
  /\ pc[t] = "failing"
  /\ IF window[WindowOf(t)] = "failed"
     THEN UNCHANGED ledger
     ELSE MarkFailed(t)
  /\ Finish(t)
  /\ UNCHANGED <<foreground, scan, mishaps, orphans>>

\* The belief, the sources, the window and the run, in one transaction.
Accept(t) ==
  /\ pc[t] = "calling"
  /\ SetProgress(refs[t], "processed")
  /\ window' = [window EXCEPT ![WindowOf(t)] = "processed"]
  /\ extracted' = [m \in Sources |->
                     IF m \in refs[t] /\ extracted[m] < 2
                     THEN extracted[m] + 1 ELSE extracted[m]]
  /\ IF t = backlog
     THEN Finish(t)
     ELSE Go(t, "reading") /\ UNCHANGED <<refs, job>>
  /\ UNCHANGED <<foreground, scan, mishaps, orphans>>

-----------------------------------------------------------------------------
OpenWindows(T) ==
  {WindowOf(t) : t \in {u \in T : /\ pc[u] \in Working
                                  /\ window[WindowOf(u)] \in {"pending", "claimed"}}}

\* The daemon dies and starts again: only what SQLite holds survives.
Crash ==
  /\ Mishap("crash")
  /\ active' = {}
  /\ turn' = 0
  /\ phase' = "none"
  /\ pendingJob' = {}
  /\ pc' = [t \in Threads |-> "idle"]
  /\ refs' = [t \in Threads |-> {}]
  /\ job' = [t \in Threads |-> {}]
  /\ orphans' = orphans \cup OpenWindows(Threads)
  /\ UNCHANGED <<arrived, compressed, handovers, ledger, scan>>

\* A store error outside the guarded part of an attempt ends just that thread.
Abort(t) ==
  /\ pc[t] \in Working \cup {"ready"}
  /\ Mishap("crash")
  /\ Finish(t)
  /\ orphans' = orphans \cup OpenWindows({t})
  /\ UNCHANGED <<foreground, ledger, scan>>

Foreground ==
  \/ \E s \in Sessions : Activate(s) \/ Evict(s) \/ StartTurn(s)
  \/ AppendSource
  \/ EndTurn
  \/ StartHandover
  \/ CompleteHandover
  \/ FailHandover
  \/ SubmitJob

BacklogStep ==
  \/ StartTick
  \/ EnterLock
  \/ Scan
  \/ SelectBacklog
  \/ YieldEarly
  \/ Pause("selected", "pausing")
  \/ Resume("pausing", "ready")
  \/ YieldLate
  \/ Pause("started", "pausing late")
  \/ Resume("pausing late", "calling")

AttemptStep(t) ==
  \/ CreateWindow(t)
  \/ ClaimWindow(t)
  \/ StartRun(t)
  \/ CallFails(t)
  \/ Reject(t)
  \/ EndFailed(t)
  \/ Accept(t)

Next ==
  \/ Foreground
  \/ BacklogStep
  \/ \E t \in Workers : SelectCompact(t)
  \/ \E t \in Threads : AttemptStep(t)
  \/ Crash
  \/ \E t \in Threads : Abort(t)

Spec == Init /\ [][Next]_vars

\* Threads run, a turn that holds the lock ends, the scheduler keeps ticking,
\* and an LLM call returns.  Nobody is obliged to talk to the agent.
Fairness ==
  /\ WF_vars(BacklogStep)
  /\ WF_vars(EndTurn)
  /\ WF_vars(CompleteHandover)
  /\ WF_vars(SubmitJob)
  /\ \A t \in Workers : WF_vars(SelectCompact(t))
  /\ \A t \in Threads : WF_vars(AttemptStep(t))

FairSpec == Spec /\ Fairness
=============================================================================
