------------------------- MODULE CompactExtraction -------------------------
(***************************************************************************)
(* Direct extraction of what a compaction has just summarised:             *)
(* DirectCompactExtractionService (cognition/loops/compact_extraction.py). *)
(* Turns submit jobs, a semaphore bounds the threads that run them, and    *)
(* the daemon shuts the service down while turns still submit.             *)
(*                                                                         *)
(* A job is submitted once and runs in a thread of its own.  What it       *)
(* extracts is the business of MemoryExtraction.                           *)
(***************************************************************************)
EXTENDS Integers, FiniteSets

CONSTANTS
  Jobs,         \* compactions whose turns submit them
  Requests,     \* callers of shutdown() that do not wait; run() does, except
                \* after an immediate stop, when its call is one of these
  Slots         \* max_workers

Closers == {"run"} \cup Requests

ASSUME CompactAssumption ==
  /\ IsFiniteSet(Jobs)
  /\ Slots \in Nat \ {0}

VARIABLES
  slots,    \* value of the semaphore
  threads,  \* _threads
  closed,   \* _closed
  job,      \* job[j]: how far submit() and the thread of j are
  closer,   \* where each caller of shutdown() is
  awaited,  \* the threads that run() has copied to wait for
  missed    \* those of them whose wait timed out (history)

vars == <<slots, threads, closed, job, closer, awaited, missed>>

\* Between the two steps that a job's thread ends with, "left" is where it has
\* taken itself out of _threads.  "failed" is a thread that never started.
TypeOK ==
  /\ slots \in 0..Slots
  /\ threads \subseteq Jobs
  /\ closed \in BOOLEAN
  /\ job \in [Jobs -> {"new", "open", "slot", "running", "left", "done",
                       "refused", "failed"}]
  /\ closer \in [Closers -> {"ready", "joining", "returned", "raised"}]
  /\ awaited \subseteq Jobs
  /\ missed \subseteq Jobs

Init ==
  /\ slots = Slots
  /\ threads = {}
  /\ closed = FALSE
  /\ job = [j \in Jobs |-> "new"]
  /\ closer = [c \in Closers |-> "ready"]
  /\ awaited = {}
  /\ missed = {}

Becomes(j, there) == job' = [job EXCEPT ![j] = there]

-----------------------------------------------------------------------------
\* submit() looks at _closed ...
Submit(j) ==
  /\ job[j] = "new"
  /\ Becomes(j, IF closed THEN "refused" ELSE "open")
  /\ UNCHANGED <<slots, threads, closed, closer, awaited, missed>>

\* ... takes a slot if there is one ...
TakeSlot(j) ==
  /\ job[j] = "open"
  /\ IF slots > 0
     THEN slots' = slots - 1 /\ Becomes(j, "slot")
     ELSE Becomes(j, "refused") /\ UNCHANGED slots
  /\ UNCHANGED <<threads, closed, closer, awaited, missed>>

\* Mutation: _closed is not looked at again.
StartJobAnyway(j) ==
  /\ job[j] = "slot"
  /\ threads' = threads \cup {j}
  /\ Becomes(j, "running") \/ Becomes(j, "failed")
  /\ UNCHANGED <<slots, closed, closer, awaited, missed>>

\* ... and starts the thread under the lock, unless closed meanwhile.  The
\* system may refuse the thread, which has been listed already.
StartJob(j) ==
  /\ job[j] = "slot"
  /\ IF closed
     THEN slots' = slots + 1 /\ Becomes(j, "refused") /\ UNCHANGED threads
     ELSE /\ threads' = threads \cup {j} /\ UNCHANGED slots
          /\ Becomes(j, "running") \/ Becomes(j, "failed")
  /\ UNCHANGED <<closed, closer, awaited, missed>>

\* Mutation: shutdown() joins under the lock that a job needs to leave.
LeaveThreadsLocked(j) ==
  /\ job[j] = "running" /\ closer["run"] # "joining"
  /\ threads' = threads \ {j}
  /\ Becomes(j, "left")
  /\ UNCHANGED <<slots, closed, closer, awaited, missed>>

\* The job is over, or its exception is audited.
LeaveThreads(j) ==
  /\ job[j] = "running"
  /\ threads' = threads \ {j}
  /\ Becomes(j, "left")
  /\ UNCHANGED <<slots, closed, closer, awaited, missed>>

ReleaseSlot(j) ==
  /\ job[j] = "left"
  /\ slots' = slots + 1
  /\ Becomes(j, "done")
  /\ UNCHANGED <<threads, closed, closer, awaited, missed>>

Shutdown(c) ==
  /\ closer[c] = "ready"
  /\ closed' = TRUE
  /\ IF c = "run"
     THEN closer' = [closer EXCEPT ![c] = "joining"] /\ awaited' = threads
     ELSE closer' = [closer EXCEPT ![c] = "returned"] /\ UNCHANGED awaited
  /\ UNCHANGED <<slots, threads, job, missed>>

\* run() joins the copied threads one after the other; joining one that never
\* started raises.
Join(j) ==
  /\ closer["run"] = "joining" /\ j \in awaited
  /\ \/ /\ job[j] = "done"
        /\ awaited' = awaited \ {j} /\ UNCHANGED closer
     \/ /\ job[j] = "failed"
        /\ closer' = [closer EXCEPT !["run"] = "raised"] /\ UNCHANGED awaited
  /\ UNCHANGED <<slots, threads, closed, job, missed>>

\* The time left for the joins is over, and run() passes the thread by.
JoinTimesOut(j) ==
  /\ closer["run"] = "joining" /\ j \in awaited
  /\ job[j] \notin {"done", "failed"}
  /\ awaited' = awaited \ {j}
  /\ missed' = missed \cup {j}
  /\ UNCHANGED <<slots, threads, closed, job, closer>>

Joined ==
  /\ closer["run"] = "joining" /\ awaited = {}
  /\ closer' = [closer EXCEPT !["run"] = "returned"]
  /\ UNCHANGED <<slots, threads, closed, job, awaited, missed>>

-----------------------------------------------------------------------------
JobStep(j) ==
  \/ Submit(j) \/ TakeSlot(j) \/ StartJob(j) \/ LeaveThreads(j) \/ ReleaseSlot(j)

Next ==
  \/ \E j \in Jobs : JobStep(j) \/ Join(j) \/ JoinTimesOut(j)
  \/ \E c \in Closers : Shutdown(c)
  \/ Joined

Spec == Init /\ [][Next]_vars

\* Threads run, and the LLM calls of a job come to an end.  That a wait times
\* out is not relied upon.
FairSpec ==
  /\ Spec
  /\ \A j \in Jobs : WF_vars(JobStep(j) \/ Join(j))
  /\ WF_vars(Joined)
=============================================================================
