------------------------- MODULE BackgroundService -------------------------
(***************************************************************************)
(* The daemon's background cognition: BackgroundCognitionService           *)
(* (cognition/loops/background_service.py).  run() of the daemon starts    *)
(* its thread and stops it at the end; requests stop it without waiting;   *)
(* a tick may also be called for by hand.                                  *)
(*                                                                         *)
(* A tick selects workers and runs them one after the other, each under    *)
(* the Subject's lock, which foreground turns take as well.  A worker is a *)
(* loop of LLM calls, each after a look at the coordinator.  Threads,      *)
(* events and deadlines interleave freely; a tick's deadline passes when   *)
(* it likes.                                                               *)
(***************************************************************************)
EXTENDS Integers

CONSTANTS
  Manual,       \* callers of tick_once() other than the service's thread
  Requests,     \* requests that stop the service
  MaxEligible   \* workers that a tick may find eligible (bound)

Callers  == {"thread"} \cup Manual
Stoppers == {"run"} \cup Requests

ASSUME BackgroundAssumption ==
  /\ {"none", "turn", "thread"} \cap Manual = {}
  /\ "run" \notin Requests
  /\ MaxEligible \in Nat

VARIABLES
  state,         \* _state
  lastError,     \* _last_error is set
  stopRequested, \* _stop_requested
  immediate,     \* _immediate_stop
  deadline,      \* _deadline of the coordinator's wrapper
  ticker,        \* whose tick holds _tick_lock
  holder,        \* who holds the Subject's lock
  pc,            \* where each caller of tick_once() is
  left,          \* left[c]: eligible workers that c has yet to run
  hadError,      \* had_error of the tick of c
  stopPc,        \* where each caller of stop() is
  late,          \* workers of c begun after a stop, up to 2 (history)
  calls,         \* LLM calls of c begun after an immediate stop (history)
  escaped        \* callers whose tick ended by an exception (history)

status == <<state, lastError>>
flags  == <<stopRequested, immediate>>
tick   == <<left, hadError>>
counts == <<late, calls, escaped>>
vars   == <<status, flags, deadline, ticker, holder, pc, tick, stopPc, counts>>

\* Inside a worker: its lock is held.
Chunk == {"checking", "calling", "working"}
\* Inside a tick: the tick lock is held.
Ticking == {"selecting", "next", "acquiring", "finishing"} \cup Chunk
Location ==
  Ticking \cup {"idle", "unborn", "delay", "top", "tick", "after", "pause",
                "ending", "ended", "dead"}

TypeOK ==
  /\ state \in {"stopped", "running", "ticking", "stopping", "error"}
  /\ lastError \in BOOLEAN /\ stopRequested \in BOOLEAN /\ immediate \in BOOLEAN
  /\ deadline \in {"none", "ahead", "passed"}
  /\ ticker \in Callers \cup {"none"}
  /\ holder \in Callers \cup {"none", "turn"}
  /\ pc \in [Callers -> Location]
  /\ left \in [Callers -> 0..MaxEligible]
  /\ hadError \in [Callers -> BOOLEAN]
  /\ stopPc \in [Stoppers ->
                   {"ready", "serving", "requested", "announced", "settling", "returned",
                    "overrun"}]
  /\ late \in [Callers -> 0..2]
  /\ calls \in [Callers -> 0..2]
  /\ escaped \subseteq Callers

Init ==
  /\ state = "stopped"
  /\ lastError = FALSE /\ stopRequested = FALSE /\ immediate = FALSE
  /\ deadline = "none"
  /\ ticker = "none"
  /\ holder = "none"
  /\ pc = [c \in Callers |-> IF c = "thread" THEN "unborn" ELSE "idle"]
  /\ left = [c \in Callers |-> 0]
  /\ hadError = [c \in Callers |-> FALSE]
  /\ stopPc = [s \in Stoppers |-> "ready"]
  /\ late = [c \in Callers |-> 0]
  /\ calls = [c \in Callers |-> 0]
  /\ escaped = {}

-----------------------------------------------------------------------------
\* Thread.is_alive().
Alive == pc["thread"] \notin {"unborn", "dead"}

GoTo(c, there) == pc' = [pc EXCEPT ![c] = there]
StopGoTo(s, there) == stopPc' = [stopPc EXCEPT ![s] = there]
Once(n) == IF n = 2 THEN 2 ELSE n + 1

\* tick_once() returns to its caller.
Out(c) == IF c = "thread" THEN "after" ELSE "idle"

-----------------------------------------------------------------------------
(***************************************************************************)
(* Starting and stopping.                                                  *)
(***************************************************************************)

\* run() starts the service once, and clears what a signal may have left.
Start ==
  /\ stopPc["run"] = "ready"
  /\ StopGoTo("run", "serving")
  /\ stopRequested' = FALSE /\ immediate' = FALSE
  /\ state' = "running"
  /\ GoTo("thread", "delay")
  /\ UNCHANGED <<lastError, deadline, ticker, holder, tick, counts>>

\* stop() raises its flags.  Requests arrive once the daemon serves.
Request(s, now) ==
  /\ stopPc["run"] # "ready"
  /\ stopPc[s] = (IF s = "run" THEN "serving" ELSE "ready")
  /\ StopGoTo(s, "requested")
  /\ stopRequested' = TRUE
  /\ immediate' = (immediate \/ now)
  /\ UNCHANGED <<status, deadline, ticker, holder, pc, tick, counts>>

Announce(s) ==
  /\ stopPc[s] = "requested"
  /\ StopGoTo(s, "announced")
  /\ state' = "stopping"
  /\ UNCHANGED <<lastError, flags, deadline, ticker, holder, pc, tick, counts>>

\* run() joins the thread, requests do not wait.
Wait(s) ==
  /\ stopPc[s] = "announced"
  /\ s = "run" => ~Alive
  /\ StopGoTo(s, IF Alive THEN "returned" ELSE "settling")
  /\ UNCHANGED <<status, flags, deadline, ticker, holder, pc, tick, counts>>

\* The join lasts a second longer than a tick may take, and run() goes on
\* without the thread.
WaitTimesOut ==
  /\ stopPc["run"] = "announced" /\ Alive
  /\ deadline # "ahead"
  /\ StopGoTo("run", "overrun")
  /\ UNCHANGED <<status, flags, deadline, ticker, holder, pc, tick, counts>>

Settle(s) ==
  /\ stopPc[s] = "settling"
  /\ StopGoTo(s, "returned")
  /\ state' = "stopped"
  /\ UNCHANGED <<lastError, flags, deadline, ticker, holder, pc, tick, counts>>

-----------------------------------------------------------------------------
(***************************************************************************)
(* The thread.                                                             *)
(***************************************************************************)

Delay ==
  /\ pc["thread"] = "delay"
  /\ GoTo("thread", IF stopRequested THEN "ending" ELSE "top")
  /\ UNCHANGED <<status, flags, deadline, ticker, holder, tick, stopPc, counts>>

Top ==
  /\ pc["thread"] = "top"
  /\ GoTo("thread", IF stopRequested THEN "ending" ELSE "tick")
  /\ UNCHANGED <<status, flags, deadline, ticker, holder, tick, stopPc, counts>>

After ==
  /\ pc["thread"] = "after"
  /\ GoTo("thread", IF stopRequested THEN "ending" ELSE "pause")
  /\ UNCHANGED <<status, flags, deadline, ticker, holder, tick, stopPc, counts>>

\* The interval elapses, or the flag cuts it short.
Pause ==
  /\ pc["thread"] = "pause"
  /\ GoTo("thread", "top")
  /\ UNCHANGED <<status, flags, deadline, ticker, holder, tick, stopPc, counts>>

\* The finally clause of the loop; the thread dies a little later.
End ==
  /\ pc["thread"] = "ending"
  /\ GoTo("thread", "ended")
  /\ state' = "stopped"
  /\ UNCHANGED <<lastError, flags, deadline, ticker, holder, tick, stopPc, counts>>

Die ==
  /\ pc["thread"] = "ended"
  /\ GoTo("thread", "dead")
  /\ UNCHANGED <<status, flags, deadline, ticker, holder, tick, stopPc, counts>>

ThreadStep == Delay \/ Top \/ After \/ Pause \/ End \/ Die

-----------------------------------------------------------------------------
(***************************************************************************)
(* A tick.                                                                 *)
(***************************************************************************)

\* tick_once() gives up if another tick is in progress.
BeginTick(c) ==
  /\ pc[c] = (IF c = "thread" THEN "tick" ELSE "idle")
  /\ IF ticker = "none"
     THEN /\ ticker' = c
          /\ state' = "ticking"
          /\ deadline' = "ahead"
          /\ GoTo(c, "selecting")
     ELSE GoTo(c, Out(c)) /\ UNCHANGED <<ticker, state, deadline>>
  /\ UNCHANGED <<lastError, flags, holder, tick, stopPc, counts>>

PassDeadline ==
  /\ deadline = "ahead"
  /\ deadline' = "passed"
  /\ UNCHANGED <<status, flags, ticker, holder, pc, tick, stopPc, counts>>

\* The counts of pending work decide who is eligible; an exception from them
\* leaves tick_once(), and the thread's loop with it.
Select(c) ==
  /\ pc[c] = "selecting"
  /\ \/ /\ \E n \in 0..MaxEligible : left' = [left EXCEPT ![c] = n]
        /\ GoTo(c, "next")
        /\ UNCHANGED <<deadline, ticker, escaped>>
     \/ /\ deadline' = "none" /\ ticker' = "none"
        /\ escaped' = escaped \cup {c}
        /\ GoTo(c, IF c = "thread" THEN "ending" ELSE "idle")
        /\ UNCHANGED left
  /\ UNCHANGED <<status, flags, holder, hadError, stopPc, late, calls>>

\* Mutation: the stop flag is not looked at between workers.
NextWorkerAnyway(c) ==
  /\ pc[c] = "next"
  /\ IF left[c] = 0 \/ deadline = "passed"
     THEN GoTo(c, "finishing") /\ UNCHANGED left
     ELSE GoTo(c, "acquiring") /\ left' = [left EXCEPT ![c] = @ - 1]
  /\ UNCHANGED <<status, flags, deadline, ticker, holder, hadError, stopPc, counts>>

NextWorker(c) ==
  /\ pc[c] = "next"
  /\ IF left[c] = 0 \/ stopRequested \/ deadline = "passed"
     THEN GoTo(c, "finishing") /\ UNCHANGED left
     ELSE GoTo(c, "acquiring") /\ left' = [left EXCEPT ![c] = @ - 1]
  /\ UNCHANGED <<status, flags, deadline, ticker, holder, hadError, stopPc, counts>>

\* The wait for the lock is over; past the deadline the worker is not run.
Acquire(c) ==
  /\ pc[c] = "acquiring" /\ holder = "none"
  /\ holder' = c
  /\ GoTo(c, "checking")
  /\ late' = IF stopRequested /\ deadline # "passed"
             THEN [late EXCEPT ![c] = Once(@)] ELSE late
  /\ UNCHANGED <<status, flags, deadline, ticker, tick, stopPc, calls, escaped>>

\* The worker's report is saved and its lock released.
Leave(c, there) == holder' = "none" /\ GoTo(c, there)

\* Mutation: the worker is handed the bare coordinator, which knows of neither
\* deadlines nor stops.
CheckBare(c) ==
  /\ pc[c] = "checking"
  /\ \/ GoTo(c, "calling") /\ UNCHANGED holder
     \/ Leave(c, "next")
     \/ Leave(c, "finishing")
  /\ UNCHANGED <<status, flags, deadline, ticker, tick, stopPc, counts>>

\* The worker looks at the coordinator: it goes on, has no more to do, or
\* yields, which ends the tick.
Check(c) ==
  /\ pc[c] = "checking"
  /\ LET mayGoOn == ~immediate /\ deadline # "passed"
     IN  \/ mayGoOn /\ GoTo(c, "calling") /\ UNCHANGED holder
         \/ mayGoOn /\ Leave(c, "next")
         \/ Leave(c, "finishing")
  /\ UNCHANGED <<status, flags, deadline, ticker, tick, stopPc, counts>>

Call(c) ==
  /\ pc[c] = "calling"
  /\ GoTo(c, "working")
  /\ calls' = IF immediate THEN [calls EXCEPT ![c] = Once(@)] ELSE calls
  /\ UNCHANGED <<status, flags, deadline, ticker, holder, tick, stopPc, late, escaped>>

Return(c) ==
  /\ pc[c] = "working"
  /\ GoTo(c, "checking")
  /\ UNCHANGED <<status, flags, deadline, ticker, holder, tick, stopPc, counts>>

\* Mutation: a worker's exception leaves the loop.
FailThrough(c) ==
  /\ pc[c] \in {"checking", "working"}
  /\ Leave(c, IF c = "thread" THEN "ending" ELSE "idle")
  /\ hadError' = [hadError EXCEPT ![c] = TRUE]
  /\ lastError' = TRUE /\ state' = "error"
  /\ ticker' = "none" /\ deadline' = "none"
  /\ UNCHANGED <<flags, left, stopPc, counts>>

\* The worker raises or reports an error; the next one gets its chance.
Fail(c) ==
  /\ pc[c] \in {"checking", "working"}
  /\ Leave(c, "next")
  /\ hadError' = [hadError EXCEPT ![c] = TRUE]
  /\ lastError' = TRUE /\ state' = "error"
  /\ UNCHANGED <<flags, deadline, ticker, left, stopPc, counts>>

\* The tick ends, and its locals with it.
Finish(c) ==
  /\ pc[c] = "finishing"
  /\ state' = IF stopRequested THEN "stopped"
              ELSE IF hadError[c] THEN "error" ELSE "running"
  /\ lastError' = (hadError[c] /\ lastError)
  /\ deadline' = "none" /\ ticker' = "none"
  /\ GoTo(c, Out(c))
  /\ left' = [left EXCEPT ![c] = 0]
  /\ hadError' = [hadError EXCEPT ![c] = FALSE]
  /\ UNCHANGED <<flags, holder, stopPc, counts>>

TickStep(c) ==
  \/ Select(c) \/ NextWorker(c) \/ Acquire(c) \/ Check(c) \/ Call(c)
  \/ Return(c) \/ Fail(c) \/ Finish(c)

\* Foreground turns come and go.
BeginTurn ==
  /\ holder = "none" /\ holder' = "turn"
  /\ UNCHANGED <<status, flags, deadline, ticker, pc, tick, stopPc, counts>>

EndTurn ==
  /\ holder = "turn" /\ holder' = "none"
  /\ UNCHANGED <<status, flags, deadline, ticker, pc, tick, stopPc, counts>>

-----------------------------------------------------------------------------
StopStep(s) == Announce(s) \/ Wait(s) \/ Settle(s)

Next ==
  \/ Start
  \/ \E s \in Stoppers : StopStep(s) \/ \E now \in BOOLEAN : Request(s, now)
  \/ WaitTimesOut
  \/ ThreadStep
  \/ \E c \in Callers : BeginTick(c) \/ TickStep(c)
  \/ PassDeadline
  \/ BeginTurn \/ EndTurn

Spec == Init /\ [][Next]_vars

\* Started threads run, calls to stop() go on, a turn ends, and a tick's
\* deadline passes.  Nothing is assumed of requests, of ticks by hand, of the
\* timeout of run()'s wait, or of the order in which turns and workers get the
\* lock.
FairSpec ==
  /\ Spec
  /\ WF_vars(ThreadStep) /\ WF_vars(BeginTick("thread"))
  /\ \A c \in Callers : WF_vars(TickStep(c))
  /\ \A s \in Stoppers : WF_vars(StopStep(s))
  /\ WF_vars(PassDeadline) /\ WF_vars(EndTurn)
=============================================================================
