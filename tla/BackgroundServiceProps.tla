----------------------- MODULE BackgroundServiceProps -----------------------
(***************************************************************************)
(* Properties of BackgroundService.                                        *)
(***************************************************************************)
EXTENDS BackgroundService

\* A tick in progress has a deadline, its own: a tick called for by hand does
\* not end or replace it.
TickHasDeadline == \A c \in Callers : pc[c] \in Ticking => deadline # "none"

\* After a stop was requested at most one more worker begins, the one that
\* had passed the last look at the flag.  (02-background-llm-contract.md:
\* "Graceful shutdown stops scheduling new ticks".)
OneWorkerAfterStop == \A c \in Callers : late[c] <= 1

\* After an immediate stop at most one more LLM call begins, the one that had
\* passed its look at the coordinator.  ("... and asks the current chunk to
\* yield as soon as possible".)
OneCallAfterImmediate == \A c \in Callers : calls[c] <= 1

\* A service whose status is "stopped" runs no chunk in its thread.
StoppedIsQuiet == state = "stopped" => pc["thread"] \notin Chunk

\* What a stop promises at once, whichever way it comes in between the looks at
\* its flag: of the workers and of the calls hardly one more begins, and the
\* status says "stopped" only when no chunk runs.
StopIsHeeded == OneWorkerAfterStop /\ OneCallAfterImmediate /\ StoppedIsQuiet

\* Foreground turns leave the Subject's lock to others from some time on.
TurnsCease == <>[](holder # "turn")

\* So do ticks by hand with the tick lock, for which nobody waits.
ManualTicksCease == <>[](ticker \notin Manual)

\* A stop that run() waits for ends the thread, whatever it was doing.
StopEnds == TurnsCease => (stopPc["run"] = "requested" ~> pc["thread"] = "dead")

\* A started service that nobody stops ticks again and again, whatever its
\* workers raise; only the selection of workers can end it.
KeepsTicking ==
  TurnsCease /\ ManualTicksCease =>
    (Alive ~> pc["thread"] = "selecting" \/ stopRequested \/ "thread" \in escaped)
=============================================================================
