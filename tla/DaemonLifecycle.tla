-------------------------- MODULE DaemonLifecycle --------------------------
(***************************************************************************)
(* Daemon processes on one set of runtime paths: the pid lock              *)
(* (daemon/status.py), the life of AlphaDaemon.run() and stop()            *)
(* (daemon/runtime.py), the IPC server (daemon/server.py) and the CLI that *)
(* restarts it (cli.py).                                                   *)
(*                                                                         *)
(* Processes share three files: the lock, the status and the socket path.  *)
(* Each system call on one of them is a step, so that any two processes,   *)
(* and the threads of one, interleave between them.  The main thread of a  *)
(* process runs run(); stop requests arrive in IPC threads or as a signal  *)
(* on the main thread.  Process ids are never used twice.                  *)
(***************************************************************************)
EXTENDS Integers, FiniteSets

CONSTANTS
  Processes,  \* daemon processes that may exist over time, named by their pid
  Manual,     \* the processes started by hand; the CLI's restart spawns others
  Dead,       \* processes that died before the model begins
  Requests,   \* IPC threads with a stop request, for each process
  Policies,   \* StopPolicy values that clients ask for
  Signals,    \* whether SIGTERM may arrive
  Turns,      \* whether clients send turns
  CanCrash,   \* whether processes may die at any point
  Leftovers,  \* what the lock file may hold initially
  Free,       \* no file, or a file that names no process
  Fresh,      \* a lock file without a readable pid, written just now
  Stale       \* one older than INVALID_LOCK_STALE_SECONDS

Lock == Processes \cup {Free, Fresh, Stale}

ASSUME LifecycleAssumption ==
  /\ Manual \subseteq Processes
  /\ Dead \subseteq Processes
  /\ Policies \subseteq {"graceful", "immediate"}
  /\ {Signals, Turns, CanCrash} \subseteq BOOLEAN
  /\ Leftovers \subseteq Dead \cup {Free, Fresh, Stale}
  /\ {Free, Fresh, Stale} \cap Processes = {}
  /\ Free # Fresh /\ Free # Stale /\ Fresh # Stale

VARIABLES
  pc,         \* pc[p]: where the main thread of p is
  lock,       \* the pid in the lock file
  status,     \* the pid of the status file if it says running, else Free
  socket,     \* the process whose socket the path names, else Free
  seen,       \* existing_pid of DaemonRuntimeLock.acquire
  listening,  \* whether the listening socket of p is open
  stopEvent,  \* JsonLineDaemonServer._stop_event
  stopping,   \* AlphaDaemon._stop_requested
  stopper,    \* stopper[p][r]: where the stop request r of p is
  turn,       \* whether p has a turn in progress
  failed      \* processes whose run() ends with an exception

main  == <<pc, seen, failed>>
files == <<lock, status, socket>>
stops == <<stopEvent, stopping, stopper>>
vars  == <<main, files, listening, stops, turn>>

Location ==
  {"idle", "reading", "linking", "inspecting", "probing", "rechecking",
   "clearing", "unlinking", "refused", "locked", "starting", "connecting",
   "binding", "serving", "closing", "failing", "draining", "cleaning",
   "reporting", "releasing", "unlocking", "returned", "gone"}

\* From the link() that takes the lock to the unlink() that gives it back.
Owning ==
  {"locked", "starting", "connecting", "binding", "serving", "closing",
   "failing", "draining", "cleaning", "reporting", "releasing", "unlocking"}

TypeOK ==
  /\ pc \in [Processes -> Location]
  /\ lock \in Lock
  /\ status \in Processes \cup {Free}
  /\ socket \in Processes \cup {Free}
  /\ seen \in [Processes -> Processes \cup {Free}]
  /\ listening \in [Processes -> BOOLEAN]
  /\ stopEvent \in [Processes -> BOOLEAN]
  /\ stopping \in [Processes -> BOOLEAN]
  /\ stopper \in [Processes -> [Requests ->
                    {"none", "writing", "setting", "unlinking", "done"}]]
  /\ turn \in [Processes -> {"none", "running", "abandoned"}]
  /\ failed \subseteq Processes

Init ==
  /\ pc = [p \in Processes |-> IF p \in Dead THEN "gone" ELSE "idle"]
  /\ lock \in Leftovers
  /\ status = Free
  /\ socket = Free
  /\ seen = [p \in Processes |-> Free]
  /\ listening = [p \in Processes |-> FALSE]
  /\ stopEvent = [p \in Processes |-> FALSE]
  /\ stopping = [p \in Processes |-> FALSE]
  /\ stopper = [p \in Processes |-> [r \in Requests |-> "none"]]
  /\ turn = [p \in Processes |-> "none"]
  /\ failed = {}

-----------------------------------------------------------------------------
Running(p) == pc[p] \notin {"idle", "refused", "gone"}

\* os.kill(pid, 0)
IsPidRunning(p) == pc[p] \notin {"idle", "gone"}

\* A client that connects to the socket path reaches process p.
Reaches(p) == socket = p /\ listening[p]

GoTo(p, there) == pc' = [pc EXCEPT ![p] = there]

(***************************************************************************)
(* Ownership: _assert_single_owner and DaemonRuntimeLock.                  *)
(***************************************************************************)
Start(p) ==
  /\ p \in Manual /\ pc[p] = "idle"
  /\ GoTo(p, "reading")
  /\ UNCHANGED <<seen, failed, files, listening, stops, turn>>

\* The restarting CLI takes the daemon for stopped as soon as nobody answers
\* on the socket, and spawns its successor.
Respawn(p) ==
  /\ p \notin Manual /\ pc[p] = "idle"
  /\ \E q \in Processes, r \in Requests : stopper[q][r] = "done"
  /\ \A q \in Processes : ~Reaches(q)
  /\ GoTo(p, "reading")
  /\ UNCHANGED <<seen, failed, files, listening, stops, turn>>

ReadStatus(p) ==
  /\ pc[p] = "reading"
  /\ GoTo(p, IF status \in Processes /\ IsPidRunning(status)
             THEN "refused" ELSE "linking")
  /\ UNCHANGED <<seen, failed, files, listening, stops, turn>>

\* Mutation: the lock file is replaced instead of linked.
LinkOver(p) ==
  /\ pc[p] = "linking"
  /\ lock' = p /\ GoTo(p, "locked")
  /\ UNCHANGED <<seen, failed, status, socket, listening, stops, turn>>

\* os.link() is atomic and fails if the path exists.
Link(p) ==
  /\ pc[p] = "linking"
  /\ IF lock = Free
     THEN lock' = p /\ GoTo(p, "locked")
     ELSE GoTo(p, "inspecting") /\ UNCHANGED lock
  /\ UNCHANGED <<seen, failed, status, socket, listening, stops, turn>>

\* A lock that has just vanished reads like a fresh unreadable one.
Inspect(p) ==
  /\ pc[p] = "inspecting"
  /\ IF lock \in Processes
     THEN seen' = [seen EXCEPT ![p] = lock] /\ GoTo(p, "probing")
     ELSE /\ GoTo(p, IF lock = Stale THEN "clearing" ELSE "refused")
          /\ UNCHANGED seen
  /\ UNCHANGED <<failed, files, listening, stops, turn>>

\* Mutation: whoever wrote the lock is taken to be alive.
ProbeNothing(p) ==
  /\ pc[p] = "probing"
  /\ GoTo(p, "refused")
  /\ UNCHANGED <<seen, failed, files, listening, stops, turn>>

Probe(p) ==
  /\ pc[p] = "probing"
  /\ GoTo(p, IF IsPidRunning(seen[p]) THEN "refused" ELSE "rechecking")
  /\ UNCHANGED <<seen, failed, files, listening, stops, turn>>

\* _unlink_lock_if_pid_matches and _unlink_invalid_lock_if_still_invalid look
\* at the file once more, and unlink() it in a step of its own.
Recheck(p) ==
  /\ \/ /\ pc[p] = "rechecking"
        /\ GoTo(p, IF lock = seen[p] THEN "unlinking" ELSE "linking")
     \/ /\ pc[p] = "clearing"
        /\ GoTo(p, IF lock = Stale THEN "unlinking" ELSE "linking")
  /\ UNCHANGED <<seen, failed, files, listening, stops, turn>>

UnlinkStale(p) ==
  /\ pc[p] = "unlinking"
  /\ lock' = Free
  /\ GoTo(p, "linking")
  /\ UNCHANGED <<seen, failed, status, socket, listening, stops, turn>>

AgeLock ==
  /\ lock = Fresh /\ lock' = Stale
  /\ UNCHANGED <<main, status, socket, listening, stops, turn>>

(***************************************************************************)
(* The life of run().                                                      *)
(***************************************************************************)
WriteStarting(p) ==
  /\ pc[p] = "locked"
  /\ status' = p
  /\ GoTo(p, "starting")
  /\ UNCHANGED <<seen, failed, lock, socket, listening, stops, turn>>

\* The JsonLineDaemonServer object exists from here on, adapters connect.
CreateServer(p) ==
  /\ pc[p] = "starting"
  /\ GoTo(p, "connecting")
  /\ UNCHANGED <<seen, failed, files, listening, stops, turn>>

WriteRunning(p) ==
  /\ pc[p] = "connecting"
  /\ status' = p
  /\ GoTo(p, "binding")
  /\ UNCHANGED <<seen, failed, lock, socket, listening, stops, turn>>

\* Whatever the path names is unlinked first.
Bind(p) ==
  /\ pc[p] = "binding"
  /\ socket' = p
  /\ listening' = [listening EXCEPT ![p] = TRUE]
  /\ GoTo(p, "serving")
  /\ UNCHANGED <<seen, failed, lock, status, stops, turn>>

\* An adapter does not connect, a path cannot be made, a bind fails.
StartupFails(p) ==
  /\ pc[p] \in {"locked", "starting", "connecting", "binding"}
  /\ GoTo(p, "failing")
  /\ failed' = failed \cup {p}
  /\ socket' = IF pc[p] = "binding" THEN Free ELSE socket
  /\ UNCHANGED <<seen, lock, status, listening, stops, turn>>

LeaveLoop(p) ==
  /\ pc[p] = "serving" /\ stopEvent[p]
  /\ GoTo(p, "closing")
  /\ UNCHANGED <<seen, failed, files, listening, stops, turn>>

\* stop_immediately() closed the socket between the look at the event and the
\* registration with the selector, which refuses it.
SelectFails(p) ==
  /\ pc[p] = "serving" /\ stopEvent[p] /\ ~listening[p]
  /\ GoTo(p, "failing")
  /\ failed' = failed \cup {p}
  /\ socket' = Free
  /\ UNCHANGED <<seen, lock, status, listening, stops, turn>>

CloseServer(p) ==
  /\ pc[p] = "closing"
  /\ listening' = [listening EXCEPT ![p] = FALSE]
  /\ socket' = Free
  /\ GoTo(p, "draining")
  /\ UNCHANGED <<seen, failed, lock, status, stops, turn>>

WriteError(p) ==
  /\ pc[p] = "failing"
  /\ status' = Free
  /\ GoTo(p, "draining")
  /\ UNCHANGED <<seen, failed, lock, socket, listening, stops, turn>>

\* Background service, compact extraction, adapters and agents are shut down.
Drain(p) ==
  /\ pc[p] = "draining"
  /\ GoTo(p, "cleaning")
  /\ UNCHANGED <<seen, failed, files, listening, stops, turn>>

Cleanup(p) ==
  /\ pc[p] = "cleaning"
  /\ socket' = Free
  /\ GoTo(p, IF p \in failed THEN "releasing" ELSE "reporting")
  /\ UNCHANGED <<seen, failed, lock, status, listening, stops, turn>>

WriteIdle(p) ==
  /\ pc[p] = "reporting"
  /\ status' = Free
  /\ GoTo(p, "releasing")
  /\ UNCHANGED <<seen, failed, lock, socket, listening, stops, turn>>

Release(p) ==
  /\ pc[p] = "releasing"
  /\ GoTo(p, IF lock = p THEN "unlocking" ELSE "returned")
  /\ UNCHANGED <<seen, failed, files, listening, stops, turn>>

Unlock(p) ==
  /\ pc[p] = "unlocking"
  /\ lock' = Free
  /\ GoTo(p, "returned")
  /\ UNCHANGED <<seen, failed, status, socket, listening, stops, turn>>

\* The IPC threads are daemon threads: the interpreter does not wait for them.
Exit(p) ==
  /\ pc[p] = "returned"
  /\ GoTo(p, "gone")
  /\ turn' = [turn EXCEPT ![p] = IF @ = "running" THEN "abandoned" ELSE @]
  /\ UNCHANGED <<seen, failed, files, listening, stops>>

Crash(p) ==
  /\ CanCrash /\ Running(p)
  /\ GoTo(p, "gone")
  /\ listening' = [listening EXCEPT ![p] = FALSE]
  /\ turn' = [turn EXCEPT ![p] = "none"]
  /\ UNCHANGED <<seen, failed, files, stops>>

(***************************************************************************)
(* Requests.                                                               *)
(***************************************************************************)
\* The main loop accepts connections until it sees the event.
Accepts(p) == pc[p] = "serving" /\ Reaches(p) /\ ~stopEvent[p]

SetStopper(p, r, there) == stopper' = [stopper EXCEPT ![p][r] = there]

RequestStop(p, r) ==
  /\ Accepts(p) /\ stopper[p][r] = "none"
  /\ SetStopper(p, r, "writing")
  /\ UNCHANGED <<main, files, listening, stopEvent, stopping, turn>>

WriteStopping(p, r) ==
  /\ pc[p] # "gone" /\ stopper[p][r] = "writing"
  /\ stopping' = [stopping EXCEPT ![p] = TRUE]
  /\ status' = p
  /\ SetStopper(p, r, "setting")
  /\ UNCHANGED <<main, lock, socket, listening, stopEvent, turn>>

\* Mutation: a graceful stop leaves the server's loop alone.
StopServerForgotten(p, r) ==
  /\ pc[p] # "gone" /\ stopper[p][r] = "setting"
  /\ \/ /\ "graceful" \in Policies
        /\ SetStopper(p, r, "done")
        /\ UNCHANGED <<listening, stopEvent>>
     \/ /\ "immediate" \in Policies
        /\ stopEvent' = [stopEvent EXCEPT ![p] = TRUE]
        /\ listening' = [listening EXCEPT ![p] = FALSE]
        /\ SetStopper(p, r, "unlinking")
  /\ UNCHANGED <<main, files, stopping, turn>>

\* server.stop() or server.stop_immediately()
StopServer(p, r) ==
  /\ pc[p] # "gone" /\ stopper[p][r] = "setting"
  /\ stopEvent' = [stopEvent EXCEPT ![p] = TRUE]
  /\ \/ /\ "graceful" \in Policies
        /\ SetStopper(p, r, "done")
        /\ UNCHANGED listening
     \/ /\ "immediate" \in Policies
        /\ listening' = [listening EXCEPT ![p] = FALSE]
        /\ SetStopper(p, r, "unlinking")
  /\ UNCHANGED <<main, files, stopping, turn>>

UnlinkSocket(p, r) ==
  /\ pc[p] # "gone" /\ stopper[p][r] = "unlinking"
  /\ socket' = Free
  /\ SetStopper(p, r, "done")
  /\ UNCHANGED <<main, lock, status, listening, stopEvent, stopping, turn>>

\* The handler runs stop() on the main thread, wherever that is.
Signal(p) ==
  /\ Signals /\ pc[p] \in Owning /\ ~stopping[p]
  /\ stopping' = [stopping EXCEPT ![p] = TRUE]
  /\ status' = p
  /\ stopEvent' = [stopEvent EXCEPT ![p] = pc[p] \notin {"locked", "starting"}]
  /\ UNCHANGED <<main, lock, socket, listening, stopper, turn>>

BeginTurn(p) ==
  /\ Turns /\ Accepts(p) /\ turn[p] = "none"
  /\ turn' = [turn EXCEPT ![p] = "running"]
  /\ UNCHANGED <<main, files, listening, stops>>

EndTurn(p) ==
  /\ pc[p] # "gone" /\ turn[p] = "running"
  /\ turn' = [turn EXCEPT ![p] = "none"]
  /\ UNCHANGED <<main, files, listening, stops>>

-----------------------------------------------------------------------------
Contend(p) ==
  \/ ReadStatus(p) \/ Link(p) \/ Inspect(p)
  \/ Probe(p) \/ Recheck(p) \/ UnlinkStale(p)

Run(p) ==
  \/ WriteStarting(p) \/ CreateServer(p) \/ WriteRunning(p) \/ Bind(p)
  \/ LeaveLoop(p) \/ SelectFails(p) \/ CloseServer(p) \/ WriteError(p)
  \/ Drain(p) \/ Cleanup(p) \/ WriteIdle(p)
  \/ Release(p) \/ Unlock(p) \/ Exit(p)

Stopper(p, r) == WriteStopping(p, r) \/ StopServer(p, r) \/ UnlinkSocket(p, r)

Next ==
  \/ \E p \in Processes :
       \/ Start(p) \/ Respawn(p) \/ Contend(p) \/ Run(p)
       \/ StartupFails(p) \/ Crash(p) \/ Signal(p)
       \/ BeginTurn(p) \/ EndTurn(p)
  \/ \E p \in Processes, r \in Requests : RequestStop(p, r) \/ Stopper(p, r)
  \/ AgeLock

Spec == Init /\ [][Next]_vars

\* Threads that can run do run; nothing else is owed.
FairSpec ==
  /\ Spec
  /\ \A p \in Processes : WF_vars(Contend(p)) /\ WF_vars(Run(p))
  /\ \A p \in Processes, r \in Requests : WF_vars(Stopper(p, r))
=============================================================================
