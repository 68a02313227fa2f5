----------------------- MODULE DaemonLifecycleProps -----------------------
(***************************************************************************)
(* Properties of DaemonLifecycle.                                          *)
(***************************************************************************)
EXTENDS DaemonLifecycle

\* At most one process at a time believes to own the runtime paths
\* (daemon_runtime_architecture.md: "Pid lock prevents double daemon startup").
SingleOwner ==
  \A p, q \in Processes : pc[p] \in Owning /\ pc[q] \in Owning => p = q

\* A process that starts where nobody runs becomes the owner, whatever lock a
\* crash left behind, unless the lock is unreadable and may still be written.
ReclaimsStale ==
  \A p \in Processes :
    LET Alone == \A q \in Processes \ {p} : ~IsPidRunning(q)
    IN  pc[p] = "linking" /\ lock # Fresh /\ Alone
          ~> pc[p] \in Owning \cup {"gone"} \/ ~Alone

\* A process that was asked to stop over its socket ends, also if an earlier
\* signal was forgotten and if an immediate stop closes the socket under the
\* selector.
StopHonoured ==
  \A p \in Processes, r \in Requests :
    stopper[p][r] = "writing" ~> pc[p] = "gone"
=============================================================================
