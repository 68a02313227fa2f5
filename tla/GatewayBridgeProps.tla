------------------------ MODULE GatewayBridgeProps ------------------------
(***************************************************************************)
(* Properties of GatewayBridge.                                            *)
(***************************************************************************)
EXTENDS GatewayBridge

\* A platform message runs the agent at most once, however often and however
\* concurrently it is delivered, and across restarts.
RunOnce == \A m \in Identified : runs[m] <= 1

\* The turns of session s that hold the guard.
Turns(s) ==
  {h \in Handlers : InTurn(h) /\ Session[message[h]] = s /\ message[h] \notin Control}

\* At most one turn of a session runs, and the guard is taken exactly while it
\* does: a leaked entry would refuse the session for ever.  (runner.py: "allows
\* at most one active non-control turn per session".)
OneTurn ==
  \A s \in Sessions :
    /\ s \in active <=> Turns(s) # {}
    /\ \A g, h \in Turns(s) : g = h

\* A cached reply reaches the platform, through duplicates and failures.
ReplyArrives ==
  \A m \in Identified : Undelivered(m) ~> received[m] # {}
=============================================================================
