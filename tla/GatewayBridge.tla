--------------------------- MODULE GatewayBridge ---------------------------
(***************************************************************************)
(* Inbound messages on their way to an agent turn and back:                *)
(* GatewayRuntimeBridge and ActiveTurnGuard (gateway/runner.py), the       *)
(* deduplication table (gateway/session.py), and local turns that share    *)
(* the guard (daemon/runtime.py).                                          *)
(*                                                                         *)
(* A platform may deliver a message any number of times, in parallel.  The *)
(* table is durable and each of its methods is one transaction; the guard  *)
(* is in memory and lives under a lock.  Delivery to the platform may fail *)
(* before or after the platform has taken the reply.  The agent's turn is  *)
(* external: it ends with an answer or an exception.                       *)
(***************************************************************************)
EXTENDS Integers, FiniteSets

CONSTANTS
  Messages,   \* inbound messages, named by their deduplication key
  Fallback,   \* those without a platform id: their keys expire
  Local,      \* turns that arrive over IPC: they are not deduplicated
  Control,    \* those whose text is a command that bypasses the guard
  Session,    \* Session[m]: the session that m is mapped to
  NoMessage,  \* what an idle handler handles
  Handlers,   \* threads that handle inbound messages
  MaxCrashes  \* restarts of the daemon (bound)

\* Platform messages with an id, which are answered once.
Identified == Messages \ (Fallback \cup Local)

Sessions == {Session[m] : m \in Messages}
Replies  == {"answer", "error", "busy"}
Rows     == {"absent", "recorded"} \cup Replies

ASSUME GatewayAssumption ==
  /\ Fallback \subseteq Messages /\ Local \subseteq Messages
  /\ Control \subseteq Messages
  /\ DOMAIN Session = Messages
  /\ NoMessage \notin Messages
  /\ MaxCrashes \in Nat

VARIABLES
  row,       \* row[m] of gateway_dedup, by the outbound that is cached in it
  delivered, \* rows whose outbound is marked as delivered
  expired,   \* fallback keys past their expires_at
  active,    \* ActiveTurnGuard._active_session_ids
  pc,        \* where each handler is
  message,   \* message[h]: what h handles
  reply,     \* reply[h]: the outbound of h
  runs,      \* agent turns begun for each identified message, up to 2 (history)
  received,  \* received[m]: replies to it that the platform has taken (history)
  crashes    \* restarts so far

table   == <<row, delivered, expired>>
handler == <<pc, message, reply>>
history == <<runs, received>>
vars    == <<table, active, handler, history, crashes>>

Location == {"idle", "checking", "duplicate", "beginning", "running",
             "completing", "caching", "sending", "marking"}

TypeOK ==
  /\ row \in [Messages -> Rows]
  /\ delivered \subseteq Messages
  /\ expired \subseteq Fallback
  /\ active \subseteq Sessions
  /\ pc \in [Handlers -> Location]
  /\ message \in [Handlers -> Messages \cup {NoMessage}]
  /\ reply \in [Handlers -> Replies \cup {"none"}]
  /\ runs \in [Identified -> 0..2]
  /\ received \in [Identified -> SUBSET Replies]
  /\ crashes \in 0..MaxCrashes

Init ==
  /\ row = [m \in Messages |-> "absent"]
  /\ delivered = {}
  /\ expired = {}
  /\ active = {}
  /\ pc = [h \in Handlers |-> "idle"]
  /\ message = [h \in Handlers |-> NoMessage]
  /\ reply = [h \in Handlers |-> "none"]
  /\ runs = [m \in Identified |-> 0]
  /\ received = [m \in Identified |-> {}]
  /\ crashes = 0

-----------------------------------------------------------------------------
Cached(m) == row[m] \in Replies

\* cached_outbound(): there is a reply, and it is not marked as delivered.
Undelivered(m) == Cached(m) /\ m \notin delivered

GoTo(h, there) == pc' = [pc EXCEPT ![h] = there]
Answer(h, r) == reply' = [reply EXCEPT ![h] = r]

\* handle_message() returns, or raises.
Return(h) == GoTo(h, "idle") /\ Answer(h, "none")
             /\ message' = [message EXCEPT ![h] = NoMessage]

\* Inside a turn, between begin() and complete().
InTurn(h) == pc[h] \in {"running", "completing"}

-----------------------------------------------------------------------------
\* The adapter calls handle_message(), or a client sends a turn.
Deliver(h, m) ==
  /\ pc[h] = "idle"
  /\ message' = [message EXCEPT ![h] = m]
  /\ GoTo(h, IF m \in Local THEN "beginning" ELSE "checking")
  /\ UNCHANGED <<table, active, reply, history, crashes>>

\* Two minutes after the row of a message without a platform id was written.
Expire(m) ==
  /\ m \in Fallback /\ row[m] # "absent"
  /\ expired' = expired \cup {m}
  /\ UNCHANGED <<row, delivered, active, handler, history, crashes>>

\* Mutation: a message counts as new until it has been answered.
RecordAgain(h) ==
  LET m == message[h]
      pruned == [n \in Messages |-> IF n \in expired THEN "absent" ELSE row[n]]
  IN  /\ pc[h] = "checking"
      /\ row' = IF pruned[m] = "absent" THEN [pruned EXCEPT ![m] = "recorded"]
                ELSE pruned
      /\ GoTo(h, IF pruned[m] \in {"absent", "recorded"}
                 THEN "beginning" ELSE "duplicate")
      /\ delivered' = delivered \ expired
      /\ expired' = {}
      /\ UNCHANGED <<active, message, reply, history, crashes>>

\* One transaction: expired keys are pruned, then the key is inserted.
CheckAndRecord(h) ==
  LET m == message[h]
      pruned == [n \in Messages |-> IF n \in expired THEN "absent" ELSE row[n]]
  IN  /\ pc[h] = "checking"
      /\ IF pruned[m] = "absent"
         THEN row' = [pruned EXCEPT ![m] = "recorded"] /\ GoTo(h, "beginning")
         ELSE row' = pruned /\ GoTo(h, "duplicate")
      /\ delivered' = delivered \ expired
      /\ expired' = {}
      /\ UNCHANGED <<active, message, reply, history, crashes>>

\* A duplicate retries the cached reply, or is suppressed.
Duplicate(h) ==
  LET m == message[h]
  IN  /\ pc[h] = "duplicate"
      /\ IF Undelivered(m)
         THEN Answer(h, row[m]) /\ GoTo(h, "sending") /\ UNCHANGED message
         ELSE Return(h)
      /\ UNCHANGED <<table, active, history, crashes>>

Run(h) ==
  /\ GoTo(h, "running")
  /\ runs' = IF message[h] \in Identified
             THEN [runs EXCEPT ![message[h]] = IF @ = 2 THEN 2 ELSE @ + 1] ELSE runs
  /\ UNCHANGED <<message, reply>>

\* Mutation: the guard is entered without a look at who is inside.
BeginUnlocked(h) ==
  /\ pc[h] = "beginning"
  /\ active' = active \cup {Session[message[h]]}
  /\ Run(h)
  /\ UNCHANGED <<table, received, crashes>>

\* ActiveTurnGuard.begin().  A refused local turn is answered at once.
Begin(h) ==
  LET m == message[h]
  IN  /\ pc[h] = "beginning"
      /\ \/ /\ m \in Control
            /\ Run(h) /\ UNCHANGED active
         \/ /\ m \notin Control /\ Session[m] \notin active
            /\ active' = active \cup {Session[m]}
            /\ Run(h)
         \/ /\ m \notin Control /\ Session[m] \in active
            /\ IF m \in Local
               THEN Return(h)
               ELSE Answer(h, "busy") /\ GoTo(h, "caching") /\ UNCHANGED message
            /\ UNCHANGED <<active, runs>>
      /\ UNCHANGED <<table, received, crashes>>

\* agent.respond() returns, or its exception becomes an error message.
Respond(h) ==
  /\ pc[h] = "running"
  /\ \E r \in {"answer", "error"} : Answer(h, r)
  /\ GoTo(h, "completing")
  /\ UNCHANGED <<table, active, message, history, crashes>>

\* ActiveTurnGuard.complete(), called for every turn that was accepted.
Complete(h) ==
  LET m == message[h]
  IN  /\ pc[h] = "completing"
      /\ active' = active \ {Session[m]}
      /\ IF m \in Local
         THEN Return(h)
         ELSE GoTo(h, "caching") /\ UNCHANGED <<message, reply>>
      /\ UNCHANGED <<table, history, crashes>>

\* A row that was pruned meanwhile caches nothing.
CacheOutbound(h) ==
  LET m == message[h]
  IN  /\ pc[h] = "caching"
      /\ row' = IF row[m] = "absent" THEN row ELSE [row EXCEPT ![m] = reply[h]]
      /\ delivered' = delivered \ {m}
      /\ GoTo(h, "sending")
      /\ UNCHANGED <<expired, active, message, reply, history, crashes>>

\* Mutation: a failed delivery is not told from a successful one.
SendAnyhow(h, taken, told) ==
  LET m == message[h]
  IN  /\ pc[h] = "sending"
      /\ told => taken
      /\ received' = IF taken /\ m \in Identified
                     THEN [received EXCEPT ![m] = @ \cup {reply[h]}] ELSE received
      /\ GoTo(h, "marking")
      /\ UNCHANGED <<table, active, message, reply, runs, crashes>>

\* The platform takes the reply, refuses it, or takes it and says otherwise.
Send(h, taken, told) ==
  LET m == message[h]
  IN  /\ pc[h] = "sending"
      /\ told => taken
      /\ received' = IF taken /\ m \in Identified
                     THEN [received EXCEPT ![m] = @ \cup {reply[h]}] ELSE received
      /\ IF told
         THEN GoTo(h, "marking") /\ UNCHANGED <<message, reply>>
         ELSE Return(h)
      /\ UNCHANGED <<table, active, runs, crashes>>

MarkDelivered(h) ==
  LET m == message[h]
  IN  /\ pc[h] = "marking"
      /\ delivered' = IF Cached(m) THEN delivered \cup {m} ELSE delivered
      /\ Return(h)
      /\ UNCHANGED <<row, expired, active, history, crashes>>

\* The daemon dies and is started again: threads and guard are lost.
Crash ==
  /\ crashes < MaxCrashes
  /\ crashes' = crashes + 1
  /\ pc' = [h \in Handlers |-> "idle"]
  /\ message' = [h \in Handlers |-> NoMessage]
  /\ reply' = [h \in Handlers |-> "none"]
  /\ active' = {}
  /\ UNCHANGED <<table, history>>

-----------------------------------------------------------------------------
Step(h) ==
  \/ CheckAndRecord(h) \/ Duplicate(h) \/ Begin(h) \/ Respond(h) \/ Complete(h)
  \/ CacheOutbound(h) \/ MarkDelivered(h)
  \/ \E taken, told \in BOOLEAN : Send(h, taken, told)

Next ==
  \/ \E h \in Handlers : Step(h) \/ \E m \in Messages : Deliver(h, m)
  \/ \E m \in Messages : Expire(m)
  \/ Crash

Spec == Init /\ [][Next]_vars

\* The platform takes the reply to m.
Takes(m) == \E h \in Handlers : message[h] = m /\ Send(h, TRUE, TRUE)

\* Handlers run.  The platform goes on delivering each message, and does not
\* refuse the reply to it for ever.
FairSpec ==
  /\ Spec
  /\ \A h \in Handlers : WF_vars(Step(h))
  /\ \A m \in Messages \ Local :
       SF_vars(Takes(m)) /\ SF_vars(\E h \in Handlers : Deliver(h, m))
=============================================================================
