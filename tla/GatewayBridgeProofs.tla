------------------------ MODULE GatewayBridgeProofs ------------------------
(***************************************************************************)
(* Proofs about GatewayBridge: type correctness, one agent run per         *)
(* platform message, and one turn per session as long as no message is a   *)
(* control command.                                                        *)
(***************************************************************************)
EXTENDS GatewayBridgeProps, TLAPS

-----------------------------------------------------------------------------
(***************************************************************************)
(* Type correctness.                                                       *)
(***************************************************************************)

\* A handler that is not idle handles a message.
Busy == \A h \in Handlers : pc[h] # "idle" => message[h] \in Messages

\* A handler that has something to send has a reply.
Ready ==
  \A h \in Handlers :
    pc[h] \in {"completing", "caching", "sending"} => reply[h] \in Replies

TypeInv == TypeOK /\ Busy /\ Ready

LEMMA StepTypeInv ==
  ASSUME TypeInv, NEW h \in Handlers, Step(h) PROVE TypeInv'
<1> USE GatewayAssumption
    DEF GatewayAssumption, TypeInv, TypeOK, Busy, Ready, Location, Rows, Replies,
        Sessions, Identified, table, handler, history, GoTo, Answer, Return, Cached
<1>1. CASE CheckAndRecord(h) BY <1>1 DEF CheckAndRecord
<1>2. CASE Duplicate(h)      BY <1>2 DEF Duplicate, Undelivered
<1>3. CASE Begin(h)          BY <1>3 DEF Begin, Run
<1>4. CASE Respond(h)        BY <1>4 DEF Respond
<1>5. CASE Complete(h)       BY <1>5 DEF Complete
<1>6. CASE CacheOutbound(h)  BY <1>6 DEF CacheOutbound
<1>7. CASE MarkDelivered(h)  BY <1>7 DEF MarkDelivered
<1>8. ASSUME NEW taken \in BOOLEAN, NEW told \in BOOLEAN, Send(h, taken, told)
      PROVE  TypeInv'
  BY <1>8 DEF Send
<1> QED BY <1>1, <1>2, <1>3, <1>4, <1>5, <1>6, <1>7, <1>8 DEF Step

LEMMA NextTypeInv == TypeInv /\ [Next]_vars => TypeInv'
<1> SUFFICES ASSUME TypeInv, [Next]_vars PROVE TypeInv'
  OBVIOUS
<1> USE DEF TypeInv, TypeOK, Busy, Ready, table, handler, history
<1>1. CASE UNCHANGED vars
  BY <1>1 DEF vars
<1>2. ASSUME NEW h \in Handlers, NEW m \in Messages, Deliver(h, m)
      PROVE  TypeInv'
  BY <1>2 DEF Deliver, Location, GoTo
<1>3. ASSUME NEW m \in Messages, Expire(m) PROVE TypeInv'
  BY <1>3 DEF Expire
<1>4. CASE Crash
  BY <1>4, GatewayAssumption DEF Crash, Location, GatewayAssumption
<1>5. ASSUME NEW h \in Handlers, Step(h) PROVE TypeInv'
  BY <1>5, StepTypeInv
<1> QED BY <1>1, <1>2, <1>3, <1>4, <1>5 DEF Next

LEMMA InitTypeInv == Init => TypeInv
BY GatewayAssumption
   DEF GatewayAssumption, Init, TypeInv, TypeOK, Busy, Ready, Location, Rows

\* The table, the guard and the handlers stay in their declared sets.
THEOREM TypeCorrect == Spec => []TypeOK
<1>1. TypeInv => TypeOK
  BY DEF TypeInv
<1> QED BY <1>1, InitTypeInv, NextTypeInv, PTL DEF Spec

-----------------------------------------------------------------------------
(***************************************************************************)
(* One run per platform message.  Its row is never pruned, so that only    *)
(* the handler that inserted the row gets as far as the guard; a restart   *)
(* loses handlers and keeps rows.                                          *)
(***************************************************************************)

\* Handler h is about to begin the turn of m.
About(h, m) == pc[h] = "beginning" /\ message[h] = m

RunInv ==
  \A m \in Identified :
    /\ runs[m] <= 1
    /\ row[m] = "absent" => runs[m] = 0
    /\ \A h \in Handlers :
         About(h, m) =>
           /\ runs[m] = 0 /\ row[m] # "absent"
           /\ \A g \in Handlers : About(g, m) => g = h

LEMMA StepRunInv ==
  ASSUME TypeInv, RunInv, NEW h \in Handlers, Step(h) PROVE RunInv'
<1> USE GatewayAssumption DEF GatewayAssumption, TypeInv, TypeOK, Busy, Ready,
        RunInv, About, Identified, table, handler, history, GoTo, Answer, Return
<1>1. CASE CheckAndRecord(h)
  <2>1. PICK m \in Messages : m = message[h]
    BY <1>1 DEF CheckAndRecord
  <2>2. \A n \in Identified : n # m => row'[n] = row[n]
    <3> DEFINE pruned == [n \in Messages |-> IF n \in expired THEN "absent" ELSE row[n]]
    <3>1. row' = pruned \/ row' = [pruned EXCEPT ![m] = "recorded"]
      BY <1>1, <2>1 DEF CheckAndRecord
    <3>2. \A n \in Identified : pruned[n] = row[n]
      OBVIOUS
    <3> HIDE DEF pruned
    <3>3. \A n \in Identified : n # m => row'[n] = pruned[n]
      <4>1. pruned \in [Messages -> Rows]
        BY DEF pruned, Rows
      <4> QED BY <3>1, <4>1
    <3> QED BY <3>2, <3>3
  <2>3. CASE m \in Identified /\ row[m] = "absent"
    BY <1>1, <2>1, <2>2, <2>3 DEF CheckAndRecord
  <2>4. CASE m \in Identified /\ row[m] # "absent"
    BY <1>1, <2>1, <2>2, <2>4 DEF CheckAndRecord
  <2>5. CASE m \notin Identified
    BY <1>1, <2>1, <2>2, <2>5 DEF CheckAndRecord
  <2> QED BY <2>3, <2>4, <2>5
<1>2. CASE Duplicate(h)      BY <1>2 DEF Duplicate
<1>3. CASE Begin(h)
  <2>1. message[h] \in Messages /\ pc[h] = "beginning"
    BY <1>3 DEF Begin
  <2>2. row' = row /\ \A g \in Handlers : g # h => pc'[g] = pc[g] /\ message'[g] = message[g]
    BY <1>3 DEF Begin, Run
  <2>3. pc'[h] # "beginning"
    BY <1>3 DEF Begin, Run
  <2>4. \/ runs' = runs
        \/ /\ message[h] \in Identified
           /\ runs' = [runs EXCEPT ![message[h]] = IF @ = 2 THEN 2 ELSE @ + 1]
    BY <1>3 DEF Begin, Run
  <2> QED BY <2>1, <2>2, <2>3, <2>4
<1>4. CASE Respond(h)        BY <1>4 DEF Respond
<1>5. CASE Complete(h)       BY <1>5 DEF Complete
<1>6. CASE CacheOutbound(h)
  <2>1. \A n \in Messages : row[n] = "absent" <=> row'[n] = "absent"
    BY <1>6 DEF CacheOutbound, Replies
  <2> QED BY <1>6, <2>1 DEF CacheOutbound
<1>7. CASE MarkDelivered(h)  BY <1>7 DEF MarkDelivered
<1>8. ASSUME NEW taken \in BOOLEAN, NEW told \in BOOLEAN, Send(h, taken, told)
      PROVE  RunInv'
  BY <1>8 DEF Send
<1> QED BY <1>1, <1>2, <1>3, <1>4, <1>5, <1>6, <1>7, <1>8 DEF Step

LEMMA NextRunInv == TypeInv /\ RunInv /\ [Next]_vars => RunInv'
<1> SUFFICES ASSUME TypeInv, RunInv, [Next]_vars PROVE RunInv'
  OBVIOUS
<1> USE DEF TypeInv, TypeOK, RunInv, About, Identified, table, handler, history
<1>1. CASE UNCHANGED vars
  BY <1>1 DEF vars
<1>2. ASSUME NEW h \in Handlers, NEW m \in Messages, Deliver(h, m)
      PROVE  RunInv'
  BY <1>2 DEF Deliver, GoTo
<1>3. ASSUME NEW m \in Messages, Expire(m) PROVE RunInv'
  BY <1>3 DEF Expire
<1>4. CASE Crash
  BY <1>4 DEF Crash
<1>5. ASSUME NEW h \in Handlers, Step(h) PROVE RunInv'
  BY <1>5, StepRunInv
<1> QED BY <1>1, <1>2, <1>3, <1>4, <1>5 DEF Next

\* For any number of handlers, deliveries and restarts, a message with a
\* platform id runs the agent at most once.
THEOREM RunOnceHolds == Spec => []RunOnce
<1>1. Init => RunInv
  BY DEF Init, RunInv, About, Identified
<1>2. RunInv => RunOnce
  BY DEF RunInv, RunOnce, Identified
<1> QED BY <1>1, <1>2, InitTypeInv, NextTypeInv, NextRunInv, PTL DEF Spec

-----------------------------------------------------------------------------
(***************************************************************************)
(* One turn per session.                                                   *)
(***************************************************************************)

\* Handler h holds the guard for session s.
Holds(h, s) == InTurn(h) /\ Session[message[h]] = s

GuardInv ==
  \A s \in Sessions :
    /\ s \in active <=> \E h \in Handlers : Holds(h, s)
    /\ \A g, h \in Handlers : Holds(g, s) /\ Holds(h, s) => g = h

\* A step that keeps the guard and moves no handler in or out of a turn.
LEMMA AsideKeeps ==
  ASSUME GuardInv, active' = active,
         \A h \in Handlers :
           /\ InTurn(h) <=> InTurn(h)'
           /\ InTurn(h) => message'[h] = message[h]
  PROVE  GuardInv'
BY DEF GuardInv, Holds, Sessions

LEMMA StepGuardInv ==
  ASSUME Control = {}, TypeInv, GuardInv, NEW h \in Handlers, Step(h)
  PROVE  GuardInv'
<1> USE GatewayAssumption DEF GatewayAssumption, TypeInv, TypeOK, Busy,
        table, handler, history, GoTo, Answer, Return
<1>1. CASE CheckAndRecord(h) BY <1>1, AsideKeeps DEF CheckAndRecord, InTurn
<1>2. CASE Duplicate(h)      BY <1>2, AsideKeeps DEF Duplicate, InTurn
<1>3. CASE Begin(h)
  <2>1. CASE Session[message[h]] \in active
    <3>1. active' = active /\ pc[h] = "beginning" /\ pc'[h] \in {"idle", "caching"}
          /\ \A g \in Handlers \ {h} : pc'[g] = pc[g] /\ message'[g] = message[g]
      BY <1>3, <2>1 DEF Begin, Run
    <3> QED BY <3>1, AsideKeeps DEF InTurn
  <2>2. CASE Session[message[h]] \notin active
    <3>1. PICK s0 \in Sessions : s0 = Session[message[h]]
      BY <1>3 DEF Begin, Sessions
    <3>2. /\ active' = active \cup {s0}
          /\ message' = message /\ pc[h] = "beginning"
          /\ pc' = [pc EXCEPT ![h] = "running"]
      BY <1>3, <2>2, <3>1 DEF Begin, Run
    <3>3. \A g \in Handlers, s \in Sessions :
            Holds(g, s)' <=> (Holds(g, s) \/ (g = h /\ s = s0))
      BY <3>1, <3>2 DEF Holds, InTurn
    <3>4. \A g \in Handlers : ~Holds(g, s0)
      BY <2>2, <3>1 DEF GuardInv
    <3>5. \A s \in Sessions : s # s0 =>
            \A g \in Handlers : Holds(g, s)' <=> Holds(g, s)
      BY <3>3
    <3>6. \A g \in Handlers : Holds(g, s0)' <=> g = h
      BY <3>3, <3>4
    <3>7. \A s \in Sessions : s # s0 => (s \in active' <=> s \in active)
      BY <3>2
    <3> HIDE DEF Sessions
    <3> QED BY <3>2, <3>5, <3>6, <3>7 DEF GuardInv, Sessions
  <2> QED BY <2>1, <2>2
<1>4. CASE Respond(h)        BY <1>4, AsideKeeps DEF Respond, InTurn
<1>5. CASE Complete(h)
  <2>1. PICK s0 \in Sessions : s0 = Session[message[h]]
    BY <1>5 DEF Complete, Sessions
  <2>2. /\ active' = active \ {s0}
        /\ pc[h] = "completing" /\ pc'[h] \in {"idle", "caching"}
        /\ \A g \in Handlers \ {h} : pc'[g] = pc[g] /\ message'[g] = message[g]
    BY <1>5, <2>1 DEF Complete
  <2>3. \A g \in Handlers, s \in Sessions :
          Holds(g, s)' <=> Holds(g, s) /\ g # h
    BY <2>2 DEF Holds, InTurn
  <2>4. \A g \in Handlers : Holds(g, s0) => g = h
    BY <2>1, <2>2 DEF GuardInv, Holds, InTurn
  <2>5. \A s \in Sessions : s # s0 => ~Holds(h, s)
    BY <2>1 DEF Holds
  <2>6. \A g \in Handlers : ~Holds(g, s0)'
    BY <2>3, <2>4
  <2>7. \A g \in Handlers, s \in Sessions : s # s0 => (Holds(g, s)' <=> Holds(g, s))
    BY <2>3, <2>5
  <2> QED BY <2>2, <2>6, <2>7 DEF GuardInv, Sessions
<1>6. CASE CacheOutbound(h)  BY <1>6, AsideKeeps DEF CacheOutbound, InTurn
<1>7. CASE MarkDelivered(h)  BY <1>7, AsideKeeps DEF MarkDelivered, InTurn
<1>8. ASSUME NEW taken \in BOOLEAN, NEW told \in BOOLEAN, Send(h, taken, told)
      PROVE  GuardInv'
  BY <1>8, AsideKeeps DEF Send, InTurn
<1> QED BY <1>1, <1>2, <1>3, <1>4, <1>5, <1>6, <1>7, <1>8 DEF Step

LEMMA NextGuardInv ==
  ASSUME Control = {}, TypeInv, GuardInv, [Next]_vars PROVE GuardInv'
<1> USE DEF TypeInv, TypeOK, table, handler, history
<1>1. CASE UNCHANGED vars
  BY <1>1, AsideKeeps DEF vars, InTurn
<1>2. ASSUME NEW h \in Handlers, NEW m \in Messages, Deliver(h, m)
      PROVE  GuardInv'
  BY <1>2, AsideKeeps DEF Deliver, GoTo, InTurn
<1>3. ASSUME NEW m \in Messages, Expire(m) PROVE GuardInv'
  BY <1>3, AsideKeeps DEF Expire, InTurn
<1>4. CASE Crash
  BY <1>4 DEF Crash, GuardInv, Holds, InTurn
<1>5. ASSUME NEW h \in Handlers, Step(h) PROVE GuardInv'
  BY <1>5, StepGuardInv
<1> QED BY <1>1, <1>2, <1>3, <1>4, <1>5 DEF Next

\* Without control commands, for any number of messages, local turns and
\* restarts, the guard is taken exactly while one turn of the session runs.
THEOREM OneTurnHolds == ASSUME Control = {} PROVE Spec => []OneTurn
<1>1. Init => GuardInv
  BY DEF Init, GuardInv, Holds, InTurn
<1>2. TypeInv /\ GuardInv /\ [Next]_vars => GuardInv'
  BY NextGuardInv
<1>3. GuardInv => OneTurn
  BY DEF GuardInv, OneTurn, Turns, Holds
<1> QED BY <1>1, <1>2, <1>3, InitTypeInv, NextTypeInv, PTL DEF Spec
=============================================================================
