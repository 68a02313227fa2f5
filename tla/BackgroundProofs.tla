-------------------------- MODULE BackgroundProofs --------------------------
(***************************************************************************)
(* Proofs about the background work.  BackgroundService: type correctness, *)
(* exclusive ticks, what may begin after a stop, and what the status       *)
(* "stopped" means, for any number of requests, of ticks by hand and of    *)
(* eligible workers.  MemorySummary: the summary worker beside the memory  *)
(* tools of a turn, and what a recall answers, for any beliefs and queries. *)
(***************************************************************************)
EXTENDS BackgroundServiceProps, MemorySummaryProps, FiniteSetTheorems,
        WellFoundedInduction, TLAPS

-----------------------------------------------------------------------------
(***************************************************************************)
(* BackgroundService.                                                      *)
(***************************************************************************)

-----------------------------------------------------------------------------
(***************************************************************************)
(* Type correctness.                                                       *)
(***************************************************************************)

LEMMA StepTypeOK ==
  ASSUME TypeOK, NEW c \in Callers, TickStep(c) PROVE TypeOK'
<1> USE BackgroundAssumption
    DEF BackgroundAssumption, TypeOK, Location, Ticking, Chunk, status, flags,
        tick, counts, GoTo, Leave, Once, Out
<1>1. CASE Select(c)     BY <1>1 DEF Select
<1>2. CASE NextWorker(c)
  <2>1. left' \in [Callers -> 0..MaxEligible]
    BY <1>2 DEF NextWorker
  <2> QED BY <1>2, <2>1 DEF NextWorker
<1>3. CASE Acquire(c)    BY <1>3 DEF Acquire
<1>4. CASE Check(c)      BY <1>4 DEF Check
<1>5. CASE Call(c)       BY <1>5 DEF Call
<1>6. CASE Return(c)     BY <1>6 DEF Return
<1>7. CASE Fail(c)       BY <1>7 DEF Fail
<1>8. CASE Finish(c)     BY <1>8 DEF Finish
<1> QED BY <1>1, <1>2, <1>3, <1>4, <1>5, <1>6, <1>7, <1>8 DEF TickStep

LEMMA StopTypeOK ==
  ASSUME TypeOK, NEW s \in Stoppers, StopStep(s) PROVE TypeOK'
<1> USE DEF TypeOK, status, flags, tick, counts, StopGoTo
<1>1. CASE Announce(s)   BY <1>1 DEF Announce
<1>2. CASE Wait(s)       BY <1>2 DEF Wait
<1>3. CASE Settle(s)     BY <1>3 DEF Settle
<1> QED BY <1>1, <1>2, <1>3 DEF StopStep

LEMMA NextTypeOK == TypeOK /\ [Next]_vars => TypeOK'
<1> SUFFICES ASSUME TypeOK, [Next]_vars PROVE TypeOK'
  OBVIOUS
<1> USE DEF TypeOK, Callers, Stoppers, status, flags, tick, counts
<1>1. CASE UNCHANGED vars
  BY <1>1 DEF vars
<1>2. CASE Start
  BY <1>2 DEF Start, GoTo, StopGoTo, Location
<1>3. ASSUME NEW s \in Stoppers, NEW now \in BOOLEAN, Request(s, now)
      PROVE  TypeOK'
  BY <1>3 DEF Request, StopGoTo
<1>4. ASSUME NEW s \in Stoppers, StopStep(s) PROVE TypeOK'
  BY <1>4, StopTypeOK
<1>5. CASE ThreadStep
  BY <1>5 DEF ThreadStep, Delay, Top, After, Pause, End, Die, GoTo, Location
<1>6. ASSUME NEW c \in Callers, BeginTick(c) PROVE TypeOK'
  BY <1>6 DEF BeginTick, GoTo, Out, Location, Ticking
<1>7. ASSUME NEW c \in Callers, TickStep(c) PROVE TypeOK'
  BY <1>7, StepTypeOK
<1>8. CASE PassDeadline \/ WaitTimesOut \/ BeginTurn \/ EndTurn
  BY <1>8 DEF PassDeadline, WaitTimesOut, StopGoTo, BeginTurn, EndTurn
<1> QED BY <1>1, <1>2, <1>3, <1>4, <1>5, <1>6, <1>7, <1>8 DEF Next

LEMMA InitTypeOK == Init => TypeOK
<1> SUFFICES ASSUME Init PROVE TypeOK
  OBVIOUS
<1>1. left \in [Callers -> 0..MaxEligible] /\ pc \in [Callers -> Location]
  BY BackgroundAssumption
     DEF BackgroundAssumption, Init, Location, Ticking, Chunk
<1>2. hadError \in [Callers -> BOOLEAN]
  BY DEF Init
<1>3. /\ late \in [Callers -> 0..2] /\ calls \in [Callers -> 0..2]
      /\ stopPc \in [Stoppers ->
           {"ready", "serving", "requested", "announced", "settling", "returned",
            "overrun"}]
      /\ escaped \subseteq Callers
  BY DEF Init
<1>4. lastError \in BOOLEAN /\ stopRequested \in BOOLEAN /\ immediate \in BOOLEAN
  BY DEF Init
<1>5. /\ state \in {"stopped", "running", "ticking", "stopping", "error"}
      /\ deadline \in {"none", "ahead", "passed"}
      /\ ticker \in Callers \cup {"none"}
      /\ holder \in Callers \cup {"none", "turn"}
  BY DEF Init
<1> QED BY <1>1, <1>2, <1>3, <1>4, <1>5 DEF TypeOK

\* Flags, locks and the places of all threads stay in their declared sets.
THEOREM TypeCorrect == Spec => []TypeOK
BY InitTypeOK, NextTypeOK, PTL DEF Spec

-----------------------------------------------------------------------------
(***************************************************************************)
(* Ticks exclude each other: whoever is inside one owns the tick lock, and *)
(* the deadline is there exactly while the lock is taken.                  *)
(***************************************************************************)

TickInv ==
  /\ \A c \in Callers : pc[c] \in Ticking => ticker = c
  /\ deadline = "none" <=> ticker = "none"

LEMMA NextTickInv == TypeOK /\ TickInv /\ [Next]_vars => TickInv'
<1> SUFFICES ASSUME TypeOK, TickInv, [Next]_vars PROVE TickInv'
  OBVIOUS
<1> USE BackgroundAssumption
    DEF BackgroundAssumption, TypeOK, TickInv, Callers, Ticking, Chunk, Location,
        status, flags, tick, counts, GoTo, Leave, Out
<1>1. CASE UNCHANGED vars
  BY <1>1 DEF vars
<1>2. CASE Start
  BY <1>2 DEF Start
<1>3. ASSUME NEW s \in Stoppers, NEW now \in BOOLEAN, Request(s, now)
      PROVE  TickInv'
  BY <1>3 DEF Request
<1>4. ASSUME NEW s \in Stoppers, StopStep(s) PROVE TickInv'
  BY <1>4 DEF StopStep, Announce, Wait, Settle
<1>5. CASE ThreadStep
  BY <1>5 DEF ThreadStep, Delay, Top, After, Pause, End, Die
<1>6. ASSUME NEW c \in Callers, BeginTick(c) PROVE TickInv'
  BY <1>6 DEF BeginTick
<1>7. ASSUME NEW c \in Callers, TickStep(c) PROVE TickInv'
  <2>1. CASE Select(c)     BY <2>1 DEF Select
  <2>2. CASE NextWorker(c) BY <2>2 DEF NextWorker
  <2>3. CASE Acquire(c)    BY <2>3 DEF Acquire
  <2>4. CASE Check(c)      BY <2>4 DEF Check
  <2>5. CASE Call(c)       BY <2>5 DEF Call
  <2>6. CASE Return(c)     BY <2>6 DEF Return
  <2>7. CASE Fail(c)       BY <2>7 DEF Fail
  <2>8. CASE Finish(c)     BY <2>8 DEF Finish
  <2> QED BY <1>7, <2>1, <2>2, <2>3, <2>4, <2>5, <2>6, <2>7, <2>8 DEF TickStep
<1>8. CASE PassDeadline \/ WaitTimesOut \/ BeginTurn \/ EndTurn
  BY <1>8 DEF PassDeadline, WaitTimesOut, StopGoTo, BeginTurn, EndTurn
<1> QED BY <1>1, <1>2, <1>3, <1>4, <1>5, <1>6, <1>7, <1>8 DEF Next

LEMMA InitTickInv == Init => TickInv
BY DEF Init, TickInv, Ticking, Chunk

\* No tick ends another's deadline, however many callers there are.
THEOREM TickHasDeadlineHolds == Spec => []TickHasDeadline
<1>1. TypeOK /\ TickInv => TickHasDeadline
  BY BackgroundAssumption
     DEF BackgroundAssumption, TypeOK, TickInv, TickHasDeadline, Callers
<1> QED BY <1>1, InitTypeOK, NextTypeOK, InitTickInv, NextTickInv, PTL DEF Spec

-----------------------------------------------------------------------------
(***************************************************************************)
(* What begins after a stop.  A worker is let past the flag before it      *)
(* waits for the lock; once one has begun late, its caller is never there  *)
(* again.  The same with calls, the immediate flag and the coordinator.    *)
(***************************************************************************)

\* No stop precedes the start, which clears the flags.
EarlyInv ==
  stopPc["run"] = "ready" =>
    /\ ~stopRequested /\ ~immediate
    /\ \A s \in Stoppers : stopPc[s] = "ready"

LateInv ==
  /\ ~stopRequested => \A c \in Callers : late[c] = 0
  /\ \A c \in Callers : late[c] <= 1 /\ (late[c] = 1 => pc[c] # "acquiring")

CallInv ==
  /\ ~immediate => \A c \in Callers : calls[c] = 0
  /\ \A c \in Callers : calls[c] <= 1 /\ (calls[c] = 1 => pc[c] # "calling")

StopInv == EarlyInv /\ LateInv /\ CallInv

LEMMA StepStopInv ==
  ASSUME TypeOK, StopInv, NEW c \in Callers, TickStep(c) PROVE StopInv'
<1> USE DEF TypeOK, StopInv, EarlyInv, LateInv, CallInv, status, flags, tick,
            counts, GoTo, Leave, Out, Once
<1>1. CASE Select(c)     BY <1>1 DEF Select
<1>2. CASE NextWorker(c) BY <1>2 DEF NextWorker
<1>3. CASE Acquire(c)    BY <1>3 DEF Acquire
<1>4. CASE Check(c)      BY <1>4 DEF Check
<1>5. CASE Call(c)       BY <1>5 DEF Call
<1>6. CASE Return(c)     BY <1>6 DEF Return
<1>7. CASE Fail(c)       BY <1>7 DEF Fail
<1>8. CASE Finish(c)     BY <1>8 DEF Finish
<1> QED BY <1>1, <1>2, <1>3, <1>4, <1>5, <1>6, <1>7, <1>8 DEF TickStep

LEMMA NextStopInv == TypeOK /\ StopInv /\ [Next]_vars => StopInv'
<1> SUFFICES ASSUME TypeOK, StopInv, [Next]_vars PROVE StopInv'
  OBVIOUS
<1> USE DEF TypeOK, StopInv, EarlyInv, LateInv, CallInv, Callers, Stoppers,
            status, flags, tick, counts, GoTo, StopGoTo, Out
<1>1. CASE UNCHANGED vars
  BY <1>1 DEF vars
<1>2. CASE Start
  BY <1>2 DEF Start
<1>3. ASSUME NEW s \in Stoppers, NEW now \in BOOLEAN, Request(s, now)
      PROVE  StopInv'
  BY <1>3 DEF Request
<1>4. ASSUME NEW s \in Stoppers, StopStep(s) PROVE StopInv'
  BY <1>4 DEF StopStep, Announce, Wait, Settle
<1>5. CASE ThreadStep
  BY <1>5 DEF ThreadStep, Delay, Top, After, Pause, End, Die
<1>6. ASSUME NEW c \in Callers, BeginTick(c) PROVE StopInv'
  BY <1>6 DEF BeginTick
<1>7. ASSUME NEW c \in Callers, TickStep(c) PROVE StopInv'
  BY <1>7, StepStopInv
<1>8. CASE PassDeadline \/ WaitTimesOut \/ BeginTurn \/ EndTurn
  BY <1>8 DEF PassDeadline, WaitTimesOut, StopGoTo, BeginTurn, EndTurn
<1> QED BY <1>1, <1>2, <1>3, <1>4, <1>5, <1>6, <1>7, <1>8 DEF Next

LEMMA InitStopInv == Init => StopInv
BY DEF Init, StopInv, EarlyInv, LateInv, CallInv, Stoppers

\* Each caller begins at most one worker after a stop was requested.
THEOREM OneWorkerAfterStopHolds == Spec => []OneWorkerAfterStop
<1>1. StopInv => OneWorkerAfterStop
  BY DEF StopInv, LateInv, OneWorkerAfterStop
<1> QED BY <1>1, InitTypeOK, NextTypeOK, InitStopInv, NextStopInv, PTL DEF Spec

\* Each caller begins at most one LLM call after an immediate stop.
THEOREM OneCallAfterImmediateHolds == Spec => []OneCallAfterImmediate
<1>1. StopInv => OneCallAfterImmediate
  BY DEF StopInv, CallInv, OneCallAfterImmediate
<1> QED BY <1>1, InitTypeOK, NextTypeOK, InitStopInv, NextStopInv, PTL DEF Spec

-----------------------------------------------------------------------------
(***************************************************************************)
(* The status "stopped".  It is written by a stop() that has seen the      *)
(* thread dead, by the thread on its way out, and by a tick that ends.     *)
(***************************************************************************)

QuietInv ==
  /\ state = "stopped" => pc["thread"] \notin Ticking
  /\ \A s \in Stoppers : stopPc[s] = "settling" => ~Alive

LEMMA NextQuietInv ==
  TypeOK /\ TickInv /\ EarlyInv /\ QuietInv /\ [Next]_vars => QuietInv'
<1> SUFFICES ASSUME TypeOK, TickInv, EarlyInv, QuietInv, [Next]_vars
             PROVE  QuietInv'
  OBVIOUS
<1> USE BackgroundAssumption
    DEF BackgroundAssumption, TypeOK, QuietInv, Alive, Callers, Stoppers,
        Ticking, Chunk, status, flags, tick, counts, GoTo, StopGoTo, Leave, Out
<1>1. CASE UNCHANGED vars
  BY <1>1 DEF vars
<1>2. CASE Start
  BY <1>2 DEF Start, EarlyInv
<1>3. ASSUME NEW s \in Stoppers, NEW now \in BOOLEAN, Request(s, now)
      PROVE  QuietInv'
  BY <1>3 DEF Request
<1>4. ASSUME NEW s \in Stoppers, StopStep(s) PROVE QuietInv'
  BY <1>4 DEF StopStep, Announce, Wait, Settle
<1>5. CASE ThreadStep
  BY <1>5 DEF ThreadStep, Delay, Top, After, Pause, End, Die
<1>6. ASSUME NEW c \in Callers, BeginTick(c) PROVE QuietInv'
  BY <1>6 DEF BeginTick
<1>7. ASSUME NEW c \in Callers, TickStep(c) PROVE QuietInv'
  <2>1. CASE Select(c)     BY <2>1 DEF Select
  <2>2. CASE NextWorker(c) BY <2>2 DEF NextWorker
  <2>3. CASE Acquire(c)    BY <2>3 DEF Acquire
  <2>4. CASE Check(c)      BY <2>4 DEF Check
  <2>5. CASE Call(c)       BY <2>5 DEF Call
  <2>6. CASE Return(c)     BY <2>6 DEF Return
  <2>7. CASE Fail(c)       BY <2>7 DEF Fail
  <2>8. CASE Finish(c)     BY <2>8 DEF Finish, TickInv
  <2> QED BY <1>7, <2>1, <2>2, <2>3, <2>4, <2>5, <2>6, <2>7, <2>8 DEF TickStep
<1>8. CASE PassDeadline \/ WaitTimesOut \/ BeginTurn \/ EndTurn
  BY <1>8 DEF PassDeadline, WaitTimesOut, StopGoTo, BeginTurn, EndTurn
<1> QED BY <1>1, <1>2, <1>3, <1>4, <1>5, <1>6, <1>7, <1>8 DEF Next

\* The status "stopped" is never shown over a chunk of the thread.
THEOREM StoppedIsQuietHolds == Spec => []StoppedIsQuiet
<1>1. Init => QuietInv
  BY DEF Init, QuietInv, Ticking, Chunk, Alive, Callers
<1>2. QuietInv => StoppedIsQuiet
  BY DEF QuietInv, StoppedIsQuiet, Ticking
<1>3. StopInv => EarlyInv
  BY DEF StopInv
<1> QED BY <1>1, <1>2, <1>3, InitTypeOK, NextTypeOK, InitTickInv, NextTickInv,
           InitStopInv, NextStopInv, NextQuietInv, PTL DEF Spec

\* All that a stop promises at once.
THEOREM StopIsHeededHolds == Spec => []StopIsHeeded
<1>1. OneWorkerAfterStop /\ OneCallAfterImmediate /\ StoppedIsQuiet => StopIsHeeded
  BY DEF StopIsHeeded
<1> QED BY <1>1, OneWorkerAfterStopHolds, OneCallAfterImmediateHolds, StoppedIsQuietHolds, PTL

-----------------------------------------------------------------------------
(***************************************************************************)
(* MemorySummary: the worker and the plans of the tools.                   *)
(***************************************************************************)

-----------------------------------------------------------------------------
(***************************************************************************)
(* The shape of the variables.                                             *)
(***************************************************************************)

Lifecycles == {"absent", "active", "inactive"}
PlanRecord == [decision : {"none", "accepted", "pending"},
               operation : {"none", "append_distinct", "replace", "merge", "correct", "retract"},
               targets : SUBSET Beliefs, memory : Beliefs \cup {0}]
SummaryFields == {"life", "kind", "scope", "about", "domain", "asks", "until", "sources"}
IsSequence(s) == s \in Seq({s[i] : i \in DOMAIN s})

\* Where the worker is while it works on its job.
Preparing == {"selected", "pausing", "ready", "started", "pausing late", "calling"}
Working == Preparing \cup {"superseding"}

StoreShape ==
  /\ life \in [Beliefs -> Lifecycles]
  /\ turn \in BOOLEAN
  /\ plan \in PlanRecord
  /\ at \in Working \cup {"idle"}
  /\ IsSequence(summaries)
  /\ \A i \in DOMAIN summaries : DOMAIN summaries[i] = SummaryFields

\* A summary is appended behind the others.
LEMMA AppendShape ==
  ASSUME NEW s, IsSequence(s), NEW e
  PROVE  /\ IsSequence(Append(s, e))
         /\ Len(s) \in Nat
         /\ DOMAIN s = 1..Len(s)
         /\ Len(Append(s, e)) = Len(s) + 1
         /\ DOMAIN Append(s, e) = 1..(Len(s) + 1)
         /\ \A i \in DOMAIN s : Append(s, e)[i] = s[i]
         /\ Append(s, e)[Len(s) + 1] = e
<1> DEFINE S == {s[i] : i \in DOMAIN s} \cup {e}
           t == Append(s, e)
           R == {t[i] : i \in DOMAIN t}
<1>1. s \in Seq(S) /\ e \in S
  BY DEF IsSequence
<1> HIDE DEF S
<1>2. /\ Len(s) \in Nat
      /\ DOMAIN s = 1..Len(s)
      /\ t \in Seq(S)
      /\ Len(t) = Len(s) + 1
      /\ \A i \in DOMAIN s : t[i] = s[i]
      /\ t[Len(s) + 1] = e
  BY <1>1
<1> HIDE DEF t
<1>3. DOMAIN t = 1..(Len(s) + 1)
  BY <1>2
<1>4. \A i \in 1..Len(t) : t[i] \in R
  BY <1>2, <1>3
<1>5. t \in [1..Len(t) -> S]
  BY <1>2
<1>6. t \in [1..Len(t) -> R]
  BY <1>4, <1>5
<1> HIDE DEF R
<1>7. t \in Seq(R)
  BY <1>2, <1>6
<1> QED BY <1>2, <1>3, <1>7 DEF IsSequence, R, t

\* A field of one summary is overwritten.
LEMMA ExceptShape ==
  ASSUME NEW s, IsSequence(s), NEW i, NEW e
  PROVE  /\ IsSequence([s EXCEPT ![i] = e])
         /\ Len(s) \in Nat
         /\ DOMAIN s = 1..Len(s)
         /\ Len([s EXCEPT ![i] = e]) = Len(s)
         /\ DOMAIN [s EXCEPT ![i] = e] = DOMAIN s
<1> DEFINE S == {s[k] : k \in DOMAIN s} \cup {e}
           t == [s EXCEPT ![i] = e]
           R == {t[k] : k \in DOMAIN t}
<1>1. s \in Seq(S) /\ e \in S
  BY DEF IsSequence
<1> HIDE DEF S
<1>2. /\ Len(s) \in Nat
      /\ DOMAIN s = 1..Len(s)
      /\ s \in [1..Len(s) -> S]
  BY <1>1
<1>3. t \in [1..Len(s) -> S] /\ DOMAIN t = 1..Len(s)
  BY <1>1, <1>2
<1> HIDE DEF t
<1>4. t \in [1..Len(s) -> R]
  BY <1>3
<1> HIDE DEF R
<1>5. t \in Seq(R) /\ Len(t) = Len(s)
  BY <1>2, <1>3, <1>4
<1> QED BY <1>2, <1>3, <1>5 DEF IsSequence, R, t

\* What is planned is a plan.
LEMMA PlannedShape ==
  ASSUME NEW u \in Updates, NEW q
  PROVE  Planned(u, q) \in PlanRecord /\ Confirmed(Planned(u, q)) \in PlanRecord
<1>1. u.operation \in {"append_distinct", "reinforce", "replace", "merge", "correct", "retract"}
  BY DEF Updates
<1>2. u.memory \in Beliefs \cup {0} /\ u.targets \in SUBSET Beliefs
  BY DEF Updates, Absent
<1>3. NoPlan \in PlanRecord
  BY DEF NoPlan, Plan, PlanRecord
<1>4. AppendPlan(u, q) \in PlanRecord
  BY <1>2, <1>3 DEF AppendPlan, Plan, PlanRecord
<1>5. Planned(u, q) \in PlanRecord
  BY <1>1, <1>2, <1>3, <1>4 DEF Planned, Plan, PlanRecord
<1> HIDE DEF Planned
<1> QED BY <1>5 DEF Confirmed, Plan, PlanRecord

\* No plan is a plan like the others.
LEMMA NoPlanShape == NoPlan \in PlanRecord /\ NoPlan.decision = "none"
BY DEF NoPlan, Plan, PlanRecord

\* The tools keep the shape.
LEMMA ToolShape ==
  ASSUME StoreShape, Propose
  PROVE  life' \in [Beliefs -> Lifecycles] /\ turn' \in BOOLEAN /\ plan' \in PlanRecord /\ summaries' = summaries
<1> USE DEF StoreShape
<1>1. CASE PlanUpdate
  <2>1. PICK u \in Updates, q \in Queries : plan' = Confirmed(Planned(u, q))
    BY <1>1 DEF PlanUpdate
  <2> QED BY <1>1, <2>1, PlannedShape DEF PlanUpdate
<1>2. CASE ApplyAppend
  BY <1>2, NoPlanShape DEF ApplyAppend, Written, Lifecycles
<1>3. CASE ApplySupersede
  BY <1>3, NoPlanShape DEF ApplySupersede, Superseded, Lifecycles
<1>4. CASE ApplyRetract
  <2>1. PICK b \in plan.targets :
          /\ life' = Marked(b)
          /\ plan' = IF plan.targets = {b} THEN NoPlan ELSE [plan EXCEPT !.targets = @ \ {b}]
    BY <1>4 DEF ApplyRetract
  <2>2. [plan EXCEPT !.targets = @ \ {b}] \in PlanRecord
    BY DEF PlanRecord
  <2> QED BY <1>4, <2>1, <2>2, NoPlanShape DEF ApplyRetract, Marked, Lifecycles
<1>5. CASE ApplyPending
  BY <1>5, NoPlanShape DEF ApplyPending, Written, Lifecycles
<1> QED BY <1>1, <1>2, <1>3, <1>4, <1>5 DEF Propose

-----------------------------------------------------------------------------
(***************************************************************************)
(* The plan and the guidance.                                              *)
(***************************************************************************)

\* An active belief says already what the memory of an update says.
SaidAlready(memory) ==
  \E b \in Active : Comparable(b, memory) /\ Traits[b].content = Traits[memory].content

\* A plan lives inside a turn, and a turn only while the worker's lock is open.
\* What is accepted met no guidance that asks; what is appended is new; what waits
\* for the user is of a belief that is not there yet.
PlanInv ==
  /\ plan # NoPlan => turn
  /\ turn => LockOpen
  /\ plan.decision = "accepted" => ~Guided
  /\ plan.decision = "accepted" /\ plan.operation = "append_distinct" => ~SaidAlready(plan.memory)
  /\ plan.decision = "pending" => plan.memory \in Absent

\* What is planned is planned with care.
LEMMA PlannedWell ==
  ASSUME StoreShape, NEW u \in Updates, NEW q
  PROVE  LET p == Confirmed(Planned(u, q)) IN
         /\ p.decision = "accepted" => ~Guided
         /\ p.decision = "accepted" /\ p.operation = "append_distinct" => ~SaidAlready(p.memory)
         /\ p.decision = "pending" => p.memory \in Absent
<1> DEFINE p == Planned(u, q)
           c == Confirmed(p)
           Good == /\ c.decision = "accepted" => ~Guided
                   /\ c.decision = "accepted" /\ c.operation = "append_distinct" =>
                        ~SaidAlready(c.memory)
                   /\ c.decision = "pending" => c.memory \in Absent
<1>1. /\ u.operation \in {"append_distinct", "reinforce", "replace", "merge", "correct", "retract"}
      /\ u.memory \in Absent \cup {0}
  BY DEF Updates
<1>2. NoPlan.decision = "none"
  BY DEF NoPlan, Plan
<1>3. p.decision # "none" => u.memory # 0 /\ p.memory = u.memory
  BY <1>1, <1>2 DEF Planned, AppendPlan, WellPosed, Plan
<1>4. p.decision = "accepted" /\ p.operation = "append_distinct" =>
        Duplicates(u.memory) = {} /\ u.memory # 0 /\ p.memory = u.memory
  BY <1>1, <1>2 DEF Planned, AppendPlan, WellPosed, Plan
<1>5. p.decision = "accepted" /\ p.operation = "append_distinct" => ~SaidAlready(p.memory)
  BY <1>4 DEF SaidAlready, Duplicates, SameScopeType, Comparable
<1>6. p \in PlanRecord
  BY PlannedShape
<1> HIDE DEF p
<1>7. ASSUME p.decision = "accepted", Guided PROVE Good
  <2>1. c.decision = "pending" /\ c.memory = p.memory
    BY <1>7 DEF Confirmed, Plan
  <2>2. p.memory \in Absent
    BY <1>1, <1>3, <1>7
  <2> QED BY <2>1, <2>2
<1>8. ASSUME ~(p.decision = "accepted" /\ Guided) PROVE Good
  <2>1. c = p
    BY <1>8 DEF Confirmed
  <2>2. p.decision \in {"none", "accepted", "pending"}
    BY <1>6 DEF PlanRecord
  <2> QED BY <1>1, <1>3, <1>5, <1>8, <2>1, <2>2
<1>9. Good
  BY <1>7, <1>8
<1> QED BY <1>9 DEF p

\* A tool's step leaves a plan that still stands.
LEMMA ToolPlan ==
  ASSUME StoreShape, PlanInv, Propose
  PROVE  /\ plan' # NoPlan => turn'
         /\ plan'.decision = "accepted" => ~Guided'
         /\ plan'.decision = "accepted" /\ plan'.operation = "append_distinct" => ~SaidAlready(plan.memory)'
         /\ plan'.decision = "pending" => (plan.memory \in Absent)'
<1>n. NoPlan.decision = "none"
  BY DEF NoPlan, Plan
<1>1. CASE PlanUpdate
  <2>1. PICK u \in Updates, q \in Queries : plan' = Confirmed(Planned(u, q))
    BY <1>1 DEF PlanUpdate
  <2> DEFINE p == Confirmed(Planned(u, q))
  <2>2. /\ p.decision = "accepted" => ~Guided
        /\ p.decision = "accepted" /\ p.operation = "append_distinct" => ~SaidAlready(p.memory)
        /\ p.decision = "pending" => p.memory \in Absent
    BY PlannedWell
  <2>3. plan' = p
    BY <2>1
  <2> HIDE DEF p
  <2>4. Guided' = Guided
    BY <1>1 DEF PlanUpdate, Guided, Guides
  <2>5. Active' = Active /\ Absent' = Absent
    BY <1>1 DEF PlanUpdate, Active, Absent
  <2>6. SaidAlready(plan.memory)' = SaidAlready(p.memory)
    BY <2>3, <2>5 DEF SaidAlready, Comparable
  <2> QED BY <1>1, <2>2, <2>3, <2>4, <2>5, <2>6 DEF PlanUpdate
<1>2. CASE ApplyAppend \/ ApplySupersede \/ ApplyPending
  BY <1>2, <1>n DEF ApplyAppend, ApplySupersede, ApplyPending
<1>3. CASE ApplyRetract
  <2>1. PICK b \in plan.targets :
          /\ life' = Marked(b)
          /\ plan' = IF plan.targets = {b} THEN NoPlan ELSE [plan EXCEPT !.targets = @ \ {b}]
    BY <1>3 DEF ApplyRetract
  <2>2. plan' # NoPlan => plan' = [plan EXCEPT !.targets = @ \ {b}]
    BY <2>1
  <2>3. [plan EXCEPT !.targets = @ \ {b}].decision = "accepted"
        /\ [plan EXCEPT !.targets = @ \ {b}].operation = "retract"
    BY <1>3 DEF ApplyRetract, StoreShape, PlanRecord
  <2>4. Guided' = Guided /\ turn' = turn
    BY <1>3 DEF ApplyRetract, Guided, Guides
  <2>5. plan # NoPlan /\ plan.decision = "accepted"
    BY <1>3, <1>n DEF ApplyRetract
  <2> QED BY <2>2, <2>3, <2>4, <2>5, <1>n DEF PlanInv
<1> QED BY <1>1, <1>2, <1>3 DEF Propose

-----------------------------------------------------------------------------
(***************************************************************************)
(* The shape and the plan are kept by every step.                          *)
(***************************************************************************)

\* The steps of the worker that leave the store as it is.
WorkerStep ==
  \/ SelectTarget \/ YieldEarly
  \/ OpenLock("selected", "pausing") \/ Resume("pausing", "ready")
  \/ Claim \/ YieldLate
  \/ OpenLock("started", "pausing late") \/ Resume("pausing late", "calling")
  \/ CallFails \/ SupersedeFails

\* Such a step keeps the lock open for a turn that runs.
LEMMA WorkerFrame ==
  ASSUME WorkerStep
  PROVE  /\ UNCHANGED toolVars
         /\ at' \in Working \cup {"idle"}
         /\ turn /\ LockOpen => LockOpen'
<1> USE DEF LockOpen, Working, Preparing, Report
<1>1. CASE SelectTarget \/ YieldEarly
  BY <1>1 DEF SelectTarget, YieldEarly, LockFree
<1>2. CASE OpenLock("selected", "pausing") \/ OpenLock("started", "pausing late")
  BY <1>2 DEF OpenLock, toolVars
<1>3. CASE Resume("pausing", "ready") \/ Resume("pausing late", "calling")
  BY <1>3 DEF Resume, toolVars, LockFree
<1>4. CASE Claim
  BY <1>4 DEF Claim
<1>5. CASE YieldLate \/ CallFails \/ SupersedeFails
  BY <1>5 DEF YieldLate, CallFails, SupersedeFails, toolVars
<1> QED BY <1>1, <1>2, <1>3, <1>4, <1>5 DEF WorkerStep

\* A step of the system is one of these.
LEMMA StepCases ==
  ASSUME SummaryNext
  PROVE  \/ WorkerStep \/ Accept \/ SupersedeOld \/ Crash
         \/ StartTurn \/ (Propose /\ UNCHANGED worker) \/ FinishTurn
         \/ Consolidate \/ Expire \/ Archive \/ Lapse
BY DEF SummaryNext, Step, WorkerStep, ToolCall

\* Every step keeps the shape.
LEMMA ShapeKept ==
  ASSUME StoreShape, SummaryNext
  PROVE  StoreShape'
<1> USE DEF StoreShape
<1>1. CASE WorkerStep
  BY <1>1, WorkerFrame DEF toolVars
<1>2. CASE Accept
  <2>1. PICK out \in Acceptable : summaries' = Append(summaries, SummaryFrom(out))
    BY <1>2 DEF Accept, Stored
  <2> DEFINE e == SummaryFrom(out)
  <2>2. DOMAIN e = SummaryFields
    BY DEF SummaryFrom, SummaryFields
  <2> HIDE DEF e
  <2>3. /\ IsSequence(summaries')
        /\ \A i \in DOMAIN summaries' : DOMAIN summaries'[i] = SummaryFields
    <3>1. summaries' = Append(summaries, e)
      BY <2>1 DEF e
    <3>2. /\ IsSequence(Append(summaries, e))
          /\ Len(summaries) \in Nat
          /\ DOMAIN summaries = 1..Len(summaries)
          /\ DOMAIN Append(summaries, e) = 1..(Len(summaries) + 1)
          /\ \A i \in DOMAIN summaries : Append(summaries, e)[i] = summaries[i]
          /\ Append(summaries, e)[Len(summaries) + 1] = e
      BY AppendShape
    <3> QED BY <2>2, <3>1, <3>2
  <2>4. at' \in {"idle", "superseding"}
    BY <1>2 DEF Accept, AfterAccept
  <2> QED BY <1>2, <2>3, <2>4 DEF Accept, Working
<1>3. CASE SupersedeOld
  <2>1. summaries' = [summaries EXCEPT ![job.old] = [summaries[job.old] EXCEPT !.life = "superseded"]]
    BY <1>3 DEF SupersedeOld
  <2>2. /\ IsSequence(summaries') /\ DOMAIN summaries' = DOMAIN summaries
    BY <2>1, ExceptShape
  <2>3. \A i \in DOMAIN summaries' : DOMAIN summaries'[i] = SummaryFields
    BY <2>1, <2>2
  <2> QED BY <1>3, <2>2, <2>3 DEF SupersedeOld, Report
<1>4. CASE Lapse
  <2>1. PICK i \in DOMAIN summaries :
          summaries' = [summaries EXCEPT ![i] = [summaries[i] EXCEPT !.until = "past"]]
    BY <1>4 DEF Lapse
  <2>2. /\ IsSequence(summaries') /\ DOMAIN summaries' = DOMAIN summaries
    BY <2>1, ExceptShape
  <2>3. \A k \in DOMAIN summaries' : DOMAIN summaries'[k] = SummaryFields
    BY <2>1, <2>2
  <2> QED BY <1>4, <2>2, <2>3 DEF Lapse, worker
<1>5. CASE Propose /\ UNCHANGED worker
  BY <1>5, ToolShape DEF worker
<1>6. CASE StartTurn \/ FinishTurn \/ Crash \/ Expire
  BY <1>6, NoPlanShape DEF StartTurn, FinishTurn, Crash, Expire, worker, Report
<1>7. CASE Consolidate \/ Archive
  <2>1. life' \in [Beliefs -> Lifecycles]
    BY <1>7 DEF Consolidate, Archive, Superseded, Marked, Lifecycles
  <2> QED BY <1>7, <2>1 DEF Consolidate, Archive, worker
<1> QED BY <1>1, <1>2, <1>3, <1>4, <1>5, <1>6, <1>7, StepCases

\* Every step keeps the plan standing.
LEMMA PlanKept ==
  ASSUME StoreShape, PlanInv, SummaryNext
  PROVE  PlanInv'
<1> USE DEF PlanInv
<1>n. NoPlan.decision = "none"
  BY DEF NoPlan, Plan
<1>1. CASE WorkerStep
  <2>1. UNCHANGED toolVars
    BY <1>1, WorkerFrame
  <2>2. Guided' = Guided /\ SaidAlready(plan.memory)' = SaidAlready(plan.memory) /\ Absent' = Absent
    BY <2>1 DEF toolVars, Guided, Guides, SaidAlready, Active, Absent, Comparable
  <2> QED BY <1>1, <2>1, <2>2, WorkerFrame DEF toolVars
<1>2. CASE Accept \/ SupersedeOld
  <2>1. plan = NoPlan /\ ~turn
    BY <1>2 DEF Accept, SupersedeOld, LockOpen
  <2>2. plan' = NoPlan /\ turn' = FALSE
    BY <1>2, <2>1 DEF Accept, SupersedeOld, StoreShape
  <2> QED BY <2>2, <1>n
<1>3. CASE FinishTurn \/ Crash
  BY <1>3, <1>n DEF FinishTurn, Crash
<1>4. CASE StartTurn
  <2>1. UNCHANGED <<life, expired, summaries, plan, at>>
    BY <1>4 DEF StartTurn, worker
  <2>2. Guided' = Guided /\ SaidAlready(plan.memory)' = SaidAlready(plan.memory) /\ Absent' = Absent
    BY <2>1 DEF Guided, Guides, SaidAlready, Active, Absent, Comparable
  <2> QED BY <1>4, <2>1, <2>2 DEF StartTurn, LockOpen
<1>5. CASE Propose /\ UNCHANGED worker
  <2>1. turn' = turn /\ at' = at
    BY <1>5 DEF Propose, PlanUpdate, ApplyAppend, ApplySupersede, ApplyPending, ApplyRetract, worker
  <2> QED BY <1>5, <2>1, ToolPlan DEF LockOpen
<1>6. CASE Consolidate
  <2>1. plan' = NoPlan /\ turn' = FALSE
    BY <1>6 DEF Consolidate, LockFree, StoreShape
  <2> QED BY <2>1, <1>n
<1>7. CASE Expire \/ Archive
  <2>1. UNCHANGED <<summaries, plan, at, turn>>
    BY <1>7 DEF Expire, Archive, worker
  <2>2. Active' \subseteq Active /\ Absent' = Absent
    BY <1>7 DEF Expire, Archive, Active, Absent, Marked, StoreShape
  <2>3. Guided' = Guided
    BY <2>1 DEF Guided, Guides
  <2>4. SaidAlready(plan.memory)' => SaidAlready(plan.memory)
    BY <2>1, <2>2 DEF SaidAlready, Comparable
  <2> QED BY <2>1, <2>2, <2>3, <2>4 DEF LockOpen
<1>8. CASE Lapse
  <2>1. UNCHANGED <<life, plan, at, turn>>
    BY <1>8 DEF Lapse, worker
  <2>2. SaidAlready(plan.memory)' = SaidAlready(plan.memory) /\ Absent' = Absent
    BY <2>1 DEF SaidAlready, Active, Absent, Comparable
  <2>3. PICK i \in DOMAIN summaries :
          summaries' = [summaries EXCEPT ![i] = [summaries[i] EXCEPT !.until = "past"]]
    BY <1>8 DEF Lapse
  <2>4. DOMAIN summaries' = DOMAIN summaries
    BY <2>3, ExceptShape DEF StoreShape
  <2>5. \A k \in DOMAIN summaries : Guides(summaries'[k]) => Guides(summaries[k])
    <3>1. TAKE k \in DOMAIN summaries
    <3>2. CASE k # i
      BY <2>3, <2>4, <3>2
    <3>3. CASE k = i
      <4>1. summaries'[i].until = "past"
        BY <2>3, <2>4 DEF StoreShape, SummaryFields
      <4> QED BY <3>3, <4>1 DEF Guides
    <3> QED BY <3>2, <3>3
  <2>6. Guided' => Guided
    BY <2>4, <2>5 DEF Guided, Guides
  <2> QED BY <2>1, <2>2, <2>6 DEF LockOpen
<1> QED BY <1>1, <1>2, <1>3, <1>4, <1>5, <1>6, <1>7, <1>8, StepCases

-----------------------------------------------------------------------------
(***************************************************************************)
(* What an update was planned from still holds when it is written.         *)
(***************************************************************************)

\* The action property for one step.
LEMMA PlanStep ==
  ASSUME StoreShape, PlanInv, SummaryNext
  PROVE  GuidanceStep /\ AppendStep
<1>n. NoPlan.decision = "none"
  BY DEF NoPlan, Plan
<1>1. SUFFICES ASSUME plan # NoPlan, plan' # plan, turn'
               PROVE  /\ Guided => Active' = Active
                      /\ plan.decision = "accepted" /\ plan.operation = "append_distinct" =>
                           ~SaidAlready(plan.memory)
  BY <1>n DEF GuidanceStep, AppendStep, SaidAlready
<1>2. ~SaidAlready(plan.memory) \/ plan.decision # "accepted" \/ plan.operation # "append_distinct"
  BY DEF PlanInv
<1>3. ASSUME Guided PROVE Active' = Active
  <2>1. turn /\ LockOpen
    BY <1>1 DEF PlanInv
  <2>2. Propose
    <3>1. ~WorkerStep
      BY <1>1, WorkerFrame DEF toolVars
    <3>2. ~Accept /\ ~SupersedeOld /\ ~Consolidate
      BY <2>1 DEF Accept, SupersedeOld, LockOpen, Consolidate, LockFree
    <3>3. ~FinishTurn /\ ~Crash
      BY <1>1 DEF FinishTurn, Crash
    <3>4. ~StartTurn /\ ~Expire /\ ~Archive /\ ~Lapse
      BY <1>1 DEF StartTurn, Expire, Archive, Lapse
    <3> QED BY <3>1, <3>2, <3>3, <3>4, StepCases
  <2>3. plan.decision # "accepted"
    BY <1>3 DEF PlanInv
  <2>4. ApplyPending
    <3>1. ~PlanUpdate
      <4>1. PlanUpdate => plan = NoPlan
        BY DEF PlanUpdate
      <4> QED BY <1>1, <4>1
    <3>2. ~ApplyAppend /\ ~ApplySupersede /\ ~ApplyRetract
      BY <2>3 DEF ApplyAppend, ApplySupersede, ApplyRetract
    <3> QED BY <2>2, <3>1, <3>2 DEF Propose
  <2>5. plan.memory \in Absent /\ life' = [life EXCEPT ![plan.memory] = "inactive"]
    BY <2>4 DEF ApplyPending, PlanInv, Written
  <2> QED BY <2>5 DEF Active, Absent, StoreShape
<1> QED BY <1>2, <1>3

\* At the start nothing is planned.
LEMMA ShapeInit == SummaryInit => StoreShape /\ PlanInv
<1> SUFFICES ASSUME SummaryInit PROVE StoreShape /\ PlanInv
  OBVIOUS
<1>1. summaries = <<>> /\ IsSequence(summaries) /\ DOMAIN summaries = {}
  BY DEF SummaryInit, IsSequence
<1>2. life \in [Beliefs -> Lifecycles]
  BY DEF SummaryInit, Lifecycles
<1>3. StoreShape
  BY <1>1, <1>2, NoPlanShape DEF SummaryInit, StoreShape
<1>4. PlanInv
  BY NoPlanShape DEF SummaryInit, PlanInv
<1> QED BY <1>3, <1>4

\* Every step, stuttering included, keeps the shape and the plan.
LEMMA StorePlanStep ==
  ASSUME StoreShape, PlanInv, [SummaryNext]_summaryVars
  PROVE  StoreShape' /\ PlanInv'
<1>1. CASE SummaryNext
  BY <1>1, ShapeKept, PlanKept
<1>2. CASE UNCHANGED summaryVars
  <2>1. UNCHANGED <<life, turn, plan, at, summaries, expired>>
    BY <1>2 DEF summaryVars, toolVars
  <2>2. StoreShape'
    BY <2>1 DEF StoreShape
  <2>3. Guided' = Guided /\ SaidAlready(plan.memory)' = SaidAlready(plan.memory) /\ Absent' = Absent
    BY <2>1 DEF Guided, Guides, SaidAlready, Active, Absent, Comparable
  <2> QED BY <2>1, <2>2, <2>3 DEF PlanInv, LockOpen
<1> QED BY <1>1, <1>2

\* Both hold of every behaviour.
LEMMA StorePlanAlways == SummarySpec => [](StoreShape /\ PlanInv)
<1>1. SummaryInit => StoreShape /\ PlanInv
  BY ShapeInit
<1>2. (StoreShape /\ PlanInv) /\ [SummaryNext]_summaryVars => (StoreShape /\ PlanInv)'
  BY StorePlanStep
<1> QED BY <1>1, <1>2, PTL DEF SummarySpec

\* While a domain summary asks for confirmation no update of a turn changes what
\* is active, and append_distinct never says again what an active belief says: what
\* memory_propose planned from still holds in the transaction that writes it.
THEOREM PlanStillStandsHolds == SummarySpec => PlanStillStands
<1>1. (StoreShape /\ PlanInv) /\ [SummaryNext]_summaryVars => [GuidanceStep /\ AppendStep]_summaryVars
  BY PlanStep
<1> QED BY <1>1, StorePlanAlways, PTL DEF SummarySpec, PlanStillStands

-----------------------------------------------------------------------------
(***************************************************************************)
(* The job of the worker.                                                  *)
(***************************************************************************)

\* The job is about a target that all its sources are about, and replaces a
\* summary that is there.
JobInv ==
  at \in Working =>
    /\ job.sources # {}
    /\ \A b \in job.sources : b \in Beliefs /\ job.target \in TargetsOf(b)
    /\ job.old \in DOMAIN summaries \cup {0}
    /\ at = "superseding" => job.old # 0

Targets == UNION {TargetsOf(b) : b \in Beliefs}

\* What a belief's targets look like.
LEMMA TargetsShape ==
  ASSUME NEW b \in Beliefs, NEW t \in TargetsOf(b)
  PROVE  /\ t = [kind |-> t.kind, scope |-> t.scope, about |-> t.about, domain |-> t.domain]
         /\ t.scope = Traits[b].scope
         /\ t.about = Traits[b].about
         /\ t.scope = "project" => t.about # {}
         /\ t.kind = "domain_summary" => t.domain # "" /\ t.domain \in Traits[b].domains
         /\ t.kind # "domain_summary" => t.domain = ""
<1>1. /\ "" \notin Traits[b].domains
      /\ Traits[b].scope = "project" => Traits[b].about # {}
  BY SummaryAssumption DEF SummaryAssumption
<1> DEFINE Record(kind, domain) == [kind |-> kind, scope |-> Traits[b].scope,
                                    about |-> Traits[b].about, domain |-> domain]
<1>2. \/ t = Record("counterpart_profile", "")
      \/ t = Record("self_memory_summary", "")
      \/ \E d \in Traits[b].domains : t = Record("domain_summary", d)
  BY DEF TargetsOf
<1>3. ASSUME NEW kind \in {"counterpart_profile", "self_memory_summary"}, t = Record(kind, "")
      PROVE  /\ t = [kind |-> t.kind, scope |-> t.scope, about |-> t.about, domain |-> t.domain]
             /\ t.scope = Traits[b].scope /\ t.about = Traits[b].about
             /\ t.kind # "domain_summary" /\ t.domain = ""
  BY <1>1, <1>3
<1>4. ASSUME NEW d \in Traits[b].domains, t = Record("domain_summary", d)
      PROVE  /\ t = [kind |-> t.kind, scope |-> t.scope, about |-> t.about, domain |-> t.domain]
             /\ t.scope = Traits[b].scope /\ t.about = Traits[b].about
             /\ t.kind = "domain_summary" /\ t.domain = d /\ d # ""
  BY <1>1, <1>4
<1> QED BY <1>1, <1>2, <1>3, <1>4

\* A nonempty set of naturals has a least element: strict inclusion is well-founded
\* on the subsets of a finite set.
LEMMA LeastElement ==
  ASSUME NEW S, S \subseteq Nat, S # {}
  PROVE  \E x \in S : \A y \in S : x <= y
<1>1. PICK z \in S : TRUE
  OBVIOUS
<1> DEFINE Below == {0..n : n \in {m \in S : m <= z}}
           Smaller == StrictSubsetOrdering(0..z)
<1>2. Below \subseteq FiniteSubsetsOf(0..z)
  <2>1. ASSUME NEW n \in S, n <= z PROVE 0..n \in FiniteSubsetsOf(0..z)
    BY <2>1, FS_Interval DEF FiniteSubsetsOf
  <2> QED BY <2>1
<1>3. Below # {}
  OBVIOUS
<1>4. \E x \in Below : \A y \in Below : ~(<<y, x>> \in Smaller)
  <2>1. IsWellFoundedOn(Smaller, FiniteSubsetsOf(0..z))
    BY FS_StrictSubsetOrderingWellFounded
  <2> HIDE DEF Smaller, Below
  <2> QED BY <2>1, <1>2, <1>3, WFMin
<1>5. PICK n \in S : n <= z /\ \A y \in Below : ~(<<y, 0..n>> \in Smaller)
  BY <1>4
<1>6. ASSUME NEW m \in S, m < n PROVE FALSE
  <2>1. 0..m \in Below
    BY <1>6, <1>5
  <2>2. 0..m \subseteq 0..n /\ n \in 0..n /\ n \notin 0..m /\ 0..n \subseteq 0..z
    BY <1>6, <1>5
  <2>3. <<0..m, 0..n>> \in Smaller
    BY <2>2 DEF StrictSubsetOrdering
  <2> QED BY <2>1, <2>3, <1>5
<1> QED BY <1>5, <1>6

\* ... and one that is bounded has a greatest.
LEMMA GreatestElement ==
  ASSUME NEW n \in Nat, NEW S, S \subseteq 0..n, S # {}
  PROVE  \E x \in S : \A y \in S : y <= x
<1> DEFINE R == {n - y : y \in S}
<1>1. R \subseteq Nat /\ R # {}
  <2>1. \A y \in S : n - y \in Nat
    OBVIOUS
  <2> QED BY <2>1
<1>2. PICK r \in R : \A q \in R : r <= q
  <2> HIDE DEF R
  <2> QED BY <1>1, LeastElement
<1>3. PICK x \in S : r = n - x
  OBVIOUS
<1>4. \A y \in S : n - x <= n - y
  BY <1>2, <1>3
<1> QED BY <1>4

\* The latest fitting summary is one that is there.
LEMMA ActiveSummaryIn ==
  ASSUME NEW t, IsSequence(summaries)
  PROVE  /\ ActiveSummary(t) \in DOMAIN summaries \cup {0}
         /\ Fitting(t) # {} => ActiveSummary(t) \in Fitting(t)
<1>1. /\ Fitting(t) \subseteq DOMAIN summaries
      /\ DOMAIN summaries = 1..Len(summaries)
      /\ Len(summaries) \in Nat
  BY DEF Fitting, IsSequence
<1>2. CASE Fitting(t) = {}
  BY <1>2 DEF ActiveSummary
<1>3. CASE Fitting(t) # {}
  <2>1. \E i \in Fitting(t) : \A k \in Fitting(t) : k <= i
    <3>1. Fitting(t) \subseteq 0..Len(summaries)
      BY <1>1
    <3> QED BY <1>1, <1>3, <3>1, GreatestElement
  <2>2. ActiveSummary(t) \in Fitting(t)
    BY <1>3, <2>1 DEF ActiveSummary
  <2> QED BY <1>1, <2>2
<1> QED BY <1>2, <1>3

\* The next target is one that is due.
LEMMA NextTargetDue ==
  ASSUME Due # {}
  PROVE  \E i \in DOMAIN Units : NextTarget = JobOf(Units[i]) /\ Sources(Units[i]) # {}
<1>1. DOMAIN Units \subseteq Nat
  <2>1. PICK S : Units \in Seq(S)
    BY SummaryAssumption DEF SummaryAssumption
  <2>2. DOMAIN Units = 1..Len(Units) /\ Len(Units) \in Nat
    BY <2>1
  <2> QED BY <2>2
<1>2. Due \subseteq DOMAIN Units
  BY DEF Due
<1>3. PICK i \in Due : \A k \in Due : i <= k
  BY <1>1, <1>2, LeastElement
<1>4. (CHOOSE x \in Due : \A k \in Due : x <= k) \in Due
  BY <1>3
<1>5. \A x \in Due : x \in DOMAIN Units /\ Sources(Units[x]) # {}
  BY DEF Due
<1> QED BY <1>4, <1>5 DEF NextTarget

\* Every step keeps the job sound.
LEMMA JobKept ==
  ASSUME StoreShape, JobInv, SummaryNext
  PROVE  JobInv'
<1> USE DEF Working, Preparing
<1>1. CASE SelectTarget
  <2>1. PICK i \in DOMAIN Units : NextTarget = JobOf(Units[i]) /\ Sources(Units[i]) # {}
    BY <1>1, NextTargetDue DEF SelectTarget
  <2> DEFINE t == Units[i]
  <2>2. /\ job'.target = t /\ job'.sources = Sources(t) /\ job'.old = ActiveSummary(t)
        /\ at' = "selected" /\ summaries' = summaries
    BY <1>1, <2>1 DEF SelectTarget, JobOf, Job, toolVars
  <2>3. ActiveSummary(t) \in DOMAIN summaries \cup {0}
    BY ActiveSummaryIn DEF StoreShape
  <2>4. \A b \in Sources(t) : b \in Beliefs /\ t \in TargetsOf(b)
    BY DEF Sources, Eligible, Active
  <2> HIDE DEF t
  <2> QED BY <2>1, <2>2, <2>3, <2>4 DEF JobInv, t
<1>2. CASE Accept
  <2>1. CASE at' = "idle"
    BY <2>1 DEF JobInv
  <2>2. CASE at' # "idle"
    <3>1. job' = job /\ job.old # 0 /\ at = "calling"
      BY <1>2, <2>2 DEF Accept, AfterAccept
    <3>2. PICK e : summaries' = Append(summaries, e)
      BY <1>2 DEF Accept, Stored
    <3>3. DOMAIN summaries \subseteq DOMAIN summaries'
      <4>1. /\ DOMAIN summaries = 1..Len(summaries)
            /\ Len(summaries) \in Nat
            /\ DOMAIN Append(summaries, e) = 1..(Len(summaries) + 1)
        BY AppendShape DEF StoreShape
      <4> QED BY <3>2, <4>1
    <3> QED BY <3>1, <3>3 DEF JobInv
  <2> QED BY <2>1, <2>2
<1>3. CASE Lapse
  <2>1. DOMAIN summaries' = DOMAIN summaries
    BY <1>3 DEF Lapse
  <2> QED BY <1>3, <2>1 DEF Lapse, worker, JobInv
<1>4. CASE YieldEarly \/ YieldLate \/ CallFails \/ SupersedeFails \/ SupersedeOld \/ Crash
  <2>1. at' = "idle"
    BY <1>4 DEF YieldEarly, YieldLate, CallFails, SupersedeFails, SupersedeOld, Crash, Report
  <2> QED BY <2>1 DEF JobInv
<1>5. CASE OpenLock("selected", "pausing") \/ OpenLock("started", "pausing late")
  BY <1>5 DEF OpenLock, toolVars, JobInv
<1>6. CASE Resume("pausing", "ready") \/ Resume("pausing late", "calling")
  BY <1>6 DEF Resume, toolVars, JobInv
<1>7. CASE Claim
  <2>1. at' = "idle" \/ (at = "ready" /\ at' = "started" /\ job' = job /\ summaries' = summaries)
    BY <1>7 DEF Claim, Report, toolVars
  <2> QED BY <2>1 DEF JobInv
<1>8. CASE StartTurn \/ FinishTurn \/ Consolidate \/ Expire \/ Archive \/ (Propose /\ UNCHANGED worker)
  <2>1. UNCHANGED <<at, job, summaries>>
    BY <1>8, ToolShape DEF StartTurn, FinishTurn, Consolidate, Expire, Archive, worker
  <2> QED BY <2>1 DEF JobInv
<1> QED BY <1>1, <1>2, <1>3, <1>4, <1>5, <1>6, <1>7, <1>8, StepCases DEF WorkerStep

-----------------------------------------------------------------------------
(***************************************************************************)
(* What the worker writes.                                                 *)
(***************************************************************************)

\* An answer accepted for a job drafts a summary of the job's target.
LEMMA AcceptedOnTarget ==
  ASSUME NEW out, Accepted(out, Context)
  PROVE  /\ out.draft.kind = job.target.kind
         /\ out.draft.scope = job.target.scope
         /\ out.draft.about = job.target.about
         /\ job.target.domain # "" => out.draft.domain = job.target.domain
         /\ out.draft.scope = "project" => out.draft.about = {}
<1> DEFINE op == Canonical(out.operation)
<1>1. SummaryShape(op, out.keys)
  BY DEF Accepted, Context, StageShape
<1>2. op \in {"create_summary_belief", "profile_summary_candidate"}
  BY <1>1 DEF SummaryShape
<1>3. Payloads(op) \cap {SummaryDraft, ProfileDraft} # {}
  BY <1>2 DEF Payloads
<1> HIDE DEF op
<1>4. SummaryDraftValid(out.draft, Context)
  BY <1>3 DEF Accepted, op
<1>5. Context.required = {job.target}
  BY DEF Context
<1> QED BY <1>4, <1>5 DEF SummaryDraftValid, ScopeAbout

\* The summary that is written is of the target and drawn from the job's sources.
WrittenFor(e, target) ==
  /\ e.kind = target.kind
  /\ e.scope = target.scope
  /\ e.about = target.about
  /\ target.domain # "" => e.domain = target.domain
  /\ e.sources = job.sources

\* An accepted answer is written for the target, from the sources that were shown.
LEMMA AcceptWrites ==
  ASSUME StoreShape, JobInv, Accept
  PROVE  \E e : /\ summaries' = Append(summaries, e)
                /\ WrittenFor(e, job.target)
<1>1. PICK out \in Acceptable : summaries' = Append(summaries, SummaryFrom(out))
  BY DEF Accept, Stored
<1> DEFINE e == SummaryFrom(out)
<1>2. Accepted(out, Context)
  BY DEF Acceptable
<1>3. out.draft.scope # "project"
  <2>1. PICK b \in job.sources : b \in Beliefs /\ job.target \in TargetsOf(b)
    BY DEF JobInv, Accept, Working, Preparing
  <2>2. job.target.scope = "project" => job.target.about # {}
    BY <2>1, TargetsShape
  <2> QED BY <1>2, <2>2, AcceptedOnTarget
<1>4. /\ e.kind = out.draft.kind /\ e.scope = out.draft.scope /\ e.about = out.draft.about
      /\ e.domain = out.draft.domain /\ e.sources = job.sources
  BY <1>3 DEF SummaryFrom, MaterializedAbout
<1> HIDE DEF e
<1>5. WrittenFor(e, job.target)
  BY <1>2, <1>4, AcceptedOnTarget DEF WrittenFor
<1> QED BY <1>1, <1>5 DEF e

\* A summary that is superseded or lapses says what it said.
LEMMA MarkKeeps ==
  ASSUME StoreShape, SupersedeOld \/ Lapse
  PROVE  /\ DOMAIN summaries' = DOMAIN summaries
         /\ \A k \in DOMAIN summaries :
              /\ summaries'[k].sources = summaries[k].sources
              /\ summaries'[k].scope = summaries[k].scope
              /\ summaries'[k].about = summaries[k].about
              /\ summaries'[k].kind = summaries[k].kind
              /\ summaries'[k].domain = summaries[k].domain
              /\ summaries'[k].life = "active" => summaries[k].life = "active"
              /\ summaries'[k].until # "past" => summaries[k].until # "past"
<1>1. CASE SupersedeOld
  <2>1. summaries' = [summaries EXCEPT ![job.old] = [summaries[job.old] EXCEPT !.life = "superseded"]]
    BY <1>1 DEF SupersedeOld
  <2> QED BY <2>1 DEF StoreShape, SummaryFields
<1>2. CASE Lapse
  <2>1. PICK i \in DOMAIN summaries :
          summaries' = [summaries EXCEPT ![i] = [summaries[i] EXCEPT !.until = "past"]]
    BY <1>2 DEF Lapse
  <2> QED BY <2>1 DEF StoreShape, SummaryFields
<1> QED BY <1>1, <1>2

\* Every step keeps the summaries on target.
LEMMA OnTargetKept ==
  ASSUME StoreShape, JobInv, SummaryOnTarget, SummaryNext
  PROVE  SummaryOnTarget'
<1>1. CASE Accept
  <2>1. PICK e : summaries' = Append(summaries, e) /\ WrittenFor(e, job.target)
    BY <1>1, AcceptWrites
  <2>2. /\ DOMAIN summaries = 1..Len(summaries)
        /\ Len(summaries) \in Nat
        /\ DOMAIN summaries' = 1..(Len(summaries) + 1)
        /\ \A i \in DOMAIN summaries : summaries'[i] = summaries[i]
        /\ summaries'[Len(summaries) + 1] = e
    BY <2>1, AppendShape DEF StoreShape
  <2>3. ASSUME NEW b \in e.sources
        PROVE  /\ e.scope = Traits[b].scope
               /\ e.about = Traits[b].about
               /\ e.kind = "domain_summary" => e.domain \in Traits[b].domains
    <3>1. b \in Beliefs /\ job.target \in TargetsOf(b)
      BY <1>1, <2>1, <2>3 DEF JobInv, Accept, Working, Preparing, WrittenFor
    <3> QED BY <2>1, <3>1, TargetsShape DEF WrittenFor
  <2> QED BY <2>2, <2>3 DEF SummaryOnTarget
<1>2. CASE SupersedeOld \/ Lapse
  BY <1>2, MarkKeeps DEF SummaryOnTarget
<1>3. CASE ~(Accept \/ SupersedeOld \/ Lapse)
  <2>1. summaries' = summaries
    BY <1>3, StepCases, WorkerFrame, ToolShape
       DEF StartTurn, FinishTurn, Consolidate, Expire, Archive, Crash, toolVars
  <2> QED BY <2>1 DEF SummaryOnTarget
<1> QED BY <1>1, <1>2, <1>3

\* At most one summary of a target is active, unless the second transaction of the
\* replacement is still to come or never came.
AtMostOne(target) == \A x, y \in Fitting(target) : x = y

OneInv ==
  /\ \A t \in Targets :
       \/ AtMostOne(t)
       \/ t \in torn
       \/ at = "superseding" /\ job.target = t /\ Fitting(t) \subseteq {job.old, Len(summaries)}
  /\ at \in Preparing => Fitting(job.target) \subseteq {job.old} \/ job.target \in torn

Fits(s, target) ==
  /\ s.life = "active"
  /\ s.until # "past"
  /\ s.kind = target.kind /\ s.scope = target.scope /\ s.about = target.about /\ s.domain = target.domain

\* The summaries that fit a target, field by field.
LEMMA FittingFits ==
  ASSUME NEW t
  PROVE  Fitting(t) = {i \in DOMAIN summaries : Fits(summaries[i], t)}
BY DEF Fitting, Fits

\* What is written for a target is of no other.
LEMMA FitsOwnTarget ==
  ASSUME NEW e, NEW t \in Targets, NEW u \in Targets, WrittenFor(e, t), Fits(e, u)
  PROVE  u = t
<1>1. PICK b \in Beliefs : t \in TargetsOf(b)
  BY DEF Targets
<1>2. PICK c \in Beliefs : u \in TargetsOf(c)
  BY DEF Targets
<1>3. u.kind = t.kind /\ u.scope = t.scope /\ u.about = t.about
  BY DEF WrittenFor, Fits
<1>4. u.domain = t.domain
  BY <1>1, <1>2, <1>3, TargetsShape DEF WrittenFor, Fits
<1>5. /\ t = [kind |-> t.kind, scope |-> t.scope, about |-> t.about, domain |-> t.domain]
      /\ u = [kind |-> u.kind, scope |-> u.scope, about |-> u.about, domain |-> u.domain]
  BY <1>1, <1>2, TargetsShape
<1> QED BY <1>3, <1>4, <1>5

\* What happens to the fitting summaries when one more is written.
LEMMA FittingAfterAccept ==
  ASSUME StoreShape, JobInv, Accept, NEW t \in Targets
  PROVE  /\ t # job.target => Fitting(t)' = Fitting(t)
         /\ Fitting(t)' \subseteq Fitting(t) \cup {Len(summaries')}
<1>1. PICK e : summaries' = Append(summaries, e) /\ WrittenFor(e, job.target)
  BY AcceptWrites
<1>2. /\ DOMAIN summaries = 1..Len(summaries)
      /\ Len(summaries) \in Nat
      /\ Len(summaries') = Len(summaries) + 1
      /\ DOMAIN summaries' = 1..(Len(summaries) + 1)
      /\ \A i \in DOMAIN summaries : summaries'[i] = summaries[i]
      /\ summaries'[Len(summaries) + 1] = e
  BY <1>1, AppendShape DEF StoreShape
<1>3. /\ Fitting(t) = {i \in DOMAIN summaries : Fits(summaries[i], t)}
      /\ Fitting(t)' = {i \in DOMAIN summaries' : Fits(summaries'[i], t)}
  BY FittingFits DEF Fitting, Fits
<1>4. job.target \in Targets
  BY DEF JobInv, Accept, Working, Preparing, Targets
<1>5. Fitting(t)' \subseteq Fitting(t) \cup {Len(summaries')}
  BY <1>2, <1>3
<1>6. ASSUME t # job.target PROVE Fitting(t)' = Fitting(t)
  <2>1. ~Fits(e, t)
    BY <1>1, <1>4, <1>6, FitsOwnTarget
  <2> QED BY <1>2, <1>3, <2>1
<1> QED BY <1>5, <1>6

\* ... and when none is.
LEMMA FittingElse ==
  ASSUME StoreShape, SummaryNext, ~Accept, NEW t
  PROVE  /\ Fitting(t)' \subseteq Fitting(t)
         /\ Len(summaries') = Len(summaries)
<1>1. CASE SupersedeOld \/ Lapse
  <2>1. Fitting(t)' \subseteq Fitting(t)
    BY <1>1, MarkKeeps DEF Fitting
  <2>2. Len(summaries') = Len(summaries)
    <3>1. PICK i, e : summaries' = [summaries EXCEPT ![i] = e]
      <4>1. CASE SupersedeOld
        BY <4>1 DEF SupersedeOld
      <4>2. CASE Lapse
        BY <4>2 DEF Lapse
      <4> QED BY <1>1, <4>1, <4>2
    <3> QED BY <3>1, ExceptShape DEF StoreShape
  <2> QED BY <2>1, <2>2
<1>2. CASE ~(SupersedeOld \/ Lapse)
  <2>1. summaries' = summaries
    BY <1>2, StepCases, WorkerFrame, ToolShape
       DEF StartTurn, FinishTurn, Consolidate, Expire, Archive, Crash, toolVars
  <2> QED BY <2>1 DEF Fitting
<1> QED BY <1>1, <1>2

\* The worker's steps and where they leave it.
LEMMA AtSteps ==
  ASSUME StoreShape, SummaryNext, ~Accept, ~SelectTarget
  PROVE  \/ at' = "idle" /\ at # "superseding" /\ torn' = torn
         \/ at' = "idle" /\ SupersedeOld
         \/ at' = "idle" /\ at = "superseding" /\ torn' = torn \cup {job.target}
         \/ at' \in Preparing /\ at \in Preparing /\ job' = job /\ torn' = torn
         \/ at' = at /\ job' = job /\ torn' = torn
<1> USE DEF Preparing, Working, StoreShape
<1>1. CASE YieldEarly \/ YieldLate \/ CallFails
  BY <1>1 DEF YieldEarly, YieldLate, CallFails, Report, history
<1>2. CASE SupersedeOld
  BY <1>2 DEF SupersedeOld, Report
<1>3. CASE SupersedeFails
  BY <1>3 DEF SupersedeFails, Report
<1>4. CASE Crash
  BY <1>4 DEF Crash, Report
<1>5. CASE OpenLock("selected", "pausing") \/ OpenLock("started", "pausing late")
  BY <1>5 DEF OpenLock, history
<1>6. CASE Resume("pausing", "ready") \/ Resume("pausing late", "calling")
  BY <1>6 DEF Resume, history
<1>7. CASE Claim
  BY <1>7 DEF Claim, Report, history
<1>8. CASE StartTurn \/ FinishTurn \/ Consolidate \/ Expire \/ Archive \/ Lapse \/ (Propose /\ UNCHANGED worker)
  BY <1>8 DEF StartTurn, FinishTurn, Consolidate, Expire, Archive, Lapse, worker, history
<1> QED BY <1>1, <1>2, <1>3, <1>4, <1>5, <1>6, <1>7, <1>8, StepCases DEF WorkerStep

\* Every step keeps the count of active summaries.
LEMMA OneKept ==
  ASSUME StoreShape, JobInv, OneInv, SummaryNext
  PROVE  OneInv'
<1>1. CASE Accept
  <2>1. /\ at = "calling" /\ torn' = torn
        /\ \/ at' = "idle" /\ job.old = 0
           \/ at' = "superseding" /\ job' = job
    BY <1>1 DEF Accept, AfterAccept, history
  <2>2. Fitting(job.target) \subseteq {job.old} \/ job.target \in torn
    BY <2>1 DEF OneInv, Preparing
  <2>3. ASSUME NEW t \in Targets
        PROVE  \/ AtMostOne(t)'
               \/ t \in torn'
               \/ at' = "superseding" /\ job'.target = t /\ Fitting(t)' \subseteq {job'.old, Len(summaries')}
    <3>1. CASE t # job.target
      <4>1. Fitting(t)' = Fitting(t)
        BY <1>1, <3>1, FittingAfterAccept
      <4> QED BY <2>1, <3>1, <4>1 DEF OneInv, AtMostOne
    <3>2. CASE t = job.target
      <4>1. Fitting(t)' \subseteq Fitting(t) \cup {Len(summaries')}
        BY <1>1, FittingAfterAccept
      <4>2. CASE t \in torn
        BY <2>1, <4>2
      <4>3. CASE Fitting(t) \subseteq {job.old} /\ job.old # 0
        BY <2>1, <3>2, <4>1, <4>3
      <4>4. CASE Fitting(t) \subseteq {job.old} /\ job.old = 0
        <5>1. 0 \notin Fitting(t)
          BY AppendShape DEF Fitting, StoreShape
        <5>2. Fitting(t)' \subseteq {Len(summaries')}
          BY <4>1, <4>4, <5>1
        <5> QED BY <5>2 DEF AtMostOne
      <4> QED BY <2>2, <3>2, <4>2, <4>3, <4>4
    <3> QED BY <3>1, <3>2
  <2>4. at' \notin Preparing
    BY <2>1 DEF Preparing
  <2> QED BY <2>3, <2>4 DEF OneInv
<1>2. CASE SelectTarget
  <2>1. at = "idle" /\ at' = "selected" /\ torn' = torn /\ summaries' = summaries /\ job' = NextTarget
    BY <1>2 DEF SelectTarget, history, toolVars
  <2>2. PICK i \in DOMAIN Units : NextTarget = JobOf(Units[i]) /\ Sources(Units[i]) # {}
    BY <1>2, NextTargetDue DEF SelectTarget
  <2> DEFINE u == Units[i]
  <2>3. job'.target = u /\ job'.old = ActiveSummary(u)
    BY <2>1, <2>2 DEF JobOf, Job
  <2>4. u \in Targets
    <3>1. PICK b \in Sources(u) : TRUE
      BY <2>2
    <3> QED BY <3>1 DEF Sources, Eligible, Active, Targets
  <2> HIDE DEF u
  <2>5. \A t : Fitting(t)' = Fitting(t)
    BY <2>1 DEF Fitting
  <2>6. AtMostOne(u) \/ u \in torn
    BY <2>1, <2>4 DEF OneInv
  <2>7. Fitting(u) \subseteq {ActiveSummary(u)} \/ u \in torn
    BY <2>6, ActiveSummaryIn DEF AtMostOne, StoreShape
  <2>8. Fitting(job.target)' = Fitting(u)
    BY <2>1, <2>3 DEF Fitting
  <2>9. \A t \in Targets : AtMostOne(t)' \/ t \in torn'
    BY <2>1, <2>5 DEF OneInv, AtMostOne
  <2> QED BY <2>1, <2>3, <2>7, <2>8, <2>9 DEF OneInv
<1>3. CASE ~Accept /\ ~SelectTarget
  <2>1. ASSUME NEW t \in Targets
        PROVE  \/ AtMostOne(t)'
               \/ t \in torn'
               \/ at' = "superseding" /\ job'.target = t /\ Fitting(t)' \subseteq {job'.old, Len(summaries')}
    <3>1. Fitting(t)' \subseteq Fitting(t) /\ Len(summaries') = Len(summaries)
      BY <1>3, FittingElse
    <3>2. CASE AtMostOne(t)
      BY <3>1, <3>2 DEF AtMostOne
    <3>3. CASE t \in torn
      BY <1>3, <3>3, AtSteps DEF SupersedeOld, history
    <3>4. CASE at = "superseding" /\ job.target = t /\ Fitting(t) \subseteq {job.old, Len(summaries)}
      <4>1. CASE SupersedeOld
        <5>1. summaries' = [summaries EXCEPT ![job.old] = [summaries[job.old] EXCEPT !.life = "superseded"]]
          BY <4>1 DEF SupersedeOld
        <5>2. job.old \in DOMAIN summaries
          BY <3>4 DEF JobInv, Working
        <5>3. summaries'[job.old].life = "superseded"
          BY <5>1, <5>2 DEF StoreShape, SummaryFields
        <5>4. job.old \notin Fitting(t)'
          BY <5>3 DEF Fitting
        <5>5. Fitting(t)' \subseteq {Len(summaries)}
          BY <3>1, <3>4, <5>4
        <5> QED BY <5>5 DEF AtMostOne
      <4>2. CASE ~SupersedeOld
        <5>1. at \notin Preparing
          BY <3>4 DEF Preparing
        <5> QED BY <1>3, <3>1, <3>4, <4>2, <5>1, AtSteps
      <4> QED BY <4>1, <4>2
    <3> QED BY <3>2, <3>3, <3>4 DEF OneInv
  <2>2. ASSUME at' \in Preparing
        PROVE  (Fitting(job.target) \subseteq {job.old} \/ job.target \in torn)'
    <3>1. at \in Preparing /\ job' = job /\ torn' = torn
      BY <1>3, <2>2, AtSteps DEF Preparing
    <3>2. PICK t : t = job.target
      OBVIOUS
    <3>3. Fitting(t)' \subseteq Fitting(t)
      BY <1>3, FittingElse
    <3>4. Fitting(job.target)' = Fitting(t)'
      BY <3>1, <3>2 DEF Fitting
    <3> QED BY <3>1, <3>2, <3>3, <3>4 DEF OneInv
  <2> QED BY <2>1, <2>2 DEF OneInv
<1> QED BY <1>1, <1>2, <1>3

\* What the worker's summaries rest on.
SummaryInv == StoreShape /\ JobInv /\ OneInv /\ SummaryOnTarget

\* At the start there is no summary.
LEMMA SummaryInvInit == SummaryInit => SummaryInv
<1> SUFFICES ASSUME SummaryInit PROVE SummaryInv
  OBVIOUS
<1>1. DOMAIN summaries = {} /\ at = "idle"
  BY DEF SummaryInit
<1>2. JobInv /\ SummaryOnTarget
  BY <1>1 DEF JobInv, SummaryOnTarget, Working, Preparing
<1>3. \A t : Fitting(t) = {}
  BY <1>1 DEF Fitting
<1>4. OneInv
  BY <1>1, <1>3 DEF OneInv, AtMostOne, Preparing
<1> QED BY <1>2, <1>4, ShapeInit DEF SummaryInv

\* Every step keeps all of it.
LEMMA SummaryInvStep == SummaryInv /\ [SummaryNext]_summaryVars => SummaryInv'
<1> SUFFICES ASSUME SummaryInv, [SummaryNext]_summaryVars PROVE SummaryInv'
  OBVIOUS
<1>1. CASE SummaryNext
  BY <1>1, ShapeKept, JobKept, OneKept, OnTargetKept DEF SummaryInv
<1>2. CASE UNCHANGED summaryVars
  <2>1. UNCHANGED <<life, turn, plan, at, summaries, job, torn>>
    BY <1>2 DEF summaryVars, toolVars, history
  <2>2. StoreShape' /\ JobInv' /\ SummaryOnTarget'
    BY <2>1 DEF SummaryInv, StoreShape, JobInv, SummaryOnTarget
  <2>3. \A t : Fitting(t)' = Fitting(t)
    BY <2>1 DEF Fitting
  <2>4. Fitting(job.target)' = Fitting(job.target)
    BY <2>1 DEF Fitting
  <2>5. OneInv'
    BY <2>1, <2>3, <2>4 DEF SummaryInv, OneInv, AtMostOne
  <2> QED BY <2>2, <2>5 DEF SummaryInv
<1> QED BY <1>1, <1>2

\* It holds of every behaviour.
LEMMA SummaryInvAlways == SummarySpec => []SummaryInv
BY SummaryInvInit, SummaryInvStep, PTL DEF SummarySpec

\* What a summary says of a counterpart, a project or a domain is drawn from beliefs
\* about just that, whatever an LLM answered: the worker's target, its sources and
\* the contract that accepts the answer agree.
THEOREM SummaryOnTargetHolds == SummarySpec => []SummaryOnTarget
BY SummaryInvAlways, PTL DEF SummaryInv

\* A target has one active summary, except between the transaction that writes the
\* new one and the one that supersedes the old one, or when the second never came.
THEOREM OneActiveSummaryHolds == SummarySpec => []OneActiveSummary
<1>1. ASSUME SummaryInv PROVE OneActiveSummary
  <2> SUFFICES ASSUME NEW i \in DOMAIN Units
               PROVE  \/ Cardinality(Fitting(Units[i])) <= 1
                      \/ Units[i] \in torn
                      \/ at = "superseding" /\ job.target = Units[i]
    BY DEF OneActiveSummary
  <2>1. Units[i] \in Targets
    <3>1. Units \in Seq(Targets)
      BY SummaryAssumption DEF SummaryAssumption, Targets
    <3> QED BY <3>1
  <2>2. CASE AtMostOne(Units[i])
    <3>1. CASE Fitting(Units[i]) = {}
      BY <3>1, FS_EmptySet
    <3>2. CASE Fitting(Units[i]) # {}
      <4>1. PICK x \in Fitting(Units[i]) : TRUE
        BY <3>2
      <4>2. Fitting(Units[i]) = {x}
        BY <2>2, <4>1 DEF AtMostOne
      <4>3. Cardinality(Fitting(Units[i])) = Cardinality({x})
        BY <4>2, Zenon
      <4>4. Cardinality({x}) = 1
        BY FS_Singleton
      <4> QED BY <4>3, <4>4
    <3> QED BY <3>1, <3>2
  <2> QED BY <1>1, <2>1, <2>2 DEF SummaryInv, OneInv
<1> QED BY <1>1, SummaryInvAlways, PTL

-----------------------------------------------------------------------------
(***************************************************************************)
(* What the contract accepts.                                              *)
(***************************************************************************)

\* Whatever an LLM answers at whatever stage: what the contract accepts the store
\* can persist, and only a stage that was shown beliefs updates one, one of those.
LEMMA AcceptedIsKept ==
  ASSUME NEW ctx, NEW out, Accepted(out, ctx),
         ctx.stage \in {"extraction", "consolidation", "conflict_review", "summary"}
  PROVE  /\ Persistable(out, ctx)
         /\ Update \in out.keys => out.update.target \in ctx.updatable
         /\ ctx.stage = "summary" => AtomicDraft \notin out.keys
<1> DEFINE op == Canonical(out.operation)
<1>1. StageShape(op, out.keys, ctx.stage) /\ (Update \in Payloads(op) => UpdateValid(out.update, op, ctx))
  BY DEF Accepted
<1> HIDE DEF op
<1> USE DEF AtomicDraft, SummaryDraft, ProfileDraft, Update
<1>2. CASE ctx.stage \in {"consolidation", "conflict_review"}
  <2>1. ConsolidationShape(op, out.keys)
    BY <1>1, <1>2 DEF StageShape
  <2>2. op \in Semantic
    BY <2>1 DEF ConsolidationShape
  <2>3. Update \in out.keys => Update \in Payloads(op)
    BY <2>1, <2>2 DEF ConsolidationShape, Semantic, Payloads
  <2>4. Update \in out.keys => out.update.target \in ctx.updatable
    BY <1>1, <2>3 DEF UpdateValid
  <2> QED BY <1>2, <2>2, <2>4 DEF Persistable, op
<1>3. CASE ctx.stage = "summary"
  <2>1. SummaryShape(op, out.keys)
    BY <1>1, <1>3 DEF StageShape
  <2>2. Update \notin Payloads(op)
    BY <2>1 DEF SummaryShape, Payloads
  <2>3. Update \notin out.keys /\ AtomicDraft \notin out.keys
    BY <2>1 DEF SummaryShape
  <2> QED BY <1>3, <2>2, <2>3 DEF Persistable, op
<1>4. CASE ctx.stage = "extraction"
  <2>1. op = "create_atomic_belief" /\ out.keys \subseteq {AtomicDraft}
    BY <1>1, <1>4 DEF StageShape
  <2>2. Update \notin Payloads(op)
    BY <2>1 DEF Payloads
  <2> QED BY <1>4, <2>1, <2>2 DEF Persistable, op
<1> QED BY <1>2, <1>3, <1>4

\* Whenever an answer is judged, an accepted one is one that can be persisted: no
\* accepted answer makes the transaction that stores it fail.
THEOREM AcceptedIsPersistableHolds == SummarySpec => []AcceptedIsPersistable
<1>1. ContractKept
  BY AcceptedIsKept, ContextAssumption DEF ContextAssumption, ContractKept
<1>2. AcceptedIsPersistable
  BY <1>1 DEF AcceptedIsPersistable
<1> QED BY <1>2, PTL

-----------------------------------------------------------------------------
(***************************************************************************)
(* MemorySummary: what a recall answers.                                   *)
(***************************************************************************)

-----------------------------------------------------------------------------
(***************************************************************************)
(* Sorting by keys: the first elements of a set.                           *)
(***************************************************************************)

\* A key that orders S: tuples of n numbers, no two of them the same.
Keys(S, n, key) ==
  /\ n \in Nat
  /\ \A b \in S : key[b] \in [1..n -> Int]
  /\ \A b, c \in S : key[b] = key[c] => b = c

Ahead(S, key, b) == {c \in S : Before(key[c], key[b])}
Place(S, key, b) == Cardinality(Ahead(S, key, b))
FirstBy(S, limit, key) == {b \in S : Place(S, key, b) < limit}

\* Keys of numbers are totally ordered.
LEMMA BeforeOrder ==
  ASSUME NEW n \in Nat, NEW k \in [1..n -> Int], NEW l \in [1..n -> Int]
  PROVE  /\ ~Before(k, k)
         /\ \A m \in [1..n -> Int] : Before(k, l) /\ Before(l, m) => Before(k, m)
         /\ Before(k, l) => ~Before(l, k)
         /\ k # l => Before(k, l) \/ Before(l, k)
<1>1. ~Before(k, k)
  BY DEF Before
<1>2. ASSUME NEW m \in [1..n -> Int], Before(k, l), Before(l, m) PROVE Before(k, m)
  <2>1. PICK i \in 1..n : k[i] < l[i] /\ \A j \in 1..(i - 1) : k[j] = l[j]
    BY <1>2 DEF Before
  <2>2. PICK h \in 1..n : l[h] < m[h] /\ \A j \in 1..(h - 1) : l[j] = m[j]
    BY <1>2 DEF Before
  <2> DEFINE g == IF i <= h THEN i ELSE h
  <2>3. g \in 1..n /\ k[g] < m[g]
    <3>1. CASE i < h  BY <2>1, <2>2, <3>1
    <3>2. CASE i = h  BY <2>1, <2>2, <3>2
    <3>3. CASE h < i  BY <2>1, <2>2, <3>3
    <3> QED BY <3>1, <3>2, <3>3
  <2>4. \A j \in 1..(g - 1) : k[j] = m[j]
    BY <2>1, <2>2
  <2> QED BY <2>3, <2>4 DEF Before
<1>3. ASSUME k # l PROVE Before(k, l) \/ Before(l, k)
  <2> DEFINE D == {i \in 1..n : k[i] # l[i]}
  <2>1. D # {} /\ D \subseteq Nat
    BY <1>3
  <2>2. PICK i \in D : \A j \in D : i <= j
    <3> HIDE DEF D
    <3> QED BY <2>1, LeastElement
  <2>3. \A j \in 1..(i - 1) : k[j] = l[j]
    BY <2>2
  <2> QED BY <2>2, <2>3 DEF Before
<1> QED BY <1>1, <1>2, <1>3

\* Who has a smaller key has fewer before it.
LEMMA PlaceGrows ==
  ASSUME NEW S, IsFiniteSet(S), NEW n, NEW key, Keys(S, n, key)
  PROVE  /\ \A b \in S : /\ IsFiniteSet(Ahead(S, key, b))
                         /\ Place(S, key, b) \in Nat
                         /\ Place(S, key, b) < Cardinality(S)
         /\ \A b, c \in S : Before(key[c], key[b]) => Place(S, key, c) < Place(S, key, b)
<1>1. ASSUME NEW b \in S
      PROVE  /\ IsFiniteSet(Ahead(S, key, b))
             /\ Place(S, key, b) \in Nat
             /\ Place(S, key, b) < Cardinality(S)
  <2>1. Ahead(S, key, b) \subseteq S /\ b \notin Ahead(S, key, b)
    BY BeforeOrder DEF Ahead, Keys
  <2> QED BY <2>1, FS_Subset, FS_CardinalityType DEF Place
<1>2. ASSUME NEW b \in S, NEW c \in S, Before(key[c], key[b])
      PROVE  Place(S, key, c) < Place(S, key, b)
  <2>1. /\ Ahead(S, key, c) \subseteq Ahead(S, key, b)
        /\ c \in Ahead(S, key, b) /\ c \notin Ahead(S, key, c)
    BY <1>2, BeforeOrder DEF Ahead, Keys
  <2>2. /\ IsFiniteSet(Ahead(S, key, b)) /\ IsFiniteSet(Ahead(S, key, c))
        /\ Place(S, key, b) \in Nat /\ Place(S, key, c) \in Nat
    BY <1>1
  <2> QED BY <2>1, <2>2, FS_Subset DEF Place
<1> QED BY <1>1, <1>2

\* Of the first elements of S there are as many as may be, and who comes before one
\* of them is one of them.
LEMMA FirstFacts ==
  ASSUME NEW S, IsFiniteSet(S), NEW n, NEW key, Keys(S, n, key), NEW limit \in Nat
  PROVE  LET F == FirstBy(S, limit, key) IN
         /\ F \subseteq S
         /\ IsFiniteSet(F)
         /\ \A b \in F, c \in S : Before(key[c], key[b]) => c \in F
         /\ Cardinality(S) <= limit => F = S
         /\ F = S \/ Cardinality(F) = limit
         /\ Cardinality(F) <= limit
<1> DEFINE F == FirstBy(S, limit, key)
<1>1. F \subseteq S /\ IsFiniteSet(F) /\ Cardinality(F) \in Nat /\ Cardinality(S) \in Nat
  <2>1. F \subseteq S
    BY DEF FirstBy
  <2> QED BY <2>1, FS_Subset, FS_CardinalityType
<1>2. ASSUME NEW b \in F, NEW c \in S, Before(key[c], key[b]) PROVE c \in F
  BY <1>2, PlaceGrows DEF FirstBy
<1>3. Cardinality(S) <= limit => F = S
  BY <1>1, PlaceGrows DEF FirstBy
<1>4. Cardinality(F) <= limit
  <2>1. CASE F = {}
    BY <2>1, FS_EmptySet
  <2>2. CASE F # {}
    <3> DEFINE P == {limit - Place(S, key, b) : b \in F}
    <3>1. P \subseteq Nat /\ P # {}
      <4>1. \A b \in F : limit - Place(S, key, b) \in Nat
        BY PlaceGrows DEF FirstBy
      <4> QED BY <2>2, <4>1
    <3>2. PICK r \in P : \A s \in P : r <= s
      <4> HIDE DEF P
      <4> QED BY <3>1, LeastElement
    <3>3. PICK a \in F : r = limit - Place(S, key, a)
      OBVIOUS
    <3>4. \A b \in F : Place(S, key, b) <= Place(S, key, a)
      <4>1. ASSUME NEW b \in F PROVE Place(S, key, b) <= Place(S, key, a)
        <5>1. limit - Place(S, key, a) <= limit - Place(S, key, b)
          BY <3>2, <3>3
        <5>2. Place(S, key, a) \in Nat /\ Place(S, key, b) \in Nat
          BY <1>1, PlaceGrows
        <5> QED BY <5>1, <5>2
      <4> QED BY <4>1
    <3>5. F \subseteq Ahead(S, key, a) \cup {a}
      <4>1. ASSUME NEW b \in F, b # a PROVE Before(key[b], key[a])
        <5>1. ~Before(key[a], key[b])
          BY <1>1, <3>4, <4>1, PlaceGrows
        <5> QED BY <1>1, <4>1, <5>1, BeforeOrder DEF Keys
      <4> QED BY <1>1, <4>1 DEF Ahead
    <3>6. IsFiniteSet(Ahead(S, key, a)) /\ Place(S, key, a) \in Nat /\ Place(S, key, a) < limit
      BY <1>1, PlaceGrows DEF FirstBy
    <3>7. /\ IsFiniteSet(Ahead(S, key, a) \cup {a})
          /\ Cardinality(Ahead(S, key, a) \cup {a}) <= Place(S, key, a) + 1
          /\ Cardinality(Ahead(S, key, a) \cup {a}) \in Nat
      <4> DEFINE A == Ahead(S, key, a)
      <4>1. IsFiniteSet(A) /\ Cardinality(A) = Place(S, key, a)
        BY <3>6 DEF Place
      <4> HIDE DEF A
      <4>2. /\ IsFiniteSet(A \cup {a})
            /\ Cardinality(A \cup {a}) = IF a \in A THEN Cardinality(A) ELSE Cardinality(A) + 1
        BY <4>1, FS_AddElement
      <4>3. Cardinality(A \cup {a}) \in Nat
        BY <4>2, FS_CardinalityType
      <4> QED BY <3>6, <4>1, <4>2, <4>3 DEF A
    <3>8. Cardinality(F) <= Cardinality(Ahead(S, key, a) \cup {a})
      <4> HIDE DEF F
      <4> QED BY <3>5, <3>7, FS_Subset
    <3> HIDE DEF F
    <3> QED BY <1>1, <3>6, <3>7, <3>8
  <2> QED BY <2>1, <2>2
<1>5. ASSUME F # S PROVE Cardinality(F) = limit
  <2> DEFINE P == {Place(S, key, b) : b \in S \ F}
  <2>1. P \subseteq Nat /\ P # {}
    BY <1>1, <1>5, PlaceGrows
  <2>2. PICK r \in P : \A s \in P : r <= s
    <3> HIDE DEF P
    <3> QED BY <2>1, LeastElement
  <2>3. PICK a \in S \ F : r = Place(S, key, a)
    OBVIOUS
  <2>4. \A b \in S \ F : ~Before(key[b], key[a])
    <3>1. ASSUME NEW b \in S \ F, Before(key[b], key[a]) PROVE FALSE
      <4>1. Place(S, key, a) <= Place(S, key, b)
        BY <2>2, <2>3
      <4>2. Place(S, key, b) < Place(S, key, a) /\ Place(S, key, a) \in Nat /\ Place(S, key, b) \in Nat
        BY <3>1, PlaceGrows
      <4> QED BY <4>1, <4>2
    <3> QED BY <3>1
  <2>5. \A b \in F : Before(key[b], key[a])
    BY <1>1, <1>2, BeforeOrder DEF Keys
  <2>6. F = Ahead(S, key, a)
    <3> HIDE DEF F
    <3> QED BY <1>1, <2>4, <2>5 DEF Ahead
  <2>7. Place(S, key, a) >= limit /\ Place(S, key, a) \in Nat
    BY PlaceGrows DEF FirstBy
  <2>8. Cardinality(F) = Place(S, key, a)
    <3> HIDE DEF F
    <3> QED BY <2>6 DEF Place
  <2> HIDE DEF F
  <2> QED BY <1>1, <1>4, <2>7, <2>8
<1> HIDE DEF F
<1>6. /\ F \subseteq S
      /\ IsFiniteSet(F)
      /\ \A b \in F, c \in S : Before(key[c], key[b]) => c \in F
      /\ Cardinality(S) <= limit => F = S
      /\ F = S \/ Cardinality(F) = limit
      /\ Cardinality(F) <= limit
  BY <1>1, <1>2, <1>3, <1>4, <1>5
<1> QED BY <1>6 DEF F

\* Tuples of numbers are keys.
LEMMA PairKey == \A a, b \in Int : <<a, b>> \in [1..2 -> Int]
OBVIOUS

\* ... of three and of five.
LEMMA TripleKey == \A a, b, c \in Int : <<a, b, c>> \in [1..3 -> Int]
OBVIOUS

LEMMA FiveKey == \A a, b, c, d, e \in Int : <<a, b, c, d, e>> \in [1..5 -> Int]
OBVIOUS

-----------------------------------------------------------------------------
(***************************************************************************)
(* The rows of the single searches.                                        *)
(***************************************************************************)

SignalSet == {"entity_exact", "object_exact", "object_partial", "term_fts", "trigram_fts", "substring"}
ExactSignals == {"entity_exact", "object_exact"}
Indexes == {"term_fts", "trigram_fts"}
MatchOf(q, S, s) == {b \in S : s \in q.reasons[b]}

\* What a query is made of.
LEMMA QueryFacts ==
  ASSUME NEW q \in Queries
  PROVE  /\ \A b \in Beliefs : /\ q.reasons[b] \subseteq SignalSet
                               /\ q.held[b] \in Nat
                               /\ \A x \in Indexes : q.rank[x][b] \in Nat
         /\ q.max \in Nat /\ q.max <= ScanLimit
<1>1. q \in QueryType /\ q.max <= ScanLimit
  BY MemoryAssumption DEF MemoryAssumption
<1>2. {Signals[i] : i \in DOMAIN Signals} = SignalSet
  BY DEF Signals, SignalSet
<1>3. /\ q.reasons \in [Beliefs -> SUBSET SignalSet]
      /\ q.rank \in [Indexes -> [Beliefs -> Ranks]]
      /\ q.held \in [Beliefs -> Nat]
      /\ q.max \in Nat
  BY <1>1, <1>2 DEF QueryType, Indexes
<1> QED BY <1>1, <1>3 DEF Ranks

\* Beliefs are finitely many numbers, and no search reads less than the merged list keeps.
LEMMA BeliefFacts ==
  /\ Beliefs \subseteq Int
  /\ IsFiniteSet(Beliefs)
  /\ ScanLimit \in Nat /\ SourceLimit \in Nat /\ ScanLimit <= SourceLimit
BY FS_Interval, MemoryAssumption DEF MemoryAssumption, Beliefs

HeldKey(q, S) == [b \in S |-> <<q.held[b], b>>]
RankKey(q, S, x) == [b \in S |-> <<q.rank[x][b], q.held[b], b>>]

\* The rows of a search by age are the first by their keys.
LEMMA OldestFirst ==
  ASSUME NEW q \in Queries, NEW S, S \subseteq Beliefs
  PROVE  /\ Oldest(q, S) = FirstBy(S, SourceLimit, HeldKey(q, S))
         /\ Keys(S, 2, HeldKey(q, S))
<1>1. \A b \in S : HeldKey(q, S)[b] = <<q.held[b], b>>
  BY DEF HeldKey
<1>2. \A b \in S : {c \in S : Before(<<q.held[c], c>>, <<q.held[b], b>>)} = Ahead(S, HeldKey(q, S), b)
  BY <1>1 DEF Ahead
<1>3. Oldest(q, S) = FirstBy(S, SourceLimit, HeldKey(q, S))
  BY <1>2 DEF Oldest, First, FirstBy, Place
<1>4. \A b \in S : q.held[b] \in Int /\ b \in Int
  BY QueryFacts, BeliefFacts
<1>5. \A b \in S : HeldKey(q, S)[b] \in [1..2 -> Int]
  <2>1. ASSUME NEW b \in S PROVE HeldKey(q, S)[b] \in [1..2 -> Int]
    <3>1. PICK h \in Int : h = q.held[b]
      BY <1>4
    <3>2. b \in Int
      BY <1>4
    <3>3. <<h, b>> \in [1..2 -> Int]
      BY <3>2, PairKey
    <3> QED BY <1>1, <3>1, <3>3
  <2> QED BY <2>1
<1>6. \A b, c \in S : HeldKey(q, S)[b] = HeldKey(q, S)[c] => b = c
  BY <1>1
<1> QED BY <1>3, <1>5, <1>6 DEF Keys

\* So are the rows of a full-text search, by rank and age.
LEMMA FtsFirst ==
  ASSUME NEW q \in Queries, NEW S, S \subseteq Beliefs, NEW x \in Indexes
  PROVE  LET M == MatchOf(q, S, x) IN
         /\ FtsRows(q, S, x) = FirstBy(M, SourceLimit, RankKey(q, M, x))
         /\ Keys(M, 3, RankKey(q, M, x))
<1> DEFINE M == MatchOf(q, S, x)
<1>m. M \subseteq S
  BY DEF MatchOf
<1>1. \A b \in M : RankKey(q, M, x)[b] = <<q.rank[x][b], q.held[b], b>>
  BY DEF RankKey
<1>2. FtsRows(q, S, x) = {b \in M : Cardinality({c \in M : Before(<<q.rank[x][c], q.held[c], c>>, <<q.rank[x][b], q.held[b], b>>)}) < SourceLimit}
  BY DEF FtsRows, First, MatchOf
<1> HIDE DEF M
<1>3. \A b \in M : {c \in M : Before(<<q.rank[x][c], q.held[c], c>>, <<q.rank[x][b], q.held[b], b>>)} = Ahead(M, RankKey(q, M, x), b)
  BY <1>1 DEF Ahead
<1>4. FtsRows(q, S, x) = FirstBy(M, SourceLimit, RankKey(q, M, x))
  BY <1>2, <1>3 DEF FirstBy, Place
<1>5. \A b \in M : q.rank[x][b] \in Int /\ q.held[b] \in Int /\ b \in Int
  BY <1>m, QueryFacts, BeliefFacts
<1>6. \A b \in M : RankKey(q, M, x)[b] \in [1..3 -> Int]
  <2>1. ASSUME NEW b \in M PROVE RankKey(q, M, x)[b] \in [1..3 -> Int]
    <3>1. PICK r \in Int, h \in Int : r = q.rank[x][b] /\ h = q.held[b]
      BY <1>5
    <3>2. b \in Int
      BY <1>5
    <3>3. <<r, h, b>> \in [1..3 -> Int]
      BY <3>2, TripleKey
    <3> QED BY <1>1, <3>1, <3>3
  <2> QED BY <2>1
<1>7. \A b, c \in M : RankKey(q, M, x)[b] = RankKey(q, M, x)[c] => b = c
  BY <1>1
<1>8. Keys(M, 3, RankKey(q, M, x))
  BY <1>6, <1>7 DEF Keys
<1> QED BY <1>4, <1>8 DEF M

\* A search answers with all that match, or with as many rows as it reads.
LEMMA RowFacts ==
  ASSUME NEW q \in Queries, NEW S, S \subseteq Beliefs, NEW s \in SignalSet
  PROVE  LET row == Rows(q, S)[s]
             M == MatchOf(q, S, s)
         IN  /\ row \subseteq M
             /\ IsFiniteSet(row)
             /\ row = M \/ Cardinality(row) = SourceLimit
<1> DEFINE row == Rows(q, S)[s]
           M == MatchOf(q, S, s)
<1>1. M \subseteq Beliefs /\ IsFiniteSet(M)
  <2>1. M \subseteq Beliefs
    BY DEF MatchOf
  <2> QED BY <2>1, BeliefFacts, FS_Subset
<1>2. \E n, key : Keys(M, n, key) /\ row = FirstBy(M, SourceLimit, key)
  <2>1. CASE s \in Indexes
    <3>1. row = FtsRows(q, S, s)
      BY <2>1 DEF Rows, Indexes
    <3> HIDE DEF row, M
    <3>2. row = FirstBy(M, SourceLimit, RankKey(q, M, s)) /\ Keys(M, 3, RankKey(q, M, s))
      BY <2>1, <3>1, FtsFirst DEF M
    <3> QED BY <3>2
  <2>2. CASE s \notin Indexes
    <3>1. row = Oldest(q, M)
      <4>1. CASE s = "entity_exact"
        BY <4>1 DEF Rows, EntityRows, MatchOf
      <4>2. CASE s = "object_exact"
        BY <4>2 DEF Rows, ObjectRows, MatchOf
      <4>3. CASE s = "object_partial"
        BY <4>3 DEF Rows, ObjectRows, MatchOf
      <4>4. CASE s = "substring"
        BY <4>4 DEF Rows, SubstringRows, MatchOf
      <4> QED BY <2>2, <4>1, <4>2, <4>3, <4>4 DEF Indexes, SignalSet
    <3> HIDE DEF row, M
    <3> QED BY <3>1, <1>1, OldestFirst
  <2> QED BY <2>1, <2>2
<1> HIDE DEF row, M
<1>3. PICK n, key : Keys(M, n, key) /\ row = FirstBy(M, SourceLimit, key)
  BY <1>2
<1>4. row \subseteq M /\ IsFiniteSet(row) /\ (row = M \/ Cardinality(row) = SourceLimit)
  BY <1>1, <1>3, FirstFacts, BeliefFacts
<1> QED BY <1>4 DEF row, M

-----------------------------------------------------------------------------
(***************************************************************************)
(* Least and greatest numbers.                                             *)
(***************************************************************************)

\* A nonempty set of naturals has a minimum,
LEMMA MinFacts ==
  ASSUME NEW S, S \subseteq Nat, S # {}
  PROVE  Min(S) \in S /\ \A y \in S : Min(S) <= y
<1>1. \E x \in S : \A y \in S : x <= y
  BY LeastElement
<1> QED BY <1>1 DEF Min

\* a finite one a maximum.
LEMMA MaxFacts ==
  ASSUME NEW S, S \subseteq Nat, S # {}, IsFiniteSet(S)
  PROVE  Max(S) \in S /\ \A y \in S : Max(S) >= y
<1> DEFINE key == [b \in S |-> [i \in 1..1 |-> b]]
<1>1. \A b, c \in S : Before(key[c], key[b]) <=> c < b
  BY DEF Before
<1>2. Keys(S, 1, key)
  <2>1. \A b \in S : key[b] \in [1..1 -> Int]
    OBVIOUS
  <2>2. \A b \in S : key[b][1] = b
    OBVIOUS
  <2> HIDE DEF key
  <2> QED BY <2>1, <2>2 DEF Keys
<1> HIDE DEF key
<1> DEFINE P == {Cardinality(S) - Place(S, key, b) : b \in S}
<1>3. \A b \in S : Cardinality(S) - Place(S, key, b) \in Nat
  BY <1>2, PlaceGrows, FS_CardinalityType
<1>4. PICK r \in P : \A s \in P : r <= s
  <2>1. P \subseteq Nat /\ P # {}
    BY <1>3
  <2> HIDE DEF P
  <2> QED BY <2>1, LeastElement
<1>5. PICK a \in S : r = Cardinality(S) - Place(S, key, a)
  OBVIOUS
<1>6. ASSUME NEW b \in S PROVE a >= b
  <2>1. Cardinality(S) - Place(S, key, a) <= Cardinality(S) - Place(S, key, b)
    BY <1>4, <1>5
  <2>2. /\ Place(S, key, a) \in Nat /\ Place(S, key, b) \in Nat /\ Cardinality(S) \in Nat
        /\ a < b => Place(S, key, a) < Place(S, key, b)
    BY <1>1, <1>2, PlaceGrows, FS_CardinalityType
  <2>3. a \in Nat /\ b \in Nat
    OBVIOUS
  <2>4. ~(a < b)
    <3> HIDE DEF P
    <3> QED BY <2>1, <2>2
  <2> QED BY <2>3, <2>4
<1>7. \E x \in S : \A y \in S : x >= y
  BY <1>6
<1> QED BY <1>7 DEF Max

\* The best of a belief's signals is an exact one just when it has one.
LEMMA BestSignal ==
  ASSUME NEW R, R \subseteq SignalSet, R # {}
  PROVE  LET i == Min({k \in DOMAIN Signals : Signals[k] \in R}) IN
         i \in 1..6 /\ (i <= 2 <=> R \cap ExactSignals # {})
<1> DEFINE D == {k \in DOMAIN Signals : Signals[k] \in R}
<1>1. /\ DOMAIN Signals = 1..6
      /\ Signals[1] = "entity_exact" /\ Signals[2] = "object_exact" /\ Signals[3] = "object_partial"
      /\ Signals[4] = "term_fts" /\ Signals[5] = "trigram_fts" /\ Signals[6] = "substring"
  BY DEF Signals
<1>2. D \subseteq 1..6 /\ D # {}
  <2>1. D \subseteq 1..6
    BY <1>1
  <2>2. \A s \in SignalSet : \E k \in 1..6 : Signals[k] = s
    BY <1>1 DEF SignalSet
  <2>3. PICK s \in R : s \in SignalSet
    OBVIOUS
  <2>4. PICK k \in 1..6 : Signals[k] = s
    BY <2>2, <2>3
  <2>5. k \in D
    BY <1>1, <2>3, <2>4
  <2> QED BY <2>1, <2>5
<1>3. "entity_exact" \in R => 1 \in D
  BY <1>1
<1>4. "object_exact" \in R => 2 \in D
  BY <1>1
<1>5. \A k \in D : Signals[k] \in R
  OBVIOUS
<1> HIDE DEF D
<1>6. Min(D) \in D /\ \A y \in D : Min(D) <= y
  <2>1. D \subseteq Nat
    BY <1>2
  <2> QED BY <1>2, <2>1, MinFacts
<1>7. Min(D) \in 1..6
  BY <1>2, <1>6
<1>8. R \cap ExactSignals # {} => Min(D) <= 2
  BY <1>3, <1>4, <1>6, <1>7 DEF ExactSignals
<1>9. Min(D) <= 2 => R \cap ExactSignals # {}
  <2>1. SUFFICES ASSUME Min(D) <= 2 PROVE Signals[Min(D)] \in ExactSignals
    BY <1>5, <1>6
  <2>2. Min(D) = 1 \/ Min(D) = 2
    BY <1>7, <2>1
  <2> QED BY <1>1, <2>2 DEF ExactSignals
<1> QED BY <1>7, <1>8, <1>9 DEF D

-----------------------------------------------------------------------------
(***************************************************************************)
(* The merged candidates.                                                  *)
(***************************************************************************)

MergedShape(q, S, m) ==
  /\ DOMAIN m = UNION {Rows(q, S)[s] : s \in SignalSet}
  /\ DOMAIN m \subseteq S
  /\ \A b \in DOMAIN m : /\ m[b].reasons = {s \in SignalSet : b \in Rows(q, S)[s]}
                         /\ m[b].reasons # {}
                         /\ m[b].reasons \subseteq q.reasons[b]
                         /\ m[b].term_fts \in Nat /\ m[b].trigram_fts \in Nat

\* Merging keeps each row's belief with the signals that found it.
LEMMA MergedFacts ==
  ASSUME NEW q \in Queries, NEW S, S \subseteq Beliefs
  PROVE  MergedShape(q, S, Merged(q, Rows(q, S)))
<1> DEFINE rows == Rows(q, S)
           m == Merged(q, rows)
           Rank(b, x) == IF b \in rows[x] THEN q.rank[x][b] ELSE Cardinality(Ranks)
<1>1. DOMAIN rows = SignalSet
  BY DEF Rows, SignalSet
<1>2. \A s \in SignalSet : rows[s] \subseteq MatchOf(q, S, s)
  BY RowFacts
<1> HIDE DEF rows
<1>3. DOMAIN m = UNION {rows[s] : s \in SignalSet}
  BY <1>1 DEF Merged
<1>4. \A b \in DOMAIN m : m[b] = [reasons |-> {s \in SignalSet : b \in rows[s]},
                                  term_fts |-> Rank(b, "term_fts"),
                                  trigram_fts |-> Rank(b, "trigram_fts")]
  BY <1>1 DEF Merged
<1>5. Cardinality(Ranks) \in Nat
  <2>1. IsFiniteSet(Ranks)
    <3>1. \A a, b \in Int : IsFiniteSet(a..b)
      BY FS_Interval
    <3>2. 0 \in Int /\ 9 \in Int
      OBVIOUS
    <3> QED BY <3>1, <3>2 DEF Ranks
  <2> QED BY <2>1, FS_CardinalityType
<1>6. \A b \in Beliefs : Rank(b, "term_fts") \in Nat /\ Rank(b, "trigram_fts") \in Nat
  BY <1>5, QueryFacts DEF Indexes
<1> HIDE DEF m, Rank
<1>7. DOMAIN m \subseteq S
  BY <1>2, <1>3 DEF MatchOf
<1>8. ASSUME NEW b \in DOMAIN m
      PROVE  /\ m[b].reasons = {s \in SignalSet : b \in rows[s]}
             /\ m[b].reasons # {}
             /\ m[b].reasons \subseteq q.reasons[b]
             /\ m[b].term_fts \in Nat /\ m[b].trigram_fts \in Nat
  <2>1. /\ m[b].reasons = {s \in SignalSet : b \in rows[s]}
        /\ m[b].term_fts = Rank(b, "term_fts") /\ m[b].trigram_fts = Rank(b, "trigram_fts")
    BY <1>4
  <2>2. b \in Beliefs
    BY <1>7
  <2> QED BY <1>2, <1>3, <1>6, <2>1, <2>2 DEF MatchOf
<1> QED BY <1>3, <1>7, <1>8 DEF MergedShape, m, rows

CandidateKeys(q, m) == [b \in DOMAIN m |-> CandidateKey(q, m, b)]

\* The candidates are the first by their keys, those with an exact signal in front.
LEMMA CandidatesFirst ==
  ASSUME NEW q \in Queries, NEW S, S \subseteq Beliefs, NEW m, MergedShape(q, S, m), NEW limit \in Nat
  PROVE  /\ Keys(DOMAIN m, 5, CandidateKeys(q, m))
         /\ DOMAIN FirstCandidates(q, m, limit) = FirstBy(DOMAIN m, limit, CandidateKeys(q, m))
         /\ \A b \in DOMAIN FirstCandidates(q, m, limit) : FirstCandidates(q, m, limit)[b] = m[b]
         /\ \A b \in DOMAIN m : CandidateKeys(q, m)[b][1] <= 2 <=> m[b].reasons \cap ExactSignals # {}
<1> DEFINE D == DOMAIN m
           key == CandidateKeys(q, m)
           Best1(b) == Min({i \in DOMAIN Signals : Signals[i] \in m[b].reasons})
<1>1. \A b \in D : key[b] = CandidateKey(q, m, b)
  BY DEF CandidateKeys
<1>2. \A b \in D : CandidateKey(q, m, b) = <<Best1(b), m[b].term_fts, m[b].trigram_fts, q.held[b], b>>
  BY DEF CandidateKey
<1>3. ASSUME NEW b \in D
      PROVE  /\ Best1(b) \in Int
             /\ Best1(b) <= 2 <=> m[b].reasons \cap ExactSignals # {}
             /\ m[b].term_fts \in Int /\ m[b].trigram_fts \in Int /\ q.held[b] \in Int /\ b \in Int
  <2>1. b \in Beliefs
    BY DEF MergedShape
  <2>2. m[b].reasons \subseteq SignalSet /\ m[b].reasons # {}
    BY DEF MergedShape
  <2>3. Best1(b) \in 1..6 /\ (Best1(b) <= 2 <=> m[b].reasons \cap ExactSignals # {})
    BY <2>2, BestSignal
  <2>4. q.held[b] \in Nat /\ b \in Int
    BY <2>1, QueryFacts, BeliefFacts
  <2>5. m[b].term_fts \in Nat /\ m[b].trigram_fts \in Nat
    BY DEF MergedShape
  <2> HIDE DEF Best1
  <2> QED BY <2>3, <2>4, <2>5
<1> HIDE DEF key, Best1
<1>4. ASSUME NEW b \in D PROVE key[b] \in [1..5 -> Int]
  <2>1. PICK i \in Int, t \in Int, g \in Int, h \in Int :
          i = Best1(b) /\ t = m[b].term_fts /\ g = m[b].trigram_fts /\ h = q.held[b]
    BY <1>3
  <2>2. b \in Int
    BY <1>3
  <2>3. <<i, t, g, h, b>> \in [1..5 -> Int]
    BY <2>2, FiveKey
  <2> QED BY <1>1, <1>2, <2>1, <2>3
<1>5. \A b \in D : key[b][5] = b /\ key[b][1] = Best1(b)
  BY <1>1, <1>2
<1>6. Keys(D, 5, key)
  BY <1>4, <1>5 DEF Keys
<1>7. \A b \in D : key[b][1] <= 2 <=> m[b].reasons \cap ExactSignals # {}
  BY <1>3, <1>5
<1>8. DOMAIN FirstCandidates(q, m, limit)
        = {b \in D : Cardinality({c \in D : Before(CandidateKey(q, m, c), CandidateKey(q, m, b))}) < limit}
  BY DEF FirstCandidates, First
<1>9. \A b \in D : {c \in D : Before(CandidateKey(q, m, c), CandidateKey(q, m, b))} = Ahead(D, key, b)
  BY <1>1 DEF Ahead
<1>10. DOMAIN FirstCandidates(q, m, limit) = FirstBy(D, limit, key)
  BY <1>8, <1>9 DEF FirstBy, Place
<1>11. \A b \in DOMAIN FirstCandidates(q, m, limit) : FirstCandidates(q, m, limit)[b] = m[b]
  BY DEF FirstCandidates
<1> QED BY <1>6, <1>7, <1>10, <1>11 DEF key

-----------------------------------------------------------------------------
(***************************************************************************)
(* The scored candidates.                                                  *)
(***************************************************************************)

\* The parts of a score are numbers: what they are divided by is not zero.
LEMMA RankScoreInt ==
  ASSUME NEW m, NEW b \in DOMAIN m, NEW x, NEW p \in Nat,
         \A c \in DOMAIN m : m[c][x] \in Nat
  PROVE  RankScore(m, x, b, p) \in Int
<1> DEFINE R == {m[c][x] : c \in DOMAIN m}
<1>1. R \subseteq Nat /\ R # {} /\ m[b][x] \in R
  OBVIOUS
<1> HIDE DEF R
<1>2. Min(R) \in Nat /\ Min(R) <= m[b][x]
  BY <1>1, MinFacts
<1>3. 1 + m[b][x] - Min(R) \in Nat \ {0}
  BY <1>1, <1>2
<1>4. (One * p) \in Int
  BY DEF One
<1>5. ((One * p) \div (1 + m[b][x] - Min(R))) \in Int
  BY <1>3, <1>4
<1> QED BY <1>5 DEF RankScore, R

LEMMA RecencyInt ==
  ASSUME NEW q \in Queries, NEW m, DOMAIN m \subseteq Beliefs, NEW b \in DOMAIN m
  PROVE  Recency(q, m, b) \in Int
<1> DEFINE T == {q.held[c] : c \in DOMAIN m}
<1>1. T \subseteq Nat /\ T # {} /\ q.held[b] \in T
  BY QueryFacts
<1>2. IsFiniteSet(T)
  <2>1. IsFiniteSet(DOMAIN m)
    BY BeliefFacts, FS_Subset
  <2>2. [c \in DOMAIN m |-> q.held[c]] \in Surjection(DOMAIN m, T)
    BY DEF Surjection
  <2> HIDE DEF T
  <2> QED BY <2>1, <2>2, FS_Surjection
<1> HIDE DEF T
<1>3. Min(T) \in Nat /\ Max(T) \in Nat /\ Min(T) <= q.held[b] /\ Min(T) <= Max(T) /\ q.held[b] \in Nat
  BY <1>1, <1>2, MinFacts, MaxFacts
<1>4. Min(T) # Max(T) => Max(T) - Min(T) \in Nat \ {0}
  BY <1>3
<1>5. (One \div 4) * (q.held[b] - Min(T)) \in Int
  BY <1>3 DEF One
<1>6. Min(T) # Max(T) =>
        (((One \div 4) * (q.held[b] - Min(T))) \div (Max(T) - Min(T))) \in Int
  BY <1>4, <1>5
<1> QED BY <1>6 DEF Recency, T

LEMMA ScoreInt ==
  ASSUME NEW q \in Queries, NEW scope, NEW m, DOMAIN m \subseteq Beliefs, NEW b \in DOMAIN m,
         \A c \in DOMAIN m : m[c].term_fts \in Nat /\ m[c].trigram_fts \in Nat
  PROVE  Score(q, scope, m, b) \in Int
<1> DEFINE For(reason, points) == IF reason \in m[b].reasons THEN One * points ELSE 0
           typed == IF Traits[b].type \in q.types THEN 2 * One ELSE 0
<1>1. ScopeScore(b, scope) \in Int
  BY DEF ScopeScore, One
<1>2. typed \in Int
  BY DEF One
<1>3. /\ For("entity_exact", 4) \in Int /\ For("object_exact", 3) \in Int
      /\ For("object_partial", 1) \in Int /\ For("substring", 1) \in Int
  BY DEF One
<1>4. RankScore(m, "term_fts", b, 4) \in Int /\ RankScore(m, "trigram_fts", b, 2) \in Int
  BY RankScoreInt
<1>5. Recency(q, m, b) \in Int
  BY RecencyInt
<1> HIDE DEF For, typed
<1>6. ScopeScore(b, scope) + typed + For("entity_exact", 4) + For("object_exact", 3)
        + For("object_partial", 1) + For("substring", 1)
        + RankScore(m, "term_fts", b, 4) + RankScore(m, "trigram_fts", b, 2) + Recency(q, m, b) \in Int
  BY <1>1, <1>2, <1>3, <1>4, <1>5
<1> QED BY <1>6 DEF Score, For, typed

ScoredKeys(q, scope, m) == [b \in DOMAIN m |-> ScoredKey(q, scope, m, b)]

\* The answer is the first candidates by their scored keys, exact ones in front.
LEMMA BestFirst ==
  ASSUME NEW q \in Queries, NEW scope, NEW m, DOMAIN m \subseteq Beliefs,
         \A c \in DOMAIN m : m[c].term_fts \in Nat /\ m[c].trigram_fts \in Nat
  PROVE  /\ Keys(DOMAIN m, 5, ScoredKeys(q, scope, m))
         /\ Best(q, scope, m) = FirstBy(DOMAIN m, q.max, ScoredKeys(q, scope, m))
         /\ \A b \in DOMAIN m :
              /\ ScoredKeys(q, scope, m)[b][1] \in {0, 1}
              /\ ScoredKeys(q, scope, m)[b][1] = 0 <=> m[b].reasons \cap ExactSignals # {}
<1> DEFINE D == DOMAIN m
           key == ScoredKeys(q, scope, m)
           Own(b) == IF BeliefScope(b) = "counterpart" THEN 0 ELSE 1
<1>1. \A b \in D : key[b] = <<Priority(m[b].reasons), -Score(q, scope, m, b), Own(b), -q.held[b], b>>
  BY DEF ScoredKeys, ScoredKey
<1>2. ASSUME NEW b \in D
      PROVE  /\ Priority(m[b].reasons) \in {0, 1}
             /\ Priority(m[b].reasons) = 0 <=> m[b].reasons \cap ExactSignals # {}
             /\ -Score(q, scope, m, b) \in Int /\ Own(b) \in Int /\ -q.held[b] \in Int /\ b \in Int
  <2>1. /\ Priority(m[b].reasons) \in {0, 1}
        /\ Priority(m[b].reasons) = 0 <=> m[b].reasons \cap ExactSignals # {}
    BY DEF Priority, ExactSignals
  <2>2. -Score(q, scope, m, b) \in Int
    <3>1. Score(q, scope, m, b) \in Int
      BY ScoreInt
    <3> QED BY <3>1
  <2>3. Own(b) \in Int
    OBVIOUS
  <2>4. -q.held[b] \in Int /\ b \in Int
    <3>1. b \in Beliefs
      OBVIOUS
    <3>2. PICK h \in Nat : h = q.held[b]
      BY <3>1, QueryFacts
    <3>3. -h \in Int
      OBVIOUS
    <3> QED BY <3>1, <3>2, <3>3, BeliefFacts
  <2> QED BY <2>1, <2>2, <2>3, <2>4
<1> HIDE DEF key, Own
<1>3. ASSUME NEW b \in D PROVE key[b] \in [1..5 -> Int]
  <2>1. PICK p \in Int, s \in Int, o \in Int, h \in Int :
          p = Priority(m[b].reasons) /\ s = -Score(q, scope, m, b) /\ o = Own(b) /\ h = -q.held[b]
    BY <1>2
  <2>2. b \in Int
    BY <1>2
  <2>3. <<p, s, o, h, b>> \in [1..5 -> Int]
    BY <2>2, FiveKey
  <2> QED BY <1>1, <2>1, <2>3
<1>4. \A b \in D : key[b][5] = b /\ key[b][1] = Priority(m[b].reasons)
  BY <1>1
<1>5. Keys(D, 5, key)
  BY <1>3, <1>4 DEF Keys
<1>6. Best(q, scope, m) = {b \in D : Cardinality({c \in D : Before(key[c], key[b])}) < q.max}
  BY DEF Best, First, key, ScoredKeys
<1>7. Best(q, scope, m) = FirstBy(D, q.max, key)
  BY <1>6 DEF FirstBy, Place, Ahead
<1> QED BY <1>2, <1>4, <1>5, <1>7 DEF key

-----------------------------------------------------------------------------
(***************************************************************************)
(* What a search answers with.                                             *)
(***************************************************************************)

MatchingIn(q, S) == {b \in S : q.reasons[b] # {}}
ExactIn(q, S) == {b \in MatchingIn(q, S) : q.reasons[b] \cap ExactSignals # {}}

\* What comes out of the five cuts: no more than matches, as many as there may be, and
\* exact matches before others.  A row that was cut is as long as the merged list, so
\* an exact one would fill it alone.
LEMMA AnswerFacts ==
  ASSUME NEW q \in Queries, NEW S, S \subseteq Beliefs, NEW scope
  PROVE  LET answer == Best(q, scope, Candidates(q, S, ScanLimit)) IN
         /\ answer \subseteq MatchingIn(q, S)
         /\ answer = MatchingIn(q, S) \/ Cardinality(answer) = q.max
         /\ answer \subseteq ExactIn(q, S) \/ ExactIn(q, S) \subseteq answer
<1> DEFINE m == Merged(q, Rows(q, S))
           R == DOMAIN m
           cm == FirstCandidates(q, m, ScanLimit)
           C == DOMAIN cm
           ckey == CandidateKeys(q, m)
           skey == ScoredKeys(q, scope, cm)
           answer == Best(q, scope, cm)
           Row(s) == Rows(q, S)[s]
<1>1. Candidates(q, S, ScanLimit) = cm
  BY DEF Candidates
<1>2. MergedShape(q, S, m)
  BY MergedFacts
<1> HIDE DEF m
<1>3. /\ Keys(R, 5, ckey)
      /\ C = FirstBy(R, ScanLimit, ckey)
      /\ \A b \in C : cm[b] = m[b]
      /\ \A b \in R : ckey[b][1] <= 2 <=> m[b].reasons \cap ExactSignals # {}
  <2>1. ScanLimit \in Nat
    BY BeliefFacts
  <2>2. /\ Keys(DOMAIN m, 5, CandidateKeys(q, m))
        /\ DOMAIN FirstCandidates(q, m, ScanLimit) = FirstBy(DOMAIN m, ScanLimit, CandidateKeys(q, m))
        /\ \A b \in DOMAIN FirstCandidates(q, m, ScanLimit) : FirstCandidates(q, m, ScanLimit)[b] = m[b]
        /\ \A b \in DOMAIN m : CandidateKeys(q, m)[b][1] <= 2 <=> m[b].reasons \cap ExactSignals # {}
    BY <1>2, <2>1, CandidatesFirst
  <2> QED BY <2>2
<1> HIDE DEF cm, ckey
<1>4. R \subseteq S /\ R \subseteq Beliefs /\ IsFiniteSet(R)
  <2>1. R \subseteq S /\ R \subseteq Beliefs
    BY <1>2 DEF MergedShape
  <2> QED BY <2>1, BeliefFacts, FS_Subset
<1>5. /\ C \subseteq R /\ IsFiniteSet(C)
      /\ \A b \in C, c \in R : Before(ckey[c], ckey[b]) => c \in C
      /\ C = R \/ Cardinality(C) = ScanLimit
  BY <1>3, <1>4, FirstFacts, BeliefFacts
<1>6. /\ Keys(C, 5, skey)
      /\ answer = FirstBy(C, q.max, skey)
      /\ \A b \in C : /\ skey[b][1] \in {0, 1}
                      /\ skey[b][1] = 0 <=> m[b].reasons \cap ExactSignals # {}
  <2>1. C \subseteq Beliefs
    BY <1>4, <1>5
  <2>2. \A c \in C : cm[c].term_fts \in Nat /\ cm[c].trigram_fts \in Nat
    BY <1>2, <1>3, <1>5 DEF MergedShape
  <2>3. /\ Keys(C, 5, skey)
        /\ answer = FirstBy(C, q.max, skey)
        /\ \A b \in C : /\ skey[b][1] \in {0, 1}
                        /\ skey[b][1] = 0 <=> cm[b].reasons \cap ExactSignals # {}
    BY <2>1, <2>2, BestFirst
  <2> HIDE DEF skey, answer
  <2> QED BY <1>3, <2>3
<1> HIDE DEF skey, answer
<1>7. /\ answer \subseteq C /\ IsFiniteSet(answer)
      /\ \A b \in answer, c \in C : Before(skey[c], skey[b]) => c \in answer
      /\ answer = C \/ Cardinality(answer) = q.max
  BY <1>5, <1>6, FirstFacts, QueryFacts
<1>8. \A s \in SignalSet : /\ Row(s) \subseteq MatchOf(q, S, s)
                           /\ IsFiniteSet(Row(s))
                           /\ Row(s) = MatchOf(q, S, s) \/ Cardinality(Row(s)) = SourceLimit
  BY RowFacts
<1>9. /\ R = UNION {Row(s) : s \in SignalSet}
      /\ \A b \in R : m[b].reasons = {s \in SignalSet : b \in Row(s)} /\ m[b].reasons \subseteq q.reasons[b]
  BY <1>2 DEF MergedShape
<1> HIDE DEF Row
<1>10. \A b \in S : q.reasons[b] \subseteq SignalSet
  BY QueryFacts
<1>11. answer \subseteq MatchingIn(q, S)
  <2>1. \A b \in R : b \in S /\ q.reasons[b] # {}
    BY <1>4, <1>8, <1>9 DEF MatchOf
  <2> QED BY <1>5, <1>7, <2>1 DEF MatchingIn
<1>12. ASSUME Cardinality(answer) # q.max PROVE answer = MatchingIn(q, S)
  <2>1. answer = C
    BY <1>7, <1>12
  <2>2. Cardinality(C) < q.max
    <3>1. Cardinality(answer) <= q.max /\ Cardinality(answer) \in Nat
      BY <1>5, <1>6, <1>7, FirstFacts, QueryFacts, FS_CardinalityType
    <3> QED BY <1>12, <2>1, <3>1, QueryFacts
  <2>3. Cardinality(C) < ScanLimit /\ Cardinality(C) \in Nat
    BY <1>5, <2>2, QueryFacts, BeliefFacts, FS_CardinalityType
  <2>4. C = R
    BY <1>5, <2>3, BeliefFacts
  <2>5. \A s \in SignalSet : Row(s) = MatchOf(q, S, s)
    <3>1. TAKE s \in SignalSet
    <3>2. Row(s) \subseteq R
      BY <1>9
    <3>3. Cardinality(Row(s)) <= Cardinality(R)
      BY <1>4, <3>2, FS_Subset
    <3>4. Cardinality(Row(s)) # SourceLimit
      BY <2>3, <2>4, <3>3, <1>8, FS_CardinalityType, BeliefFacts
    <3> QED BY <1>8, <3>4
  <2>6. \A b \in MatchingIn(q, S) : b \in R
    <3>1. TAKE b \in MatchingIn(q, S)
    <3>2. PICK s \in SignalSet : s \in q.reasons[b]
      BY <1>10 DEF MatchingIn
    <3>3. b \in Row(s)
      BY <2>5, <3>2 DEF MatchOf, MatchingIn
    <3> QED BY <1>9, <3>3
  <2> QED BY <1>11, <2>1, <2>4, <2>6
<1>13. ASSUME NEW a \in answer, a \notin ExactIn(q, S) PROVE ExactIn(q, S) \subseteq answer
  <2>1. a \in C /\ a \in R /\ m[a].reasons \cap ExactSignals = {}
    <3>1. a \in C /\ a \in R
      BY <1>5, <1>7
    <3>2. q.reasons[a] \cap ExactSignals = {}
      BY <1>11, <1>13 DEF ExactIn
    <3> QED BY <1>9, <3>1, <3>2
  <2>2. \A b \in R : m[b].reasons \cap ExactSignals # {} => Before(ckey[b], ckey[a])
    <3>1. TAKE b \in R
    <3>2. HAVE m[b].reasons \cap ExactSignals # {}
    <3>3. ckey[b][1] <= 2 /\ ~(ckey[a][1] <= 2) /\ ckey[a] \in [1..5 -> Int] /\ ckey[b] \in [1..5 -> Int]
      BY <1>3, <2>1, <3>2 DEF Keys
    <3>4. ckey[b][1] < ckey[a][1]
      BY <3>3
    <3> QED BY <3>3, <3>4 DEF Before
  <2>3. \A b \in C : m[b].reasons \cap ExactSignals # {} => Before(skey[b], skey[a])
    <3>1. TAKE b \in C
    <3>2. HAVE m[b].reasons \cap ExactSignals # {}
    <3>3. skey[b][1] = 0 /\ skey[a][1] = 1 /\ skey[a] \in [1..5 -> Int] /\ skey[b] \in [1..5 -> Int]
      BY <1>6, <2>1, <3>2 DEF Keys
    <3> QED BY <3>3 DEF Before
  <2>4. \A b \in R : m[b].reasons \cap ExactSignals # {} => b \in answer
    BY <1>5, <1>7, <2>1, <2>2, <2>3
  <2>5. \A s \in ExactSignals : Row(s) = MatchOf(q, S, s)
    <3>1. TAKE s \in ExactSignals
    <3>2. s \in SignalSet
      BY DEF ExactSignals, SignalSet
    <3>3. Row(s) \subseteq Ahead(R, ckey, a)
      <4>1. ASSUME NEW b \in Row(s) PROVE b \in R /\ s \in m[b].reasons
        BY <1>9, <3>2
      <4> QED BY <2>2, <4>1 DEF Ahead
    <3>4. Place(R, ckey, a) < ScanLimit
      BY <1>3, <2>1 DEF FirstBy
    <3>5. IsFiniteSet(Ahead(R, ckey, a)) /\ Place(R, ckey, a) \in Nat
      BY <1>3, <1>4, <2>1, PlaceGrows
    <3>6. Cardinality(Row(s)) <= Place(R, ckey, a) /\ Cardinality(Row(s)) \in Nat
      BY <1>8, <3>2, <3>3, <3>5, FS_Subset, FS_CardinalityType DEF Place
    <3>7. Cardinality(Row(s)) # SourceLimit
      BY <3>4, <3>5, <3>6, BeliefFacts
    <3> QED BY <1>8, <3>2, <3>7
  <2>6. ASSUME NEW b \in ExactIn(q, S) PROVE b \in answer
    <3>1. PICK s \in ExactSignals : s \in q.reasons[b] /\ b \in S
      BY DEF ExactIn, MatchingIn
    <3>2. b \in Row(s) /\ s \in SignalSet
      BY <2>5, <3>1 DEF MatchOf, ExactSignals, SignalSet
    <3>3. b \in R /\ s \in m[b].reasons
      BY <1>9, <3>2
    <3> QED BY <2>4, <3>1, <3>3
  <2> QED BY <2>6
<1>14. answer \subseteq ExactIn(q, S) \/ ExactIn(q, S) \subseteq answer
  BY <1>13
<1> QED BY <1>1, <1>11, <1>12, <1>14 DEF answer

\* A search answers with as many active beliefs of its scope as it may, and leaves
\* an exact match out only for others: the cuts of the single searches and of the
\* merged list, at whatever limits, do not undo the final order.
THEOREM RecallAnswersHolds == SummarySpec => []RecallAnswers
<1>1. ASSUME NEW q \in Queries, NEW scope \in Scopes
      PROVE  AnswersWell(q, scope, Recall(q, scope), Matching(q, scope))
  <2> DEFINE S == Searchable(q.types, scope)
             answer == Recall(q, scope)
             exact == {b \in Matching(q, scope) : q.reasons[b] \cap {"entity_exact", "object_exact"} # {}}
  <2>1. Matching(q, scope) = MatchingIn(q, S) /\ exact = ExactIn(q, S)
    BY DEF Matching, MatchingIn, ExactIn, ExactSignals
  <2>2. S \subseteq Beliefs
    BY DEF Searchable, Filtered, Active
  <2>3. CASE scope = "counterpart" /\ peer = {}
    <3>1. answer = {}
      BY <2>3 DEF Recall
    <3> HIDE DEF answer
    <3>2. AnswersWell(q, scope, answer, Matching(q, scope))
      BY <2>3, <3>1 DEF AnswersWell
    <3> QED BY <3>2 DEF answer
  <2>4. CASE ~(scope = "counterpart" /\ peer = {})
    <3>1. answer = Best(q, scope, Candidates(q, S, ScanLimit))
      BY <2>4 DEF Recall
    <3>2. scope = "counterpart" => \A b \in S : Traits[b].about \cap peer # {}
      BY <2>4 DEF Searchable, Filtered, InScope
    <3> HIDE DEF answer, S
    <3>3. /\ answer \subseteq MatchingIn(q, S)
          /\ answer = MatchingIn(q, S) \/ Cardinality(answer) = q.max
          /\ answer \subseteq ExactIn(q, S) \/ ExactIn(q, S) \subseteq answer
      BY <2>2, <3>1, AnswerFacts
    <3>4. MatchingIn(q, S) \subseteq S
      BY DEF MatchingIn
    <3>5. AnswersWell(q, scope, answer, Matching(q, scope))
      BY <2>1, <3>2, <3>3, <3>4 DEF AnswersWell
    <3> QED BY <3>5 DEF answer
  <2> QED BY <2>3, <2>4
<1>2. RecallAnswers
  BY <1>1 DEF RecallAnswers
<1> QED BY <1>2, PTL

=============================================================================
