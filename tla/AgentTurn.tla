----------------------------- MODULE AgentTurn -----------------------------
(***************************************************************************)
(* The turns of one session: what AlphaAgent.respond() does from the       *)
(* request to the reply, with the compaction of the session's context      *)
(* before and within the turn, the loop of model calls and tool calls, the *)
(* store that each message is written to, the cancel flag, and the cache   *)
(* of agents that the flag lives in.                                       *)
(*                                                                         *)
(* A message keeps what the control of a turn tells apart: its kind, the   *)
(* turn it belongs to, its size in tokens, the calls it makes or the call  *)
(* it answers, and what a handover has read.  Its ordinal is its place in  *)
(* the log.  A fault is anything the code meets as an exception.           *)
(***************************************************************************)
EXTENDS Naturals, Sequences, FiniteSetsExt

CONSTANTS
  Callers,            \* the threads that bring requests for the session
  MaxTurns,           \* bound: the requests in all
  MaxMishaps,         \* bound: faults, crashes, cancels and evictions in all
  Faults,             \* which of "llm", "store", "crash", "cancel", "evict", "args", "protocol" may occur
  MaxCalls,           \* bound: the calls in one answer of the model
  Long,               \* the size of what is long; everything else has size 1
  Frame,              \* system message, tool schemas and reserves
  MaxContext,         \* the provider's window
  TruncateAt,         \* tool payloads are cut above this
  HandoverAt,         \* the context is handed over above this
  MinRemaining,       \* or when less than this remains
  MaxRetries,         \* of a model call
  BlockAfter,         \* how often one call may be repeated in a turn
  MaxToolIterations,  \* rounds with tools in a turn
  MaxLLMRounds        \* rounds in a turn before it is made to finish

ASSUME AgentTurnAssumption ==
  /\ {"none", "loop"} \cap Callers = {}
  /\ MaxTurns \in Nat /\ MaxMishaps \in Nat /\ MaxCalls \in Nat \ {0}
  /\ Long \in Nat \ {0} /\ Frame \in Nat /\ MaxContext \in Nat
  /\ TruncateAt \in Nat /\ HandoverAt \in Nat /\ MinRemaining \in Nat
  /\ MaxRetries \in Nat /\ BlockAfter \in Nat /\ MaxToolIterations \in Nat /\ MaxLLMRounds \in Nat \ {0}

VARIABLES
  log,       \* session_messages of the session, in ordinal order
  t,         \* t[c]: the turn that caller c runs
  holder,    \* who holds the subject lock: a caller, "loop" or "none"
  outcome,   \* outcome[n]: how request n ended
  cached,    \* the agent that the manager has for the session, 0 for none
  agents,    \* how many agents were made
  flagged,   \* the agents whose cancel flag for the session is set
  cancels,   \* cancels that found an agent
  mishaps

turnVars == <<log, t, holder, outcome, cached, agents, flagged, cancels, mishaps>>
----------------------------------------------------------------------------
\* Messages and the context

Ordinary == {"user", "call", "result", "reply"}

Message(kind, c) ==
  [kind |-> kind, turn |-> t[c].turn, size |-> 1, n |-> 0, of |-> 0, bad |-> FALSE,
   checked |-> FALSE, covers |-> {}]

\* The latest handover of the session; 0 when there was none.
CompressionPoint(l) == Max({0} \union {k \in DOMAIN l: l[k].kind = "compressed"})

\* Mutation: the context starts before the compression point, not at it.
Context_FromPoint(l) == {i \in DOMAIN l: i + 1 >= CompressionPoint(l)}

Context(l) == {i \in DOMAIN l: i >= CompressionPoint(l)}

Shown(l) == {i \in Context(l): l[i].kind \in Ordinary}

\* Mutation: all messages of the session instead of those of the context.
Covered_All(l) == {i \in DOMAIN l: l[i].kind # "compressed"}

\* What a handover stands for: the context without the handover before it.
Covered(l) == {i \in Context(l): l[i].kind # "compressed"}

Used(l) == Frame + MapThenSumSet(LAMBDA i: l[i].size, Context(l))

NeedsTruncation(used) == used > TruncateAt

NeedsHandover(used) == used > HandoverAt \/ used + MinRemaining > MaxContext

\* Tool payloads that no earlier truncation has looked at.
Unchecked(l) == {i \in Context(l): l[i].kind \in {"call", "result"} /\ ~l[i].checked}

Truncated(l) ==
  [i \in DOMAIN l |->
     IF i \in Unchecked(l) THEN [l[i] EXCEPT !.size = 1, !.checked = TRUE] ELSE l[i]]

\* Stored arguments that are no JSON cannot be truncated.
Unparsable(l) == \E i \in Unchecked(l): l[i].kind = "call" /\ l[i].bad
----------------------------------------------------------------------------
Idle ==
  [pc |-> "idle", turn |-> 0, agent |-> 0, pending |-> 0, within |-> FALSE, reads |-> {},
   rounds |-> 0, iterations |-> 0, finalizing |-> FALSE, attempt |-> 0,
   n |-> 0, bad |-> FALSE, next |-> 0, done |-> <<>>, repeats |-> 0, cause |-> ""]

TurnInit ==
  /\ log = <<>>
  /\ t = [c \in Callers |-> Idle]
  /\ holder = "none"
  /\ outcome = <<>>
  /\ cached = 0
  /\ agents = 0
  /\ flagged = {}
  /\ cancels = 0
  /\ mishaps = 0

environment == <<cached, agents, flagged, cancels, mishaps>>

Goto(c, pc) == t' = [t EXCEPT ![c].pc = pc]

Canceled(c) == t[c].agent \in flagged

Raise(c, cause) == t' = [t EXCEPT ![c].pc = "failing", ![c].cause = cause]

Mishap(fault) ==
  /\ fault \in Faults
  /\ mishaps < MaxMishaps
  /\ mishaps' = mishaps + 1

Steady == UNCHANGED <<holder, outcome, cached, agents, flagged, cancels>>

\* check_canceled() and, if it does not raise, the step that it guards.
Checked(c, Step) == IF Canceled(c) THEN Raise(c, "canceled") /\ UNCHANGED log ELSE Step

Store(m) == log' = Append(log, m)
----------------------------------------------------------------------------
\* The request, the manager's agent and the two locks.

Begin(c) ==
  /\ t[c].pc = "idle"
  /\ Len(outcome) < MaxTurns
  /\ outcome' = Append(outcome, "running")
  /\ LET agent == IF cached = 0 THEN agents + 1 ELSE cached
     IN  /\ cached' = agent
         /\ agents' = IF cached = 0 THEN agent ELSE agents
         /\ \E size \in {1, Long}:
              t' = [t EXCEPT ![c] = [Idle EXCEPT !.pc = "arrived", !.turn = Len(outcome) + 1,
                                                 !.agent = agent, !.pending = size]]
  /\ UNCHANGED <<log, holder, flagged, cancels, mishaps>>

Enter(c) ==
  /\ t[c].pc = "arrived"
  /\ holder = "none"
  /\ holder' = c
  /\ Goto(c, "prepare")
  /\ UNCHANGED <<log, outcome, environment>>

Busy(c) ==
  /\ t[c].pc = "arrived"
  /\ holder # "none"
  /\ outcome' = [outcome EXCEPT ![t[c].turn] = "busy"]
  /\ t' = [t EXCEPT ![c] = Idle]
  /\ UNCHANGED <<log, holder, environment>>

\* A background loop runs a chunk under the lock.
LoopTakes ==
  /\ holder = "none"
  /\ holder' = "loop"
  /\ UNCHANGED <<log, t, outcome, environment>>

LoopReleases ==
  /\ holder = "loop"
  /\ holder' = "none"
  /\ UNCHANGED <<log, t, outcome, environment>>
----------------------------------------------------------------------------
\* Maintenance of the context: before the user message is stored, with the
\* message counted in, and after each round of tool results.

Pending(c) == IF t[c].within THEN 0 ELSE t[c].pending

Prepare(c) ==
  /\ t[c].pc = "prepare"
  /\ Checked(c, /\ UNCHANGED log
                /\ IF Frame + t[c].pending > MaxContext
                   THEN Raise(c, "window") ELSE Goto(c, "prune"))
  /\ Steady /\ UNCHANGED mishaps

Prune(c) ==
  /\ t[c].pc = "prune"
  /\ IF ~NeedsTruncation(Used(log) + Pending(c))
     THEN Goto(c, "weigh") /\ UNCHANGED log
     ELSE IF Unparsable(log)
          THEN Raise(c, "runtime") /\ UNCHANGED log
          ELSE Goto(c, "weigh") /\ log' = Truncated(log)
  /\ Steady /\ UNCHANGED mishaps

AfterMaintenance(c, l) ==
  IF t[c].within THEN Goto(c, "call")
  ELSE IF Used(l) + t[c].pending > MaxContext THEN Raise(c, "window")
  ELSE Goto(c, "append")

\* Mutation: the pending message is not counted in.
Weigh_StoredOnly(c) ==
  /\ t[c].pc = "weigh"
  /\ IF NeedsHandover(Used(log)) /\ Context(log) # {}
     THEN t' = [t EXCEPT ![c].pc = "handing", ![c].reads = Covered(log)]
     ELSE AfterMaintenance(c, log)
  /\ UNCHANGED log /\ Steady /\ UNCHANGED mishaps

\* Mutation: the handover is not given what the tools returned.
Weigh_WithoutResults(c) ==
  /\ t[c].pc = "weigh"
  /\ IF NeedsHandover(Used(log) + Pending(c)) /\ Context(log) # {}
     THEN t' = [t EXCEPT ![c].pc = "handing",
                         ![c].reads = {i \in Covered(log): log[i].kind # "result"}]
     ELSE AfterMaintenance(c, log)
  /\ UNCHANGED log /\ Steady /\ UNCHANGED mishaps

Weigh(c) ==
  /\ t[c].pc = "weigh"
  /\ IF NeedsHandover(Used(log) + Pending(c)) /\ Context(log) # {}
     THEN t' = [t EXCEPT ![c].pc = "handing", ![c].reads = Covered(log)]
     ELSE AfterMaintenance(c, log)
  /\ UNCHANGED log /\ Steady /\ UNCHANGED mishaps

\* The model's summary is stored as the new start of the context.
HandOver(c) ==
  /\ t[c].pc = "handing"
  /\ Store([Message("compressed", c) EXCEPT !.covers = t[c].reads])
  /\ AfterMaintenance(c, log')
  /\ Steady /\ UNCHANGED mishaps

\* One call without retries; any exception ends the turn.
HandOverFails(c) ==
  /\ t[c].pc = "handing"
  /\ \E fault \in {"llm", "store"}: Mishap(fault)
  /\ Raise(c, "runtime")
  /\ UNCHANGED log /\ Steady

AppendUser(c) ==
  /\ t[c].pc = "append"
  /\ Store([Message("user", c) EXCEPT !.size = t[c].pending])
  /\ Goto(c, "perceive")
  /\ Steady /\ UNCHANGED mishaps

Perceive(c) ==
  /\ t[c].pc = "perceive"
  /\ t' = [t EXCEPT ![c].pc = "call", ![c].within = TRUE]
  /\ UNCHANGED log /\ Steady /\ UNCHANGED mishaps
----------------------------------------------------------------------------
\* The loop of model calls and tool calls.

CallModel(c) ==
  /\ t[c].pc = "call"
  /\ Checked(c, t' = [t EXCEPT ![c].pc = "asked", ![c].attempt = 0] /\ UNCHANGED log)
  /\ Steady /\ UNCHANGED mishaps

\* A timeout, a broken connection, 429 or 5xx is tried again, any other error is not.
CallFails(c) ==
  /\ t[c].pc = "asked"
  /\ Mishap("llm")
  /\ \E transient \in BOOLEAN:
       IF transient /\ t[c].attempt < MaxRetries
       THEN t' = [t EXCEPT ![c].attempt = @ + 1]
       ELSE Raise(c, "llm")
  /\ UNCHANGED log /\ Steady

AnswersFinally(c) ==
  /\ t[c].pc = "asked"
  /\ Checked(c, t' = [t EXCEPT ![c].pc = "reply", ![c].rounds = @ + 1] /\ UNCHANGED log)
  /\ Steady /\ UNCHANGED mishaps

LimitReached(c) ==
  t[c].iterations >= MaxToolIterations \/ t[c].rounds + 1 >= MaxLLMRounds

\* Mutation: calls in answer to the reminder are passed over, and the model is asked again.
AnswersWithCalls_Patient(c) ==
  /\ t[c].pc = "asked"
  /\ \E n \in 1..MaxCalls:
       Checked(c,
         /\ UNCHANGED log
         /\ IF t[c].finalizing THEN Goto(c, "call")
            ELSE IF LimitReached(c)
            THEN t' = [t EXCEPT ![c].pc = "call", ![c].rounds = @ + 1, ![c].finalizing = TRUE]
            ELSE t' = [t EXCEPT ![c].pc = "storecalls", ![c].rounds = @ + 1, ![c].n = n])
  /\ Steady /\ UNCHANGED mishaps

\* The answer asks for tools: refused while finalizing, answered by a reminder
\* to finish at the limits, and otherwise followed.
AnswersWithCalls(c) ==
  /\ t[c].pc = "asked"
  /\ \E n \in 1..MaxCalls, bad \in BOOLEAN:
       /\ IF bad THEN Mishap("args") ELSE UNCHANGED mishaps
       /\ Checked(c,
            /\ UNCHANGED log
            /\ IF t[c].finalizing THEN Raise(c, "limit")
               ELSE IF LimitReached(c)
               THEN t' = [t EXCEPT ![c].pc = "call", ![c].rounds = @ + 1, ![c].finalizing = TRUE]
               ELSE t' = [t EXCEPT ![c].pc = "storecalls", ![c].rounds = @ + 1,
                                   ![c].n = n, ![c].bad = bad])
  /\ Steady

\* No call, or a call without an id, where calls were announced.
AnswersGarbled(c) ==
  /\ t[c].pc = "asked"
  /\ Mishap("protocol")
  /\ Checked(c, /\ UNCHANGED log
                /\ Raise(c, IF t[c].finalizing THEN "limit" ELSE "protocol"))
  /\ Steady

StoreCalls(c) ==
  /\ t[c].pc = "storecalls"
  /\ \E size \in {1, Long}:
       Store([Message("call", c) EXCEPT !.n = t[c].n, !.bad = t[c].bad, !.size = size])
  /\ t' = [t EXCEPT ![c].pc = "tool", ![c].next = 1, ![c].done = <<>>]
  /\ Steady /\ UNCHANGED mishaps

Answered(c, size) ==
  [t EXCEPT ![c].pc = "tool", ![c].next = @ + 1, ![c].done = Append(@, size)]

\* The call repeats an earlier one of the turn or is new; what is repeated too
\* often is refused without being run.
StartTool(c) ==
  /\ t[c].pc = "tool"
  /\ t[c].next <= t[c].n
  /\ \E again \in BOOLEAN:
       LET repeats == IF again THEN t[c].repeats + 1 ELSE t[c].repeats
       IN  Checked(c,
             /\ UNCHANGED log
             /\ IF again /\ repeats > BlockAfter
                THEN t' = Answered(c, 1)
                ELSE t' = [t EXCEPT ![c].pc = "running", ![c].repeats = repeats])
  /\ Steady /\ UNCHANGED mishaps

\* A result, or an error in its place.  The cancel flag is looked at once more
\* after a result that does not itself report the cancellation.
EndTool(c) ==
  /\ t[c].pc = "running"
  /\ \E size \in {1, Long}, plain \in BOOLEAN:
       IF plain /\ Canceled(c) THEN Raise(c, "canceled") ELSE t' = Answered(c, size)
  /\ UNCHANGED log /\ Steady /\ UNCHANGED mishaps

\* The ordinal of the message that made the calls under way.
CallOrdinal(c) == Len(log) + 1 - t[c].next

AllRun(c) ==
  /\ t[c].pc = "tool"
  /\ t[c].next > t[c].n
  /\ t' = [t EXCEPT ![c].pc = "results", ![c].next = 1]
  /\ UNCHANGED log /\ Steady /\ UNCHANGED mishaps

\* The results are stored one by one, each in a transaction of its own.
StoreResult(c) ==
  /\ t[c].pc = "results"
  /\ Store([Message("result", c) EXCEPT !.of = CallOrdinal(c), !.n = t[c].next,
                                        !.size = t[c].done[t[c].next]])
  /\ t' = IF t[c].next < Len(t[c].done)
          THEN [t EXCEPT ![c].next = @ + 1]
          ELSE [t EXCEPT ![c].pc = "prune", ![c].iterations = @ + 1]
  /\ Steady /\ UNCHANGED mishaps

AppendReply(c) ==
  /\ t[c].pc = "reply"
  /\ Store(Message("reply", c))
  /\ Goto(c, "acted")
  /\ Steady /\ UNCHANGED mishaps

\* The events ACTED and TURN_SOURCES_RECORDED, then the answer to the caller.
Acted(c) ==
  /\ t[c].pc = "acted"
  /\ Goto(c, "sources")
  /\ UNCHANGED log /\ Steady /\ UNCHANGED mishaps

Finish(c) ==
  /\ t[c].pc = "sources"
  /\ outcome' = [outcome EXCEPT ![t[c].turn] = "answered"]
  /\ t' = [t EXCEPT ![c] = Idle]
  /\ holder' = "none"
  /\ UNCHANGED <<log, environment>>
----------------------------------------------------------------------------
\* Failures

Writing ==
  {"prepare", "prune", "append", "perceive", "call", "asked", "storecalls", "tool", "running",
   "results", "reply", "acted", "sources"}

\* A message, an event or a trace cannot be written.
StoreFails(c) ==
  /\ t[c].pc \in Writing
  /\ Mishap("store")
  /\ Raise(c, "runtime")
  /\ UNCHANGED log /\ Steady

\* Mutation: the flag is left to the next turn.
Fail_KeepsFlag(c) ==
  /\ t[c].pc = "failing"
  /\ outcome' = [outcome EXCEPT ![t[c].turn] = t[c].cause]
  /\ t' = [t EXCEPT ![c] = Idle]
  /\ holder' = "none"
  /\ UNCHANGED <<log, cached, agents, flagged, cancels, mishaps>>

\* The handlers of respond(): the trace turn.failed, the flag, the locks.
Fail(c) ==
  /\ t[c].pc = "failing"
  /\ outcome' = [outcome EXCEPT ![t[c].turn] = t[c].cause]
  /\ flagged' = flagged \ {t[c].agent}
  /\ t' = [t EXCEPT ![c] = Idle]
  /\ holder' = "none"
  /\ UNCHANGED <<log, cached, agents, cancels, mishaps>>

\* The trace itself cannot be written: the flag stays as it is.
FailUntraced(c) ==
  /\ t[c].pc = "failing"
  /\ Mishap("store")
  /\ outcome' = [outcome EXCEPT ![t[c].turn] = "untraced"]
  /\ t' = [t EXCEPT ![c] = Idle]
  /\ holder' = "none"
  /\ UNCHANGED <<log, cached, agents, flagged, cancels>>

Crash ==
  /\ Mishap("crash")
  /\ t' = [c \in Callers |-> Idle]
  /\ outcome' = [n \in DOMAIN outcome |-> IF outcome[n] = "running" THEN "crashed" ELSE outcome[n]]
  /\ holder' = "none"
  /\ cached' = 0
  /\ flagged' = {}
  /\ UNCHANGED <<log, agents, cancels>>

\* AgentManager.cancel(): the flag of the agent in the cache, if there is one.
Cancel ==
  /\ Mishap("cancel")
  /\ cached # 0
  /\ flagged' = flagged \union {cached}
  /\ cancels' = cancels + 1
  /\ UNCHANGED <<log, t, holder, outcome, cached, agents>>

\* Idle for too long, or one session too many: a running turn does not count.
Evict ==
  /\ Mishap("evict")
  /\ cached # 0
  /\ cached' = 0
  /\ UNCHANGED <<log, t, holder, outcome, agents, flagged, cancels>>
----------------------------------------------------------------------------
Maintenance(c) ==
  Prepare(c) \/ Prune(c) \/ Weigh(c) \/ HandOver(c) \/ HandOverFails(c)

Loop(c) ==
  \/ CallModel(c) \/ CallFails(c) \/ AnswersFinally(c) \/ AnswersWithCalls(c)
  \/ AnswersGarbled(c) \/ StoreCalls(c) \/ StartTool(c) \/ EndTool(c) \/ AllRun(c)
  \/ StoreResult(c)

Step(c) ==
  \/ Enter(c) \/ Busy(c) \/ Maintenance(c) \/ AppendUser(c) \/ Perceive(c) \/ Loop(c)
  \/ AppendReply(c) \/ Acted(c) \/ Finish(c) \/ StoreFails(c) \/ Fail(c) \/ FailUntraced(c)

TurnNext ==
  \/ \E c \in Callers: Begin(c) \/ Step(c)
  \/ LoopTakes \/ LoopReleases
  \/ Crash \/ Cancel \/ Evict

TurnSpec == TurnInit /\ [][TurnNext]_turnVars

\* Each thread goes on; a model call and a tool end at some time, well or badly.
TurnFairSpec == TurnSpec /\ \A c \in Callers: WF_turnVars(Step(c))
=============================================================================
