--------------------------- MODULE AgentTurnProps ---------------------------
(***************************************************************************)
(* Properties of the turns of a session.                                   *)
(***************************************************************************)
EXTENDS AgentTurn, ToolOutput, Functions

CONSTANTS TriedOutputs, TriedCalls, TriedLimits, TriedTrims  \* what OutputsStayReadable looks at

\* All are sizes, of any texts and of structures with any parts.
ASSUME OutputAssumption ==
  /\ \A o \in TriedOutputs:
       /\ o.form \in {"text", "mapping"}
       /\ o.parts \in [DOMAIN o.parts -> Nat] /\ IsFiniteSet(DOMAIN o.parts)
       /\ \A k \in 0..SizeOf(o.parts): MarkerSize(k) \in Nat
  /\ TriedLimits \union TriedTrims \subseteq Nat
  /\ {NoteSize, FactsSize, ReplayMarker} \subseteq Nat

\* No prompt shows a tool result without the message whose call it answers:
\* no compaction, cut-off turn or crash ever separates the two the wrong way
\* round, which a provider would refuse (session_context.py load()).
ResultsFollowCalls ==
  \A i \in Context(log): log[i].kind = "result" =>
    /\ log[i].of \in Context(log)
    /\ log[i].of < i
    /\ log[log[i].of].kind = "call"
    /\ log[i].n \in 1..log[log[i].of].n

\* The calls of message i that have no result in the prompt.
Unanswered(i) ==
  {n \in 1..log[i].n: ~\E j \in Context(log): log[j].kind = "result" /\ log[j].of = i /\ log[j].n = n}

\* When the model is asked, a call without a result is left from an earlier
\* turn that was cut off.  In the turn itself, and in any that was answered,
\* each call has its result, be it an error or a refusal (agent.py:1000).
UnansweredIsCutOff ==
  \A c \in Callers: t[c].pc = "asked" =>
    \A i \in Context(log): log[i].kind = "call" /\ Unanswered(i) # {} =>
      outcome[log[i].turn] \notin {"running", "answered"}

\* Calls and results agree in every prompt: no result is there without its
\* call, and a call without its result tells of a turn that was cut off.
CallsAndResultsAgree == ResultsFollowCalls /\ UnansweredIsCutOff

\* Two handovers never read the same message, so that the extraction jobs made
\* of them never draw a belief from one message twice (context_handover.py:251).
HandedOverOnce ==
  \A i, j \in DOMAIN log: i # j => log[i].covers \intersect log[j].covers = {}

\* A turn stores one request and at most one reply, the reply is the last thing
\* it says, and nobody else speaks in between.
TurnsInOrder ==
  \A i, j \in DOMAIN log: i < j =>
    /\ log[i].turn = log[j].turn =>
         log[i].kind # "reply" /\ ~(log[i].kind = "user" /\ log[j].kind = "user")
    /\ log[j].turn # log[i].turn =>
         ~\E k \in DOMAIN log: k > j /\ log[k].turn = log[i].turn

\* A cancel stops one turn at most: the flag does not survive the turn that
\* reported itself canceled (agent.py:474).
CanceledOnce ==
  Cardinality({n \in DOMAIN outcome: outcome[n] = "canceled"}) <= cancels

\* Turns do not meddle with each other: neither in what is stored, nor by a
\* cancel that stays behind in the agent, though eviction looks at no turn.
TurnsKeepApart == TurnsInOrder /\ CanceledOnce

\* Whoever is told that a message is too large for the context could not have
\* sent it after a handover either: pruning and handover made all the room
\* there was to make (agent.py:582).
RoomIsMade ==
  \A c \in Callers: t[c].pc = "failing" /\ t[c].cause = "window" =>
    Frame + 1 + t[c].pending > MaxContext

\* How the output of a call is told to the model, and told again when the
\* context was pruned.
ToldWell(o, raised, repeats, limit, max) ==
  LET r == Result(o, raised, repeats)
      m == ToolMessage(r, limit)
      least == IF r.form = "mapping" THEN Min({SizeOf(c): c \in Range(Candidates(r))}) ELSE 0
  IN  /\ Readable(m) /\ Readable(Trimmed(m, max))
      /\ SizeOf(m.view.parts) <= Max({limit, least})
      /\ IsError(r) => "code" \in DOMAIN Trimmed(m, max).view.parts

AllToldWell ==
  \A o \in TriedOutputs, raised \in BOOLEAN, repeats \in {RepeatCount(s): s \in TriedCalls},
     limit \in TriedLimits, max \in TriedTrims:
    ToldWell(o, raised, repeats, limit, max)

\* Whatever a tool returns but a list, and however small its limit: what is
\* stored parses when it is said to be JSON, now and after its strings were cut
\* (session_context.py:263), it is within the limit where the code has any form
\* that is, and an error keeps the code that the model is to react to.
OutputsStayReadable == (\E c \in Callers: t[c].pc = "results") => AllToldWell

\* What was said in a session stays in the model's sight, word for word or in
\* the gist that a handover made of it.
History ==
  INSTANCE SessionHistory WITH
    said <- {i \in DOMAIN log: log[i].kind \in Ordinary},
    verbatim <- Shown(log),
    gist <- UNION {log[i].covers: i \in DOMAIN log}

ImplementsSessionHistory == History!Spec

\* A turn that begins ends, however often the model asks for tools: it answers,
\* fails or is refused.
TurnEnds == \A c \in Callers: t[c].pc # "idle" ~> t[c].pc = "idle"
=============================================================================
