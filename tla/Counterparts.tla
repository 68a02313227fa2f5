---------------------------- MODULE Counterparts ----------------------------
(***************************************************************************)
(* Whom a session is talking to, and what its prompt says of them: the     *)
(* routing of a turn's source to a counterpart                             *)
(* (runtime/counterpart_router.py), the events and the view that remember  *)
(* it (cognition/projections/counterpart.py), and the binding and the      *)
(* snapshots of summaries that are made once per session                   *)
(* (runtime/agent.py, state/store.py).                                     *)
(*                                                                         *)
(* The first user who writes takes the default counterpart over from the   *)
(* nameless local client; each further one gets a counterpart of its own,  *)
(* named by a digest of the identity.  The daemon runs the turns of all    *)
(* sessions under the one lock of the subject, but "cognition drive" runs  *)
(* a turn of its own in another process; each turn is a series of          *)
(* transactions, and may fail or be killed between any two.                *)
(***************************************************************************)
EXTENDS Integers, Sequences

CONSTANTS
  Users,        \* the identities that sources may name: platform and user id
  Main,         \* the default counterpart, and the identity of the local user
  None,         \* no identity, no counterpart, no snapshot
  Sessions,
  Daemon,       \* the process that runs the turns of clients and platforms
  Drives,       \* the processes that run a turn for a goal
  MaxTurns,     \* how many turns begin (bound)
  MaxSummaries  \* how many summaries the background workers write (bound)

ASSUME Counterparts_Assumption ==
  /\ Main \notin Users /\ None \notin Users \union {Main}
  /\ Daemon \notin Drives
  /\ MaxTurns \in Nat /\ MaxSummaries \in Nat

\* The counterparts: the digest of an identity stands for the identity.
Ids == Users \union {Main}

\* What a turn's metadata says of its source: an identity or none, or that
\* it is a signal of the agent to itself, for a counterpart or for nobody.
Sources ==
  [kind: {"user_message"}, identity: Users \union {None}]
  \union [kind: {"self_signal"}, identity: Ids \union {None}]

EventKinds == {"first_observed", "identified"}

Events == [kind: EventKinds, id: Ids, identity: Ids]

Processes == {Daemon} \union Drives

\* What the prompt of a session begins with, in this order.
Kinds == {"self_memory", "profile"}

Stages == {"resolve", "project", "bind", "look", "keep"}

VARIABLES
  log,        \* the counterpart events, in their order
  view,       \* the identity in the view's row of a counterpart, or None
  bindings,   \* whom a session is bound to, and by which source
  summaries,  \* the summaries of the self (about None) and of counterparts
  snapshots,  \* per session and kind, the summary its prompt begins with
  turn,       \* the turn of each process
  turns       \* how many turns have begun

vars == <<log, view, bindings, summaries, snapshots, turn, turns>>

Unbound == [counterpart |-> None, source |-> [kind |-> "user_message", identity |-> None]]

NoTurn == [at |-> "none"]

Init ==
  /\ log = <<>>
  /\ view = [c \in Ids |-> None]
  /\ bindings = [s \in Sessions |-> Unbound]
  /\ summaries = <<>>
  /\ snapshots = [s \in Sessions |-> [k \in Kinds |-> None]]
  /\ turn = [p \in Processes |-> NoTurn]
  /\ turns = 0

-----------------------------------------------------------------------------
\* The events of a counterpart, and the last of them.
EventsOf(c) == {i \in DOMAIN log: log[i].id = c}

LastEvent(c) == CHOOSE i \in EventsOf(c): \A j \in EventsOf(c): j <= i

\* What the view says, else what the events of the log amount to: a later
\* one overwrites platform and user id.
Identity(c) ==
  IF view[c] # None THEN view[c]
  ELSE IF EventsOf(c) # {} THEN log[LastEvent(c)].identity
  ELSE None

AlreadyObserved(c) ==
  \/ view[c] # None
  \/ \E i \in DOMAIN log: log[i].kind = "first_observed" /\ log[i].id = c

\* Mutation: an event the view has missed is not looked for
ClaimableByView == view[Main] \in {None, Main}

DefaultCanBeClaimed == Identity(Main) \in {None, Main}

Routed(u) ==
  IF u = None \/ Identity(Main) = u \/ DefaultCanBeClaimed THEN Main ELSE u

-----------------------------------------------------------------------------
\* What a turn does next, once it knows whom it is with.
Goes(p, at) == turn' = [turn EXCEPT ![p].at = at]

Finds(p, at, c) == turn' = [turn EXCEPT ![p].at = at, ![p].ref = c]

\* A turn begins: with the binding of its session, or to find one.  A drive
\* signals the agent; it never routes a source.
FirstStage(s, source) ==
  IF bindings[s] # Unbound THEN "look"
  ELSE IF source.kind = "user_message" THEN "resolve"
  ELSE IF source.identity = None THEN "look"
  ELSE "bind"

FirstRef(s, source) ==
  IF bindings[s] # Unbound THEN bindings[s].counterpart
  ELSE IF source.kind = "self_signal" THEN source.identity
  ELSE None

BeginTurn(p, s, source) ==
  /\ turn[p] = NoTurn
  /\ turns < MaxTurns
  /\ p \in Drives => source.kind = "self_signal"
  /\ turns' = turns + 1
  /\ turn' = [turn EXCEPT ![p] =
       [at |-> FirstStage(s, source), session |-> s, source |-> source,
        ref |-> FirstRef(s, source), kind |-> "self_memory", found |-> None]]
  /\ UNCHANGED <<log, view, bindings, summaries, snapshots>>

\* The source is routed; a counterpart seen for the first time, and the user
\* who takes the default one over, are events.
Emit(p, kind, c, identity) ==
  /\ log' = Append(log, [kind |-> kind, id |-> c, identity |-> identity])
  /\ Finds(p, "project", c)

TakesOver(c, u) == c = Main /\ u # None /\ Identity(Main) # u

Route(p) ==
  /\ turn[p].at = "resolve"
  /\ LET u == turn[p].source.identity
         c == Routed(u)
     IN \/ /\ ~AlreadyObserved(c)
           /\ Emit(p, "first_observed", c, IF u = None THEN Main ELSE u)
        \/ /\ AlreadyObserved(c) /\ TakesOver(c, u)
           /\ Emit(p, "identified", c, u)
        \/ /\ AlreadyObserved(c) /\ ~TakesOver(c, u)
           /\ Finds(p, "bind", c)
           /\ UNCHANGED log
  /\ UNCHANGED <<view, bindings, summaries, snapshots, turns>>

\* The event just emitted reaches the view, which makes the row it lacks.
Applied(e) == [view EXCEPT ![e.id] = e.identity]

Project(p) ==
  /\ turn[p].at = "project"
  /\ view' = Applied(log[Len(log)])
  /\ Goes(p, "bind")
  /\ UNCHANGED <<log, bindings, summaries, snapshots, turns>>

\* INSERT OR IGNORE, and the row as it is then read.
BindingOf(p, s) ==
  IF bindings[s] # Unbound THEN bindings[s]
  ELSE [counterpart |-> turn[p].ref, source |-> turn[p].source]

Bind(p) ==
  /\ turn[p].at = "bind"
  /\ LET s == turn[p].session
     IN /\ bindings' = [bindings EXCEPT ![s] = BindingOf(p, s)]
        /\ Finds(p, "look", BindingOf(p, s).counterpart)
  /\ UNCHANGED <<log, view, summaries, snapshots, turns>>

-----------------------------------------------------------------------------
\* The summaries that could be shown: active, of the kind, about the subject.
Showable(about) == {i \in DOMAIN summaries: summaries[i].active /\ summaries[i].about = about}

\* The latest of them, or None.
LatestSummary(about) ==
  IF Showable(about) = {} THEN None
  ELSE CHOOSE i \in Showable(about): \A j \in Showable(about): j <= i

\* What a turn finds to show of a kind; without a counterpart, no profile.
Found(p, kind) ==
  IF kind = "self_memory" THEN LatestSummary(None)
  ELSE IF turn[p].ref = None THEN None
  ELSE LatestSummary(turn[p].ref)

\* The next kind is looked for; after the last the turn goes on with its
\* prompt (module AgentTurn) and ends.
NextKind(p) ==
  IF turn[p].kind = "self_memory"
  THEN turn' = [turn EXCEPT ![p].kind = "profile", ![p].at = "look", ![p].found = None]
  ELSE turn' = [turn EXCEPT ![p] = NoTurn]

\* A session that has a snapshot of the kind keeps it.
Look(p) ==
  /\ turn[p].at = "look"
  /\ LET has == snapshots[turn[p].session][turn[p].kind] # None
         found == Found(p, turn[p].kind)
     IN \/ /\ has \/ found = None
           /\ NextKind(p)
        \/ /\ ~has /\ found # None
           /\ turn' = [turn EXCEPT ![p].at = "keep", ![p].found = found]
  /\ UNCHANGED <<log, view, bindings, summaries, snapshots, turns>>

\* INSERT OR IGNORE
\* Mutation: INSERT OR REPLACE
Replacing(old, new) == new

Inserted(old, new) == IF old # None THEN old ELSE new

Keep(p) ==
  /\ turn[p].at = "keep"
  /\ snapshots' = [snapshots EXCEPT ![turn[p].session][turn[p].kind] = Inserted(@, turn[p].found)]
  /\ NextKind(p)
  /\ UNCHANGED <<log, view, bindings, summaries, turns>>

\* The turn fails, or its process is killed; all of this is in the store.
TurnLost(p) ==
  /\ turn[p] # NoTurn
  /\ turn' = [turn EXCEPT ![p] = NoTurn]
  /\ UNCHANGED <<log, view, bindings, summaries, snapshots, turns>>

\* A worker writes a summary (module MemorySummary), in the daemon or in a
\* process of its own: it takes the place of the one before, unless the
\* worker is killed between its two transactions.
Summarise(about, superseded) ==
  /\ Len(summaries) < MaxSummaries
  /\ summaries' = Append(
       [i \in DOMAIN summaries |->
         [summaries[i] EXCEPT !.active = @ /\ ~(superseded /\ summaries[i].about = about)]],
       [about |-> about, active |-> TRUE])
  /\ UNCHANGED <<log, view, bindings, snapshots, turn, turns>>

Next ==
  \/ \E p \in Processes:
       \/ \E s \in Sessions, source \in Sources: BeginTurn(p, s, source)
       \/ Route(p) \/ Project(p) \/ Bind(p)
       \/ Look(p) \/ Keep(p)
       \/ TurnLost(p)
  \/ \E about \in Ids \union {None}, superseded \in BOOLEAN: Summarise(about, superseded)

Spec == Init /\ [][Next]_vars
=============================================================================
