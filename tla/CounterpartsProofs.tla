------------------------ MODULE CounterpartsProofs ------------------------
(***************************************************************************)
(* Proofs about Counterparts, for any number of users, sessions and turns: *)
(* two users never share a counterpart, and a session's prompt begins with *)
(* its own.                                                                *)
(***************************************************************************)
EXTENDS CounterpartsProps, WellFoundedInduction, TLAPS

-----------------------------------------------------------------------------
(***************************************************************************)
(* The last event of a counterpart.                                        *)
(***************************************************************************)

\* Numbers that are bounded have a largest among them.
LEMMA HasLargest ==
  ASSUME NEW S, S \subseteq Nat, S # {}, NEW b \in Nat, \A i \in S: i <= b
  PROVE  \E m \in S: \A i \in S: i <= m
<1> DEFINE T == {n \in Nat: \A i \in S: i <= n}
<1>1. PICK m \in T: \A n \in T: <<n, m>> \notin OpToRel(<, Nat)
  <2>1. T # {} /\ T \subseteq Nat
    OBVIOUS
  <2> HIDE DEF T
  <2> QED BY <2>1, NatLessThanWellFounded, WFMin
<1>2. m \in Nat /\ \A i \in S: i <= m
  OBVIOUS
<1>3. ASSUME m \notin S PROVE FALSE
  <2>1. PICK i \in S: TRUE
    OBVIOUS
  <2>2. i < m /\ m - 1 \in Nat
    BY <1>2, <1>3, <2>1
  <2>3. \A j \in S: j <= m - 1
    BY <1>2, <1>3
  <2>4. m - 1 \in T
    BY <2>2, <2>3
  <2>5. <<m - 1, m>> \in OpToRel(<, Nat)
    BY <1>2, <2>2 DEF OpToRel
  <2> QED BY <1>1, <2>4, <2>5
<1> QED BY <1>2, <1>3

\* What an event appended makes of the last event of a counterpart.
LEMMA LastAppended ==
  ASSUME log \in Seq(Events), NEW e \in Events, log' = Append(log, e), NEW c
  PROVE  /\ e.id = c => EventsOf(c)' # {} /\ (log[LastEvent(c)])' = e
         /\ e.id # c => /\ EventsOf(c)' = EventsOf(c)
                        /\ EventsOf(c) # {} => (log[LastEvent(c)])' = log[LastEvent(c)]
<1>1. /\ Len(log) \in Nat /\ DOMAIN log = 1..Len(log)
      /\ DOMAIN log' = 1..(Len(log) + 1)
      /\ log'[Len(log) + 1] = e
      /\ \A i \in 1..Len(log): log'[i] = log[i]
  OBVIOUS
<1>2. CASE e.id = c
  <2>1. Len(log) + 1 \in EventsOf(c)' /\ \A j \in EventsOf(c)': j <= Len(log) + 1 /\ j \in Nat
    BY <1>1, <1>2 DEF EventsOf
  <2>2. LastEvent(c)' = Len(log) + 1
    <3>1. \A m \in EventsOf(c)': (\A j \in EventsOf(c)': j <= m) => m = Len(log) + 1
      BY <1>1, <2>1
    <3> QED BY <2>1, <3>1 DEF LastEvent
  <2> QED BY <1>1, <1>2, <2>1, <2>2
<1>3. CASE e.id # c
  <2>1. EventsOf(c)' = EventsOf(c)
    BY <1>1, <1>3 DEF EventsOf
  <2>2. ASSUME EventsOf(c) # {} PROVE LastEvent(c) \in EventsOf(c)
    <3>1. EventsOf(c) \subseteq Nat /\ \A i \in EventsOf(c): i <= Len(log)
      BY <1>1 DEF EventsOf
    <3>2. \E m \in EventsOf(c): \A i \in EventsOf(c): i <= m
      BY <1>1, <2>2, <3>1, HasLargest
    <3> QED BY <3>2 DEF LastEvent
  <2>3. LastEvent(c)' = LastEvent(c)
    BY <2>1 DEF LastEvent
  <2> QED BY <1>1, <1>3, <2>1, <2>2, <2>3 DEF EventsOf
<1> QED BY <1>2, <1>3

\* The last event of the log is the last of its counterpart.
LEMMA LastIsLast ==
  ASSUME log \in Seq(Events), Len(log) > 0
  PROVE  /\ EventsOf(log[Len(log)].id) # {}
         /\ log[LastEvent(log[Len(log)].id)] = log[Len(log)]
<1> DEFINE c == log[Len(log)].id
<1>1. Len(log) \in EventsOf(c) /\ \A j \in EventsOf(c): j <= Len(log) /\ j \in Nat
  BY DEF EventsOf
<1>2. \A m \in EventsOf(c): (\A j \in EventsOf(c): j <= m) => m = Len(log)
  BY <1>1
<1>3. LastEvent(c) = Len(log)
  BY <1>1, <1>2 DEF LastEvent
<1> QED BY <1>1, <1>3

-----------------------------------------------------------------------------
(***************************************************************************)
(* Users stay apart.  The strengthening says what a user's counterpart is  *)
(* at each moment: the default one while it is theirs, their own once it   *)
(* is another user's.                                                      *)
(***************************************************************************)

Assigned(c, u) ==
  \/ c = Main /\ Identity(Main) = u
  \/ c = u /\ Identity(Main) \in Users \ {u}

\* The default counterpart has an identity or none, and no event but the
\* first makes a counterpart known.
Remembered ==
  /\ \A c \in Ids: Identity(c) \in Ids \union {None}
  /\ \A c \in Ids: EventsOf(c) # {} => AlreadyObserved(c)

\* An event that the view has not seen yet is the daemon's own, and takes
\* the default counterpart from nobody.
Pending ==
  turn[Daemon].at = "project" =>
    LET t == turn[Daemon]
        e == log[Len(log)]
    IN /\ Len(log) > 0
       /\ e.id = t.ref
       /\ e.identity = IF t.source.identity = None THEN Main ELSE t.source.identity
       /\ t.ref = Main => view[Main] \in {None, Main}
       /\ t.ref # Main => Assigned(t.ref, t.source.identity)

\* Only the daemon routes; and what a turn is about to bind is assigned.
Ready(p) ==
  /\ turn[p].at \in {"resolve", "project"} => p = Daemon /\ turn[p].source.kind = "user_message"
  /\ turn[p].at \in {"project", "bind"} => turn[p].ref \in Ids
  /\ turn[p].at = "bind" /\ turn[p].source.kind = "user_message" /\ turn[p].source.identity # None =>
       Assigned(turn[p].ref, turn[p].source.identity)

AllReady == \A p \in Processes: Ready(p)

BoundAsAssigned ==
  \A s \in Sessions: ByUser(s) => Assigned(bindings[s].counterpart, bindings[s].source.identity)

Routing == Remembered /\ Pending /\ AllReady /\ BoundAsAssigned

RoutingInv == TypeOK /\ Routing

LEMMA InitRoutingInv == Init => RoutingInv
<1> SUFFICES ASSUME Init PROVE RoutingInv
  OBVIOUS
<1>1. TypeOK
  BY Counterparts_Assumption DEF Init, TypeOK, Unbound, Sources
<1>2. \A c \in Ids: Identity(c) = None /\ EventsOf(c) = {}
  BY DEF Init, Identity, EventsOf
<1>3. \A p \in Processes: turn[p].at = "none"
  BY DEF Init, NoTurn
<1>4. Pending /\ AllReady
  BY <1>3 DEF Pending, AllReady, Ready, Processes
<1> QED
  BY <1>1, <1>2, <1>4 DEF Init, RoutingInv, Routing, Remembered, BoundAsAssigned, ByUser

\* What leaves the log and the view alone leaves everyone's counterpart.
LEMMA IdentityStays ==
  ASSUME UNCHANGED <<log, view>>, NEW c
  PROVE  Identity(c)' = Identity(c) /\ EventsOf(c)' = EventsOf(c)
         /\ AlreadyObserved(c)' = AlreadyObserved(c)
BY DEF Identity, EventsOf, LastEvent, AlreadyObserved

\* A process whose turn has a stage has a turn.
LEMMA TurnType ==
  ASSUME TypeOK, NEW p \in Processes, turn[p].at # "none"
  PROVE  turn[p] \in Turns
BY DEF TypeOK, NoTurn

\* A turn moved to another stage is still one.
LEMMA TurnsStay ==
  ASSUME TypeOK, NEW p \in Processes, NEW t \in Turns \union {NoTurn}, turn' = [turn EXCEPT ![p] = t]
  PROVE  /\ turn' \in [Processes -> {NoTurn} \union Turns]
         /\ turn'[p] = t /\ \A q \in Processes \ {p}: turn'[q] = turn[q]
BY DEF TypeOK

LEMMA GoesTo ==
  ASSUME TypeOK, NEW p \in Processes, turn[p] \in Turns,
         NEW at \in Stages, NEW c \in Ids \union {None}, Finds(p, at, c) \/ (Goes(p, at) /\ c = turn[p].ref)
  PROVE  /\ turn' \in [Processes -> {NoTurn} \union Turns]
         /\ turn'[p] = [turn[p] EXCEPT !.at = at, !.ref = c]
         /\ turn'[p].at = at /\ turn'[p].ref = c
         /\ turn'[p].source = turn[p].source /\ turn'[p].session = turn[p].session
         /\ \A q \in Processes \ {p}: turn'[q] = turn[q]
<1> DEFINE t == [turn[p] EXCEPT !.at = at, !.ref = c]
<1>1. t \in Turns
  BY DEF Turns
<1>2. turn' = [turn EXCEPT ![p] = t]
  BY DEF Finds, Goes, Turns, TypeOK
<1>3. t.at = at /\ t.ref = c /\ t.source = turn[p].source /\ t.session = turn[p].session
  BY DEF Turns
<1> HIDE DEF t
<1>4. t = [turn[p] EXCEPT !.at = at, !.ref = c]
  BY DEF t
<1> QED BY <1>1, <1>2, <1>3, <1>4, TurnsStay

LEMMA KindType ==
  ASSUME TypeOK, NEW p \in Processes, turn[p] \in Turns, NextKind(p)
  PROVE  /\ turn' \in [Processes -> {NoTurn} \union Turns]
         /\ \/ /\ turn'[p].at = "look" /\ turn'[p].ref = turn[p].ref
               /\ turn'[p].session = turn[p].session
            \/ turn'[p] = NoTurn
         /\ \A q \in Processes \ {p}: turn'[q] = turn[q]
<1> DEFINE t == [turn[p] EXCEPT !.kind = "profile", !.at = "look", !.found = None]
<1>1. t \in Turns /\ t.at = "look" /\ t.ref = turn[p].ref /\ t.session = turn[p].session
  BY DEF Turns, Stages, Kinds
<1>2. turn' = [turn EXCEPT ![p] = t] \/ turn' = [turn EXCEPT ![p] = NoTurn]
  BY DEF NextKind, Turns, TypeOK
<1> HIDE DEF t
<1> QED BY <1>1, <1>2, TurnsStay

LEMMA EmitType ==
  ASSUME TypeOK, NEW p \in Processes, turn[p] \in Turns,
         NEW kind \in EventKinds, NEW c \in Ids, NEW x \in Ids, Emit(p, kind, c, x)
  PROVE  log' \in Seq(Events) /\ turn' \in [Processes -> {NoTurn} \union Turns]
<1>1. [kind |-> kind, id |-> c, identity |-> x] \in Events
  BY DEF Events
<1>2. log' \in Seq(Events)
  BY <1>1 DEF Emit, TypeOK
<1>3. "project" \in Stages /\ Finds(p, "project", c)
  BY DEF Emit, Stages
<1> QED BY <1>2, <1>3, GoesTo

LEMMA RoutedType ==
  ASSUME NEW u \in Users \union {None}
  PROVE  Routed(u) \in Ids
BY DEF Routed, Ids

\* A summary that is there stays, and so does whom it is about.
LEMMA SummariesStay ==
  ASSUME TypeOK, NEW about \in Ids \union {None}, NEW superseded \in BOOLEAN, Summarise(about, superseded)
  PROVE  /\ summaries' \in Seq([about: Ids \union {None}, active: BOOLEAN])
         /\ \A i \in DOMAIN summaries: i \in DOMAIN summaries' /\ summaries'[i].about = summaries[i].about
<1> DEFINE older == [i \in DOMAIN summaries |->
         [summaries[i] EXCEPT !.active = @ /\ ~(superseded /\ summaries[i].about = about)]]
           Summaries == [about: Ids \union {None}, active: BOOLEAN]
<1>1. Len(summaries) \in Nat /\ DOMAIN summaries = 1..Len(summaries) /\ summaries \in Seq(Summaries)
  BY DEF TypeOK
<1>2. ASSUME NEW i \in DOMAIN summaries PROVE older[i] \in Summaries /\ older[i].about = summaries[i].about
  <2>1. summaries[i] \in Summaries
    <3> HIDE DEF Summaries
    <3> QED BY <1>1
  <2> QED BY <2>1
<1>3. older \in Seq(Summaries) /\ Len(older) = Len(summaries)
  <2>1. older \in [1..Len(summaries) -> Summaries]
    BY <1>1, <1>2
  <2> HIDE DEF older, Summaries
  <2> QED BY <1>1, <2>1
<1>4. summaries' = Append(older, [about |-> about, active |-> TRUE])
  BY DEF Summarise
<1> HIDE DEF older
<1>5. [about |-> about, active |-> TRUE] \in Summaries
  OBVIOUS
<1> HIDE DEF Summaries
<1>6. summaries' \in Seq(Summaries)
  BY <1>3, <1>4, <1>5
<1>7. \A i \in DOMAIN summaries: i \in DOMAIN summaries' /\ summaries'[i].about = summaries[i].about
  BY <1>1, <1>2, <1>3, <1>4
<1> QED BY <1>6, <1>7 DEF Summaries

\* The latest summary is one of those that could be shown.
LEMMA LatestIsShowable ==
  ASSUME TypeOK, NEW about
  PROVE  /\ LatestSummary(about) \in Nat \union {None}
         /\ LatestSummary(about) # None =>
              LatestSummary(about) \in DOMAIN summaries /\ summaries[LatestSummary(about)].about = about
<1>1. Len(summaries) \in Nat /\ DOMAIN summaries = 1..Len(summaries)
  BY DEF TypeOK
<1>2. Showable(about) \subseteq Nat /\ \A i \in Showable(about): i <= Len(summaries)
  BY <1>1 DEF Showable
<1>3. ASSUME Showable(about) # {} PROVE LatestSummary(about) \in Showable(about)
  <2>1. \E m \in Showable(about): \A i \in Showable(about): i <= m
    BY <1>1, <1>2, <1>3, HasLargest
  <2> QED BY <1>3, <2>1 DEF LatestSummary
<1>4. Showable(about) = {} => LatestSummary(about) = None
  BY DEF LatestSummary
<1> QED BY <1>1, <1>2, <1>3, <1>4 DEF Showable

LEMMA StepTypeOK == RoutingInv /\ [Next]_vars => TypeOK'
<1> SUFFICES ASSUME RoutingInv, [Next]_vars PROVE TypeOK'
  OBVIOUS
<1> USE DEF Stages
<1>1. TypeOK /\ Pending /\ AllReady
  BY DEF RoutingInv, Routing
<1>2. CASE UNCHANGED vars
  BY <1>1, <1>2 DEF vars, TypeOK
<1>3. ASSUME NEW p \in Processes, NEW s \in Sessions, NEW source \in Sources, BeginTurn(p, s, source) PROVE TypeOK'
  <2> DEFINE t == [at |-> FirstStage(s, source), session |-> s, source |-> source,
                   ref |-> FirstRef(s, source), kind |-> "self_memory", found |-> None]
  <2>1. turns' \in 0..MaxTurns
    BY <1>1, <1>3, Counterparts_Assumption DEF BeginTurn, TypeOK
  <2>2. FirstRef(s, source) \in Ids \union {None}
    BY <1>1 DEF FirstRef, Sources, TypeOK
  <2>3. FirstStage(s, source) \in Stages
    BY DEF FirstStage
  <2>4. t \in Turns
    BY <2>2, <2>3 DEF Turns, Kinds
  <2>5. turn' = [turn EXCEPT ![p] = t]
    BY <1>3 DEF BeginTurn
  <2> HIDE DEF t
  <2>6. turn' \in [Processes -> {NoTurn} \union Turns]
    BY <1>1, <2>4, <2>5, TurnsStay
  <2> QED BY <1>1, <1>3, <2>1, <2>6 DEF BeginTurn, TypeOK
<1>4. ASSUME NEW p \in Processes, Route(p) PROVE TypeOK'
  <2>1. turn[p] \in Turns /\ turn[p].source.identity \in Users \union {None}
    BY <1>1, <1>4, TurnType DEF Route, AllReady, Ready, Turns, Sources
  <2>2. Routed(turn[p].source.identity) \in Ids
    BY <2>1, RoutedType
  <2> DEFINE c == Routed(turn[p].source.identity)
  <2>3. (IF turn[p].source.identity = None THEN Main ELSE turn[p].source.identity) \in Ids
    BY <2>1 DEF Ids
  <2>4. ASSUME NEW kind \in EventKinds, NEW x \in Ids, Emit(p, kind, c, x)
        PROVE  log' \in Seq(Events) /\ turn' \in [Processes -> {NoTurn} \union Turns]
    <3> HIDE DEF c
    <3> QED BY <1>1, <2>1, <2>2, <2>4, EmitType DEF c
  <2>5. ASSUME Finds(p, "bind", c), UNCHANGED log
        PROVE  log' \in Seq(Events) /\ turn' \in [Processes -> {NoTurn} \union Turns]
    <3>1. turn' \in [Processes -> {NoTurn} \union Turns]
      <4> HIDE DEF c
      <4> QED BY <1>1, <2>1, <2>2, <2>5, GoesTo DEF c
    <3> QED BY <1>1, <2>5, <3>1 DEF TypeOK
  <2>6. \/ \E kind \in EventKinds, x \in Ids: Emit(p, kind, c, x)
        \/ Finds(p, "bind", c) /\ UNCHANGED log
    BY <1>4, <2>1, <2>3 DEF Route, EventKinds, TakesOver, Ids
  <2>7. log' \in Seq(Events) /\ turn' \in [Processes -> {NoTurn} \union Turns]
    BY <2>4, <2>5, <2>6
  <2> QED BY <1>1, <1>4, <2>7 DEF Route, TypeOK
<1>5. ASSUME NEW p \in Processes, Project(p) PROVE TypeOK'
  <2>1. turn[p] \in Turns /\ p = Daemon
    BY <1>1, <1>5, TurnType DEF Project, AllReady, Ready
  <2>2. turn' \in [Processes -> {NoTurn} \union Turns]
    BY <1>1, <1>5, <2>1, GoesTo DEF Project, Turns
  <2>3. Len(log) \in 1..Len(log)
    BY <1>1, <1>5, <2>1 DEF Project, Pending, TypeOK
  <2>4. log[Len(log)] \in Events
    BY <1>1, <2>3 DEF TypeOK
  <2>5. view' \in [Ids -> Ids \union {None}]
    BY <1>1, <1>5, <2>4 DEF Project, Applied, Events, TypeOK
  <2> QED BY <1>1, <1>5, <2>2, <2>5 DEF Project, TypeOK
<1>6. ASSUME NEW p \in Processes, Bind(p) PROVE TypeOK'
  <2>1. turn[p] \in Turns
    BY <1>1, <1>6, TurnType DEF Bind
  <2>2. BindingOf(p, turn[p].session) \in [counterpart: Ids \union {None}, source: Sources]
    BY <1>1, <2>1 DEF BindingOf, Turns, TypeOK
  <2>3. bindings' \in [Sessions -> [counterpart: Ids \union {None}, source: Sources]]
    BY <1>1, <1>6, <2>1, <2>2 DEF Bind, Turns, TypeOK
  <2>4. turn' \in [Processes -> {NoTurn} \union Turns]
    BY <1>1, <1>6, <2>1, <2>2, GoesTo DEF Bind
  <2> QED BY <1>1, <1>6, <2>3, <2>4 DEF Bind, TypeOK
<1>7. ASSUME NEW p \in Processes, Look(p) PROVE TypeOK'
  <2>1. turn[p] \in Turns
    BY <1>1, <1>7, TurnType DEF Look
  <2>2. Found(p, turn[p].kind) \in Nat \union {None}
    BY <1>1, LatestIsShowable DEF Found
  <2>3. turn' \in [Processes -> {NoTurn} \union Turns]
    <3>1. CASE NextKind(p)
      BY <1>1, <2>1, <3>1, KindType
    <3>2. CASE turn' = [turn EXCEPT ![p].at = "keep", ![p].found = Found(p, turn[p].kind)]
      <4>1. [turn[p] EXCEPT !.at = "keep", !.found = Found(p, turn[p].kind)] \in Turns
        BY <2>1, <2>2 DEF Turns
      <4> QED BY <1>1, <3>2, <4>1 DEF TypeOK
    <3> QED BY <1>7, <3>1, <3>2 DEF Look
  <2> QED BY <1>1, <1>7, <2>3 DEF Look, TypeOK
<1>8. ASSUME NEW p \in Processes, Keep(p) PROVE TypeOK'
  <2>1. turn[p] \in Turns
    BY <1>1, <1>8, TurnType DEF Keep
  <2>2. turn' \in [Processes -> {NoTurn} \union Turns]
    BY <1>1, <1>8, <2>1, KindType DEF Keep
  <2>3. snapshots' \in [Sessions -> [Kinds -> Nat \union {None}]]
    BY <1>1, <1>8, <2>1 DEF Keep, Inserted, Turns, TypeOK
  <2> QED BY <1>1, <1>8, <2>2, <2>3 DEF Keep, TypeOK
<1>9. ASSUME NEW p \in Processes, TurnLost(p) PROVE TypeOK'
  BY <1>1, <1>9 DEF TurnLost, TypeOK
<1>10. ASSUME NEW about \in Ids \union {None}, NEW superseded \in BOOLEAN, Summarise(about, superseded)
       PROVE  TypeOK'
  <2>1. summaries' \in Seq([about: Ids \union {None}, active: BOOLEAN])
    BY <1>1, <1>10, SummariesStay
  <2> QED BY <1>1, <1>10, <2>1 DEF Summarise, TypeOK
<1> QED BY <1>2, <1>3, <1>4, <1>5, <1>6, <1>7, <1>8, <1>9, <1>10 DEF Next

\* What is claimed of bindings and of turns needs no more of a step than that
\* the default counterpart keeps its user.
OwnerKept == Identity(Main) \in Users => Identity(Main)' = Identity(Main)

LEMMA AssignedKept ==
  ASSUME OwnerKept, NEW c, NEW u \in Users, Assigned(c, u)
  PROVE  Assigned(c, u)'
BY DEF OwnerKept, Assigned

LEMMA BoundKept ==
  ASSUME TypeOK, BoundAsAssigned, OwnerKept,
         NEW s \in Sessions, ByUser(s), bindings'[s] = bindings[s]
  PROVE  Assigned(bindings[s].counterpart, bindings[s].source.identity)'
<1> DEFINE c == bindings[s].counterpart
           u == bindings[s].source.identity
<1>1. Assigned(c, u) /\ u \in Users
  BY DEF BoundAsAssigned, TypeOK, ByUser, Sources
<1>2. c' = c /\ u' = u
  OBVIOUS
<1> QED BY <1>1, <1>2 DEF OwnerKept, Assigned

LEMMA AllBoundKept ==
  ASSUME TypeOK, BoundAsAssigned, OwnerKept, UNCHANGED bindings
  PROVE  BoundAsAssigned'
<1> SUFFICES ASSUME NEW s \in Sessions, ByUser(s)'
             PROVE  Assigned(bindings[s].counterpart, bindings[s].source.identity)'
  BY DEF BoundAsAssigned
<1>1. ByUser(s)
  BY DEF ByUser
<1> QED BY <1>1, BoundKept

LEMMA ReadyKept ==
  ASSUME TypeOK, OwnerKept, NEW p \in Processes, Ready(p), turn'[p] = turn[p]
  PROVE  Ready(p)'
<1> DEFINE u == turn[p].source.identity
<1>1. turn[p].at = "bind" /\ turn[p].source.kind = "user_message" /\ u # None =>
        Assigned(turn[p].ref, u) /\ u \in Users
  BY TurnType DEF Ready, Turns, Sources
<1> QED BY <1>1 DEF Ready, OwnerKept, Assigned

\* A step that leaves the log, the view and the bindings alone, and a turn as
\* it is or at a stage of which nothing is claimed.
LEMMA OtherStep ==
  ASSUME RoutingInv, UNCHANGED <<log, view, bindings>>,
         \A p \in Processes:
           \/ turn'[p] = turn[p]
           \/ /\ turn'[p].at = "resolve" => p = Daemon /\ turn'[p].source.kind = "user_message"
              /\ turn'[p].at # "project"
              /\ turn'[p].at = "bind" => turn'[p].ref \in Ids /\ turn'[p].source.kind = "self_signal"
  PROVE  Routing'
<1>1. \A c: /\ Identity(c)' = Identity(c) /\ EventsOf(c)' = EventsOf(c)
            /\ AlreadyObserved(c)' = AlreadyObserved(c)
  BY IdentityStays
<1>2. Remembered' /\ OwnerKept
  BY <1>1 DEF RoutingInv, Routing, Remembered, OwnerKept
<1>3. BoundAsAssigned'
  BY <1>2, AllBoundKept DEF RoutingInv, Routing
<1>4. ASSUME NEW p \in Processes PROVE Ready(p)'
  <2>1. CASE turn'[p] = turn[p]
    BY <1>2, <2>1, ReadyKept DEF RoutingInv, Routing, AllReady
  <2>2. CASE /\ turn'[p].at = "resolve" => p = Daemon /\ turn'[p].source.kind = "user_message"
             /\ turn'[p].at # "project"
             /\ turn'[p].at = "bind" => turn'[p].ref \in Ids /\ turn'[p].source.kind = "self_signal"
    BY <2>2 DEF Ready
  <2> QED BY <2>1, <2>2
<1>5. Pending'
  <2>1. Daemon \in Processes
    BY DEF Processes
  <2>2. turn'[Daemon].at = "project" => turn'[Daemon] = turn[Daemon]
    BY <2>1
  <2> QED BY <1>1, <2>2 DEF RoutingInv, Routing, Pending, Assigned
<1> QED BY <1>2, <1>3, <1>4, <1>5 DEF Routing, AllReady

\* The event of a turn, appended.
LEMMA EmitStep ==
  ASSUME TypeOK, Remembered, NEW p \in Processes,
         NEW kind \in EventKinds, NEW c \in Ids, NEW x \in Ids, Emit(p, kind, c, x),
         UNCHANGED view,
         kind = "identified" => AlreadyObserved(c),
         c = Main => Identity(Main) \notin Users
  PROVE  /\ Remembered' /\ OwnerKept
         /\ Len(log') > 0 /\ log'[Len(log')] = [kind |-> kind, id |-> c, identity |-> x]
         /\ c # Main => Identity(Main)' = Identity(Main)
<1> DEFINE e == [kind |-> kind, id |-> c, identity |-> x]
<1>1. e \in Events /\ log \in Seq(Events) /\ log' = Append(log, e)
  BY DEF Events, TypeOK, Emit
<1>2. Len(log') > 0 /\ log'[Len(log')] = e
  BY <1>1
<1>3. ASSUME NEW d
      PROVE  /\ d = c => EventsOf(d)' # {} /\ (log[LastEvent(d)])' = e
             /\ d # c => /\ EventsOf(d)' = EventsOf(d)
                         /\ EventsOf(d) # {} => (log[LastEvent(d)])' = log[LastEvent(d)]
  BY <1>1, LastAppended
<1>4. ASSUME NEW d \in Ids
      PROVE  Identity(d)' = IF view[d] = None /\ d = c THEN x ELSE Identity(d)
  BY <1>3 DEF Identity
<1>5. ASSUME NEW d \in Ids, AlreadyObserved(d) PROVE AlreadyObserved(d)'
  BY <1>1, <1>5 DEF AlreadyObserved
<1>6. kind = "first_observed" => AlreadyObserved(c)'
  <2>1. Len(log') \in DOMAIN log'
    BY <1>1
  <2> QED BY <1>2, <2>1 DEF AlreadyObserved
<1>7. Remembered'
  BY <1>3, <1>4, <1>5, <1>6 DEF Remembered, EventKinds
<1>8. OwnerKept /\ (c # Main => Identity(Main)' = Identity(Main))
  BY <1>4 DEF OwnerKept, Ids
<1> QED BY <1>2, <1>7, <1>8

LEMMA RouteStep ==
  ASSUME RoutingInv, NEW p \in Processes, Route(p)
  PROVE  Routing'
<1> DEFINE u == turn[p].source.identity
           c == Routed(u)
           x == IF u = None THEN Main ELSE u
<1>1. TypeOK /\ Remembered /\ BoundAsAssigned /\ AllReady
  BY DEF RoutingInv, Routing
<1>2. /\ turn[p] \in Turns /\ p = Daemon /\ turn[p].source.kind = "user_message"
      /\ u \in Users \union {None}
  BY <1>1, TurnType DEF Route, AllReady, Ready, Turns, Sources
<1>3. c \in Ids /\ x \in Ids /\ Main \notin Users /\ None \notin Users /\ None # Main
  BY <1>2, RoutedType, Counterparts_Assumption DEF Ids
<1>4. Identity(Main) \in Ids \union {None}
  BY <1>1 DEF Remembered, Ids
<1>5. c # Main => u \in Users /\ c = u /\ Assigned(c, u)
  BY <1>2, <1>3, <1>4 DEF Routed, DefaultCanBeClaimed, Assigned, Ids
<1>6. ASSUME NEW kind \in EventKinds, Emit(p, kind, c, x), c = Main => view[Main] \in {None, Main},
             kind = "identified" => AlreadyObserved(c), c = Main => Identity(Main) \notin Users
      PROVE  Routing'
  <2>1. /\ Remembered' /\ OwnerKept
        /\ Len(log') > 0 /\ log'[Len(log')] = [kind |-> kind, id |-> c, identity |-> x]
        /\ c # Main => Identity(Main)' = Identity(Main)
    <3> HIDE DEF c, x
    <3> QED BY <1>1, <1>3, <1>6, EmitStep DEF Route
  <2>2. /\ turn'[p].at = "project" /\ turn'[p].ref = c /\ turn'[p].source = turn[p].source
        /\ \A q \in Processes \ {p}: turn'[q] = turn[q]
    <3>1. Finds(p, "project", c) /\ "project" \in Stages /\ c \in Ids \union {None}
      BY <1>3, <1>6 DEF Emit, Stages
    <3>2. turn[p] \in Turns
      BY <1>2
    <3> HIDE DEF c, u, x
    <3> QED BY <1>1, <3>1, <3>2, GoesTo
  <2>3. c # Main => Assigned(turn[p].ref, turn[p].source.identity)'
    BY <1>5, <2>1, <2>2 DEF Assigned
  <2>4. Pending'
    BY <1>2, <1>6, <2>1, <2>2, <2>3 DEF Pending, Route
  <2>5. ASSUME NEW q \in Processes PROVE Ready(q)'
    <3>1. CASE q = p
      BY <1>2, <1>3, <2>2, <3>1 DEF Ready
    <3>2. CASE q # p
      BY <1>1, <2>1, <2>2, <3>2, ReadyKept DEF AllReady
    <3> QED BY <3>1, <3>2
  <2>6. BoundAsAssigned'
    BY <1>1, <2>1, AllBoundKept DEF Route
  <2> QED BY <2>1, <2>4, <2>5, <2>6 DEF Routing, AllReady
<1>7. CASE ~AlreadyObserved(c) /\ Emit(p, "first_observed", c, x)
  <2>1. view[c] = None /\ Identity(c) = None
    BY <1>1, <1>3, <1>7 DEF AlreadyObserved, Remembered, Identity
  <2> QED BY <1>3, <1>6, <1>7, <2>1 DEF EventKinds
<1>8. CASE AlreadyObserved(c) /\ TakesOver(c, u) /\ Emit(p, "identified", c, u)
  <2>1. c = Main /\ u # None /\ Identity(Main) \in {None, Main}
    BY <1>2, <1>3, <1>8 DEF Routed, DefaultCanBeClaimed, TakesOver
  <2>2. view[Main] \in {None, Main}
    BY <2>1 DEF Identity
  <2> QED BY <1>3, <1>6, <1>8, <2>1, <2>2 DEF EventKinds
<1>9. CASE ~TakesOver(c, u) /\ Finds(p, "bind", c) /\ UNCHANGED log
  <2>1. /\ turn'[p].at = "bind" /\ turn'[p].ref = c /\ turn'[p].source = turn[p].source
        /\ \A q \in Processes \ {p}: turn'[q] = turn[q]
    <3>1. Finds(p, "bind", c) /\ "bind" \in Stages /\ c \in Ids \union {None}
      BY <1>3, <1>9 DEF Stages
    <3>2. turn[p] \in Turns
      BY <1>2
    <3> HIDE DEF c, u, x
    <3> QED BY <1>1, <3>1, <3>2, GoesTo
  <2>2. \A d: /\ Identity(d)' = Identity(d) /\ EventsOf(d)' = EventsOf(d)
              /\ AlreadyObserved(d)' = AlreadyObserved(d)
    BY <1>9, IdentityStays DEF Route
  <2>3. Remembered' /\ OwnerKept
    BY <1>1, <2>2 DEF Remembered, OwnerKept
  <2>4. u # None => Assigned(turn[p].ref, turn[p].source.identity)'
    BY <1>5, <1>9, <2>1, <2>2 DEF Assigned, TakesOver
  <2>5. Pending'
    BY <1>2, <2>1 DEF Pending
  <2>6. ASSUME NEW q \in Processes PROVE Ready(q)'
    <3>1. CASE q = p
      BY <1>2, <1>3, <2>1, <2>4, <3>1 DEF Ready
    <3>2. CASE q # p
      BY <1>1, <2>1, <2>3, <3>2, ReadyKept DEF AllReady
    <3> QED BY <3>1, <3>2
  <2>7. BoundAsAssigned'
    BY <1>1, <2>3, AllBoundKept DEF Route
  <2> QED BY <2>3, <2>5, <2>6, <2>7 DEF Routing, AllReady
<1> QED BY <1>7, <1>8, <1>9 DEF Route
LEMMA ProjectStep ==
  ASSUME RoutingInv, NEW p \in Processes, Project(p)
  PROVE  Routing'
<1> DEFINE e == log[Len(log)]
           u == turn[p].source.identity
           c == turn[p].ref
<1>1. TypeOK /\ Remembered /\ BoundAsAssigned /\ AllReady
  BY DEF RoutingInv, Routing
<1>2. /\ turn[p] \in Turns /\ p = Daemon /\ turn[p].source.kind = "user_message"
      /\ turn[p].at = "project" /\ c \in Ids
  BY <1>1, TurnType DEF Project, AllReady, Ready
<1>3. /\ Len(log) > 0 /\ e.id = c /\ e.identity = (IF u = None THEN Main ELSE u)
      /\ c = Main => view[Main] \in {None, Main}
      /\ c # Main => Assigned(c, u)
  BY <1>2 DEF RoutingInv, Routing, Pending
<1>4. log \in Seq(Events) /\ e \in Events /\ view \in [Ids -> Ids \union {None}]
  BY <1>1, <1>3 DEF TypeOK
<1>5. Main \in Ids /\ Main \notin Users /\ None \notin Ids /\ e.identity \in Ids
  BY <1>4, Counterparts_Assumption DEF Ids, Events
<1>6. view' = [view EXCEPT ![c] = e.identity] /\ log' = log
  BY <1>3 DEF Project, Applied
<1>7. \A d \in Ids: Identity(d)' = IF d = c THEN e.identity ELSE Identity(d)
  BY <1>2, <1>4, <1>5, <1>6 DEF Identity, EventsOf, LastEvent
<1>8. Remembered'
  <2>1. \A d \in Ids: EventsOf(d)' = EventsOf(d) /\ (AlreadyObserved(d) => AlreadyObserved(d)')
    BY <1>2, <1>4, <1>5, <1>6 DEF EventsOf, AlreadyObserved
  <2> QED BY <1>1, <1>5, <1>7, <2>1 DEF Remembered
<1>9. OwnerKept
  <2>1. EventsOf(c) # {} /\ log[LastEvent(c)] = e
    BY <1>3, <1>4, LastIsLast
  <2>2. c = Main /\ Identity(Main) \in Users => Identity(Main) = e.identity
    BY <1>3, <1>5, <2>1 DEF Identity
  <2> QED BY <1>5, <1>7, <2>2 DEF OwnerKept
<1>10. /\ turn'[p].at = "bind" /\ turn'[p].ref = c /\ turn'[p].source = turn[p].source
       /\ \A q \in Processes \ {p}: turn'[q] = turn[q]
  <2>1. Goes(p, "bind") /\ "bind" \in Stages /\ c \in Ids \union {None}
    BY <1>2 DEF Project, Stages
  <2>2. turn[p] \in Turns
    BY <1>2
  <2> HIDE DEF u, e
  <2> QED BY <1>1, <2>1, <2>2, GoesTo
<1>11. u # None => Assigned(turn[p].ref, turn[p].source.identity)'
  BY <1>3, <1>5, <1>7, <1>10 DEF Assigned
<1>12. Pending'
  BY <1>2, <1>10 DEF Pending
<1>13. ASSUME NEW q \in Processes PROVE Ready(q)'
  <2>1. CASE q = p
    BY <1>2, <1>10, <1>11, <2>1 DEF Ready
  <2>2. CASE q # p
    BY <1>1, <1>9, <1>10, <2>2, ReadyKept DEF AllReady
  <2> QED BY <2>1, <2>2
<1>14. BoundAsAssigned'
  BY <1>1, <1>9, AllBoundKept DEF Project
<1> QED BY <1>8, <1>12, <1>13, <1>14 DEF Routing, AllReady

\* What a process does when it binds its session.
LEMMA BindTo ==
  ASSUME TypeOK, NEW p \in Processes, Bind(p)
  PROVE  LET s == turn[p].session
             b == BindingOf(p, s)
         IN /\ turn[p] \in Turns /\ s \in Sessions
            /\ b \in [counterpart: Ids \union {None}, source: Sources]
            /\ \A t \in Sessions: bindings'[t] = IF t = s THEN b ELSE bindings[t]
            /\ turn'[p].at = "look" /\ turn'[p].session = s /\ turn'[p].ref = b.counterpart
            /\ \A q \in Processes \ {p}: turn'[q] = turn[q]
<1> DEFINE s == turn[p].session
           b == BindingOf(p, s)
<1>1. turn[p] \in Turns /\ s \in Sessions
  BY TurnType DEF Bind, Turns
<1>2. b \in [counterpart: Ids \union {None}, source: Sources]
  BY <1>1 DEF BindingOf, Turns, TypeOK
<1>3. bindings' = [bindings EXCEPT ![s] = b] /\ Finds(p, "look", b.counterpart)
  BY DEF Bind
<1>4. "look" \in Stages /\ b.counterpart \in Ids \union {None}
  BY <1>2 DEF Stages
<1>5. \A t \in Sessions: bindings'[t] = IF t = s THEN b ELSE bindings[t]
  BY <1>1, <1>3 DEF TypeOK
<1>6. /\ turn'[p].at = "look" /\ turn'[p].session = s /\ turn'[p].ref = b.counterpart
      /\ \A q \in Processes \ {p}: turn'[q] = turn[q]
  <2> DEFINE c == b.counterpart
  <2>1. Finds(p, "look", c) /\ "look" \in Stages /\ c \in Ids \union {None} /\ turn[p] \in Turns
    BY <1>1, <1>3, <1>4
  <2> HIDE DEF c, b, s
  <2>2. /\ turn'[p].at = "look" /\ turn'[p].session = turn[p].session /\ turn'[p].ref = c
        /\ \A q \in Processes \ {p}: turn'[q] = turn[q]
    BY <2>1, GoesTo
  <2> QED BY <2>2 DEF c, s
<1> QED BY <1>1, <1>2, <1>5, <1>6

LEMMA BindStep ==
  ASSUME RoutingInv, NEW p \in Processes, Bind(p)
  PROVE  Routing'
<1> DEFINE s == turn[p].session
           b == BindingOf(p, s)
<1>1. TypeOK /\ Remembered /\ BoundAsAssigned /\ AllReady
  BY DEF RoutingInv, Routing
<1>2. /\ turn[p] \in Turns /\ s \in Sessions
      /\ \A t \in Sessions: bindings'[t] = IF t = s THEN b ELSE bindings[t]
      /\ turn'[p].at = "look"
      /\ \A q \in Processes \ {p}: turn'[q] = turn[q]
  BY <1>1, BindTo
<1>3. \A d: /\ Identity(d)' = Identity(d) /\ EventsOf(d)' = EventsOf(d)
            /\ AlreadyObserved(d)' = AlreadyObserved(d)
  BY IdentityStays DEF Bind
<1>4. Remembered' /\ OwnerKept
  BY <1>1, <1>3 DEF Remembered, OwnerKept
<1>5. Pending'
  <2>1. Daemon \in Processes
    BY DEF Processes
  <2>2. turn'[Daemon].at = "project" => turn'[Daemon] = turn[Daemon]
    BY <1>2, <2>1
  <2> QED BY <1>3, <2>2 DEF RoutingInv, Routing, Pending, Assigned, Bind
<1>6. ASSUME NEW q \in Processes PROVE Ready(q)'
  <2>1. CASE q = p
    BY <1>2, <2>1 DEF Ready
  <2>2. CASE q # p
    BY <1>1, <1>2, <1>4, <2>2, ReadyKept DEF AllReady
  <2> QED BY <2>1, <2>2
<1>7. ASSUME NEW t \in Sessions, ByUser(t)'
      PROVE  Assigned(bindings[t].counterpart, bindings[t].source.identity)'
  <2>1. CASE bindings'[t] = bindings[t]
    <3>1. ByUser(t)
      BY <1>7, <2>1 DEF ByUser
    <3> QED BY <1>1, <1>4, <2>1, <3>1, BoundKept
  <2>2. CASE t = s /\ bindings'[t] = [counterpart |-> turn[p].ref, source |-> turn[p].source]
    <3>1. turn[p].source.kind = "user_message" /\ turn[p].source.identity # None
      BY <1>7, <2>2 DEF ByUser
    <3>2. Assigned(turn[p].ref, turn[p].source.identity)
      BY <1>1, <3>1 DEF AllReady, Ready, Bind
    <3> QED BY <1>3, <2>2, <3>2 DEF Assigned
  <2> QED BY <1>2, <2>1, <2>2 DEF BindingOf
<1> QED BY <1>4, <1>5, <1>6, <1>7 DEF Routing, AllReady, BoundAsAssigned

LEMMA NextRoutingInv == RoutingInv /\ [Next]_vars => RoutingInv'
<1> SUFFICES ASSUME RoutingInv, [Next]_vars PROVE Routing'
  BY StepTypeOK DEF RoutingInv
<1>1. TypeOK
  BY DEF RoutingInv
<1>2. CASE UNCHANGED vars
  BY <1>2, OtherStep DEF vars
<1>3. ASSUME NEW p \in Processes, NEW s \in Sessions, NEW source \in Sources, BeginTurn(p, s, source)
      PROVE  Routing'
  <2>1. turn' = [turn EXCEPT ![p] =
          [at |-> FirstStage(s, source), session |-> s, source |-> source,
           ref |-> FirstRef(s, source), kind |-> "self_memory", found |-> None]]
    BY <1>3 DEF BeginTurn
  <2>2. /\ turn'[p].source = source /\ turn'[p].at = FirstStage(s, source)
        /\ turn'[p].ref = FirstRef(s, source)
        /\ \A q \in Processes \ {p}: turn'[q] = turn[q]
    BY <1>1, <2>1 DEF TypeOK
  <2>3. source.identity \in Ids \union {None} /\ source.kind \in {"user_message", "self_signal"}
    BY DEF Sources, Ids
  <2>4. FirstStage(s, source) = "resolve" => source.kind = "user_message" /\ p = Daemon
    BY <1>3, <2>3 DEF FirstStage, BeginTurn, Processes
  <2>5. FirstStage(s, source) = "bind" => source.kind = "self_signal" /\ FirstRef(s, source) \in Ids
    BY <2>3 DEF FirstStage, FirstRef
  <2>6. FirstStage(s, source) # "project"
    BY DEF FirstStage
  <2> QED BY <1>3, <2>2, <2>4, <2>5, <2>6, OtherStep DEF BeginTurn
<1>4. ASSUME NEW p \in Processes, Look(p) PROVE Routing'
  <2>1. turn[p] \in Turns
    BY <1>1, <1>4, TurnType DEF Look
  <2>2. turn'[p].at \in {"look", "keep", "none"} /\ \A q \in Processes \ {p}: turn'[q] = turn[q]
    <3>1. CASE NextKind(p)
      BY <1>1, <2>1, <3>1, KindType DEF NoTurn
    <3>2. CASE turn' = [turn EXCEPT ![p].at = "keep", ![p].found = Found(p, turn[p].kind)]
      BY <1>1, <2>1, <3>2 DEF TypeOK, Turns
    <3> QED BY <1>4, <3>1, <3>2 DEF Look
  <2> QED BY <1>4, <2>2, OtherStep DEF Look
<1>5. ASSUME NEW p \in Processes, Keep(p) PROVE Routing'
  <2>1. turn[p] \in Turns
    BY <1>1, <1>5, TurnType DEF Keep
  <2>2. turn'[p].at \in {"look", "none"} /\ \A q \in Processes \ {p}: turn'[q] = turn[q]
    BY <1>1, <1>5, <2>1, KindType DEF Keep, NoTurn
  <2> QED BY <1>5, <2>2, OtherStep DEF Keep
<1>6. ASSUME NEW p \in Processes, TurnLost(p) PROVE Routing'
  <2>1. turn'[p].at = "none" /\ \A q \in Processes \ {p}: turn'[q] = turn[q]
    BY <1>1, <1>6 DEF TurnLost, NoTurn, TypeOK
  <2> QED BY <1>6, <2>1, OtherStep DEF TurnLost
<1>7. ASSUME NEW about \in Ids \union {None}, NEW superseded \in BOOLEAN, Summarise(about, superseded)
      PROVE  Routing'
  BY <1>7, OtherStep DEF Summarise
<1> QED
  BY <1>2, <1>3, <1>4, <1>5, <1>6, <1>7, RouteStep, ProjectStep, BindStep DEF Next

\* The strengthened invariant: what has been emitted and not yet seen by the
\* view takes the default counterpart from nobody.
THEOREM RoutingInvariant == Spec => []RoutingInv
BY InitRoutingInv, NextRoutingInv, PTL DEF Spec

\* Two users share a counterpart exactly when they are one: a counterpart
\* bound by a user is theirs, the default one included.
THEOREM UsersApartHolds == Spec => []UsersApart
<1>1. RoutingInv => UsersApart
  <2> SUFFICES ASSUME RoutingInv, NEW s \in Sessions, NEW t \in Sessions, ByUser(s), ByUser(t)
               PROVE  bindings[s].counterpart = bindings[t].counterpart
                        <=> bindings[s].source.identity = bindings[t].source.identity
    BY DEF UsersApart
  <2>1. /\ Assigned(bindings[s].counterpart, bindings[s].source.identity)
        /\ Assigned(bindings[t].counterpart, bindings[t].source.identity)
    BY DEF RoutingInv, Routing, BoundAsAssigned
  <2>2. bindings[s].source.identity \in Users /\ bindings[t].source.identity \in Users
    BY DEF RoutingInv, TypeOK, ByUser, Sources
  <2> QED BY <2>1, <2>2, Counterparts_Assumption DEF Assigned
<1> QED BY <1>1, RoutingInvariant, PTL

-----------------------------------------------------------------------------
(***************************************************************************)
(* The beginning of a prompt is the session's own.                         *)
(***************************************************************************)

\* A summary that may be shown as the kind to whoever is at the other end.
Fits(i, kind, c) ==
  /\ i \in DOMAIN summaries
  /\ IF kind = "self_memory" THEN summaries[i].about = None
     ELSE c # None /\ summaries[i].about = c

\* A snapshot fits the counterpart its session is bound to, ...
SnapshotsFit ==
  \A s \in Sessions, kind \in Kinds:
    snapshots[s][kind] # None => Fits(snapshots[s][kind], kind, bindings[s].counterpart)

\* ... a turn past its binding is with that counterpart or with nobody, and
\* what it has found to keep fits.
TurnFits(p) ==
  turn[p].at \in {"look", "keep"} =>
    /\ turn[p].ref # None => bindings[turn[p].session].counterpart = turn[p].ref
    /\ turn[p].at = "keep" =>
         turn[p].found # None /\ Fits(turn[p].found, turn[p].kind, turn[p].ref)

PrefixInv == SnapshotsFit /\ \A p \in Processes: TurnFits(p)

\* What a step may do to the snapshots of a session: nothing, or make one
\* that was missing.
Kept ==
  \A s \in Sessions, kind \in Kinds:
    snapshots[s][kind] # None => snapshots'[s][kind] = snapshots[s][kind]

\* A binding, once made, stays, and so does what a summary is about.
Steady ==
  /\ \A s \in Sessions: bindings[s].counterpart # None => bindings'[s] = bindings[s]
  /\ \A i \in DOMAIN summaries: i \in DOMAIN summaries' /\ summaries'[i].about = summaries[i].about

\* A step that leaves bindings and snapshots alone, only adds to the
\* summaries, and takes a turn no further than to its look at the store.
LEMMA PrefixUntouched ==
  ASSUME TypeOK, PrefixInv, Steady, UNCHANGED <<bindings, snapshots>>,
         \A p \in Processes:
           \/ turn'[p] = turn[p]
           \/ turn'[p].at \notin {"look", "keep"}
           \/ /\ turn'[p].at = "look"
              /\ turn'[p].ref # None => bindings[turn'[p].session].counterpart = turn'[p].ref
  PROVE  PrefixInv' /\ Kept
<1>1. ASSUME NEW i, NEW kind, NEW c, Fits(i, kind, c)
      PROVE  Fits(i, kind, c)'
  BY <1>1 DEF Fits, Steady
<1>2. SnapshotsFit' /\ Kept
  BY <1>1 DEF PrefixInv, SnapshotsFit, Fits, Steady, Kept
<1>3. ASSUME NEW p \in Processes PROVE TurnFits(p)'
  BY DEF PrefixInv, TurnFits, Fits, Steady
<1> QED BY <1>2, <1>3 DEF PrefixInv

LEMMA StepSteady == RoutingInv /\ [Next]_vars => Steady
<1> SUFFICES ASSUME RoutingInv, [Next]_vars PROVE Steady
  OBVIOUS
<1>1. TypeOK
  BY DEF RoutingInv
<1>2. ASSUME UNCHANGED <<bindings, summaries>> PROVE Steady
  BY <1>2 DEF Steady
<1>3. ASSUME NEW p \in Processes, Bind(p) PROVE Steady
  <2>1. \A t \in Sessions: bindings'[t] = IF t = turn[p].session THEN BindingOf(p, turn[p].session) ELSE bindings[t]
    BY <1>1, <1>3, BindTo
  <2>2. \A t \in Sessions: bindings[t].counterpart # None => bindings'[t] = bindings[t]
    BY <2>1 DEF BindingOf, Unbound
  <2> QED BY <1>3, <2>2 DEF Bind, Steady
<1>4. ASSUME NEW about \in Ids \union {None}, NEW superseded \in BOOLEAN, Summarise(about, superseded)
      PROVE  Steady
  BY <1>1, <1>4, SummariesStay DEF Summarise, Steady
<1> QED
  BY <1>2, <1>3, <1>4 DEF Next, BeginTurn, Route, Project, Look, Keep, TurnLost, vars

LEMMA NextPrefixInv == RoutingInv /\ PrefixInv /\ [Next]_vars => PrefixInv' /\ Kept
<1> SUFFICES ASSUME RoutingInv, PrefixInv, [Next]_vars PROVE PrefixInv' /\ Kept
  OBVIOUS
<1>1. TypeOK /\ AllReady /\ Steady /\ None \notin Ids
  BY StepSteady, Counterparts_Assumption DEF RoutingInv, Routing, Ids
<1>2. CASE UNCHANGED vars
  BY <1>1, <1>2, PrefixUntouched DEF vars
<1>3. ASSUME NEW p \in Processes, NEW s \in Sessions, NEW source \in Sources, BeginTurn(p, s, source)
      PROVE  PrefixInv' /\ Kept
  <2>1. turn' = [turn EXCEPT ![p] =
          [at |-> FirstStage(s, source), session |-> s, source |-> source,
           ref |-> FirstRef(s, source), kind |-> "self_memory", found |-> None]]
    BY <1>3 DEF BeginTurn
  <2>2. /\ turn'[p].session = s /\ turn'[p].at = FirstStage(s, source)
        /\ turn'[p].ref = FirstRef(s, source)
        /\ \A q \in Processes \ {p}: turn'[q] = turn[q]
    BY <1>1, <2>1 DEF TypeOK
  <2>3. FirstStage(s, source) = "look" /\ FirstRef(s, source) # None =>
          bindings[s].counterpart = FirstRef(s, source)
    BY DEF FirstStage, FirstRef, Sources
  <2>4. FirstStage(s, source) # "keep"
    BY DEF FirstStage
  <2> QED BY <1>1, <1>3, <2>2, <2>3, <2>4, PrefixUntouched DEF BeginTurn
<1>4. ASSUME NEW p \in Processes, Route(p) PROVE PrefixInv' /\ Kept
  <2> DEFINE c == Routed(turn[p].source.identity)
  <2>1. turn[p] \in Turns /\ c \in Ids
    BY <1>1, <1>4, TurnType, RoutedType DEF Route, AllReady, Ready, Turns, Sources
  <2>2. \E at \in {"project", "bind"}: Finds(p, at, c)
    BY <1>4 DEF Route, Emit
  <2> HIDE DEF c
  <2>3. turn'[p].at \in {"project", "bind"} /\ \A q \in Processes \ {p}: turn'[q] = turn[q]
    BY <1>1, <2>1, <2>2, GoesTo DEF Stages
  <2> QED BY <1>1, <1>4, <2>3, PrefixUntouched DEF Route
<1>5. ASSUME NEW p \in Processes, Project(p) PROVE PrefixInv' /\ Kept
  <2> DEFINE c == turn[p].ref
  <2>1. turn[p] \in Turns /\ c \in Ids \union {None} /\ Goes(p, "bind") /\ "bind" \in Stages
    BY <1>1, <1>5, TurnType DEF Project, Turns, Stages
  <2>2. turn'[p].at = "bind" /\ \A q \in Processes \ {p}: turn'[q] = turn[q]
    BY <1>1, <2>1, GoesTo
  <2> QED BY <1>1, <1>5, <2>2, PrefixUntouched DEF Project
<1>6. ASSUME NEW p \in Processes, Bind(p) PROVE PrefixInv' /\ Kept
  <2> DEFINE s == turn[p].session
             b == BindingOf(p, s)
  <2>1. /\ turn[p] \in Turns /\ s \in Sessions
        /\ \A t \in Sessions: bindings'[t] = IF t = s THEN b ELSE bindings[t]
        /\ turn'[p].at = "look" /\ turn'[p].session = s /\ turn'[p].ref = b.counterpart
        /\ \A q \in Processes \ {p}: turn'[q] = turn[q]
    BY <1>1, <1>6, BindTo
  <2>2. summaries' = summaries /\ snapshots' = snapshots
    BY <1>6 DEF Bind
  <2>3. SnapshotsFit' /\ Kept
    BY <1>1, <2>1, <2>2 DEF PrefixInv, SnapshotsFit, Fits, Steady, Kept
  <2>4. ASSUME NEW q \in Processes PROVE TurnFits(q)'
    <3>1. CASE q = p
      BY <2>1, <3>1 DEF TurnFits
    <3>2. CASE q # p /\ turn[q].at \in {"look", "keep"}
      <4>1. turn'[q] = turn[q] /\ turn[q] \in Turns /\ TurnFits(q)
        BY <1>1, <2>1, <3>2, TurnType DEF PrefixInv
      <4>2. turn[q].ref # None => bindings'[turn[q].session].counterpart = turn[q].ref
        BY <1>1, <3>2, <4>1 DEF TurnFits, Turns, Steady
      <4> QED BY <2>2, <4>1, <4>2 DEF TurnFits, Fits
    <3>3. CASE q # p /\ turn[q].at \notin {"look", "keep"}
      BY <2>1, <3>3 DEF TurnFits
    <3> QED BY <3>1, <3>2, <3>3
  <2> QED BY <2>3, <2>4 DEF PrefixInv
<1>7. ASSUME NEW p \in Processes, Look(p) PROVE PrefixInv' /\ Kept
  <2> DEFINE kind == turn[p].kind
             found == Found(p, kind)
  <2>1. turn[p] \in Turns /\ kind \in Kinds /\ TurnFits(p) /\ turn[p].at = "look"
    BY <1>1, <1>7, TurnType DEF Look, Turns, PrefixInv
  <2>2. CASE NextKind(p)
    <3>1. /\ \/ turn'[p].at = "look" /\ turn'[p].ref = turn[p].ref /\ turn'[p].session = turn[p].session
             \/ turn'[p].at = "none"
          /\ \A q \in Processes \ {p}: turn'[q] = turn[q]
      BY <1>1, <2>1, <2>2, KindType DEF NoTurn
    <3> QED BY <1>1, <1>7, <2>1, <3>1, PrefixUntouched DEF Look, TurnFits
  <2>3. CASE found # None /\ turn' = [turn EXCEPT ![p].at = "keep", ![p].found = found]
    <3>1. Fits(found, kind, turn[p].ref)
      BY <1>1, <2>1, <2>3, LatestIsShowable DEF Found, Fits
    <3>2. /\ turn'[p].at = "keep" /\ turn'[p].found = found
          /\ turn'[p].kind = kind /\ turn'[p].ref = turn[p].ref /\ turn'[p].session = turn[p].session
          /\ \A q \in Processes \ {p}: turn'[q] = turn[q]
      <4> HIDE DEF found
      <4> QED BY <1>1, <2>1, <2>3 DEF TypeOK, Turns
    <3>3. UNCHANGED <<summaries, bindings, snapshots>>
      BY <1>7 DEF Look
    <3>4. SnapshotsFit' /\ Kept
      BY <3>3 DEF PrefixInv, SnapshotsFit, Fits, Kept
    <3>5. ASSUME NEW q \in Processes PROVE TurnFits(q)'
      <4> HIDE DEF found
      <4>1. CASE q = p
        BY <2>1, <2>3, <3>1, <3>2, <3>3, <4>1 DEF TurnFits, Fits
      <4>2. CASE q # p
        BY <3>2, <3>3, <4>2 DEF TurnFits, Fits, PrefixInv
      <4> QED BY <4>1, <4>2
    <3> QED BY <3>4, <3>5 DEF PrefixInv
  <2> QED BY <1>7, <2>2, <2>3 DEF Look
<1>8. ASSUME NEW p \in Processes, Keep(p) PROVE PrefixInv' /\ Kept
  <2> DEFINE s == turn[p].session
             kind == turn[p].kind
             new == Inserted(snapshots[s][kind], turn[p].found)
  <2>1. /\ turn[p] \in Turns /\ s \in Sessions /\ kind \in Kinds /\ turn[p].at = "keep"
        /\ turn[p].found # None /\ Fits(turn[p].found, kind, turn[p].ref)
        /\ turn[p].ref # None => bindings[s].counterpart = turn[p].ref
    BY <1>1, <1>8, TurnType DEF Keep, Turns, PrefixInv, TurnFits
  <2>2. Fits(turn[p].found, kind, bindings[s].counterpart)
    BY <2>1 DEF Fits
  <2>3. Fits(new, kind, bindings[s].counterpart) /\ (snapshots[s][kind] # None => new = snapshots[s][kind])
    BY <2>1, <2>2 DEF Inserted, PrefixInv, SnapshotsFit
  <2>4. snapshots' = [snapshots EXCEPT ![s][kind] = new] /\ UNCHANGED <<bindings, summaries>>
    BY <1>8 DEF Keep
  <2> HIDE DEF new
  <2>5. \A t \in Sessions, k \in Kinds:
          snapshots'[t][k] = IF t = s /\ k = kind THEN new ELSE snapshots[t][k]
    BY <1>1, <2>1, <2>4 DEF TypeOK
  <2>6. SnapshotsFit' /\ Kept
    BY <2>3, <2>4, <2>5 DEF PrefixInv, SnapshotsFit, Fits, Kept
  <2>7. /\ \/ turn'[p].at = "look" /\ turn'[p].ref = turn[p].ref /\ turn'[p].session = turn[p].session
           \/ turn'[p].at = "none"
        /\ \A q \in Processes \ {p}: turn'[q] = turn[q]
    BY <1>1, <1>8, <2>1, KindType DEF Keep, NoTurn
  <2>8. ASSUME NEW q \in Processes PROVE TurnFits(q)'
    <3>1. CASE q = p
      BY <2>1, <2>4, <2>7, <3>1 DEF TurnFits
    <3>2. CASE q # p
      BY <2>4, <2>7, <3>2 DEF TurnFits, Fits, PrefixInv
    <3> QED BY <3>1, <3>2
  <2> QED BY <2>6, <2>8 DEF PrefixInv
<1>9. ASSUME NEW p \in Processes, TurnLost(p) PROVE PrefixInv' /\ Kept
  <2>1. turn'[p].at = "none" /\ \A q \in Processes \ {p}: turn'[q] = turn[q]
    BY <1>1, <1>9 DEF TurnLost, NoTurn, TypeOK
  <2> QED BY <1>1, <1>9, <2>1, PrefixUntouched DEF TurnLost
<1>10. ASSUME NEW about \in Ids \union {None}, NEW superseded \in BOOLEAN, Summarise(about, superseded)
       PROVE  PrefixInv' /\ Kept
  BY <1>1, <1>10, PrefixUntouched DEF Summarise
<1> QED
  BY <1>2, <1>3, <1>4, <1>5, <1>6, <1>7, <1>8, <1>9, <1>10 DEF Next

\* The beginning of a session's prompt is never rewritten, and tells of the
\* agent and of the session's own counterpart only.
THEOREM PrefixIsOwnHolds == Spec => PrefixIsOwn
<1>1. Init => PrefixInv
  BY DEF Init, PrefixInv, SnapshotsFit, TurnFits, NoTurn
<1>2. RoutingInv /\ PrefixInv /\ [Next]_vars => PrefixInv' /\ Kept
  BY NextPrefixInv
<1>3. PrefixInv' /\ Kept =>
        [\A s \in Sessions:
           /\ \A kind \in Kinds:
                snapshots[s][kind] # None => snapshots'[s][kind] = snapshots[s][kind]
           /\ snapshots'[s]["self_memory"] # None => summaries'[snapshots'[s]["self_memory"]].about = None
           /\ snapshots'[s]["profile"] # None =>
                /\ bindings'[s].counterpart # None
                /\ summaries'[snapshots'[s]["profile"]].about = bindings'[s].counterpart]_vars
  BY DEF PrefixInv, SnapshotsFit, Fits, Kept, Kinds
<1>4. RoutingInv /\ PrefixInv /\ [Next]_vars => PrefixInv'
  BY <1>2
<1>5. RoutingInv /\ PrefixInv /\ [Next]_vars =>
        [\A s \in Sessions:
           /\ \A kind \in Kinds:
                snapshots[s][kind] # None => snapshots'[s][kind] = snapshots[s][kind]
           /\ snapshots'[s]["self_memory"] # None => summaries'[snapshots'[s]["self_memory"]].about = None
           /\ snapshots'[s]["profile"] # None =>
                /\ bindings'[s].counterpart # None
                /\ summaries'[snapshots'[s]["profile"]].about = bindings'[s].counterpart]_vars
  BY <1>2, <1>3
<1> QED BY <1>1, <1>4, <1>5, RoutingInvariant, PTL DEF Spec, PrefixIsOwn
=============================================================================
