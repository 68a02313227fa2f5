--------------------------- MODULE SessionProofs ----------------------------
(***************************************************************************)
(* Proofs about a session.  AgentTurn: its turns on the log and the context, *)
(* for any callers and any sizes.  CompactExtraction: the extraction that  *)
(* runs beside it when it is compacted, for any number of jobs and of slots. *)
(***************************************************************************)
EXTENDS CompactExtractionProps, AgentTurnProps, FiniteSetTheorems,
        SequenceTheorems, WellFoundedInduction, TLAPS

-----------------------------------------------------------------------------
(***************************************************************************)
(* AgentTurn.                                                              *)
(***************************************************************************)

\* A nonempty set of numbers has a least one.
LEMMA LeastElement ==
  ASSUME NEW S, S \subseteq Nat, S # {}
  PROVE  \E x \in S : \A y \in S : x <= y
<1>1. PICK z \in S : TRUE
  OBVIOUS
<1> DEFINE Below == {0..n : n \in {m \in S : m <= z}}
           Smaller == StrictSubsetOrdering(0..z)
<1>2. Below \subseteq FiniteSubsetsOf(0..z)
  <2>1. ASSUME NEW n \in S, n <= z PROVE 0..n \in FiniteSubsetsOf(0..z)
    BY <2>1, FS_Interval DEF FiniteSubsetsOf
  <2> QED BY <2>1
<1>3. Below # {}
  OBVIOUS
<1>4. \E x \in Below : \A y \in Below : ~(<<y, x>> \in Smaller)
  <2>1. IsWellFoundedOn(Smaller, FiniteSubsetsOf(0..z))
    BY FS_StrictSubsetOrderingWellFounded
  <2> HIDE DEF Smaller, Below
  <2> QED BY <2>1, <1>2, <1>3, WFMin
<1>5. PICK n \in S : n <= z /\ \A y \in Below : ~(<<y, 0..n>> \in Smaller)
  BY <1>4
<1>6. ASSUME NEW m \in S, m < n PROVE FALSE
  <2>1. 0..m \in Below
    BY <1>6, <1>5
  <2>2. 0..m \subseteq 0..n /\ n \in 0..n /\ n \notin 0..m /\ 0..n \subseteq 0..z
    BY <1>6, <1>5
  <2>3. <<0..m, 0..n>> \in Smaller
    BY <2>2 DEF StrictSubsetOrdering
  <2> QED BY <2>1, <2>3, <1>5
<1> QED BY <1>5, <1>6

Fields ==
  {"pc", "turn", "agent", "pending", "within", "reads", "rounds", "iterations", "finalizing",
   "attempt", "n", "bad", "next", "done", "repeats", "cause"}

Causes == {"canceled", "window", "runtime", "llm", "limit", "protocol"}

Outcomes == {"running", "busy", "answered", "untraced", "crashed"} \union Causes

MessageRecord ==
  [kind: Ordinary \union {"compressed"}, turn: Nat, size: Nat, n: Nat, of: Nat, bad: BOOLEAN,
   checked: BOOLEAN, covers: SUBSET Nat]

TurnShape(r) ==
  /\ DOMAIN r = Fields
  /\ r.pending \in Nat /\ r.within \in BOOLEAN /\ r.reads \subseteq Nat
  /\ r.n \in Nat /\ r.bad \in BOOLEAN /\ r.next \in Nat /\ r.done \in Seq(Nat)

TurnTypeOK ==
  /\ log \in Seq(MessageRecord)
  /\ DOMAIN t = Callers /\ \A c \in Callers: TurnShape(t[c])
  /\ outcome \in Seq(Outcomes)
  /\ cached \in Nat /\ agents \in Nat /\ cached <= agents
  /\ flagged \subseteq 1..agents
  /\ cancels \in Nat

\* c holds the subject lock.
Inside(c) == t[c].pc \notin {"idle", "arrived"}

OneInside == \A c \in Callers: Inside(c) <=> holder = c

\* Each request has a number of its own, and fails for a reason of its own.
Numbered ==
  /\ \A c \in Callers: t[c].pc # "idle" =>
       t[c].turn \in 1..Len(outcome) /\ outcome[t[c].turn] = "running"
  /\ \A c, d \in Callers: c # d /\ t[c].pc # "idle" /\ t[d].pc # "idle" => t[c].turn # t[d].turn
  /\ \A i \in 1..Len(log): log[i].turn \in 1..Len(outcome)

\* Why c fails.
FailsRightly(c) ==
  t[c].pc = "failing" =>
    /\ t[c].cause \in Causes
    /\ t[c].cause = "canceled" => t[c].agent \in flagged
    /\ t[c].cause = "window" => Frame + 1 + t[c].pending > MaxContext

BeforeRequest(r) ==
  r.pc \in {"prepare", "append"} \/ (r.pc \in {"prune", "weigh", "handing"} /\ ~r.within)

BeforeReply(r) == r.pc \notin {"idle", "arrived", "acted", "sources", "failing"}

InLoop(r) == r.pc \in {"call", "asked", "storecalls", "tool", "running", "results"}

\* What c has said so far.
Speaks(c) ==
  /\ t[c].pc = "arrived" => \A i \in 1..Len(log): log[i].turn # t[c].turn
  /\ Inside(c) => \A i, j \in 1..Len(log): i < j /\ log[i].turn = t[c].turn => log[j].turn = t[c].turn
  /\ BeforeRequest(t[c]) => \A i \in 1..Len(log): log[i].turn = t[c].turn => log[i].kind # "user"
  /\ BeforeReply(t[c]) => \A i \in 1..Len(log): log[i].turn = t[c].turn => log[i].kind # "reply"
  /\ InLoop(t[c]) => t[c].within

\* Handovers read what none before them has read.
CoversApart ==
  /\ \A i \in 1..Len(log): \A x \in log[i].covers: x < CompressionPoint(log)
  /\ \A i, j \in 1..Len(log): i # j => log[i].covers \intersect log[j].covers = {}

ReadsContext(c) == t[c].pc = "handing" => t[c].reads = Covered(log)

\* Each result follows its call, and no handover comes in between.
ResultsPlaced ==
  \A i \in 1..Len(log): log[i].kind = "result" =>
    /\ log[i].of \in 1..(i - 1) /\ log[log[i].of].kind = "call"
    /\ log[i].n \in 1..log[log[i].of].n
    /\ \A k \in log[i].of..i: log[k].kind # "compressed"

HasResult(l, i, n) == \E j \in (i + 1)..Len(l): l[j].kind = "result" /\ l[j].of = i /\ l[j].n = n

\* The calls of c that are under way.
CallsOpen(c) ==
  /\ t[c].pc \in {"storecalls", "tool", "running", "results"} => t[c].n \in Nat \ {0}
  /\ t[c].pc \in {"tool", "running"} =>
       /\ Len(log) > 0 /\ log[Len(log)].kind = "call" /\ log[Len(log)].n = t[c].n
       /\ t[c].next = Len(t[c].done) + 1 /\ t[c].next <= t[c].n + 1
  /\ t[c].pc = "running" => t[c].next <= t[c].n
  /\ t[c].pc = "results" =>
       /\ Len(t[c].done) = t[c].n /\ t[c].next \in 1..t[c].n /\ t[c].next <= Len(log)
       /\ log[CallOrdinal(c)].kind = "call" /\ log[CallOrdinal(c)].n = t[c].n
       /\ \A k \in (CallOrdinal(c) + 1)..Len(log): log[k].kind = "result"
       /\ \A n \in 1..(t[c].next - 1): HasResult(log, CallOrdinal(c), n)

\* c has still to answer call message i.
Answering(c, i) ==
  /\ t[c].turn = log[i].turn
  /\ \/ t[c].pc = "failing"
     \/ t[c].pc \in {"tool", "running"} /\ i = Len(log)
     \/ t[c].pc = "results" /\ i = CallOrdinal(c)

CallsAnswered ==
  \A i \in 1..Len(log): log[i].kind = "call" =>
    \/ \A n \in 1..log[i].n: HasResult(log, i, n)
    \/ outcome[log[i].turn] \notin {"running", "answered"}
    \/ \E c \in Callers: Answering(c, i)

CancelsCounted ==
  Cardinality({n \in DOMAIN outcome: outcome[n] = "canceled"}) + Cardinality(flagged) <= cancels

CallerInv(c) == FailsRightly(c) /\ Speaks(c) /\ ReadsContext(c) /\ CallsOpen(c)

TurnInv ==
  /\ TurnTypeOK /\ OneInside /\ Numbered /\ TurnsInOrder /\ CoversApart /\ ResultsPlaced
  /\ CallsAnswered /\ CancelsCounted
  /\ \A c \in Callers: CallerInv(c)

\* Both logs say the same, though payloads may have been cut.
SameWords(l, m) ==
  /\ Len(m) = Len(l)
  /\ \A i \in 1..Len(l):
       /\ m[i].kind = l[i].kind /\ m[i].turn = l[i].turn /\ m[i].n = l[i].n
       /\ m[i].of = l[i].of /\ m[i].covers = l[i].covers

\* The caller's record changes, and it stays inside.
OthersKept(c) == DOMAIN t' = Callers /\ \A d \in Callers \ {c}: t'[d] = t[d]

Quiet(c) ==
  /\ OthersKept(c) /\ TurnShape(t'[c]) /\ Steady
  /\ log' \in Seq(MessageRecord) /\ SameWords(log, log')
  /\ Inside(c) /\ t'[c].pc \notin {"idle", "arrived"}
  /\ t'[c].turn = t[c].turn
  /\ BeforeRequest(t'[c]) => BeforeRequest(t[c])
  /\ BeforeReply(t'[c]) => BeforeReply(t[c])
  /\ InLoop(t'[c]) => t'[c].within
  /\ t'[c].pc = "handing" => t'[c].reads = Covered(log')
  /\ FailsRightly(c)' /\ CallsOpen(c)'
  /\ \A i \in 1..Len(log): Answering(c, i) => Answering(c, i)'

\* The latest handover is the last message that is one.
LEMMA PointFacts ==
  ASSUME NEW l, Len(l) \in Nat, DOMAIN l = 1..Len(l)
  PROVE  /\ CompressionPoint(l) \in 0..Len(l)
         /\ CompressionPoint(l) # 0 => l[CompressionPoint(l)].kind = "compressed"
         /\ \A k \in 1..Len(l): l[k].kind = "compressed" => k <= CompressionPoint(l)
<1> DEFINE P == {0} \union {k \in DOMAIN l: l[k].kind = "compressed"}
           S == {Len(l) - k : k \in P}
<1>1. S \subseteq Nat /\ S # {}
  OBVIOUS
<1>2. PICK s \in S: \A y \in S: s <= y
  <2> HIDE DEF S
  <2> QED BY <1>1, LeastElement
<1>3. PICK p \in P: s = Len(l) - p
  OBVIOUS
<1>4. ASSUME NEW y \in P PROVE p >= y
  <2>1. Len(l) - y \in S
    OBVIOUS
  <2>2. Len(l) - p <= Len(l) - y
    BY <2>1, <1>2, <1>3
  <2> QED BY <2>2
<1>5. Max(P) \in P /\ \A y \in P: Max(P) >= y
  <2> HIDE DEF P
  <2> QED BY <1>4 DEF Max
<1>6. CompressionPoint(l) = Max(P)
  BY DEF CompressionPoint
<1> HIDE DEF S
<1> QED BY <1>5, <1>6

\* What is the last handover is the compression point.
LEMMA PointIs ==
  ASSUME NEW l, Len(l) \in Nat, DOMAIN l = 1..Len(l), NEW p \in 0..Len(l),
         p # 0 => l[p].kind = "compressed",
         \A k \in 1..Len(l): l[k].kind = "compressed" => k <= p
  PROVE  CompressionPoint(l) = p
BY PointFacts

\* The fields of a message.
LEMMA MessageFields ==
  ASSUME NEW m \in MessageRecord
  PROVE  /\ m.kind \in Ordinary \union {"compressed"} /\ m.turn \in Nat /\ m.size \in Nat
         /\ m.n \in Nat /\ m.of \in Nat /\ m.covers \subseteq Nat
BY DEF MessageRecord

\* The messages of a log.
LEMMA MessageOf ==
  ASSUME NEW l \in Seq(MessageRecord)
  PROVE  /\ Len(l) \in Nat /\ DOMAIN l = 1..Len(l)
         /\ \A i \in 1..Len(l):
              /\ l[i].kind \in Ordinary \union {"compressed"} /\ l[i].turn \in Nat /\ l[i].size \in Nat
              /\ l[i].n \in Nat /\ l[i].of \in Nat /\ l[i].covers \subseteq Nat
<1>1. Len(l) \in Nat /\ DOMAIN l = 1..Len(l) /\ \A i \in 1..Len(l): l[i] \in MessageRecord
  OBVIOUS
<1> QED BY <1>1, MessageFields

\* Cutting payloads changes neither what a handover covers nor what the model is shown.
LEMMA SameContext ==
  ASSUME NEW l \in Seq(MessageRecord), NEW m \in Seq(MessageRecord), SameWords(l, m)
  PROVE  /\ CompressionPoint(m) = CompressionPoint(l)
         /\ Context(m) = Context(l) /\ Covered(m) = Covered(l) /\ Shown(m) = Shown(l)
<1>1. CompressionPoint(m) = CompressionPoint(l)
  BY MessageOf, PointFacts DEF SameWords
<1>2. Context(m) = Context(l)
  BY <1>1, MessageOf DEF Context, SameWords
<1>3. Context(l) \subseteq 1..Len(l)
  BY MessageOf DEF Context
<1> QED BY <1>1, <1>2, <1>3 DEF SameWords, Covered, Shown

\* A log with one message more.
LEMMA OneMore ==
  ASSUME NEW l \in Seq(MessageRecord), NEW m \in MessageRecord
  PROVE  LET a == Append(l, m)
         IN  /\ a \in Seq(MessageRecord) /\ Len(a) = Len(l) + 1 /\ a[Len(l) + 1] = m
             /\ \A i \in 1..Len(l): a[i] = l[i]
OBVIOUS

\* An ordinary message joins the context.
LEMMA OrdinaryContext ==
  ASSUME NEW l \in Seq(MessageRecord), NEW m \in MessageRecord, m.kind # "compressed",
         NEW a, a = Append(l, m)
  PROVE  /\ CompressionPoint(a) = CompressionPoint(l)
         /\ Context(a) = Context(l) \union {Len(a)}
         /\ Shown(a) = Shown(l) \union {Len(a)}
<1>1. a \in Seq(MessageRecord) /\ Len(a) = Len(l) + 1 /\ a[Len(l) + 1] = m /\ \A i \in 1..Len(l): a[i] = l[i]
  BY OneMore
<1>2. CompressionPoint(a) = CompressionPoint(l)
  <2> DEFINE p == CompressionPoint(l)
  <2>1. p \in 0..Len(a) /\ (p # 0 => a[p].kind = "compressed")
    BY <1>1, MessageOf, PointFacts
  <2>2. ASSUME NEW k \in 1..Len(a), a[k].kind = "compressed" PROVE k <= p
    BY <1>1, <2>2, MessageOf, PointFacts
  <2>3. Len(a) \in Nat /\ DOMAIN a = 1..Len(a)
    BY <1>1
  <2> HIDE DEF p
  <2> QED BY <2>1, <2>2, <2>3, PointIs DEF p
<1>3. CompressionPoint(l) \in 0..Len(l)
  BY MessageOf, PointFacts
<1>4. Context(a) = Context(l) \union {Len(a)}
  BY <1>1, <1>2, <1>3, MessageOf DEF Context
<1>5. Context(l) \subseteq 1..Len(l) /\ m.kind \in Ordinary
  BY MessageOf DEF Context, MessageRecord
<1> QED BY <1>1, <1>2, <1>4, <1>5, MessageOf DEF Shown

\* A handover takes the place of the context.
LEMMA HandedContext ==
  ASSUME NEW l \in Seq(MessageRecord), NEW m \in MessageRecord, m.kind = "compressed",
         NEW a, a = Append(l, m)
  PROVE  /\ CompressionPoint(a) = Len(a)
         /\ Context(a) = {Len(a)} /\ Shown(a) = {}
<1>1. a \in Seq(MessageRecord) /\ Len(a) = Len(l) + 1 /\ a[Len(l) + 1] = m /\ \A i \in 1..Len(l): a[i] = l[i]
  BY OneMore
<1>2. CompressionPoint(a) = Len(a)
  <2>1. Len(a) \in 1..Len(a) /\ a[Len(a)].kind = "compressed" /\ Len(a) \in Nat /\ DOMAIN a = 1..Len(a)
    BY <1>1, MessageOf
  <2>2. CompressionPoint(a) \in 0..Len(a) /\ Len(a) <= CompressionPoint(a)
    BY <2>1, PointFacts
  <2> QED BY <2>1, <2>2
<1>3. Context(a) = {Len(a)}
  BY <1>1, <1>2, MessageOf DEF Context
<1> QED BY <1>1, <1>2, <1>3 DEF Shown, Ordinary

\* What is written of a turn, before its own fields are set.
LEMMA MessageTyped ==
  ASSUME NEW c \in Callers, t[c].turn \in Nat, NEW kind \in Ordinary \union {"compressed"}
  PROVE  LET m == Message(kind, c)
         IN  m \in MessageRecord /\ m.kind = kind /\ m.turn = t[c].turn /\ m.n = 0 /\ m.of = 0 /\ m.covers = {}
                /\ m.size = 1
BY DEF Message, MessageRecord

\* Only one caller is inside; the others are idle or have just arrived.
LEMMA OthersOutside ==
  ASSUME OneInside, NEW c \in Callers, Inside(c), NEW d \in Callers \ {c}
  PROVE  ~Inside(d)
BY DEF OneInside

\* What d has to show while it is outside.
LEMMA Outside ==
  ASSUME NEW d \in Callers, t'[d].pc \in {"idle", "arrived"},
         t'[d].pc = "arrived" => \A i \in 1..Len(log'): log'[i].turn # t'[d].turn
  PROVE  CallerInv(d)'
BY DEF CallerInv, FailsRightly, Speaks, ReadsContext, CallsOpen, Inside, BeforeRequest, BeforeReply, InLoop

\* A step that says nothing keeps the invariant.
LEMMA QuietKeeps ==
  ASSUME TurnInv, NEW c \in Callers, Quiet(c)
  PROVE  TurnInv'
<1>1. TurnTypeOK'
  BY DEF TurnInv, TurnTypeOK, Quiet, OthersKept, Steady
<1>2. OneInside'
  BY DEF TurnInv, OneInside, Inside, Quiet, OthersKept, Steady
<1>3. Numbered'
  BY DEF TurnInv, Numbered, Inside, Quiet, OthersKept, Steady, SameWords
<1>4. Len(log') = Len(log) /\ DOMAIN log = 1..Len(log) /\ DOMAIN log' = 1..Len(log)
  BY MessageOf DEF Quiet, SameWords, TurnInv, TurnTypeOK
<1>5. TurnsInOrder'
  BY <1>4 DEF TurnInv, TurnsInOrder, Quiet, SameWords
<1>6. CompressionPoint(log') = CompressionPoint(log)
  BY SameContext DEF Quiet, TurnInv, TurnTypeOK
<1>7. CoversApart'
  BY <1>6 DEF TurnInv, CoversApart, Quiet, SameWords
<1>8. ResultsPlaced'
  <2> SUFFICES ASSUME NEW i \in 1..Len(log), log[i].kind = "result"
               PROVE  /\ log'[i].of \in 1..(i - 1) /\ log'[log'[i].of].kind = "call"
                      /\ log'[i].n \in 1..log'[log'[i].of].n
                      /\ \A k \in log'[i].of..i: log'[k].kind # "compressed"
    BY <1>4 DEF ResultsPlaced, Quiet, SameWords
  <2>1. /\ log[i].of \in 1..(i - 1) /\ log[log[i].of].kind = "call"
        /\ log[i].n \in 1..log[log[i].of].n
        /\ \A k \in log[i].of..i: log[k].kind # "compressed"
    BY DEF TurnInv, ResultsPlaced
  <2>2. log'[i].of = log[i].of /\ log'[i].n = log[i].n
    BY DEF Quiet, SameWords
  <2>3. Len(log) \in Nat
    BY MessageOf DEF TurnInv, TurnTypeOK
  <2>4. \A k \in log[i].of..i: k \in 1..Len(log)
    BY <2>1, <2>3
  <2> QED BY <2>1, <2>2, <2>3, <2>4 DEF Quiet, SameWords
<1>9. CallsAnswered'
  <2> SUFFICES ASSUME NEW i \in 1..Len(log), log[i].kind = "call"
               PROVE  \/ \A n \in 1..log[i].n: HasResult(log', i, n)
                      \/ outcome[log[i].turn] \notin {"running", "answered"}
                      \/ \E d \in Callers: Answering(d, i)'
    BY <1>4 DEF CallsAnswered, Quiet, SameWords, Steady
  <2>1. ASSUME NEW n, HasResult(log, i, n) PROVE HasResult(log', i, n)
    <3>1. PICK j \in (i + 1)..Len(log): log[j].kind = "result" /\ log[j].of = i /\ log[j].n = n
      BY <2>1 DEF HasResult
    <3>2. j \in 1..Len(log)
      BY MessageOf DEF TurnInv, TurnTypeOK
    <3> QED BY <1>4, <3>1, <3>2 DEF HasResult, Quiet, SameWords
  <2>2. ASSUME NEW d \in Callers, Answering(d, i) PROVE Answering(d, i)'
    <3>1. d = c
      BY <2>2, OthersOutside DEF Answering, Inside, Quiet, TurnInv
    <3> QED BY <3>1, <2>2 DEF Quiet
  <2> QED BY <2>1, <2>2 DEF TurnInv, CallsAnswered
<1>10. CancelsCounted'
  BY DEF TurnInv, CancelsCounted, Quiet, Steady
<1>11. ASSUME NEW d \in Callers PROVE CallerInv(d)'
  <2>1. CASE d # c
    BY <2>1, OthersOutside, Outside, <1>4 DEF TurnInv, CallerInv, Speaks, Inside, Quiet, OthersKept, SameWords
  <2>2. CASE d = c
    <3>1. Speaks(c)'
      BY <1>4 DEF TurnInv, CallerInv, Speaks, Inside, Quiet, SameWords
    <3> QED BY <2>2, <3>1 DEF CallerInv, Quiet, ReadsContext
  <2> QED BY <2>1, <2>2
<1> QED BY <1>1, <1>2, <1>3, <1>5, <1>7, <1>8, <1>9, <1>10, <1>11 DEF TurnInv

\* What stands where only pc and the cause change.
LEMMA RaiseQuiet ==
  ASSUME TurnInv, NEW c \in Callers, Inside(c), NEW cause, Raise(c, cause),
         cause \in Causes, cause = "canceled" => Canceled(c),
         cause = "window" => Frame + 1 + t[c].pending > MaxContext, UNCHANGED log, Steady
  PROVE  Quiet(c)
<1>1. TurnShape(t[c]) /\ DOMAIN t = Callers
  BY DEF TurnInv, TurnTypeOK
<1>2. /\ DOMAIN t' = Callers /\ \A d \in Callers \ {c}: t'[d] = t[d]
      /\ DOMAIN t'[c] = Fields
      /\ t'[c].pc = "failing" /\ t'[c].cause = cause
      /\ \A f \in Fields \ {"pc", "cause"}: t'[c][f] = t[c][f]
  BY <1>1 DEF Raise, TurnShape, Fields
<1>3. TurnShape(t'[c])
  BY <1>1, <1>2 DEF TurnShape, Fields
<1>4. FailsRightly(c)' /\ CallsOpen(c)'
  BY <1>2 DEF FailsRightly, CallsOpen, Steady, Canceled, Fields
<1>5. \A i \in 1..Len(log): Answering(c, i) => Answering(c, i)'
  BY <1>2 DEF Answering, Fields
<1> QED BY <1>2, <1>3, <1>4, <1>5 DEF Quiet, OthersKept, SameWords, BeforeRequest, BeforeReply, InLoop, Fields,
             TurnInv, TurnTypeOK

\* Where only pc changes, and no call is under way before or after.
LEMMA GotoQuiet ==
  ASSUME TurnInv, NEW c \in Callers, Inside(c), NEW pc, Goto(c, pc), Steady,
         log' \in Seq(MessageRecord), SameWords(log, log'),
         t[c].pc \in {"prepare", "prune", "weigh", "acted"},
         pc \in {"prune", "weigh", "append", "call", "sources"},
         t[c].pc = "acted" <=> pc = "sources",
         pc = "append" => ~t[c].within,
         pc = "prune" => t[c].pc = "prepare",
         pc = "call" => t[c].within
  PROVE  Quiet(c)
<1>1. TurnShape(t[c]) /\ DOMAIN t = Callers
  BY DEF TurnInv, TurnTypeOK
<1>2. /\ OthersKept(c)
      /\ DOMAIN t'[c] = Fields
      /\ t'[c].pc = pc
      /\ \A f \in Fields \ {"pc"}: t'[c][f] = t[c][f]
  BY <1>1 DEF Goto, TurnShape, Fields, OthersKept
<1>3. TurnShape(t'[c])
  BY <1>1, <1>2 DEF TurnShape, Fields
<1>4. FailsRightly(c)' /\ CallsOpen(c)'
  BY <1>2 DEF FailsRightly, CallsOpen
<1>5. \A i \in 1..Len(log): Answering(c, i) => Answering(c, i)'
  BY DEF Answering
<1>6. t'[c].turn = t[c].turn /\ t'[c].within = t[c].within
  BY <1>2 DEF Fields
<1>7. (BeforeRequest(t'[c]) => BeforeRequest(t[c])) /\ (BeforeReply(t'[c]) => BeforeReply(t[c]))
      /\ (InLoop(t'[c]) => t'[c].within)
  BY <1>1, <1>2, <1>6 DEF BeforeRequest, BeforeReply, InLoop, TurnShape
<1> QED BY <1>2, <1>3, <1>4, <1>5, <1>6, <1>7 DEF Quiet

\* The log itself says what it says.
LEMMA SameAsItIs ==
  ASSUME TurnInv, UNCHANGED log
  PROVE  log' \in Seq(MessageRecord) /\ SameWords(log, log')
BY DEF TurnInv, TurnTypeOK, SameWords

\* Truncation cuts payloads and says the same.
LEMMA TruncatedSame ==
  ASSUME TurnInv, log' = Truncated(log)
  PROVE  log' \in Seq(MessageRecord) /\ SameWords(log, log')
<1>1. Len(log) \in Nat /\ DOMAIN log = 1..Len(log) /\ \A i \in 1..Len(log): log[i] \in MessageRecord
  BY DEF TurnInv, TurnTypeOK
<1>2. ASSUME NEW m \in MessageRecord
      PROVE  LET r == [m EXCEPT !.size = 1, !.checked = TRUE]
             IN  /\ r \in MessageRecord /\ r.kind = m.kind /\ r.turn = m.turn /\ r.n = m.n
                 /\ r.of = m.of /\ r.covers = m.covers
  BY DEF MessageRecord
<1>3. /\ log' = [i \in 1..Len(log) |-> log'[i]]
      /\ \A i \in 1..Len(log): log'[i] = log[i] \/ log'[i] = [log[i] EXCEPT !.size = 1, !.checked = TRUE]
  BY <1>1 DEF Truncated
<1>4. \A i \in 1..Len(log):
        /\ log'[i] \in MessageRecord /\ log'[i].kind = log[i].kind /\ log'[i].turn = log[i].turn
        /\ log'[i].n = log[i].n /\ log'[i].of = log[i].of /\ log'[i].covers = log[i].covers
  BY <1>1, <1>2, <1>3
<1>5. log' \in Seq(MessageRecord) /\ Len(log') = Len(log)
  <2>1. log' \in [1..Len(log) -> MessageRecord]
    BY <1>3, <1>4
  <2> QED BY <1>1, <2>1
<1> QED BY <1>4, <1>5 DEF SameWords

\* One lemma for each step that says nothing: it is quiet.
LEMMA PrepareQuiet ==
  ASSUME TurnInv, NEW c \in Callers, Prepare(c)
  PROVE  Quiet(c)
<1>1. Inside(c) /\ Steady /\ UNCHANGED log
  BY DEF Prepare, Inside, Checked
<1>2. CASE Canceled(c)
  BY <1>1, <1>2, RaiseQuiet DEF Prepare, Checked, Causes
<1>3. CASE ~Canceled(c) /\ Frame + t[c].pending > MaxContext
  <2>1. Frame + 1 + t[c].pending > MaxContext
    BY <1>3, AgentTurnAssumption DEF TurnInv, TurnTypeOK, TurnShape
  <2> QED BY <1>1, <1>3, <2>1, RaiseQuiet DEF Prepare, Checked, Causes
<1>4. CASE ~Canceled(c) /\ ~(Frame + t[c].pending > MaxContext)
  BY <1>1, <1>4, GotoQuiet, SameAsItIs DEF Prepare, Checked
<1> QED BY <1>2, <1>3, <1>4

LEMMA PruneQuiet ==
  ASSUME TurnInv, NEW c \in Callers, Prune(c)
  PROVE  Quiet(c)
<1>1. Inside(c) /\ Steady
  BY DEF Prune, Inside
<1>2. CASE Raise(c, "runtime") /\ UNCHANGED log
  BY <1>1, <1>2, RaiseQuiet DEF Causes
<1>3. CASE Goto(c, "weigh") /\ (UNCHANGED log \/ log' = Truncated(log))
  BY <1>1, <1>3, GotoQuiet, SameAsItIs, TruncatedSame DEF Prune
<1> QED BY <1>2, <1>3 DEF Prune

\* A handover begins to read what the log covers then.
LEMMA HandingQuiet ==
  ASSUME TurnInv, NEW c \in Callers, t[c].pc = "weigh", UNCHANGED log, Steady,
         t' = [t EXCEPT ![c].pc = "handing", ![c].reads = Covered(log)]
  PROVE  Quiet(c)
<1>1. TurnShape(t[c]) /\ DOMAIN t = Callers
  BY DEF TurnInv, TurnTypeOK
<1>2. /\ OthersKept(c)
      /\ DOMAIN t'[c] = Fields
      /\ t'[c].pc = "handing" /\ t'[c].reads = Covered(log)
      /\ \A f \in Fields \ {"pc", "reads"}: t'[c][f] = t[c][f]
  BY <1>1 DEF TurnShape, Fields, OthersKept
<1>3. Covered(log) \subseteq Nat
  BY MessageOf DEF Covered, Context, TurnInv, TurnTypeOK
<1>4. TurnShape(t'[c])
  BY <1>1, <1>2, <1>3 DEF TurnShape, Fields
<1>5. FailsRightly(c)' /\ CallsOpen(c)'
  BY <1>2 DEF FailsRightly, CallsOpen
<1>6. \A i \in 1..Len(log): Answering(c, i) => Answering(c, i)'
  BY DEF Answering
<1>7. t'[c].turn = t[c].turn /\ t'[c].within = t[c].within /\ Inside(c)
  BY <1>2 DEF Fields, Inside
<1>8. (BeforeRequest(t'[c]) => BeforeRequest(t[c])) /\ (BeforeReply(t'[c]) => BeforeReply(t[c]))
      /\ (InLoop(t'[c]) => t'[c].within)
  BY <1>2, <1>7 DEF BeforeRequest, BeforeReply, InLoop
<1> QED BY <1>2, <1>4, <1>5, <1>6, <1>7, <1>8, SameAsItIs DEF Quiet

LEMMA PerceiveQuiet ==
  ASSUME TurnInv, NEW c \in Callers, Perceive(c)
  PROVE  Quiet(c)
<1>1. TurnShape(t[c]) /\ DOMAIN t = Callers /\ Steady /\ UNCHANGED log
  BY DEF TurnInv, TurnTypeOK, Perceive
<1>2. /\ OthersKept(c)
      /\ DOMAIN t'[c] = Fields
      /\ t'[c].pc = "call" /\ t'[c].within = TRUE
      /\ \A f \in Fields \ {"pc", "within"}: t'[c][f] = t[c][f]
  BY <1>1 DEF TurnShape, Fields, OthersKept, Perceive
<1>3. TurnShape(t'[c])
  BY <1>1, <1>2 DEF TurnShape, Fields
<1>4. FailsRightly(c)' /\ CallsOpen(c)'
  BY <1>2 DEF FailsRightly, CallsOpen
<1>5. \A i \in 1..Len(log): Answering(c, i) => Answering(c, i)'
  BY DEF Answering, Perceive
<1>6. t'[c].turn = t[c].turn /\ Inside(c)
  BY <1>2 DEF Fields, Inside, Perceive
<1>7. ~BeforeRequest(t'[c]) /\ BeforeReply(t[c]) /\ t'[c].within
  BY <1>2 DEF BeforeRequest, BeforeReply, Perceive
<1> QED BY <1>1, <1>2, <1>3, <1>4, <1>5, <1>6, <1>7, SameAsItIs DEF Quiet

\* Where the loop goes on, and no call is under way before or after but those
\* that are to be stored.
LEMMA LoopQuiet ==
  ASSUME TurnInv, NEW c \in Callers, t[c].pc \in {"call", "asked"}, UNCHANGED log, Steady,
         OthersKept(c), TurnShape(t'[c]),
         t'[c].pc \in {"call", "asked", "storecalls", "reply"},
         t'[c].turn = t[c].turn, t'[c].within = t[c].within,
         t'[c].pc = "storecalls" => t'[c].n # 0
  PROVE  Quiet(c)
<1>1. FailsRightly(c)' /\ CallsOpen(c)'
  BY DEF FailsRightly, CallsOpen, TurnShape
<1>2. \A i \in 1..Len(log): Answering(c, i) => Answering(c, i)'
  BY DEF Answering
<1>3. ~BeforeRequest(t'[c]) /\ BeforeReply(t[c]) /\ Inside(c)
  BY DEF BeforeRequest, BeforeReply, Inside
<1>4. t[c].within
  BY DEF TurnInv, CallerInv, Speaks, InLoop
<1> QED BY <1>1, <1>2, <1>3, <1>4, SameAsItIs DEF Quiet

\* The fields that the loop sets.
LEMMA LoopFields ==
  ASSUME TurnInv, NEW c \in Callers, NEW r,
         DOMAIN r = Fields, r.n \in Nat, r.bad \in BOOLEAN,
         \A f \in Fields \ {"pc", "attempt", "rounds", "finalizing", "n", "bad", "repeats"}: r[f] = t[c][f],
         t' = [t EXCEPT ![c] = r]
  PROVE  /\ OthersKept(c) /\ TurnShape(t'[c]) /\ t'[c] = r
         /\ t'[c].turn = t[c].turn /\ t'[c].within = t[c].within
<1>1. TurnShape(t[c]) /\ DOMAIN t = Callers
  BY DEF TurnInv, TurnTypeOK
<1>2. t'[c] = r /\ OthersKept(c)
  BY <1>1 DEF OthersKept
<1> QED BY <1>1, <1>2 DEF TurnShape, Fields

LEMMA CallModelQuiet ==
  ASSUME TurnInv, NEW c \in Callers, CallModel(c)
  PROVE  Quiet(c)
<1>1. TurnShape(t[c]) /\ DOMAIN t = Callers /\ Steady /\ UNCHANGED log /\ Inside(c) /\ t[c].pc = "call"
  BY DEF TurnInv, TurnTypeOK, CallModel, Inside, Checked
<1>2. CASE Canceled(c)
  BY <1>1, <1>2, RaiseQuiet DEF CallModel, Checked, Causes
<1>3. CASE t' = [t EXCEPT ![c].pc = "asked", ![c].attempt = 0]
  <2> DEFINE r == [t[c] EXCEPT !.pc = "asked", !.attempt = 0]
  <2>1. t' = [t EXCEPT ![c] = r]
    BY <1>1, <1>3
  <2>2. /\ DOMAIN r = Fields /\ r.pc = "asked" /\ r.n \in Nat /\ r.bad \in BOOLEAN
        /\ \A f \in Fields \ {"pc", "attempt"}: r[f] = t[c][f]
    BY <1>1 DEF TurnShape, Fields
  <2> HIDE DEF r
  <2>3. OthersKept(c) /\ TurnShape(t'[c]) /\ t'[c] = r /\ t'[c].turn = t[c].turn /\ t'[c].within = t[c].within
    BY <2>1, <2>2, LoopFields
  <2> QED BY <1>1, <2>2, <2>3, LoopQuiet
<1> QED BY <1>2, <1>3 DEF CallModel, Checked

LEMMA CallFailsQuiet ==
  ASSUME TurnInv, NEW c \in Callers, CallFails(c)
  PROVE  Quiet(c)
<1>1. TurnShape(t[c]) /\ DOMAIN t = Callers /\ Steady /\ UNCHANGED log /\ Inside(c) /\ t[c].pc = "asked"
  BY DEF TurnInv, TurnTypeOK, CallFails, Inside
<1>2. CASE Raise(c, "llm")
  BY <1>1, <1>2, RaiseQuiet DEF Causes
<1>3. CASE t' = [t EXCEPT ![c].attempt = @ + 1]
  <2> DEFINE r == [t[c] EXCEPT !.attempt = @ + 1]
  <2>1. t' = [t EXCEPT ![c] = r]
    BY <1>1, <1>3
  <2>2. /\ DOMAIN r = Fields /\ r.pc = "asked" /\ r.n \in Nat /\ r.bad \in BOOLEAN
        /\ \A f \in Fields \ {"attempt"}: r[f] = t[c][f]
    BY <1>1 DEF TurnShape, Fields
  <2> HIDE DEF r
  <2>3. OthersKept(c) /\ TurnShape(t'[c]) /\ t'[c] = r /\ t'[c].turn = t[c].turn /\ t'[c].within = t[c].within
    BY <2>1, <2>2, LoopFields
  <2> QED BY <1>1, <2>2, <2>3, LoopQuiet
<1> QED BY <1>2, <1>3 DEF CallFails

LEMMA AnswersFinallyQuiet ==
  ASSUME TurnInv, NEW c \in Callers, AnswersFinally(c)
  PROVE  Quiet(c)
<1>1. TurnShape(t[c]) /\ DOMAIN t = Callers /\ Steady /\ UNCHANGED log /\ Inside(c) /\ t[c].pc = "asked"
  BY DEF TurnInv, TurnTypeOK, AnswersFinally, Inside, Checked
<1>2. CASE Canceled(c)
  BY <1>1, <1>2, RaiseQuiet DEF AnswersFinally, Checked, Causes
<1>3. CASE t' = [t EXCEPT ![c].pc = "reply", ![c].rounds = @ + 1]
  <2> DEFINE r == [t[c] EXCEPT !.pc = "reply", !.rounds = @ + 1]
  <2>1. t' = [t EXCEPT ![c] = r]
    BY <1>1, <1>3
  <2>2. /\ DOMAIN r = Fields /\ r.pc = "reply" /\ r.n \in Nat /\ r.bad \in BOOLEAN
        /\ \A f \in Fields \ {"pc", "rounds"}: r[f] = t[c][f]
    BY <1>1 DEF TurnShape, Fields
  <2> HIDE DEF r
  <2>3. OthersKept(c) /\ TurnShape(t'[c]) /\ t'[c] = r /\ t'[c].turn = t[c].turn /\ t'[c].within = t[c].within
    BY <2>1, <2>2, LoopFields
  <2> QED BY <1>1, <2>2, <2>3, LoopQuiet
<1> QED BY <1>2, <1>3 DEF AnswersFinally, Checked

LEMMA AnswersWithCallsQuiet ==
  ASSUME TurnInv, NEW c \in Callers, AnswersWithCalls(c)
  PROVE  Quiet(c)
<1>1. TurnShape(t[c]) /\ DOMAIN t = Callers /\ Steady /\ UNCHANGED log /\ Inside(c) /\ t[c].pc = "asked"
  BY DEF TurnInv, TurnTypeOK, AnswersWithCalls, Inside, Checked
<1>2. CASE Canceled(c) /\ Raise(c, "canceled")
  BY <1>1, <1>2, RaiseQuiet DEF Causes
<1>3. CASE Raise(c, "limit")
  BY <1>1, <1>3, RaiseQuiet DEF Causes
<1>4. CASE t' = [t EXCEPT ![c].pc = "call", ![c].rounds = @ + 1, ![c].finalizing = TRUE]
  <2> DEFINE r == [t[c] EXCEPT !.pc = "call", !.rounds = @ + 1, !.finalizing = TRUE]
  <2>1. t' = [t EXCEPT ![c] = r]
    BY <1>1, <1>4
  <2>2. /\ DOMAIN r = Fields /\ r.pc = "call" /\ r.n \in Nat /\ r.bad \in BOOLEAN
        /\ \A f \in Fields \ {"pc", "rounds", "finalizing"}: r[f] = t[c][f]
    BY <1>1 DEF TurnShape, Fields
  <2> HIDE DEF r
  <2>3. OthersKept(c) /\ TurnShape(t'[c]) /\ t'[c] = r /\ t'[c].turn = t[c].turn /\ t'[c].within = t[c].within
    BY <2>1, <2>2, LoopFields
  <2> QED BY <1>1, <2>2, <2>3, LoopQuiet
<1>5. ASSUME NEW n \in 1..MaxCalls, NEW bad \in BOOLEAN,
             t' = [t EXCEPT ![c].pc = "storecalls", ![c].rounds = @ + 1, ![c].n = n, ![c].bad = bad]
      PROVE  Quiet(c)
  <2> DEFINE r == [t[c] EXCEPT !.pc = "storecalls", !.rounds = @ + 1, !.n = n, !.bad = bad]
  <2>1. t' = [t EXCEPT ![c] = r]
    BY <1>1, <1>5
  <2>a. n \in Nat \ {0}
    BY AgentTurnAssumption
  <2>b. DOMAIN r = Fields /\ r.pc = "storecalls" /\ r.n = n /\ r.bad = bad
    BY <1>1 DEF TurnShape, Fields
  <2>c. \A f \in Fields \ {"pc", "rounds", "n", "bad"}: r[f] = t[c][f]
    BY <1>1 DEF TurnShape, Fields
  <2>2. /\ DOMAIN r = Fields /\ r.pc = "storecalls" /\ r.n \in Nat \ {0} /\ r.bad \in BOOLEAN
        /\ \A f \in Fields \ {"pc", "rounds", "n", "bad"}: r[f] = t[c][f]
    BY <2>a, <2>b, <2>c
  <2> HIDE DEF r
  <2>3. OthersKept(c) /\ TurnShape(t'[c]) /\ t'[c] = r /\ t'[c].turn = t[c].turn /\ t'[c].within = t[c].within
    BY <2>1, <2>2, LoopFields
  <2> QED BY <1>1, <2>2, <2>3, LoopQuiet
<1> QED BY <1>2, <1>3, <1>4, <1>5 DEF AnswersWithCalls, Checked

LEMMA AnswersGarbledQuiet ==
  ASSUME TurnInv, NEW c \in Callers, AnswersGarbled(c)
  PROVE  Quiet(c)
<1>1. Steady /\ UNCHANGED log /\ Inside(c)
  BY DEF AnswersGarbled, Inside, Checked
<1>2. PICK cause \in {"canceled", "limit", "protocol"}: Raise(c, cause) /\ (cause = "canceled" => Canceled(c))
  BY DEF AnswersGarbled, Checked
<1> QED BY <1>1, <1>2, RaiseQuiet DEF Causes

\* Whether the context fits: a turn that gives up has nothing left to hand over.
LEMMA WeighQuiet ==
  ASSUME TurnInv, NEW c \in Callers, Weigh(c), Used(log) \in Nat, Context(log) = {} => Used(log) = Frame
  PROVE  Quiet(c)
<1>1. Steady /\ UNCHANGED log /\ Inside(c) /\ t[c].pc = "weigh" /\ t[c].pending \in Nat
  BY DEF Weigh, Inside, TurnInv, TurnTypeOK, TurnShape
<1>2. CASE t' = [t EXCEPT ![c].pc = "handing", ![c].reads = Covered(log)]
  BY <1>1, <1>2, HandingQuiet
<1>3. CASE ~(NeedsHandover(Used(log) + Pending(c)) /\ Context(log) # {}) /\ AfterMaintenance(c, log)
  <2>1. CASE t[c].within /\ Goto(c, "call")
    BY <1>1, <2>1, GotoQuiet, SameAsItIs
  <2>2. CASE ~t[c].within /\ Used(log) + t[c].pending > MaxContext /\ Raise(c, "window")
    <3>1. Used(log) + Pending(c) + MinRemaining > MaxContext
      BY <1>1, <2>2, AgentTurnAssumption DEF Pending
    <3>2. Used(log) = Frame
      BY <1>3, <3>1 DEF NeedsHandover
    <3>3. Frame + 1 + t[c].pending > MaxContext
      BY <1>1, <2>2, <3>2, AgentTurnAssumption
    <3> QED BY <1>1, <2>2, <3>3, RaiseQuiet DEF Causes
  <2>3. CASE ~t[c].within /\ Goto(c, "append")
    BY <1>1, <2>3, GotoQuiet, SameAsItIs
  <2> QED BY <1>3, <2>1, <2>2, <2>3 DEF AfterMaintenance
<1> QED BY <1>2, <1>3 DEF Weigh

\* What the steps of a tool call have in common: the message that made the calls is
\* the last one.
LEMMA ToolQuiet ==
  ASSUME TurnInv, NEW c \in Callers, t[c].pc \in {"tool", "running"}, UNCHANGED log, Steady,
         OthersKept(c), TurnShape(t'[c]),
         t'[c].turn = t[c].turn, t'[c].within = t[c].within, t'[c].n = t[c].n,
         \/ /\ t'[c].pc \in {"tool", "running"}
            /\ t'[c].next = Len(t'[c].done) + 1 /\ t'[c].next <= t[c].n + 1
            /\ t'[c].pc = "running" => t'[c].next <= t[c].n
         \/ t'[c].pc = "results" /\ t'[c].next = 1 /\ Len(t'[c].done) = t[c].n
  PROVE  Quiet(c)
<1>1. CallsOpen(c) /\ t[c].within
  BY DEF TurnInv, CallerInv, Speaks, InLoop
<1>2. t[c].n \in Nat \ {0} /\ Len(log) \in Nat \ {0} /\ log[Len(log)].kind = "call" /\ log[Len(log)].n = t[c].n
  BY <1>1, MessageOf DEF CallsOpen, TurnInv, TurnTypeOK
<1>3. CASE t'[c].pc \in {"tool", "running"}
  <2>1. CallsOpen(c)'
    BY <1>2, <1>3 DEF CallsOpen
  <2>2. \A i \in 1..Len(log): Answering(c, i) => Answering(c, i)'
    BY <1>3 DEF Answering
  <2>3. FailsRightly(c)' /\ ~BeforeRequest(t'[c]) /\ BeforeReply(t[c]) /\ Inside(c)
    BY <1>3 DEF FailsRightly, BeforeRequest, BeforeReply, Inside
  <2> QED BY <1>1, <1>3, <2>1, <2>2, <2>3, SameAsItIs DEF Quiet
<1>4. CASE t'[c].pc = "results" /\ t'[c].next = 1 /\ Len(t'[c].done) = t[c].n
  <2>1. CallOrdinal(c)' = Len(log)
    BY <1>2, <1>4 DEF CallOrdinal
  <2>2. CallsOpen(c)'
    BY <1>2, <1>4, <2>1 DEF CallsOpen
  <2>3. \A i \in 1..Len(log): Answering(c, i) => Answering(c, i)'
    BY <1>4, <2>1 DEF Answering
  <2>4. FailsRightly(c)' /\ ~BeforeRequest(t'[c]) /\ BeforeReply(t[c]) /\ Inside(c)
    BY <1>4 DEF FailsRightly, BeforeRequest, BeforeReply, Inside
  <2> QED BY <1>1, <1>4, <2>2, <2>3, <2>4, SameAsItIs DEF Quiet
<1> QED BY <1>3, <1>4

\* The result of one tool more is there.
LEMMA AnsweredQuiet ==
  ASSUME TurnInv, NEW c \in Callers, t[c].pc \in {"tool", "running"}, UNCHANGED log, Steady,
         t[c].next <= t[c].n, NEW size \in Nat, t' = Answered(c, size)
  PROVE  Quiet(c)
<1>1. TurnShape(t[c]) /\ DOMAIN t = Callers /\ CallsOpen(c)
  BY DEF TurnInv, TurnTypeOK, CallerInv
<1>2. /\ OthersKept(c)
      /\ DOMAIN t'[c] = Fields
      /\ t'[c].pc = "tool" /\ t'[c].next = t[c].next + 1 /\ t'[c].done = Append(t[c].done, size)
      /\ \A f \in Fields \ {"pc", "next", "done"}: t'[c][f] = t[c][f]
  BY <1>1 DEF TurnShape, Fields, OthersKept, Answered
<1>3. t'[c].done \in Seq(Nat) /\ Len(t'[c].done) = Len(t[c].done) + 1
  BY <1>1, <1>2 DEF TurnShape
<1>4. TurnShape(t'[c])
  BY <1>1, <1>2, <1>3 DEF TurnShape, Fields
<1>5. t'[c].turn = t[c].turn /\ t'[c].within = t[c].within /\ t'[c].n = t[c].n
  BY <1>2 DEF Fields
<1>6. t[c].next = Len(t[c].done) + 1 /\ t[c].n \in Nat /\ t[c].next \in Nat /\ Len(t[c].done) \in Nat
  BY <1>1 DEF CallsOpen, TurnShape
<1>7. t'[c].next = Len(t'[c].done) + 1 /\ t'[c].next <= t[c].n + 1
  BY <1>2, <1>3, <1>6
<1> QED BY <1>2, <1>4, <1>5, <1>7, ToolQuiet

LEMMA StartToolQuiet ==
  ASSUME TurnInv, NEW c \in Callers, StartTool(c)
  PROVE  Quiet(c)
<1>1. TurnShape(t[c]) /\ DOMAIN t = Callers /\ Steady /\ UNCHANGED log /\ Inside(c) /\ t[c].pc = "tool"
      /\ t[c].next <= t[c].n /\ CallsOpen(c)
  BY DEF TurnInv, TurnTypeOK, StartTool, Inside, Checked, CallerInv
<1>2. CASE Canceled(c) /\ Raise(c, "canceled")
  BY <1>1, <1>2, RaiseQuiet DEF Causes
<1>3. CASE t' = Answered(c, 1)
  BY <1>1, <1>3, AnsweredQuiet
<1>4. ASSUME NEW repeats, t' = [t EXCEPT ![c].pc = "running", ![c].repeats = repeats]
      PROVE  Quiet(c)
  <2>1. /\ OthersKept(c)
        /\ DOMAIN t'[c] = Fields /\ t'[c].pc = "running"
        /\ \A f \in Fields \ {"pc", "repeats"}: t'[c][f] = t[c][f]
    BY <1>1, <1>4 DEF TurnShape, Fields, OthersKept
  <2>2. TurnShape(t'[c])
    BY <1>1, <2>1 DEF TurnShape, Fields
  <2>3. /\ t'[c].turn = t[c].turn /\ t'[c].within = t[c].within /\ t'[c].n = t[c].n
        /\ t'[c].next = t[c].next /\ t'[c].done = t[c].done
    BY <2>1 DEF Fields
  <2> QED BY <1>1, <2>1, <2>2, <2>3, ToolQuiet DEF CallsOpen
<1> QED BY <1>2, <1>3, <1>4 DEF StartTool, Checked

LEMMA EndToolQuiet ==
  ASSUME TurnInv, NEW c \in Callers, EndTool(c)
  PROVE  Quiet(c)
<1>1. Steady /\ UNCHANGED log /\ Inside(c) /\ t[c].pc = "running" /\ t[c].next <= t[c].n
  BY DEF TurnInv, EndTool, Inside, CallerInv, CallsOpen
<1>2. CASE Canceled(c) /\ Raise(c, "canceled")
  BY <1>1, <1>2, RaiseQuiet DEF Causes
<1>3. ASSUME NEW size \in {1, Long}, t' = Answered(c, size) PROVE Quiet(c)
  BY <1>1, <1>3, AnsweredQuiet, AgentTurnAssumption
<1> QED BY <1>2, <1>3 DEF EndTool

LEMMA AllRunQuiet ==
  ASSUME TurnInv, NEW c \in Callers, AllRun(c)
  PROVE  Quiet(c)
<1>1. TurnShape(t[c]) /\ DOMAIN t = Callers /\ Steady /\ UNCHANGED log /\ t[c].pc = "tool"
      /\ t[c].next > t[c].n /\ CallsOpen(c)
  BY DEF TurnInv, TurnTypeOK, AllRun, CallerInv
<1>2. /\ OthersKept(c)
      /\ DOMAIN t'[c] = Fields /\ t'[c].pc = "results" /\ t'[c].next = 1
      /\ \A f \in Fields \ {"pc", "next"}: t'[c][f] = t[c][f]
  BY <1>1 DEF TurnShape, Fields, OthersKept, AllRun
<1>4. /\ t'[c].turn = t[c].turn /\ t'[c].within = t[c].within /\ t'[c].n = t[c].n
      /\ t'[c].done = t[c].done
  BY <1>2 DEF Fields
<1>3. TurnShape(t'[c])
  <2>1. t'[c].pending = t[c].pending /\ t'[c].reads = t[c].reads /\ t'[c].bad = t[c].bad
    BY <1>2 DEF Fields
  <2> QED BY <1>1, <1>2, <1>4, <2>1 DEF TurnShape
<1>5. Len(t[c].done) = t[c].n
  BY <1>1 DEF CallsOpen, TurnShape
<1> QED BY <1>1, <1>2, <1>3, <1>4, <1>5, ToolQuiet

LEMMA ActedQuiet ==
  ASSUME TurnInv, NEW c \in Callers, Acted(c)
  PROVE  Quiet(c)
BY GotoQuiet, SameAsItIs DEF Acted, Inside

\* The steps at which a turn fails for what it met.
LEMMA FaultQuiet ==
  ASSUME TurnInv, NEW c \in Callers, StoreFails(c) \/ HandOverFails(c)
  PROVE  Quiet(c)
<1>1. Raise(c, "runtime") /\ UNCHANGED log /\ Steady /\ Inside(c)
  BY DEF StoreFails, HandOverFails, Inside, Writing
<1> QED BY <1>1, RaiseQuiet DEF Causes

\* What holds of 0 and passes from each number to the next holds of all.
LEMMA NatInduct ==
  ASSUME NEW S, 0 \in S, \A n \in Nat: n \in S => n + 1 \in S
  PROVE  Nat \subseteq S
<1> SUFFICES ASSUME Nat \ S # {} PROVE FALSE
  OBVIOUS
<1>1. PICK m \in Nat \ S: \A k \in Nat \ S: m <= k
  BY LeastElement
<1>2. m - 1 \in Nat /\ m - 1 \notin Nat \ S
  BY <1>1
<1> QED BY <1>1, <1>2

\* One element after the other is taken from a finite set.
Picked(s) == CHOOSE x \in s: TRUE

SumStep(w, g, T) == IF T = {} THEN 0 ELSE w[Picked(T)] + g[T \ {Picked(T)}]

Within(S, n) == {T \in SUBSET S: Cardinality(T) <= n}

Sums(w, S, n) == {g \in [Within(S, n) -> Nat]: \A T \in Within(S, n): g[T] = SumStep(w, g, T)}

\* A finite set without the element picked from it.
LEMMA OneLess ==
  ASSUME NEW S, IsFiniteSet(S), NEW T \in SUBSET S, T # {}
  PROVE  /\ Picked(T) \in T /\ T \ {Picked(T)} \in SUBSET S
         /\ Cardinality(T) \in Nat \ {0} /\ Cardinality(T \ {Picked(T)}) = Cardinality(T) - 1
<1>1. Picked(T) \in T
  BY DEF Picked
<1>2. IsFiniteSet(T)
  BY FS_Subset
<1>3. Cardinality(T) \in Nat /\ Cardinality(T) # 0
  BY <1>2, FS_CardinalityType, FS_EmptySet
<1> QED BY <1>1, <1>2, <1>3, FS_RemoveElement

\* Any number of weights have a sum: by induction on how many they are.
LEMMA SumsExist ==
  ASSUME NEW S, IsFiniteSet(S), NEW w \in [S -> Nat]
  PROVE  \A n \in Nat: Sums(w, S, n) # {}
<1> DEFINE Good == {n \in Nat: Sums(w, S, n) # {}}
<1>1. \A T \in SUBSET S: Cardinality(T) \in Nat /\ (Cardinality(T) = 0 <=> T = {})
  BY FS_Subset, FS_CardinalityType, FS_EmptySet
<1>2. 0 \in Good
  <2>1. \A T \in Within(S, 0): T = {}
    BY <1>1 DEF Within
  <2>2. [T \in Within(S, 0) |-> 0] \in Sums(w, S, 0)
    BY <2>1 DEF Sums, SumStep
  <2> QED BY <2>2
<1>3. ASSUME NEW n \in Nat, n \in Good PROVE n + 1 \in Good
  <2>1. PICK g \in Sums(w, S, n): TRUE
    BY <1>3
  <2> DEFINE h == [T \in Within(S, n + 1) |-> SumStep(w, g, T)]
  <2>2. ASSUME NEW T \in Within(S, n + 1), T # {}
        PROVE  w[Picked(T)] \in Nat /\ T \ {Picked(T)} \in Within(S, n)
    BY <1>3, <2>2, OneLess DEF Within
  <2>3. g \in [Within(S, n) -> Nat] /\ \A T \in Within(S, n): g[T] = SumStep(w, g, T)
    BY <2>1 DEF Sums
  <2>4. h \in [Within(S, n + 1) -> Nat]
    BY <2>2, <2>3 DEF SumStep
  <2>5. \A T \in Within(S, n): T \in Within(S, n + 1)
    BY <1>1, <1>3 DEF Within
  <2>6. \A T \in Within(S, n): h[T] = g[T]
    BY <2>3, <2>5
  <2>7. \A T \in Within(S, n + 1): h[T] = SumStep(w, g, T)
    OBVIOUS
  <2> HIDE DEF h
  <2>8. \A T \in Within(S, n + 1): h[T] = SumStep(w, h, T)
    BY <2>2, <2>6, <2>7 DEF SumStep
  <2>9. h \in Sums(w, S, n + 1)
    BY <2>4, <2>8 DEF Sums
  <2> QED BY <1>3, <2>9
<1> HIDE DEF Good
<1>4. Nat \subseteq Good
  BY <1>2, <1>3, NatInduct
<1> QED BY <1>4 DEF Good

\* The function by which a fold computes the sum.
Computes(g, w, S) == g = [T \in SUBSET S |-> SumStep(w, g, T)]

LEMMA SumExists ==
  ASSUME NEW S, IsFiniteSet(S), NEW w \in [S -> Nat]
  PROVE  \E g: Computes(g, w, S)
<1>1. Cardinality(S) \in Nat /\ \A T \in SUBSET S: T \in Within(S, Cardinality(S))
  BY FS_Subset, FS_CardinalityType DEF Within
<1>2. PICK g: g \in Sums(w, S, Cardinality(S))
  BY <1>1, SumsExist
<1>3. Within(S, Cardinality(S)) = SUBSET S
  BY <1>1 DEF Within
<1>4. Computes(g, w, S)
  BY <1>2, <1>3 DEF Sums, Computes
<1> QED BY <1>4

\* What such a function gives: a number that is no less than any of the weights,
\* and for one or two of them just what they are together.
LEMMA SumFacts ==
  ASSUME NEW S, IsFiniteSet(S), NEW w \in [S -> Nat],
         NEW it, \A T \in SUBSET S: it[T] = SumStep(w, it, T)
  PROVE  /\ it[S] \in Nat
         /\ S = {} => it[S] = 0
         /\ \A x \in S: w[x] <= it[S]
         /\ \A x: S = {x} => it[S] = w[x]
         /\ \A x, y: S = {x, y} /\ x # y => it[S] = w[x] + w[y]
<1>1. Cardinality(S) \in Nat /\ S \in Within(S, Cardinality(S))
  BY FS_CardinalityType DEF Within
<1>2. it[{}] = 0
  BY DEF SumStep
<1>3. \A T \in SUBSET S: T # {} => it[T] = w[Picked(T)] + it[T \ {Picked(T)}]
  BY DEF SumStep
<1> DEFINE Above(T) == it[T] \in Nat /\ \A x \in T: w[x] <= it[T]
           Good == {n \in Nat: \A T \in Within(S, n): Above(T)}
<1>4. 0 \in Good
  <2>1. \A T \in Within(S, 0): T = {}
    BY FS_Subset, FS_CardinalityType, FS_EmptySet DEF Within
  <2>2. Above({})
    BY <1>2
  <2> HIDE DEF Above
  <2> QED BY <2>1, <2>2
<1>5. ASSUME NEW n \in Nat, n \in Good PROVE n + 1 \in Good
  <2>1. ASSUME NEW T \in Within(S, n + 1) PROVE Above(T)
    <3>1. CASE T = {}
      BY <1>2, <3>1
    <3>2. CASE T # {}
      <4> DEFINE p == Picked(T)
                 U == T \ {p}
      <4>1. p \in T /\ p \in S /\ U \in Within(S, n) /\ T = U \cup {p}
        BY <1>5, <3>2, OneLess DEF Within
      <4>2. it[T] = w[p] + it[U]
        BY <1>3, <3>2 DEF Within
      <4>3. Above(U)
        BY <1>5, <4>1
      <4>4. w[p] \in Nat /\ \A x \in U: w[x] \in Nat
        BY <4>1 DEF Within
      <4> HIDE DEF p, U
      <4> QED BY <4>1, <4>2, <4>3, <4>4
    <3> QED BY <3>1, <3>2
  <2> HIDE DEF Above
  <2> QED BY <1>5, <2>1
<1>6. Above(S)
  <2>1. Nat \subseteq Good
    <3> HIDE DEF Good
    <3> QED BY <1>4, <1>5, NatInduct
  <2> HIDE DEF Above
  <2> QED BY <1>1, <2>1
<1>7. \A x \in S: it[{x}] = w[x]
  <2>1. ASSUME NEW x \in S PROVE it[{x}] = w[x]
    <3>1. Picked({x}) = x /\ {x} \ {x} = {} /\ {x} \in SUBSET S
      BY DEF Picked
    <3>2. it[{x}] = w[x] + it[{}]
      BY <1>3, <3>1
    <3> QED BY <1>2, <3>2
  <2> QED BY <2>1
<1>8. ASSUME NEW x, NEW y, S = {x, y}, x # y PROVE it[S] = w[x] + w[y]
  <2>1. Picked(S) = x \/ Picked(S) = y
    BY <1>8 DEF Picked
  <2>2. S \ {x} = {y} /\ S \ {y} = {x} /\ S # {} /\ x \in S /\ y \in S
    BY <1>8
  <2>3. it[S] = w[Picked(S)] + it[S \ {Picked(S)}]
    BY <1>3, <2>2
  <2> QED BY <1>7, <2>1, <2>2, <2>3
<1>9. \A x: S = {x} => it[S] = w[x]
  BY <1>7
<1>10. S = {} => it[S] = 0
  BY <1>2
<1> QED BY <1>6, <1>8, <1>9, <1>10

SizeSum(l, S) == MapThenSumSet(LAMBDA i: l[i].size, S)

\* The sizes of messages.
LEMMA SizeSumFacts ==
  ASSUME NEW l, NEW S, IsFiniteSet(S), \A i \in S: l[i].size \in Nat
  PROVE  /\ SizeSum(l, S) \in Nat
         /\ S = {} => SizeSum(l, S) = 0
         /\ \A i: S = {i} => SizeSum(l, S) = l[i].size
<1> DEFINE Once(g) == [T \in SUBSET S |-> IF T = {} THEN 0 ELSE l[CHOOSE x \in T: TRUE].size + g[T \ {CHOOSE x \in T: TRUE}]]
           it == CHOOSE g: g = Once(g)
           w == [i \in S |-> l[i].size]
<1>1. SizeSum(l, S) = it[S]
  BY DEF SizeSum, MapThenSumSet, MapThenFoldSet
<1>2. w \in [S -> Nat] /\ \A i \in S: w[i] = l[i].size
  OBVIOUS
<1> HIDE DEF w
<1>3. PICK g: Computes(g, w, S)
  <2> HIDE DEF Once, it
  <2>1. w \in [S -> Nat]
    BY <1>2
  <2> QED BY <2>1, SumExists
<1>4. \A f: \A T \in SUBSET S: Once(f)[T] = SumStep(w, f, T)
  <2>1. \A T \in SUBSET S: T # {} => w[Picked(T)] = l[Picked(T)].size
    BY <1>2 DEF Picked
  <2> QED BY <2>1 DEF SumStep, Picked
<1>5. g = Once(g)
  <2>1. \A f: Once(f) = [T \in SUBSET S |-> Once(f)[T]]
    OBVIOUS
  <2> HIDE DEF Once
  <2>2. [T \in SUBSET S |-> SumStep(w, g, T)] = [T \in SUBSET S |-> Once(g)[T]]
    BY <1>4
  <2> QED BY <1>3, <2>1, <2>2 DEF Computes
<1>6. it = Once(it)
  <2> HIDE DEF Once
  <2> QED BY <1>5
<1> HIDE DEF it
<1>7. \A T \in SUBSET S: it[T] = SumStep(w, it, T)
  <2>1. \A T \in SUBSET S: it[T] = Once(it)[T]
    BY <1>6
  <2> HIDE DEF Once
  <2> QED BY <1>4, <2>1
<1> HIDE DEF Once
<1>8. /\ it[S] \in Nat
      /\ S = {} => it[S] = 0
      /\ \A i: S = {i} => it[S] = w[i]
  BY <1>2, <1>7, SumFacts
<1> QED BY <1>1, <1>2, <1>8

\* What the prompt takes.
LEMMA UsedFacts ==
  ASSUME NEW l \in Seq(MessageRecord)
  PROVE  /\ Used(l) \in Nat
         /\ Context(l) = {} => Used(l) = Frame
         /\ \A i: Context(l) = {i} => Used(l) = Frame + l[i].size
<1>1. Context(l) \subseteq 1..Len(l) /\ Len(l) \in Nat
  BY MessageOf DEF Context
<1>2. IsFiniteSet(Context(l))
  <2>1. IsFiniteSet(1..Len(l))
    BY <1>1, FS_Interval
  <2> QED BY <1>1, <2>1, FS_Subset
<1>3. \A i \in Context(l): l[i].size \in Nat
  BY <1>1, MessageOf
<1> DEFINE sum == SizeSum(l, Context(l))
<1>4. sum \in Nat /\ (Context(l) = {} => sum = 0) /\ \A i: Context(l) = {i} => sum = l[i].size
  BY <1>2, <1>3, SizeSumFacts
<1>5. Used(l) = Frame + sum
  BY DEF Used, SizeSum, MapThenSumSet, MapThenFoldSet
<1> HIDE DEF sum
<1> QED BY <1>4, <1>5, AgentTurnAssumption

\* What caller c adds to the log.
Says(c, m) ==
  /\ m \in MessageRecord /\ log' = Append(log, m) /\ m.turn = t[c].turn
  /\ OthersKept(c) /\ TurnShape(t'[c]) /\ Steady
  /\ Inside(c) /\ t'[c].pc \notin {"idle", "arrived", "handing"}
  /\ t'[c].turn = t[c].turn
  /\ BeforeReply(t[c])
  /\ m.kind = "user" => BeforeRequest(t[c])
  /\ BeforeRequest(t'[c]) => BeforeRequest(t[c]) /\ m.kind # "user"
  /\ BeforeReply(t'[c]) => m.kind # "reply"
  /\ InLoop(t'[c]) => t'[c].within
  /\ m.covers = IF m.kind = "compressed" THEN Covered(log) ELSE {}
  /\ m.kind = "result" =>
       /\ m.of \in 1..Len(log) /\ log[m.of].kind = "call" /\ m.n \in 1..log[m.of].n
       /\ \A k \in m.of..Len(log): log[k].kind # "compressed"
  /\ m.kind = "call" => t'[c].pc = "tool"
  /\ \A i \in 1..Len(log): log[i].kind = "call" /\ Answering(c, i) =>
       Answering(c, i)' \/ \A n \in 1..log[i].n: HasResult(log', i, n)
  /\ FailsRightly(c)' /\ CallsOpen(c)'

\* A step that says one message keeps the invariant.
LEMMA SaysKeeps ==
  ASSUME TurnInv, NEW c \in Callers, NEW m, Says(c, m)
  PROVE  TurnInv'
<1>1. /\ log \in Seq(MessageRecord) /\ m \in MessageRecord /\ log' = Append(log, m)
      /\ log' \in Seq(MessageRecord) /\ Len(log') = Len(log) + 1 /\ log'[Len(log) + 1] = m
      /\ Len(log) \in Nat /\ DOMAIN log = 1..Len(log) /\ DOMAIN log' = 1..(Len(log) + 1)
      /\ \A i \in 1..Len(log): log'[i] = log[i]
  BY OneMore, MessageOf DEF TurnInv, TurnTypeOK, Says
<1>2. TurnTypeOK'
  BY <1>1 DEF TurnInv, TurnTypeOK, Says, OthersKept, Steady
<1>3. OneInside'
  BY DEF TurnInv, OneInside, Inside, Says, OthersKept, Steady
<1>4. Numbered'
  <2>1. Numbered /\ UNCHANGED outcome /\ \A d \in Callers: t'[d].turn = t[d].turn /\ (t'[d].pc = "idle" <=> t[d].pc = "idle")
    BY DEF TurnInv, Inside, Says, OthersKept, Steady
  <2>2. m.turn \in 1..Len(outcome)
    BY <2>1 DEF Numbered, Says, Inside
  <2>3. \A i \in 1..Len(log'): log'[i].turn \in 1..Len(outcome)
    BY <1>1, <2>1, <2>2 DEF Numbered
  <2> QED BY <2>1, <2>3 DEF Numbered
<1>5. TurnsInOrder'
  <2> SUFFICES ASSUME NEW i \in 1..(Len(log) + 1), NEW j \in 1..(Len(log) + 1), i < j
               PROVE  /\ log'[i].turn = log'[j].turn =>
                           log'[i].kind # "reply" /\ ~(log'[i].kind = "user" /\ log'[j].kind = "user")
                      /\ log'[j].turn # log'[i].turn =>
                           ~\E k \in 1..(Len(log) + 1): k > j /\ log'[k].turn = log'[i].turn
    BY <1>1 DEF TurnsInOrder
  <2>1. i \in 1..Len(log) /\ log'[i] = log[i]
    BY <1>1
  <2>2. TurnsInOrder /\ Speaks(c)
    BY DEF TurnInv, CallerInv
  <2>3. CASE j = Len(log) + 1
    BY <1>1, <2>1, <2>2, <2>3 DEF Speaks, Says
  <2>4. CASE j \in 1..Len(log)
    <3>1. log'[j] = log[j]
      BY <1>1, <2>4
    <3>2. log[j].turn # log[i].turn => log[i].turn # t[c].turn
      BY <2>1, <2>2, <2>4 DEF Speaks, Says
    <3> QED BY <1>1, <2>1, <2>2, <2>4, <3>1, <3>2 DEF TurnsInOrder, Says
  <2> QED BY <1>1, <2>3, <2>4
<1>6. CoversApart'
  <2>1. CompressionPoint(log) \in 0..Len(log)
    BY <1>1, PointFacts
  <2>2. CASE m.kind # "compressed"
    <3>1. CompressionPoint(log') = CompressionPoint(log) /\ m.covers = {}
      BY <1>1, <2>2, OrdinaryContext DEF Says
    <3> QED BY <1>1, <3>1 DEF CoversApart, TurnInv
  <2>3. CASE m.kind = "compressed"
    <3>1. CompressionPoint(log') = Len(log) + 1 /\ m.covers = Covered(log)
      BY <1>1, <2>3, HandedContext DEF Says
    <3>2. \A x \in m.covers: x \in 1..Len(log) /\ x >= CompressionPoint(log)
      BY <1>1, <3>1 DEF Covered, Context
    <3>3. \A i \in 1..Len(log): \A x \in log[i].covers: x \in Nat /\ x < CompressionPoint(log)
      BY <1>1, MessageOf DEF CoversApart, TurnInv
    <3>4. ASSUME NEW i \in 1..(Len(log) + 1), NEW x \in log'[i].covers
          PROVE  x < CompressionPoint(log')
      BY <1>1, <2>1, <3>1, <3>2, <3>3
    <3>5. ASSUME NEW i \in 1..(Len(log) + 1), NEW j \in 1..(Len(log) + 1), i # j
          PROVE  log'[i].covers \intersect log'[j].covers = {}
      <4>1. CASE i \in 1..Len(log) /\ j \in 1..Len(log)
        BY <1>1, <3>5, <4>1 DEF CoversApart, TurnInv
      <4>2. CASE i = Len(log) + 1 \/ j = Len(log) + 1
        BY <1>1, <2>1, <3>2, <3>3, <3>5, <4>2
      <4> QED BY <1>1, <4>1, <4>2
    <3> QED BY <1>1, <3>4, <3>5 DEF CoversApart
  <2> QED BY <2>2, <2>3
<1>7. ResultsPlaced'
  <2> SUFFICES ASSUME NEW i \in 1..(Len(log) + 1), log'[i].kind = "result"
               PROVE  /\ log'[i].of \in 1..(i - 1) /\ log'[log'[i].of].kind = "call"
                      /\ log'[i].n \in 1..log'[log'[i].of].n
                      /\ \A k \in log'[i].of..i: log'[k].kind # "compressed"
    BY <1>1 DEF ResultsPlaced
  <2>1. CASE i \in 1..Len(log)
    <3>1. /\ log[i].of \in 1..(i - 1) /\ log[log[i].of].kind = "call"
          /\ log[i].n \in 1..log[log[i].of].n
          /\ \A k \in log[i].of..i: log[k].kind # "compressed"
      BY <1>1, <2>1 DEF TurnInv, ResultsPlaced
    <3>2. \A k \in log[i].of..i: k \in 1..Len(log)
      BY <1>1, <2>1, <3>1
    <3> QED BY <1>1, <2>1, <3>1, <3>2
  <2>2. CASE i = Len(log) + 1
    <3>1. log'[i] = m /\ m.of \in 1..Len(log) /\ log'[m.of] = log[m.of]
      BY <1>1, <2>2 DEF Says
    <3>2. ASSUME NEW k \in m.of..i PROVE log'[k].kind # "compressed"
      <4>1. CASE k = i
        BY <2>2, <3>1, <4>1
      <4>2. CASE k \in 1..Len(log)
        BY <1>1, <2>2, <3>1, <4>2 DEF Says
      <4> QED BY <1>1, <2>2, <3>1, <4>1, <4>2
    <3> QED BY <1>1, <2>2, <3>1, <3>2 DEF Says
  <2> QED BY <1>1, <2>1, <2>2
<1>8. CallsAnswered'
  <2> SUFFICES ASSUME NEW i \in 1..(Len(log) + 1), log'[i].kind = "call"
               PROVE  \/ \A n \in 1..log'[i].n: HasResult(log', i, n)
                      \/ outcome[log'[i].turn] \notin {"running", "answered"}
                      \/ \E d \in Callers: Answering(d, i)'
    BY <1>1 DEF CallsAnswered, Says, Steady
  <2>1. CASE i = Len(log) + 1
    <3>1. Answering(c, i)'
      BY <1>1, <2>1 DEF Says, Answering
    <3> QED BY <3>1
  <2>2. CASE i \in 1..Len(log)
    <3>1. ASSUME NEW n, HasResult(log, i, n) PROVE HasResult(log', i, n)
      <4>1. PICK j \in (i + 1)..Len(log): log[j].kind = "result" /\ log[j].of = i /\ log[j].n = n
        BY <3>1 DEF HasResult
      <4>2. j \in (i + 1)..Len(log') /\ log'[j] = log[j]
        BY <1>1
      <4> QED BY <4>1, <4>2 DEF HasResult
    <3>2. ASSUME NEW d \in Callers, Answering(d, i)
          PROVE  Answering(d, i)' \/ \A n \in 1..log[i].n: HasResult(log', i, n)
      <4>1. d = c
        BY <3>2, OthersOutside DEF Answering, Inside, Says, TurnInv
      <4> QED BY <1>1, <2>2, <4>1, <3>2 DEF Says
    <3> QED BY <1>1, <2>2, <3>1, <3>2 DEF TurnInv, CallsAnswered
  <2> QED BY <1>1, <2>1, <2>2
<1>9. CancelsCounted'
  BY DEF TurnInv, CancelsCounted, Says, Steady
<1>10. ASSUME NEW d \in Callers PROVE CallerInv(d)'
  <2>1. CASE d # c
    <3>1. t'[d] = t[d] /\ ~Inside(d) /\ (t[d].pc = "arrived" => t[d].turn # t[c].turn)
      BY <2>1, OthersOutside DEF TurnInv, Numbered, Inside, Says, OthersKept
    <3> QED BY <1>1, <3>1, Outside DEF TurnInv, CallerInv, Speaks, Inside, Says
  <2>2. CASE d = c
    <3>1. Speaks(c)'
      <4>1. ASSUME NEW i \in 1..(Len(log) + 1), NEW j \in 1..(Len(log) + 1), i < j, log'[i].turn = t[c].turn
            PROVE  log'[j].turn = t[c].turn
        <5>1. i \in 1..Len(log) /\ log[i].turn = t[c].turn
          BY <1>1, <4>1
        <5>2. CASE j = Len(log) + 1
          BY <1>1, <5>2 DEF Says
        <5>3. CASE j \in 1..Len(log)
          BY <1>1, <4>1, <5>1, <5>3 DEF TurnInv, CallerInv, Speaks, Says
        <5> QED BY <1>1, <5>2, <5>3
      <4>2. ASSUME BeforeRequest(t'[c]), NEW i \in 1..(Len(log) + 1), log'[i].turn = t[c].turn
            PROVE  log'[i].kind # "user"
        BY <1>1, <4>2 DEF TurnInv, CallerInv, Speaks, Says
      <4>3. ASSUME BeforeReply(t'[c]), NEW i \in 1..(Len(log) + 1), log'[i].turn = t[c].turn
            PROVE  log'[i].kind # "reply"
        BY <1>1, <4>3 DEF TurnInv, CallerInv, Speaks, Says
      <4> QED BY <1>1, <4>1, <4>2, <4>3 DEF Speaks, Says
    <3> QED BY <2>2, <3>1 DEF CallerInv, Says, ReadsContext
  <2> QED BY <2>1, <2>2
<1> QED BY <1>2, <1>3, <1>4, <1>5, <1>6, <1>7, <1>8, <1>9, <1>10 DEF TurnInv

\* A step that writes finds its caller inside, with a number.
LEMMA SpeakerFacts ==
  ASSUME TurnInv, NEW c \in Callers, Inside(c)
  PROVE  /\ TurnShape(t[c]) /\ DOMAIN t = Callers /\ CallerInv(c) /\ t[c].turn \in Nat
         /\ log \in Seq(MessageRecord) /\ Len(log) \in Nat
<1>1. Len(outcome) \in Nat /\ t[c].turn \in 1..Len(outcome)
  BY DEF TurnInv, TurnTypeOK, Numbered, Inside
<1> QED BY <1>1, MessageOf DEF TurnInv, TurnTypeOK

\* One lemma for each step that says something: it says one message of its turn.
LEMMA HandOverSays ==
  ASSUME TurnInv, NEW c \in Callers, HandOver(c)
  PROVE  \E m: Says(c, m) /\ m.kind = "compressed"
<1> DEFINE m == [Message("compressed", c) EXCEPT !.covers = t[c].reads]
<1>1. Inside(c) /\ Steady /\ log' = Append(log, m) /\ t[c].pc = "handing"
  BY DEF HandOver, Inside, Store
<1>2. TurnShape(t[c]) /\ DOMAIN t = Callers /\ CallerInv(c) /\ t[c].turn \in Nat
      /\ log \in Seq(MessageRecord) /\ Len(log) \in Nat
  BY <1>1, SpeakerFacts
<1>3. t[c].reads = Covered(log) /\ t[c].reads \subseteq Nat
  BY <1>1, <1>2 DEF CallerInv, ReadsContext, TurnShape
<1>4. m \in MessageRecord /\ m.kind = "compressed" /\ m.turn = t[c].turn /\ m.covers = Covered(log) /\ m.size = 1
  BY <1>2, <1>3 DEF Message, MessageRecord
<1> HIDE DEF m
<1>5. \A i \in 1..Len(log): ~Answering(c, i)
  BY <1>1 DEF Answering
<1>6. PICK pc \in {"call", "failing", "append"}, cause \in {t[c].cause, "window"}:
        /\ t' = [t EXCEPT ![c].pc = pc, ![c].cause = cause]
        /\ pc = "call" => t[c].within
        /\ pc = "append" => ~t[c].within
        /\ pc = "failing" => cause = "window" /\ Used(log') + t[c].pending > MaxContext
  <2>1. CASE Raise(c, "window")
    <3>1. /\ t' = [t EXCEPT ![c].pc = "failing", ![c].cause = "window"]
          /\ Used(log') + t[c].pending > MaxContext
      BY <1>1, <2>1, <1>2 DEF HandOver, AfterMaintenance, Raise, Goto, TurnShape, Fields
    <3> QED BY <3>1
  <2>2. ASSUME NEW pc \in {"call", "append"}, Goto(c, pc)
        PROVE  t' = [t EXCEPT ![c].pc = pc, ![c].cause = t[c].cause]
    BY <1>2, <2>2 DEF Goto, TurnShape
  <2> QED BY <1>1, <2>1, <2>2 DEF HandOver, AfterMaintenance
<1>7. /\ OthersKept(c) /\ DOMAIN t'[c] = Fields
      /\ t'[c].pc = pc /\ t'[c].cause = cause
      /\ \A f \in Fields \ {"pc", "cause"}: t'[c][f] = t[c][f]
  BY <1>2, <1>6 DEF TurnShape, Fields, OthersKept
<1>8. TurnShape(t'[c]) /\ t'[c].turn = t[c].turn /\ t'[c].within = t[c].within /\ t'[c].pending = t[c].pending
  BY <1>2, <1>7 DEF TurnShape, Fields
<1>9. log' \in Seq(MessageRecord) /\ Context(log') = {Len(log')} /\ log'[Len(log')] = m
  BY <1>1, <1>2, <1>4, OneMore, HandedContext
<1>10. Used(log') = Frame + 1
  BY <1>4, <1>9, UsedFacts
<1>11. pc = "failing" => Frame + 1 + t[c].pending > MaxContext
  BY <1>6, <1>10
<1>12. FailsRightly(c)' /\ CallsOpen(c)'
  BY <1>6, <1>7, <1>8, <1>11 DEF FailsRightly, CallsOpen, Causes
<1>13. BeforeReply(t[c]) /\ (BeforeRequest(t'[c]) => BeforeRequest(t[c])) /\ (InLoop(t'[c]) => t'[c].within)
  BY <1>1, <1>6, <1>7, <1>8 DEF BeforeReply, BeforeRequest, InLoop
<1> QED BY <1>1, <1>4, <1>5, <1>6, <1>7, <1>8, <1>12, <1>13 DEF Says

LEMMA AppendUserSays ==
  ASSUME TurnInv, NEW c \in Callers, AppendUser(c)
  PROVE  \E m: Says(c, m) /\ m.kind # "compressed"
<1> DEFINE m == [Message("user", c) EXCEPT !.size = t[c].pending]
<1>1. Inside(c) /\ Steady /\ log' = Append(log, m) /\ t[c].pc = "append"
  BY DEF AppendUser, Inside, Store
<1>2. TurnShape(t[c]) /\ DOMAIN t = Callers /\ t[c].turn \in Nat
  BY <1>1, SpeakerFacts
<1>3. m \in MessageRecord /\ m.kind = "user" /\ m.turn = t[c].turn /\ m.covers = {}
  BY <1>2 DEF Message, MessageRecord, Ordinary, TurnShape
<1> HIDE DEF m
<1>4. \A i \in 1..Len(log): ~Answering(c, i)
  BY <1>1 DEF Answering
<1>5. /\ OthersKept(c) /\ DOMAIN t'[c] = Fields /\ t'[c].pc = "perceive"
      /\ \A f \in Fields \ {"pc"}: t'[c][f] = t[c][f]
  BY <1>2 DEF TurnShape, Fields, OthersKept, AppendUser, Goto
<1>6. TurnShape(t'[c]) /\ t'[c].turn = t[c].turn
  BY <1>2, <1>5 DEF TurnShape, Fields
<1>7. FailsRightly(c)' /\ CallsOpen(c)'
  BY <1>5 DEF FailsRightly, CallsOpen
<1>8. BeforeReply(t[c]) /\ BeforeRequest(t[c]) /\ ~BeforeRequest(t'[c]) /\ ~InLoop(t'[c])
  BY <1>1, <1>5 DEF BeforeReply, BeforeRequest, InLoop
<1> QED BY <1>1, <1>3, <1>4, <1>5, <1>6, <1>7, <1>8 DEF Says

LEMMA AppendReplySays ==
  ASSUME TurnInv, NEW c \in Callers, AppendReply(c)
  PROVE  \E m: Says(c, m) /\ m.kind # "compressed"
<1> DEFINE m == Message("reply", c)
<1>1. Inside(c) /\ Steady /\ log' = Append(log, m) /\ t[c].pc = "reply"
  BY DEF AppendReply, Inside, Store
<1>2. TurnShape(t[c]) /\ DOMAIN t = Callers /\ t[c].turn \in Nat
  BY <1>1, SpeakerFacts
<1>3. m \in MessageRecord /\ m.kind = "reply" /\ m.turn = t[c].turn /\ m.covers = {}
  BY <1>2 DEF Message, MessageRecord, Ordinary
<1> HIDE DEF m
<1>4. \A i \in 1..Len(log): ~Answering(c, i)
  BY <1>1 DEF Answering
<1>5. /\ OthersKept(c) /\ DOMAIN t'[c] = Fields /\ t'[c].pc = "acted"
      /\ \A f \in Fields \ {"pc"}: t'[c][f] = t[c][f]
  BY <1>2 DEF TurnShape, Fields, OthersKept, AppendReply, Goto
<1>6. TurnShape(t'[c]) /\ t'[c].turn = t[c].turn
  BY <1>2, <1>5 DEF TurnShape, Fields
<1>7. FailsRightly(c)' /\ CallsOpen(c)'
  BY <1>5 DEF FailsRightly, CallsOpen
<1>8. BeforeReply(t[c]) /\ ~BeforeRequest(t'[c]) /\ ~InLoop(t'[c]) /\ ~BeforeReply(t'[c])
  BY <1>1, <1>5 DEF BeforeReply, BeforeRequest, InLoop
<1> QED BY <1>1, <1>3, <1>4, <1>5, <1>6, <1>7, <1>8 DEF Says

LEMMA StoreCallsSays ==
  ASSUME TurnInv, NEW c \in Callers, StoreCalls(c)
  PROVE  \E m: Says(c, m) /\ m.kind # "compressed"
<1>1. PICK size \in {1, Long}:
        log' = Append(log, [Message("call", c) EXCEPT !.n = t[c].n, !.bad = t[c].bad, !.size = size])
  BY DEF StoreCalls, Store
<1> DEFINE m == [Message("call", c) EXCEPT !.n = t[c].n, !.bad = t[c].bad, !.size = size]
<1>2. Inside(c) /\ Steady /\ log' = Append(log, m) /\ t[c].pc = "storecalls"
  BY <1>1 DEF StoreCalls, Inside
<1>3. TurnShape(t[c]) /\ DOMAIN t = Callers /\ CallerInv(c) /\ t[c].turn \in Nat
      /\ log \in Seq(MessageRecord) /\ Len(log) \in Nat
  BY <1>2, SpeakerFacts
<1>4. t[c].n \in Nat \ {0} /\ t[c].within
  BY <1>2, <1>3 DEF CallerInv, CallsOpen, Speaks, InLoop
<1>5. m.kind = "call" /\ m.turn = t[c].turn /\ m.covers = {} /\ m.n = t[c].n
  BY DEF Message
<1>6. m \in MessageRecord
  <2>1. size \in Nat /\ t[c].bad \in BOOLEAN
    BY <1>3, AgentTurnAssumption DEF TurnShape
  <2> QED BY <1>3, <1>4, <2>1 DEF Message, MessageRecord, Ordinary
<1> HIDE DEF m
<1>7. \A i \in 1..Len(log): ~Answering(c, i)
  BY <1>2 DEF Answering
<1>8. /\ OthersKept(c) /\ DOMAIN t'[c] = Fields
      /\ t'[c].pc = "tool" /\ t'[c].next = 1 /\ t'[c].done = <<>>
      /\ \A f \in Fields \ {"pc", "next", "done"}: t'[c][f] = t[c][f]
  BY <1>3 DEF TurnShape, Fields, OthersKept, StoreCalls
<1>9. /\ t'[c].turn = t[c].turn /\ t'[c].within = t[c].within /\ t'[c].n = t[c].n
      /\ t'[c].pending = t[c].pending /\ t'[c].reads = t[c].reads /\ t'[c].bad = t[c].bad
  BY <1>8 DEF Fields
<1>10. TurnShape(t'[c])
  BY <1>3, <1>8, <1>9 DEF TurnShape
<1>11. Len(log') = Len(log) + 1 /\ log'[Len(log')] = m
  BY <1>2, <1>3, <1>6, OneMore
<1>12. FailsRightly(c)' /\ CallsOpen(c)'
  BY <1>3, <1>4, <1>5, <1>8, <1>9, <1>11 DEF FailsRightly, CallsOpen
<1>13. BeforeReply(t[c]) /\ ~BeforeRequest(t'[c])
  BY <1>2, <1>8 DEF BeforeReply, BeforeRequest
<1> QED BY <1>2, <1>4, <1>5, <1>6, <1>7, <1>8, <1>9, <1>10, <1>12, <1>13 DEF Says

LEMMA StoreResultSays ==
  ASSUME TurnInv, NEW c \in Callers, StoreResult(c)
  PROVE  \E m: Says(c, m) /\ m.kind # "compressed"
<1> DEFINE m == [Message("result", c) EXCEPT !.of = CallOrdinal(c), !.n = t[c].next,
                                             !.size = t[c].done[t[c].next]]
           o == CallOrdinal(c)
<1>1. Inside(c) /\ Steady /\ log' = Append(log, m) /\ t[c].pc = "results"
  BY DEF StoreResult, Inside, Store
<1>2. TurnShape(t[c]) /\ DOMAIN t = Callers /\ CallerInv(c) /\ t[c].turn \in Nat
      /\ log \in Seq(MessageRecord) /\ Len(log) \in Nat
  BY <1>1, SpeakerFacts
<1>3. /\ t[c].n \in Nat \ {0} /\ t[c].within
      /\ Len(t[c].done) = t[c].n /\ t[c].next \in 1..t[c].n /\ t[c].next <= Len(log)
      /\ log[o].kind = "call" /\ log[o].n = t[c].n
      /\ \A k \in (o + 1)..Len(log): log[k].kind = "result"
      /\ \A n \in 1..(t[c].next - 1): HasResult(log, o, n)
  BY <1>1, <1>2 DEF CallerInv, CallsOpen, Speaks, InLoop
<1>4. o \in 1..Len(log) /\ o = Len(log) + 1 - t[c].next
  BY <1>2, <1>3 DEF CallOrdinal
<1> HIDE DEF o
<1>5. /\ m.kind = "result" /\ m.turn = t[c].turn /\ m.covers = {} /\ m.n = t[c].next /\ m.of = o
  BY DEF Message, o
<1>6. m \in MessageRecord
  <2>1. t[c].done[t[c].next] \in Nat /\ o \in Nat /\ t[c].next \in Nat
    BY <1>2, <1>3, <1>4 DEF TurnShape
  <2> QED BY <1>2, <2>1 DEF Message, MessageRecord, Ordinary, o
<1> HIDE DEF m
<1>7. \A k \in o..Len(log): log[k].kind # "compressed"
  BY <1>3, <1>4
<1>8. /\ log' \in Seq(MessageRecord) /\ Len(log') = Len(log) + 1 /\ log'[Len(log) + 1] = m
      /\ \A i \in 1..Len(log): log'[i] = log[i]
  BY <1>1, <1>2, <1>6, OneMore
<1>9. \A n \in 1..t[c].next: HasResult(log', o, n)
  <2>1. HasResult(log', o, t[c].next)
    BY <1>4, <1>5, <1>8, <1>2 DEF HasResult
  <2>2. ASSUME NEW n, HasResult(log, o, n) PROVE HasResult(log', o, n)
    <3>1. PICK j \in (o + 1)..Len(log): log[j].kind = "result" /\ log[j].of = o /\ log[j].n = n
      BY <2>2 DEF HasResult
    <3>2. j \in (o + 1)..Len(log') /\ log'[j] = log[j]
      BY <1>2, <1>4, <1>8
    <3> QED BY <3>1, <3>2 DEF HasResult
  <2>3. t[c].next \in Nat
    BY <1>3
  <2> QED BY <1>3, <2>1, <2>2, <2>3
<1>10. CASE t[c].next < Len(t[c].done)
  <2>1. /\ OthersKept(c) /\ DOMAIN t'[c] = Fields
        /\ t'[c].pc = "results" /\ t'[c].next = t[c].next + 1
        /\ \A f \in Fields \ {"next"}: t'[c][f] = t[c][f]
    BY <1>1, <1>2, <1>10 DEF TurnShape, Fields, OthersKept, StoreResult
  <2>2. /\ t'[c].turn = t[c].turn /\ t'[c].within = t[c].within /\ t'[c].n = t[c].n
        /\ t'[c].pending = t[c].pending /\ t'[c].reads = t[c].reads /\ t'[c].bad = t[c].bad
        /\ t'[c].done = t[c].done
    BY <2>1 DEF Fields
  <2>3. TurnShape(t'[c])
    BY <1>2, <2>1, <2>2 DEF TurnShape
  <2>4. CallOrdinal(c)' = o
    BY <1>2, <1>3, <1>4, <1>8, <2>1 DEF CallOrdinal
  <2>5. \A k \in (o + 1)..Len(log'): log'[k].kind = "result"
    <3>1. ASSUME NEW k \in (o + 1)..(Len(log) + 1) PROVE log'[k].kind = "result"
      <4>1. CASE k = Len(log) + 1
        BY <1>5, <1>8, <4>1
      <4>2. CASE k \in 1..Len(log)
        BY <1>2, <1>3, <1>4, <1>8, <4>2
      <4> QED BY <1>2, <1>4, <4>1, <4>2
    <3> QED BY <1>8, <3>1
  <2>6. log'[o] = log[o] /\ t'[c].next \in 1..t[c].n /\ t'[c].next <= Len(log')
    BY <1>2, <1>3, <1>4, <1>8, <1>10, <2>1
  <2>7. \A n \in 1..(t'[c].next - 1): HasResult(log', o, n)
    BY <1>3, <1>9, <2>1
  <2>8. FailsRightly(c)' /\ CallsOpen(c)'
    BY <1>3, <2>1, <2>2, <2>4, <2>5, <2>6, <2>7 DEF FailsRightly, CallsOpen
  <2>9. \A i \in 1..Len(log): Answering(c, i) => Answering(c, i)'
    BY <1>1, <1>8, <2>1, <2>2, <2>4 DEF Answering, o
  <2>10. BeforeReply(t[c]) /\ ~BeforeRequest(t'[c])
    BY <1>1, <2>1 DEF BeforeReply, BeforeRequest
  <2> QED BY <1>1, <1>3, <1>4, <1>5, <1>6, <1>7, <2>1, <2>2, <2>3, <2>8, <2>9, <2>10 DEF Says
<1>11. CASE ~(t[c].next < Len(t[c].done))
  <2>1. /\ OthersKept(c) /\ DOMAIN t'[c] = Fields
        /\ t'[c].pc = "prune"
        /\ \A f \in Fields \ {"pc", "iterations"}: t'[c][f] = t[c][f]
    BY <1>1, <1>2, <1>11 DEF TurnShape, Fields, OthersKept, StoreResult
  <2>2. /\ t'[c].turn = t[c].turn /\ t'[c].within = t[c].within
    BY <2>1 DEF Fields
  <2>3. TurnShape(t'[c])
    BY <1>2, <2>1 DEF TurnShape, Fields
  <2>4. FailsRightly(c)' /\ CallsOpen(c)'
    BY <2>1 DEF FailsRightly, CallsOpen
  <2>5. t[c].next = t[c].n
    BY <1>3, <1>11
  <2>6. \A i \in 1..Len(log): Answering(c, i) => \A n \in 1..log[i].n: HasResult(log', i, n)
    BY <1>1, <1>3, <1>9, <2>5 DEF Answering, o
  <2>7. BeforeReply(t[c]) /\ ~BeforeRequest(t'[c]) /\ ~InLoop(t'[c])
    BY <1>1, <1>3, <2>1, <2>2 DEF BeforeReply, BeforeRequest, InLoop
  <2> QED BY <1>1, <1>3, <1>4, <1>5, <1>6, <1>7, <2>1, <2>2, <2>3, <2>4, <2>6, <2>7 DEF Says
<1> QED BY <1>10, <1>11

\* Where nothing is said, what was said stays in order.
LEMMA LogStays ==
  ASSUME TurnInv, UNCHANGED log
  PROVE  /\ TurnsInOrder' /\ CoversApart' /\ ResultsPlaced'
         /\ DOMAIN log = 1..Len(log) /\ Len(log) \in Nat
         /\ \A i, n: HasResult(log, i, n) <=> HasResult(log', i, n)
<1>1. TurnsInOrder' /\ CoversApart'
  BY DEF TurnInv, TurnsInOrder, CoversApart
<1>2. ResultsPlaced'
  BY DEF TurnInv, ResultsPlaced
<1>3. DOMAIN log = 1..Len(log) /\ Len(log) \in Nat
  BY MessageOf DEF TurnInv, TurnTypeOK
<1> QED BY <1>1, <1>2, <1>3

\* A caller whose turn does not move keeps what it has shown.
LEMMA CallerStays ==
  ASSUME NEW d \in Callers, CallerInv(d), t'[d] = t[d], UNCHANGED log, flagged \subseteq flagged'
  PROVE  CallerInv(d)'
<1>1. FailsRightly(d)'
  BY DEF CallerInv, FailsRightly
<1>2. Speaks(d)'
  BY DEF CallerInv, Speaks, Inside, BeforeRequest, BeforeReply, InLoop
<1>3. ReadsContext(d)'
  BY DEF CallerInv, ReadsContext
<1>4. CallsOpen(d)'
  BY DEF CallerInv, CallsOpen, CallOrdinal, HasResult
<1> QED BY <1>1, <1>2, <1>3, <1>4 DEF CallerInv

\* A caller at rest.
LEMMA IdleShape == TurnShape(Idle) /\ Idle.pc = "idle"
BY DEF TurnShape, Idle, Fields

\* The outcomes and the agents that are flagged are finitely many.
LEMMA OutcomeFacts ==
  ASSUME TurnInv
  PROVE  /\ Len(outcome) \in Nat /\ DOMAIN outcome = 1..Len(outcome)
         /\ \A n \in 1..Len(outcome): outcome[n] \in Outcomes
         /\ IsFiniteSet({n \in DOMAIN outcome: outcome[n] = "canceled"})
         /\ Cardinality({n \in DOMAIN outcome: outcome[n] = "canceled"}) \in Nat
         /\ IsFiniteSet(flagged) /\ Cardinality(flagged) \in Nat
<1>1. Len(outcome) \in Nat /\ DOMAIN outcome = 1..Len(outcome) /\ \A n \in 1..Len(outcome): outcome[n] \in Outcomes
  BY DEF TurnInv, TurnTypeOK
<1>2. IsFiniteSet(1..Len(outcome)) /\ IsFiniteSet(1..agents)
  BY <1>1, FS_Interval DEF TurnInv, TurnTypeOK
<1>3. IsFiniteSet({n \in DOMAIN outcome: outcome[n] = "canceled"})
  BY <1>1, <1>2, FS_Subset
<1>4. IsFiniteSet(flagged)
  BY <1>2, FS_Subset DEF TurnInv, TurnTypeOK
<1> QED BY <1>1, <1>3, <1>4, FS_CardinalityType

\* Turn t[c] ends with outcome o.
Leaves(c, o) ==
  /\ t[c].pc # "idle"
  /\ t' = [t EXCEPT ![c] = Idle]
  /\ outcome' = [outcome EXCEPT ![t[c].turn] = o]
  /\ o \in {"busy", "answered", "untraced"} \union Causes
  /\ o = "answered" => t[c].pc = "sources"
  /\ holder' = IF Inside(c) THEN "none" ELSE holder
  /\ flagged' \subseteq flagged
  /\ ~Inside(c) => flagged' = flagged
  /\ o = "canceled" => t[c].agent \in flagged /\ flagged' = flagged \ {t[c].agent}
  /\ UNCHANGED <<log, cached, agents, cancels>>

\* A turn that ends, however it ends, keeps the invariant.
LEMMA LeavesKeeps ==
  ASSUME TurnInv, NEW c \in Callers, NEW o, Leaves(c, o)
  PROVE  TurnInv'
<1>1. DOMAIN t = Callers /\ DOMAIN t' = Callers /\ t'[c] = Idle /\ \A d \in Callers \ {c}: t'[d] = t[d]
  BY DEF TurnInv, TurnTypeOK, Leaves
<1>2. /\ Len(outcome) \in Nat /\ DOMAIN outcome = 1..Len(outcome)
      /\ t[c].turn \in 1..Len(outcome) /\ outcome[t[c].turn] = "running"
  BY OutcomeFacts DEF TurnInv, Numbered, Leaves
<1>3. o \in Outcomes
  BY DEF Leaves, Outcomes
<1>4. /\ outcome' \in Seq(Outcomes) /\ Len(outcome') = Len(outcome)
      /\ DOMAIN outcome' = 1..Len(outcome)
      /\ outcome'[t[c].turn] = o /\ \A n \in 1..Len(outcome): n # t[c].turn => outcome'[n] = outcome[n]
  BY <1>2, <1>3 DEF TurnInv, TurnTypeOK, Leaves
<1>5. TurnTypeOK'
  BY <1>1, <1>4, IdleShape DEF TurnInv, TurnTypeOK, Leaves
<1>6. OneInside'
  BY <1>1, IdleShape, AgentTurnAssumption DEF TurnInv, OneInside, Inside, Leaves
<1>7. Numbered'
  BY <1>1, <1>2, <1>4, IdleShape DEF TurnInv, Numbered, Leaves
<1>8. CallsAnswered'
  <2> SUFFICES ASSUME NEW i \in 1..Len(log), log[i].kind = "call"
               PROVE  \/ \A n \in 1..log[i].n: HasResult(log', i, n)
                      \/ outcome'[log[i].turn] \notin {"running", "answered"}
                      \/ \E d \in Callers: Answering(d, i)'
    BY DEF CallsAnswered, Leaves
  <2>1. \/ \A n \in 1..log[i].n: HasResult(log, i, n)
        \/ outcome[log[i].turn] \notin {"running", "answered"}
        \/ \E d \in Callers: Answering(d, i)
    BY DEF TurnInv, CallsAnswered
  <2>2. log[i].turn \in 1..Len(outcome)
    BY DEF TurnInv, Numbered
  <2>3. CASE \A n \in 1..log[i].n: HasResult(log, i, n)
    BY <2>3 DEF HasResult, Leaves
  <2>4. CASE outcome[log[i].turn] \notin {"running", "answered"}
    BY <1>2, <1>4, <2>2, <2>4
  <2>5. ASSUME NEW d \in Callers, Answering(d, i), d # c PROVE Answering(d, i)'
    BY <1>1, <2>5 DEF Answering, CallOrdinal, Leaves
  <2>6. CASE Answering(c, i)
    BY <1>4, <2>6 DEF Answering, Leaves, Causes
  <2> QED BY <2>1, <2>3, <2>4, <2>5, <2>6
<1>9. CancelsCounted'
  <2> DEFINE D == {n \in DOMAIN outcome: outcome[n] = "canceled"}
             E == {n \in DOMAIN outcome': outcome'[n] = "canceled"}
  <2>1. /\ IsFiniteSet(D) /\ Cardinality(D) \in Nat /\ IsFiniteSet(flagged) /\ Cardinality(flagged) \in Nat
        /\ Cardinality(D) + Cardinality(flagged) <= cancels /\ cancels \in Nat /\ UNCHANGED cancels
    BY OutcomeFacts DEF TurnInv, TurnTypeOK, CancelsCounted, Leaves
  <2>2. CASE o = "canceled"
    <3>1. E = D \union {t[c].turn} /\ t[c].turn \notin D
      BY <1>2, <1>4, <2>2
    <3> HIDE DEF D, E
    <3>2. Cardinality(E) = Cardinality(D) + 1
      BY <2>1, <3>1, FS_AddElement
    <3>3. t[c].agent \in flagged /\ flagged' = flagged \ {t[c].agent}
      BY <2>2 DEF Leaves
    <3>4. Cardinality(flagged') = Cardinality(flagged) - 1
      BY <2>1, <3>3, FS_RemoveElement
    <3> QED BY <2>1, <3>2, <3>4 DEF CancelsCounted, E
  <2>3. CASE o # "canceled"
    <3>1. E = D
      BY <1>2, <1>4, <2>3
    <3>2. Cardinality(flagged') <= Cardinality(flagged) /\ Cardinality(flagged') \in Nat
      BY <2>1, FS_Subset, FS_CardinalityType DEF Leaves
    <3>3. CancelsCounted' <=> Cardinality(E) + Cardinality(flagged') <= cancels'
      BY DEF CancelsCounted
    <3> HIDE DEF D, E
    <3> QED BY <2>1, <3>1, <3>2, <3>3
  <2> QED BY <2>2, <2>3
<1>10. ASSUME NEW d \in Callers PROVE CallerInv(d)'
  <2>1. CASE d = c
    BY <1>1, <2>1, IdleShape, Outside
  <2>2. CASE d # c /\ Inside(c)
    <3>1. ~Inside(d)
      BY <2>2, OthersOutside DEF TurnInv
    <3> QED BY <1>1, <2>2, <3>1, Outside DEF Inside, Leaves, TurnInv, CallerInv, Speaks
  <2>3. CASE d # c /\ ~Inside(c)
    <3>1. CallerInv(d) /\ t'[d] = t[d] /\ UNCHANGED <<log, flagged>>
      BY <1>1, <2>3 DEF TurnInv, Leaves
    <3> QED BY <3>1, CallerStays
  <2> QED BY <2>1, <2>2, <2>3
<1> QED BY <1>5, <1>6, <1>7, <1>8, <1>9, <1>10, LogStays DEF TurnInv, Leaves

\* ... for each way to end.
LEMMA EndKeeps ==
  ASSUME TurnInv, NEW c \in Callers, Busy(c) \/ Finish(c) \/ Fail(c) \/ FailUntraced(c)
  PROVE  TurnInv'
<1>1. FailsRightly(c) /\ (holder # "none" => TRUE)
  BY DEF TurnInv, CallerInv
<1>2. CASE Busy(c)
  <2>1. Leaves(c, "busy")
    BY <1>2 DEF Busy, Leaves, Inside, environment
  <2> QED BY <2>1, LeavesKeeps
<1>3. CASE Finish(c)
  <2>1. Leaves(c, "answered")
    BY <1>3 DEF Finish, Leaves, Inside, environment
  <2> QED BY <2>1, LeavesKeeps
<1>4. CASE Fail(c)
  <2>1. Leaves(c, t[c].cause)
    BY <1>1, <1>4 DEF Fail, Leaves, Inside, FailsRightly, Causes
  <2> QED BY <2>1, LeavesKeeps
<1>5. CASE FailUntraced(c)
  <2>1. Leaves(c, "untraced")
    BY <1>5 DEF FailUntraced, Leaves, Inside
  <2> QED BY <2>1, LeavesKeeps
<1> QED BY <1>2, <1>3, <1>4, <1>5

\* A request arrives and is numbered.
LEMMA BeginKeeps ==
  ASSUME TurnInv, NEW c \in Callers, Begin(c)
  PROVE  TurnInv'
<1> DEFINE agent == IF cached = 0 THEN agents + 1 ELSE cached
<1>1. PICK size \in {1, Long}:
        t' = [t EXCEPT ![c] = [Idle EXCEPT !.pc = "arrived", !.turn = Len(outcome) + 1,
                                           !.agent = agent, !.pending = size]]
  BY DEF Begin
<1> DEFINE r == [Idle EXCEPT !.pc = "arrived", !.turn = Len(outcome) + 1, !.agent = agent, !.pending = size]
<1>2. size \in Nat
  BY AgentTurnAssumption
<1>3. TurnShape(r) /\ r.pc = "arrived" /\ r.turn = Len(outcome) + 1
  BY <1>2 DEF TurnShape, Idle, Fields
<1> HIDE DEF r
<1>4. DOMAIN t = Callers /\ DOMAIN t' = Callers /\ t'[c] = r /\ \A d \in Callers \ {c}: t'[d] = t[d]
  BY <1>1 DEF TurnInv, TurnTypeOK, r
<1>5. t[c].pc = "idle" /\ outcome' = Append(outcome, "running") /\ UNCHANGED <<log, holder, flagged, cancels>>
      /\ cached' = agent /\ agents' = IF cached = 0 THEN agent ELSE agents
  BY DEF Begin
<1>6. /\ Len(outcome) \in Nat /\ DOMAIN outcome = 1..Len(outcome) /\ outcome \in Seq(Outcomes)
  BY OutcomeFacts DEF TurnInv, TurnTypeOK
<1>7. /\ outcome' \in Seq(Outcomes) /\ Len(outcome') = Len(outcome) + 1
      /\ DOMAIN outcome' = 1..(Len(outcome) + 1)
      /\ outcome'[Len(outcome) + 1] = "running" /\ \A n \in 1..Len(outcome): outcome'[n] = outcome[n]
  <2>1. "running" \in Outcomes
    BY DEF Outcomes
  <2> QED BY <1>5, <1>6, <2>1
<1>8. TurnTypeOK'
  <2>1. cached' \in Nat /\ agents' \in Nat /\ cached' <= agents' /\ agents <= agents' /\ agents \in Nat
    BY <1>5 DEF TurnInv, TurnTypeOK
  <2>2. flagged' \subseteq 1..agents'
    BY <1>5, <2>1 DEF TurnInv, TurnTypeOK
  <2> QED BY <1>3, <1>4, <1>5, <1>7, <2>1, <2>2 DEF TurnInv, TurnTypeOK
<1>9. OneInside'
  BY <1>3, <1>4, <1>5 DEF TurnInv, OneInside, Inside
<1>10. Numbered'
  BY <1>3, <1>4, <1>5, <1>6, <1>7 DEF TurnInv, Numbered
<1>11. CallsAnswered'
  <2> SUFFICES ASSUME NEW i \in 1..Len(log), log[i].kind = "call"
               PROVE  \/ \A n \in 1..log[i].n: HasResult(log', i, n)
                      \/ outcome'[log[i].turn] \notin {"running", "answered"}
                      \/ \E d \in Callers: Answering(d, i)'
    BY <1>5 DEF CallsAnswered
  <2>1. \/ \A n \in 1..log[i].n: HasResult(log, i, n)
        \/ outcome[log[i].turn] \notin {"running", "answered"}
        \/ \E d \in Callers: Answering(d, i)
    BY DEF TurnInv, CallsAnswered
  <2>2. outcome'[log[i].turn] = outcome[log[i].turn]
    BY <1>7 DEF TurnInv, Numbered
  <2>3. ASSUME NEW d \in Callers, Answering(d, i) PROVE Answering(d, i)'
    BY <1>4, <1>5, <2>3 DEF Answering, CallOrdinal
  <2> QED BY <1>5, <2>1, <2>2, <2>3 DEF HasResult
<1>12. CancelsCounted'
  <2>1. {n \in DOMAIN outcome': outcome'[n] = "canceled"} = {n \in DOMAIN outcome: outcome[n] = "canceled"}
    BY <1>6, <1>7
  <2> QED BY <1>5, <2>1 DEF TurnInv, CancelsCounted
<1>13. ASSUME NEW d \in Callers PROVE CallerInv(d)'
  <2>1. CASE d = c
    <3>1. \A i \in 1..Len(log): log[i].turn # Len(outcome) + 1
      BY <1>6 DEF TurnInv, Numbered
    <3> QED BY <1>3, <1>4, <1>5, <2>1, <3>1, Outside
  <2>2. CASE d # c
    BY <1>4, <1>5, <2>2, CallerStays DEF TurnInv
  <2> QED BY <2>1, <2>2
<1> QED BY <1>5, <1>8, <1>9, <1>10, <1>11, <1>12, <1>13, LogStays DEF TurnInv

\* A turn takes the lock, and with it an agent.
LEMMA EnterKeeps ==
  ASSUME TurnInv, NEW c \in Callers, Enter(c)
  PROVE  TurnInv'
<1>1. TurnShape(t[c]) /\ DOMAIN t = Callers /\ t[c].pc = "arrived" /\ holder = "none" /\ holder' = c
      /\ UNCHANGED <<log, outcome, cached, agents, flagged, cancels>>
  BY DEF TurnInv, TurnTypeOK, Enter, environment
<1>2. /\ OthersKept(c) /\ DOMAIN t'[c] = Fields /\ t'[c].pc = "prepare"
      /\ \A f \in Fields \ {"pc"}: t'[c][f] = t[c][f]
  BY <1>1 DEF TurnShape, Fields, OthersKept, Enter, Goto
<1>3. TurnShape(t'[c]) /\ t'[c].turn = t[c].turn
  BY <1>1, <1>2 DEF TurnShape, Fields
<1>4. TurnTypeOK'
  BY <1>1, <1>2, <1>3 DEF TurnInv, TurnTypeOK, OthersKept
<1>5. OneInside'
  BY <1>1, <1>2, AgentTurnAssumption DEF TurnInv, OneInside, Inside, OthersKept
<1>6. Numbered'
  BY <1>1, <1>2, <1>3 DEF TurnInv, Numbered, OthersKept
<1>7. CallsAnswered'
  <2> SUFFICES ASSUME NEW i \in 1..Len(log), log[i].kind = "call"
               PROVE  \/ \A n \in 1..log[i].n: HasResult(log', i, n)
                      \/ outcome[log[i].turn] \notin {"running", "answered"}
                      \/ \E d \in Callers: Answering(d, i)'
    BY <1>1 DEF CallsAnswered
  <2>1. ASSUME NEW d \in Callers, Answering(d, i) PROVE Answering(d, i)'
    BY <1>1, <1>2, <2>1 DEF Answering, CallOrdinal, OthersKept
  <2> QED BY <1>1, <2>1 DEF TurnInv, CallsAnswered, HasResult
<1>8. CancelsCounted'
  BY <1>1 DEF TurnInv, CancelsCounted
<1>9. ASSUME NEW d \in Callers PROVE CallerInv(d)'
  <2>1. CASE d = c
    <3>1. \A i \in 1..Len(log): log[i].turn # t[c].turn
      BY <1>1 DEF TurnInv, CallerInv, Speaks
    <3>2. Speaks(c)'
      BY <1>1, <1>2, <1>3, <3>1 DEF Speaks, Inside, InLoop
    <3>3. FailsRightly(c)' /\ ReadsContext(c)' /\ CallsOpen(c)'
      BY <1>2 DEF FailsRightly, ReadsContext, CallsOpen
    <3> QED BY <2>1, <3>2, <3>3 DEF CallerInv
  <2>2. CASE d # c
    BY <1>1, <1>2, <2>2, CallerStays DEF TurnInv, OthersKept
  <2> QED BY <2>1, <2>2
<1> QED BY <1>1, <1>4, <1>5, <1>6, <1>7, <1>8, <1>9, LogStays DEF TurnInv

\* A crash ends every turn and forgets the agents.
LEMMA CrashKeeps ==
  ASSUME TurnInv, Crash
  PROVE  TurnInv'
<1>1. /\ DOMAIN t' = Callers /\ \A c \in Callers: t'[c] = Idle
      /\ holder' = "none" /\ cached' = 0 /\ flagged' = {} /\ UNCHANGED <<log, agents, cancels>>
  BY DEF Crash
<1>2. Len(outcome) \in Nat /\ DOMAIN outcome = 1..Len(outcome) /\ \A n \in 1..Len(outcome): outcome[n] \in Outcomes
  BY OutcomeFacts
<1>3. /\ DOMAIN outcome' = 1..Len(outcome)
      /\ \A n \in 1..Len(outcome): outcome'[n] = IF outcome[n] = "running" THEN "crashed" ELSE outcome[n]
  BY <1>2 DEF Crash
<1>4. outcome' \in Seq(Outcomes) /\ Len(outcome') = Len(outcome)
  <2>1. outcome' = [n \in 1..Len(outcome) |-> IF outcome[n] = "running" THEN "crashed" ELSE outcome[n]]
    BY <1>2 DEF Crash
  <2>2. outcome' \in [1..Len(outcome) -> Outcomes]
    BY <1>2, <2>1 DEF Outcomes
  <2> QED BY <1>2, <2>2
<1>5. TurnTypeOK'
  BY <1>1, <1>4, IdleShape DEF TurnInv, TurnTypeOK
<1>6. OneInside'
  BY <1>1, IdleShape, AgentTurnAssumption DEF OneInside, Inside
<1>7. Numbered'
  BY <1>1, <1>4, IdleShape DEF TurnInv, Numbered
<1>8. CallsAnswered'
  <2> SUFFICES ASSUME NEW i \in 1..Len(log), log[i].kind = "call"
               PROVE  \/ \A n \in 1..log[i].n: HasResult(log', i, n)
                      \/ outcome'[log[i].turn] \notin {"running", "answered"}
    BY <1>1 DEF CallsAnswered
  <2>1. \/ \A n \in 1..log[i].n: HasResult(log, i, n)
        \/ outcome[log[i].turn] \notin {"running", "answered"}
        \/ \E d \in Callers: Answering(d, i)
    BY DEF TurnInv, CallsAnswered
  <2>2. ASSUME NEW d \in Callers, Answering(d, i) PROVE outcome[log[i].turn] = "running"
    BY <2>2 DEF Answering, TurnInv, Numbered
  <2>3. log[i].turn \in 1..Len(outcome)
    BY DEF TurnInv, Numbered
  <2> QED BY <1>1, <1>3, <2>1, <2>2, <2>3 DEF HasResult
<1>9. CancelsCounted'
  <2>1. {n \in DOMAIN outcome': outcome'[n] = "canceled"} = {n \in DOMAIN outcome: outcome[n] = "canceled"}
    BY <1>2, <1>3
  <2>2. Cardinality(flagged') = 0
    BY <1>1, FS_EmptySet
  <2> DEFINE D == {n \in DOMAIN outcome: outcome[n] = "canceled"}
             E == {n \in DOMAIN outcome': outcome'[n] = "canceled"}
  <2>3. Cardinality(D) + Cardinality(flagged) <= cancels /\ Cardinality(D) \in Nat /\ Cardinality(flagged) \in Nat
        /\ cancels \in Nat /\ cancels' = cancels
    BY <1>1, OutcomeFacts DEF TurnInv, TurnTypeOK, CancelsCounted
  <2>4. CancelsCounted' <=> Cardinality(E) + Cardinality(flagged') <= cancels'
    BY DEF CancelsCounted
  <2>5. E = D
    BY <2>1
  <2> HIDE DEF D, E
  <2> QED BY <2>2, <2>3, <2>4, <2>5
<1>10. ASSUME NEW d \in Callers PROVE CallerInv(d)'
  BY <1>1, IdleShape, Outside
<1> QED BY <1>1, <1>5, <1>6, <1>7, <1>8, <1>9, <1>10, LogStays DEF TurnInv

\* Steps that touch no turn.
LEMMA ElsewhereKeeps ==
  ASSUME TurnInv, UNCHANGED <<log, t, outcome>>,
         TurnTypeOK', OneInside', CancelsCounted', flagged \subseteq flagged'
  PROVE  TurnInv'
<1>1. Numbered' /\ CallsAnswered'
  BY DEF TurnInv, Numbered, CallsAnswered, Answering, CallOrdinal, HasResult
<1>2. \A d \in Callers: CallerInv(d)'
  BY CallerStays DEF TurnInv
<1> QED BY <1>1, <1>2, LogStays DEF TurnInv

\* What happens around the turns: a cancel, an eviction, the background loop.
LEMMA OutsideKeeps ==
  ASSUME TurnInv, Cancel \/ Evict \/ LoopTakes \/ LoopReleases \/ UNCHANGED turnVars
  PROVE  TurnInv'
<1>1. CASE Cancel
  <2>1. /\ UNCHANGED <<log, t, outcome, holder, cached, agents>> /\ cached # 0
        /\ flagged' = flagged \union {cached} /\ cancels' = cancels + 1
    BY <1>1 DEF Cancel
  <2>2. cached \in 1..agents
    BY <2>1 DEF TurnInv, TurnTypeOK
  <2>3. TurnTypeOK'
    BY <2>1, <2>2 DEF TurnInv, TurnTypeOK
  <2>4. OneInside'
    BY <2>1 DEF TurnInv, OneInside, Inside
  <2>5. Cardinality(flagged') <= Cardinality(flagged) + 1 /\ Cardinality(flagged') \in Nat
    <3>1. IsFiniteSet(flagged) /\ Cardinality(flagged) \in Nat
      BY OutcomeFacts
    <3>2. CASE cached \in flagged
      <4>1. flagged' = flagged
        BY <2>1, <3>2
      <4> QED BY <3>1, <4>1
    <3>3. CASE cached \notin flagged
      <4>1. Cardinality(flagged \union {cached}) = Cardinality(flagged) + 1
        BY <3>1, <3>3, FS_AddElement
      <4> QED BY <2>1, <3>1, <4>1
    <3> QED BY <3>2, <3>3
  <2>6. CancelsCounted'
    BY <2>1, <2>5, OutcomeFacts DEF TurnInv, TurnTypeOK, CancelsCounted
  <2> QED BY <2>1, <2>3, <2>4, <2>6, ElsewhereKeeps
<1>2. CASE Evict
  <2>1. UNCHANGED <<log, t, outcome, holder, agents, flagged, cancels>> /\ cached' = 0
    BY <1>2 DEF Evict
  <2>2. TurnTypeOK' /\ OneInside' /\ CancelsCounted'
    BY <2>1 DEF TurnInv, TurnTypeOK, OneInside, Inside, CancelsCounted
  <2> QED BY <2>1, <2>2, ElsewhereKeeps
<1>3. CASE LoopTakes \/ LoopReleases
  <2>1. /\ UNCHANGED <<log, t, outcome, cached, agents, flagged, cancels>>
        /\ {holder, holder'} = {"none", "loop"}
    BY <1>3 DEF LoopTakes, LoopReleases, environment
  <2>2. OneInside'
    BY <2>1, AgentTurnAssumption DEF TurnInv, OneInside, Inside
  <2>3. TurnTypeOK' /\ CancelsCounted'
    BY <2>1 DEF TurnInv, TurnTypeOK, CancelsCounted
  <2> QED BY <2>1, <2>2, <2>3, ElsewhereKeeps
<1>4. CASE UNCHANGED turnVars
  <2>1. UNCHANGED <<log, t, outcome, holder, cached, agents, flagged, cancels>>
    BY <1>4 DEF turnVars
  <2>2. TurnTypeOK' /\ OneInside' /\ CancelsCounted'
    BY <2>1 DEF TurnInv, TurnTypeOK, OneInside, Inside, CancelsCounted
  <2> QED BY <2>1, <2>2, ElsewhereKeeps
<1> QED BY <1>1, <1>2, <1>3, <1>4

\* The quiet steps together.
LEMMA QuietSteps ==
  ASSUME TurnInv, NEW c \in Callers,
         \/ Prepare(c) \/ Prune(c) \/ Weigh(c) \/ HandOverFails(c) \/ Perceive(c)
         \/ CallModel(c) \/ CallFails(c) \/ AnswersFinally(c) \/ AnswersWithCalls(c) \/ AnswersGarbled(c)
         \/ StartTool(c) \/ EndTool(c) \/ AllRun(c) \/ Acted(c) \/ StoreFails(c)
  PROVE  Quiet(c)
<1>1. CASE Weigh(c)
  <2>1. Used(log) \in Nat /\ (Context(log) = {} => Used(log) = Frame)
    BY UsedFacts DEF TurnInv, TurnTypeOK
  <2> QED BY <1>1, <2>1, WeighQuiet
<1> QED BY <1>1, PrepareQuiet, PruneQuiet, FaultQuiet, PerceiveQuiet, CallModelQuiet, CallFailsQuiet,
           AnswersFinallyQuiet, AnswersWithCallsQuiet, AnswersGarbledQuiet, StartToolQuiet, EndToolQuiet,
           AllRunQuiet, ActedQuiet

\* The saying steps together.
LEMMA SayingSteps ==
  ASSUME TurnInv, NEW c \in Callers,
         HandOver(c) \/ AppendUser(c) \/ StoreCalls(c) \/ StoreResult(c) \/ AppendReply(c)
  PROVE  \E m: Says(c, m)
BY HandOverSays, AppendUserSays, StoreCallsSays, StoreResultSays, AppendReplySays

\* A step of the system is quiet, says something, or is one of the few others.
LEMMA TurnSteps ==
  ASSUME TurnInv, [TurnNext]_turnVars
  PROVE  \/ \E c \in Callers: Quiet(c) \/ (\E m: Says(c, m))
         \/ log' = log
BY QuietSteps, SayingSteps DEF TurnNext, Step, Maintenance, Loop, Begin, Enter, Busy, Finish, Fail, FailUntraced,
     LoopTakes, LoopReleases, Crash, Cancel, Evict, turnVars

\* Every step keeps the invariant.
LEMMA TurnInvStep == TurnInv /\ [TurnNext]_turnVars => TurnInv'
<1> SUFFICES ASSUME TurnInv, [TurnNext]_turnVars PROVE TurnInv'
  OBVIOUS
<1>1. ASSUME NEW c \in Callers, Quiet(c) PROVE TurnInv'
  BY <1>1, QuietKeeps
<1>2. ASSUME NEW c \in Callers, NEW m, Says(c, m) PROVE TurnInv'
  BY <1>2, SaysKeeps
<1>3. ASSUME NEW c \in Callers, Busy(c) \/ Finish(c) \/ Fail(c) \/ FailUntraced(c) PROVE TurnInv'
  BY <1>3, EndKeeps
<1>4. ASSUME NEW c \in Callers, Begin(c) \/ Enter(c) PROVE TurnInv'
  BY <1>4, BeginKeeps, EnterKeeps
<1>5. ASSUME NEW c \in Callers, Begin(c) \/ Step(c) PROVE TurnInv'
  BY <1>1, <1>2, <1>3, <1>4, <1>5, QuietSteps, SayingSteps DEF Step, Maintenance, Loop
<1> QED BY <1>5, CrashKeeps, OutsideKeeps DEF TurnNext

\* At the start nobody has said anything.
LEMMA TurnInvInit == TurnInit => TurnInv
<1> SUFFICES ASSUME TurnInit PROVE TurnInv
  OBVIOUS
<1>1. log = <<>> /\ outcome = <<>> /\ DOMAIN t = Callers /\ (\A c \in Callers: t[c] = Idle)
      /\ holder = "none" /\ cached = 0 /\ agents = 0 /\ flagged = {} /\ cancels = 0
  BY DEF TurnInit
<1>2. Len(log) = 0 /\ DOMAIN log = {} /\ DOMAIN outcome = {} /\ Len(outcome) = 0
  BY <1>1
<1>3. TurnTypeOK
  BY <1>1, IdleShape DEF TurnTypeOK
<1>4. OneInside /\ Numbered
  BY <1>1, <1>2, IdleShape, AgentTurnAssumption DEF OneInside, Inside, Numbered
<1>5. TurnsInOrder /\ CoversApart /\ ResultsPlaced /\ CallsAnswered
  BY <1>2 DEF TurnsInOrder, CoversApart, ResultsPlaced, CallsAnswered
<1>6. CancelsCounted
  <2>1. {n \in DOMAIN outcome: outcome[n] = "canceled"} = {}
    BY <1>2
  <2>2. Cardinality(flagged) = 0 /\ Cardinality({n \in DOMAIN outcome: outcome[n] = "canceled"}) = 0
    BY <1>1, <2>1, FS_EmptySet
  <2> QED BY <1>1, <2>2 DEF CancelsCounted
<1>7. \A c \in Callers: CallerInv(c)
  BY <1>1, IdleShape DEF CallerInv, FailsRightly, Speaks, ReadsContext, CallsOpen, Inside, BeforeRequest, BeforeReply, InLoop
<1> QED BY <1>3, <1>4, <1>5, <1>6, <1>7 DEF TurnInv

\* The invariant holds of every behaviour.
LEMMA TurnInvAlways == TurnSpec => []TurnInv
BY TurnInvInit, TurnInvStep, PTL DEF TurnSpec

\* No message is handed over twice, whatever turns, failures, crashes and evictions
\* come between two handovers: each reads what no handover before it has read.
THEOREM HandedOverOnceHolds == TurnSpec => []HandedOverOnce
<1>1. TurnInv => HandedOverOnce
  BY MessageOf DEF TurnInv, TurnTypeOK, CoversApart, HandedOverOnce
<1> QED BY <1>1, TurnInvAlways, PTL

\* The messages of a turn stand together in the log, and no more turns end canceled
\* than were canceled: the flag of one turn does not reach the next agent's.
THEOREM TurnsKeepApartHolds == TurnSpec => []TurnsKeepApart
<1>1. TurnInv => TurnsKeepApart
  <2> SUFFICES ASSUME TurnInv PROVE CanceledOnce
    BY DEF TurnsKeepApart, TurnInv
  <2> DEFINE D == {n \in DOMAIN outcome: outcome[n] = "canceled"}
  <2>1. /\ Cardinality(D) + Cardinality(flagged) <= cancels /\ cancels \in Nat
        /\ Cardinality(D) \in Nat /\ Cardinality(flagged) \in Nat
    BY OutcomeFacts DEF TurnInv, TurnTypeOK, CancelsCounted
  <2>2. CanceledOnce <=> Cardinality(D) <= cancels
    BY DEF CanceledOnce
  <2> HIDE DEF D
  <2> QED BY <2>1, <2>2
<1> QED BY <1>1, TurnInvAlways, PTL

\* A turn gives up for want of room only when its own request does not fit into an
\* empty context: everything older has been pruned or handed over before.
THEOREM RoomIsMadeHolds == TurnSpec => []RoomIsMade
<1>1. TurnInv => RoomIsMade
  BY DEF TurnInv, CallerInv, FailsRightly, RoomIsMade
<1> QED BY <1>1, TurnInvAlways, PTL

\* In the context that the model is asked with, every result follows its call, and a
\* call without its results is of a turn that was cut off: neither pruning nor a
\* handover nor a crash separates them.
THEOREM CallsAndResultsAgreeHolds == TurnSpec => []CallsAndResultsAgree
<1>1. TurnInv => CallsAndResultsAgree
  <2> SUFFICES ASSUME TurnInv PROVE CallsAndResultsAgree
    OBVIOUS
  <2> DEFINE p == CompressionPoint(log)
  <2>1. Len(log) \in Nat /\ DOMAIN log = 1..Len(log)
    BY MessageOf DEF TurnInv, TurnTypeOK
  <2>2. p \in 0..Len(log) /\ (p # 0 => log[p].kind = "compressed")
    BY <2>1, PointFacts
  <2>3. \A i: i \in Context(log) <=> i \in 1..Len(log) /\ i >= p
    BY <2>1 DEF Context
  <2> HIDE DEF p
  <2>4. ResultsFollowCalls
    <3> SUFFICES ASSUME NEW i \in Context(log), log[i].kind = "result"
                 PROVE  /\ log[i].of \in Context(log)
                        /\ log[i].of < i
                        /\ log[log[i].of].kind = "call"
                        /\ log[i].n \in 1..log[log[i].of].n
      BY DEF ResultsFollowCalls
    <3>1. i \in 1..Len(log) /\ i >= p
      BY <2>3
    <3>2. /\ log[i].of \in 1..(i - 1) /\ log[log[i].of].kind = "call"
          /\ log[i].n \in 1..log[log[i].of].n
          /\ \A k \in log[i].of..i: log[k].kind # "compressed"
      BY <3>1 DEF TurnInv, ResultsPlaced
    <3>3. p <= log[i].of
      BY <2>1, <2>2, <3>1, <3>2
    <3> QED BY <2>1, <2>3, <3>1, <3>2, <3>3
  <2>5. UnansweredIsCutOff
    <3> SUFFICES ASSUME NEW c \in Callers, t[c].pc = "asked",
                        NEW i \in Context(log), log[i].kind = "call", Unanswered(i) # {}
                 PROVE  outcome[log[i].turn] \notin {"running", "answered"}
      BY DEF UnansweredIsCutOff
    <3>1. i \in 1..Len(log) /\ i >= p
      BY <2>3
    <3>2. ASSUME NEW n, HasResult(log, i, n) PROVE n \notin Unanswered(i)
      <4>1. PICK j \in (i + 1)..Len(log): log[j].kind = "result" /\ log[j].of = i /\ log[j].n = n
        BY <3>2 DEF HasResult
      <4>2. j \in Context(log)
        BY <2>1, <2>2, <2>3, <3>1, <4>1
      <4> QED BY <4>1, <4>2 DEF Unanswered
    <3>3. ~\A n \in 1..log[i].n: HasResult(log, i, n)
      BY <3>2 DEF Unanswered
    <3>4. ASSUME NEW d \in Callers, Answering(d, i) PROVE FALSE
      <4>1. Inside(c) /\ Inside(d)
        BY <3>4 DEF Answering, Inside
      <4>2. d = c
        BY <4>1, OthersOutside DEF TurnInv
      <4> QED BY <3>4, <4>2 DEF Answering
    <3> QED BY <3>1, <3>3, <3>4 DEF TurnInv, CallsAnswered
  <2> QED BY <2>4, <2>5 DEF CallsAndResultsAgree
<1> QED BY <1>1, TurnInvAlways, PTL

Said(l) == {i \in DOMAIN l: l[i].kind \in Ordinary}

Gist(l) == UNION {l[i].covers: i \in DOMAIN l}

\* Cutting payloads changes nothing of what is in sight.
LEMMA SameHistory ==
  ASSUME NEW l \in Seq(MessageRecord), NEW m \in Seq(MessageRecord), SameWords(l, m)
  PROVE  Said(m) = Said(l) /\ Shown(m) = Shown(l) /\ Gist(m) = Gist(l)
<1>1. DOMAIN l = 1..Len(l) /\ DOMAIN m = 1..Len(l)
  BY MessageOf DEF SameWords
<1>2. Said(m) = Said(l) /\ Gist(m) = Gist(l)
  BY <1>1 DEF SameWords, Said, Gist
<1> QED BY <1>2, SameContext

\* What is said comes into sight; a handover takes it up.
LEMMA SaysHistory ==
  ASSUME TurnInv, NEW c \in Callers, NEW m, Says(c, m)
  PROVE  \/ /\ Len(log') \in Said(log') /\ Len(log') \notin Said(log)
            /\ Said(log') = Said(log) \union {Len(log')}
            /\ Shown(log') = Shown(log) \union {Len(log')}
            /\ Gist(log') = Gist(log)
         \/ /\ Shown(log') = {} /\ Gist(log') = Gist(log) \union Shown(log)
            /\ Said(log') = Said(log)
<1>1. /\ log \in Seq(MessageRecord) /\ m \in MessageRecord /\ log' = Append(log, m)
      /\ Len(log') = Len(log) + 1 /\ log'[Len(log) + 1] = m
      /\ Len(log) \in Nat /\ DOMAIN log = 1..Len(log) /\ DOMAIN log' = 1..(Len(log) + 1)
      /\ \A i \in 1..Len(log): log'[i] = log[i]
  BY OneMore, MessageOf DEF TurnInv, TurnTypeOK, Says
<1>2. Gist(log') = Gist(log) \union m.covers
  <2>1. ASSUME NEW x PROVE x \in Gist(log') <=> x \in Gist(log) \/ x \in m.covers
    BY <1>1 DEF Gist
  <2> QED BY <2>1
<1>3. m.kind \in Ordinary \union {"compressed"}
  BY <1>1, MessageFields
<1>4. CASE m.kind # "compressed"
  <2>1. Said(log') = Said(log) \union {Len(log')} /\ Len(log') \notin Said(log)
    BY <1>1, <1>3, <1>4 DEF Said
  <2>2. Shown(log') = Shown(log) \union {Len(log')}
    BY <1>1, <1>4, OrdinaryContext
  <2>3. m.covers = {}
    BY <1>4 DEF Says
  <2> QED BY <1>2, <2>1, <2>2, <2>3
<1>5. CASE m.kind = "compressed"
  <2>1. Said(log') = Said(log)
    BY <1>1, <1>5 DEF Said, Ordinary
  <2>2. Shown(log') = {}
    BY <1>1, <1>5, HandedContext
  <2>3. Covered(log) = Shown(log)
    BY <1>1, MessageOf DEF Covered, Shown, Context, Ordinary
  <2>4. m.covers = Covered(log)
    BY <1>5 DEF Says
  <2> QED BY <1>2, <2>1, <2>2, <2>3, <2>4
<1> QED BY <1>4, <1>5

\* The turns implement the abstract history of a session: each of their steps appends
\* one message, hands the context over, or leaves what has been said as it is.
THEOREM ImplementsSessionHistoryHolds == TurnSpec => ImplementsSessionHistory
<1>1. TurnInit => History!Init
  BY DEF TurnInit, History!Init, Shown, Context
<1>2. TurnInv /\ [TurnNext]_turnVars => [History!Next]_History!vars
  <2> SUFFICES ASSUME TurnInv, [TurnNext]_turnVars PROVE [History!Next]_History!vars
    OBVIOUS
  <2>1. CASE Said(log') = Said(log) /\ Shown(log') = Shown(log) /\ Gist(log') = Gist(log)
    BY <2>1 DEF History!vars, Said, Gist
  <2>2. ASSUME NEW c \in Callers, Quiet(c) PROVE [History!Next]_History!vars
    BY <2>1, <2>2, SameHistory DEF Quiet, TurnInv, TurnTypeOK
  <2>3. ASSUME NEW c \in Callers, NEW m, Says(c, m) PROVE History!Next
    <3>1. CASE /\ Len(log') \in Said(log') /\ Len(log') \notin Said(log)
               /\ Said(log') = Said(log) \union {Len(log')}
               /\ Shown(log') = Shown(log) \union {Len(log')}
               /\ Gist(log') = Gist(log)
      <4>1. History!Say
        BY <3>1 DEF History!Say, Said, Gist
      <4> QED BY <4>1 DEF History!Next
    <3>2. CASE /\ Shown(log') = {} /\ Gist(log') = Gist(log) \union Shown(log)
               /\ Said(log') = Said(log)
      <4>1. History!HandOver
        BY <3>2 DEF History!HandOver, Said, Gist
      <4> QED BY <4>1 DEF History!Next
    <3> QED BY <2>3, <3>1, <3>2, SaysHistory
  <2>4. CASE log' = log
    BY <2>1, <2>4
  <2> QED BY <2>2, <2>3, <2>4, TurnSteps
<1> QED BY <1>1, <1>2, TurnInvAlways, PTL DEF TurnSpec, ImplementsSessionHistory, History!Spec

-----------------------------------------------------------------------------
(***************************************************************************)
(* AgentTurn: the outputs of tools.                                        *)
(***************************************************************************)

PartSum(parts, S) == MapThenSumSet(LAMBDA p: parts[p], S)

\* The sizes of the parts of an output.
LEMMA PartSumFacts ==
  ASSUME NEW S, IsFiniteSet(S), NEW parts, parts \in [S -> Nat]
  PROVE  /\ PartSum(parts, S) \in Nat
         /\ \A x \in S: parts[x] <= PartSum(parts, S)
         /\ \A x: S = {x} => PartSum(parts, S) = parts[x]
         /\ \A x, y: S = {x, y} /\ x # y => PartSum(parts, S) = parts[x] + parts[y]
<1> DEFINE Once(g) == [T \in SUBSET S |-> IF T = {} THEN 0 ELSE parts[CHOOSE x \in T: TRUE] + g[T \ {CHOOSE x \in T: TRUE}]]
           it == CHOOSE g: g = Once(g)
<1>1. PartSum(parts, S) = it[S]
  BY DEF PartSum, MapThenSumSet, MapThenFoldSet
<1>2. PICK g: Computes(g, parts, S)
  <2> HIDE DEF Once, it
  <2> QED BY SumExists
<1>3. it = Once(it)
  <2>1. g = Once(g)
    BY <1>2 DEF Computes, SumStep, Picked
  <2> HIDE DEF Once
  <2> QED BY <2>1
<1> HIDE DEF it
<1>4. \A T \in SUBSET S: it[T] = SumStep(parts, it, T)
  BY <1>3 DEF SumStep, Picked
<1> HIDE DEF Once
<1>5. /\ it[S] \in Nat
      /\ \A x \in S: parts[x] <= it[S]
      /\ \A x: S = {x} => it[S] = parts[x]
      /\ \A x, y: S = {x, y} /\ x # y => it[S] = parts[x] + parts[y]
  BY <1>4, SumFacts
<1> QED BY <1>1, <1>5

PartSizes(parts) == parts \in [DOMAIN parts -> Nat] /\ IsFiniteSet(DOMAIN parts)

\* Therefore, of an output:
LEMMA SizeOfFacts ==
  ASSUME NEW parts, PartSizes(parts)
  PROVE  /\ SizeOf(parts) \in Nat
         /\ \A x \in DOMAIN parts: parts[x] <= SizeOf(parts)
         /\ \A x: DOMAIN parts = {x} => SizeOf(parts) = parts[x]
         /\ \A x, y: DOMAIN parts = {x, y} /\ x # y => SizeOf(parts) = parts[x] + parts[y]
<1>1. SizeOf(parts) = PartSum(parts, DOMAIN parts)
  BY DEF SizeOf, PartSum
<1>2. parts \in [DOMAIN parts -> Nat]
  BY DEF PartSizes
<1>3. IsFiniteSet(DOMAIN parts)
  BY DEF PartSizes
<1> QED BY <1>1, <1>2, <1>3, PartSumFacts

\* So few parts are finitely many.
LEMMA FewParts ==
  \A x, y, z: IsFiniteSet({x}) /\ IsFiniteSet({x, y}) /\ IsFiniteSet({x, y, z})
<1>1. ASSUME NEW x, NEW y, NEW z
      PROVE  IsFiniteSet({x}) /\ IsFiniteSet({x, y}) /\ IsFiniteSet({x, y, z})
  <2>1. IsFiniteSet({x})
    BY FS_Singleton
  <2>2. IsFiniteSet({x} \cup {y})
    BY <2>1, FS_AddElement
  <2>3. IsFiniteSet(({x} \cup {y}) \cup {z})
    BY <2>2, FS_AddElement
  <2>4. {x, y} = {x} \cup {y} /\ {x, y, z} = ({x} \cup {y}) \cup {z}
    OBVIOUS
  <2> QED BY <2>1, <2>2, <2>3, <2>4
<1> QED BY <1>1

\* A set of numbers up to some number has a greatest element.
LEMMA GreatestElement ==
  ASSUME NEW n \in Nat, NEW S, S \subseteq 0..n, S # {}
  PROVE  \E x \in S : \A y \in S : y <= x
<1> DEFINE R == {n - y : y \in S}
<1>1. R \subseteq Nat /\ R # {}
  <2>1. \A y \in S : n - y \in Nat
    OBVIOUS
  <2> QED BY <2>1
<1>2. PICK r \in R : \A q \in R : r <= q
  <2> HIDE DEF R
  <2> QED BY <1>1, LeastElement
<1>3. PICK x \in S : r = n - x
  OBVIOUS
<1>4. \A y \in S : n - x <= n - y
  BY <1>2, <1>3
<1> QED BY <1>4

\* The greater of two numbers.
LEMMA MaxOfTwo ==
  ASSUME NEW a \in Nat, NEW b \in Nat
  PROVE  Max({a, b}) \in Nat /\ a <= Max({a, b}) /\ b <= Max({a, b})
<1>1. \E x \in {a, b}: \A y \in {a, b}: x >= y
  OBVIOUS
<1> QED BY <1>1 DEF Max

\* ... and the smaller.
LEMMA MinOfTwo ==
  ASSUME NEW a \in Nat, NEW b \in Nat
  PROVE  Min({a, b}) \in Nat /\ Min({a, b}) <= a /\ Min({a, b}) <= b
<1>1. \E x \in {a, b}: \A y \in {a, b}: x <= y
  OBVIOUS
<1> QED BY <1>1 DEF Min

\* What a call results in is an output like those that tools return, whether it was
\* replaced, wrapped or left alone.
OutputWell(r) ==
  /\ r.form \in {"text", "mapping"}
  /\ PartSizes(r.parts)
  /\ r.form = "text" => \A k \in 0..SizeOf(r.parts): MarkerSize(k) \in Nat

LEMMA ResultWell ==
  ASSUME NEW o \in TriedOutputs, NEW raised \in BOOLEAN, NEW repeats
  PROVE  OutputWell(Result(o, raised, repeats))
<1> USE OutputAssumption DEF OutputAssumption
<1>1. PartSizes(o.parts)
  BY DEF PartSizes
<1>2. OutputWell(o)
  BY <1>1 DEF OutputWell
<1>3. OutputWell(Blocked)
  <2> DEFINE parts == [code |-> 1, message |-> NoteSize, details |-> NoteSize]
  <2>1. DOMAIN parts = {"code", "message", "details"} /\ parts \in [DOMAIN parts -> Nat]
    OBVIOUS
  <2>2. IsFiniteSet(DOMAIN parts)
    BY <2>1, FewParts
  <2>3. PartSizes(parts)
    BY <2>1, <2>2 DEF PartSizes
  <2> HIDE DEF parts
  <2>4. Blocked = [form |-> "mapping", parts |-> parts]
    BY DEF Blocked, Output, parts
  <2> QED BY <2>3, <2>4 DEF OutputWell
<1>4. OutputWell(Warned(o))
  <2> DEFINE parts == [warning |-> NoteSize, result |-> SizeOf(o.parts)]
  <2>1. SizeOf(o.parts) \in Nat
    BY <1>1, SizeOfFacts
  <2>2. DOMAIN parts = {"warning", "result"} /\ parts \in [DOMAIN parts -> Nat]
    BY <2>1
  <2>3. IsFiniteSet(DOMAIN parts)
    BY <2>2, FewParts
  <2>4. PartSizes(parts)
    BY <2>2, <2>3 DEF PartSizes
  <2> HIDE DEF parts
  <2>5. Warned(o) = [form |-> "mapping", parts |-> parts]
    BY DEF Warned, Output, parts
  <2> QED BY <2>4, <2>5 DEF OutputWell
<1> QED BY <1>2, <1>3, <1>4 DEF Result

\* A preview has no more than its limit.
LEMMA PreviewFits ==
  ASSUME NEW size \in Nat, NEW limit \in Nat, \A k \in 0..size: MarkerSize(k) \in Nat
  PROVE  /\ SizeOf(Preview(size, limit).parts) \in Nat
         /\ SizeOf(Preview(size, limit).parts) <= limit
<1> DEFINE Marked(k) == MarkerSize(size - k) + IF k = 0 THEN 0 ELSE 1
           fits == {k \in 0..Min({size, limit}) : k + Marked(k) <= limit}
           parts == IF fits = {} THEN [text |-> limit]
                    ELSE [text |-> Max(fits), marker |-> Marked(Max(fits))]
<1>1. Preview(size, limit).parts = parts
  BY DEF Preview, View
<1>2. CASE fits = {}
  <2>1. DOMAIN [text |-> limit] = {"text"} /\ [text |-> limit] \in [{"text"} -> Nat]
    OBVIOUS
  <2>2. IsFiniteSet({"text"})
    BY FewParts
  <2>3. PartSizes([text |-> limit])
    BY <2>1, <2>2 DEF PartSizes
  <2>4. SizeOf([text |-> limit]) = limit
    BY <2>1, <2>3, SizeOfFacts
  <2> QED BY <1>1, <1>2, <2>4
<1>3. CASE fits # {}
  <2> DEFINE k == Max(fits)
             m == Marked(k)
             both == [text |-> k, marker |-> m]
  <2>1. Min({size, limit}) \in Nat /\ Min({size, limit}) <= size
    BY MinOfTwo
  <2>2. \E x \in fits: \A y \in fits: x >= y
    <3>1. fits \subseteq 0..Min({size, limit})
      OBVIOUS
    <3> HIDE DEF fits
    <3>2. \E x \in fits: \A y \in fits: y <= x
      BY <1>3, <2>1, <3>1, GreatestElement
    <3>3. \A x, y \in fits: y <= x => x >= y
      BY <2>1, <3>1
    <3> QED BY <3>2, <3>3
  <2>3. k \in fits
    <3> HIDE DEF fits
    <3> QED BY <2>2 DEF Max
  <2>4. k \in 0..size /\ k + m <= limit
    BY <2>1, <2>3
  <2>5. m \in Nat
    <3> HIDE DEF k
    <3>1. size - k \in 0..size
      BY <2>4
    <3>2. MarkerSize(size - k) \in Nat
      BY <3>1
    <3> QED BY <3>2
  <2> HIDE DEF m, k
  <2>6. DOMAIN both = {"text", "marker"} /\ both \in [DOMAIN both -> Nat]
    BY <2>4, <2>5
  <2>7. IsFiniteSet({"text", "marker"})
    BY FewParts
  <2>8. PartSizes(both)
    BY <2>6, <2>7 DEF PartSizes
  <2>9. both["text"] = k /\ both["marker"] = m /\ "text" # "marker"
    OBVIOUS
  <2>10. SizeOf(both) = k + m
    <3> HIDE DEF both
    <3>1. SizeOf(both) = both["text"] + both["marker"]
      BY <2>6, <2>8, <2>9, SizeOfFacts
    <3> QED BY <2>9, <3>1
  <2>11. parts = both
    BY <1>3 DEF k, m
  <2>12. SizeOf(both) \in Nat /\ SizeOf(both) <= limit
    <3> HIDE DEF both
    <3> QED BY <2>4, <2>5, <2>10
  <2> HIDE DEF both, parts
  <2> QED BY <1>1, <2>11, <2>12
<1> QED BY <1>2, <1>3

\* A sequence with two elements more.
LEMMA TwoMore ==
  ASSUME NEW T, NEW s \in Seq(T), NEW a \in T, NEW b \in T
  PROVE  /\ s \o <<a, b>> \in Seq(T)
         /\ Len(s \o <<a, b>>) = Len(s) + 2
         /\ (s \o <<a, b>>)[Len(s) + 2] = b
<1>1. <<a, b>> \in Seq(T) /\ Len(<<a, b>>) = 2 /\ <<a, b>>[2] = b
  OBVIOUS
<1>2. Len(s) \in Nat
  OBVIOUS
<1> DEFINE two == <<a, b>>
<1> HIDE DEF two
<1>3. /\ s \o two \in Seq(T)
      /\ Len(s \o two) = Len(s) + Len(two)
      /\ \A i \in 1..(Len(s) + Len(two)): (s \o two)[i] = IF i <= Len(s) THEN s[i] ELSE two[i - Len(s)]
  BY <1>1, ConcatProperties DEF two
<1>4. (s \o two)[Len(s) + 2] = two[2]
  BY <1>1, <1>2, <1>3 DEF two
<1> QED BY <1>1, <1>3, <1>4 DEF two

\* What may stand for an output that is too large: forms with parts, each of an error
\* with its code, and none is smaller than the last.
CandidatesWell(r, c) ==
  /\ c \in Seq({c[i]: i \in DOMAIN c}) /\ Len(c) > 0
  /\ \A i \in DOMAIN c:
       /\ PartSizes(c[i])
       /\ IsError(r) => "code" \in DOMAIN c[i]
       /\ SizeOf(c[Len(c)]) <= SizeOf(c[i])

LEMMA ErrorCandidatesWell ==
  ASSUME NEW r, r.form = "mapping", PartSizes(r.parts), IsError(r)
  PROVE  CandidatesWell(r, ErrorCandidates(r.parts))
<1> USE OutputAssumption DEF OutputAssumption
<1> DEFINE parts == r.parts
           all == [p \in DOMAIN parts \union {"truncation"} |->
                     IF p = "truncation" THEN FactsSize ELSE WithDetailsOmitted(parts)[p]]
           A == {"code", "message", "details"}
           B == {"code", "message"}
           C == {"code"}
           T == {Only(all, S): S \in {X \in SUBSET (A \union {"truncation"}): "code" \in X}}
           Of(S) == <<Only(all, S \union {"truncation"}), Only(all, S)>>
           first == IF "details" \in DOMAIN parts THEN Of(A) ELSE <<>>
           c == first \o Of(B) \o Of(C)
<1>1. ErrorCandidates(parts) = c
  BY DEF ErrorCandidates
<1>2. "code" \in DOMAIN parts /\ parts \in [DOMAIN parts -> Nat] /\ IsFiniteSet(DOMAIN parts)
  BY DEF IsError, PartSizes
<1>3. /\ DOMAIN all = DOMAIN parts \union {"truncation"}
      /\ all \in [DOMAIN all -> Nat]
      /\ IsFiniteSet(DOMAIN all)
  <2>1. \A p \in DOMAIN parts: Min({parts[p], NoteSize}) \in Nat
    BY <1>2, MinOfTwo
  <2>2. /\ WithDetailsOmitted(parts) \in [DOMAIN parts -> Nat]
        /\ DOMAIN WithDetailsOmitted(parts) = DOMAIN parts
    BY <1>2, <2>1 DEF WithDetailsOmitted
  <2>3. DOMAIN all = DOMAIN parts \union {"truncation"} /\ all \in [DOMAIN all -> Nat]
    BY <2>2
  <2>4. IsFiniteSet(DOMAIN parts \union {"truncation"})
    BY <1>2, FS_AddElement
  <2> QED BY <2>3, <2>4
<1> HIDE DEF all
<1>4. ASSUME NEW x \in T
      PROVE  /\ PartSizes(x) /\ "code" \in DOMAIN x
             /\ SizeOf(x) \in Nat /\ all["code"] <= SizeOf(x)
  <2>1. PICK X \in SUBSET (A \union {"truncation"}): "code" \in X /\ x = Only(all, X)
    OBVIOUS
  <2>2. DOMAIN x = DOMAIN all \intersect X /\ \A p \in DOMAIN x: x[p] = all[p]
    BY <2>1 DEF Only
  <2>3. x \in [DOMAIN x -> Nat] /\ "code" \in DOMAIN x
    BY <1>2, <1>3, <2>1, <2>2 DEF Only
  <2>4. IsFiniteSet(DOMAIN x)
    BY <1>3, <2>2, FS_Subset
  <2>5. PartSizes(x)
    BY <2>3, <2>4 DEF PartSizes
  <2>6. SizeOf(x) \in Nat /\ x["code"] <= SizeOf(x)
    BY <2>3, <2>5, SizeOfFacts
  <2> QED BY <2>2, <2>3, <2>5, <2>6
<1>5. SizeOf(Only(all, C)) = all["code"]
  <2>1. Only(all, C) \in T
    OBVIOUS
  <2>2. PartSizes(Only(all, C))
    BY <1>4, <2>1
  <2>3. DOMAIN Only(all, C) = {"code"} /\ Only(all, C)["code"] = all["code"]
    BY <1>2, <1>3 DEF Only
  <2> QED BY <2>2, <2>3, SizeOfFacts
<1>6. \A S \in {A, B, C}: Only(all, S \union {"truncation"}) \in T /\ Only(all, S) \in T
  <2>1. ASSUME NEW S \in {A, B, C} PROVE Only(all, S \union {"truncation"}) \in T /\ Only(all, S) \in T
    <3>1. /\ S \union {"truncation"} \in {X \in SUBSET (A \union {"truncation"}): "code" \in X}
          /\ S \in {X \in SUBSET (A \union {"truncation"}): "code" \in X}
      OBVIOUS
    <3> QED BY <3>1
  <2> QED BY <2>1
<1>7. /\ c \in Seq(T)
      /\ Len(c) = Len(first) + 4
      /\ c[Len(c)] = Only(all, C)
      /\ Len(first) \in Nat
  <2> HIDE DEF T, A, B, C
  <2>1. first \in Seq(T)
    <3>1. CASE "details" \in DOMAIN parts
      BY <1>6, <3>1
    <3>2. CASE "details" \notin DOMAIN parts
      BY <3>2
    <3> QED BY <3>1, <3>2
  <2>2. Len(first) \in Nat
    BY <2>1
  <2> HIDE DEF first
  <2>3. first \o Of(B) \in Seq(T) /\ Len(first \o Of(B)) = Len(first) + 2
    BY <1>6, <2>1, TwoMore
  <2> DEFINE s == first \o Of(B)
  <2>4. s \in Seq(T) /\ Len(s) = Len(first) + 2
    BY <2>3
  <2> HIDE DEF s
  <2>5. /\ s \o Of(C) \in Seq(T)
        /\ Len(s \o Of(C)) = Len(s) + 2
        /\ (s \o Of(C))[Len(s) + 2] = Only(all, C)
    BY <1>6, <2>4, TwoMore
  <2>6. c = s \o Of(C)
    BY DEF s
  <2> HIDE DEF c
  <2> QED BY <2>2, <2>4, <2>5, <2>6
<1> HIDE DEF c, T, first
<1>8. /\ \A i \in DOMAIN c: c[i] \in T
      /\ c \in Seq({c[i]: i \in DOMAIN c}) /\ Len(c) > 0
  BY <1>7
<1>9. CandidatesWell(r, c)
  <2>1. ASSUME NEW i \in DOMAIN c
        PROVE  PartSizes(c[i]) /\ "code" \in DOMAIN c[i] /\ SizeOf(c[Len(c)]) <= SizeOf(c[i])
    BY <1>4, <1>5, <1>7, <1>8
  <2> QED BY <1>8, <2>1 DEF CandidatesWell
<1> QED BY <1>1, <1>9

\* ... of an error or of another structure.
LEMMA CandidatesAreWell ==
  ASSUME NEW r, r.form = "mapping", PartSizes(r.parts)
  PROVE  CandidatesWell(r, Candidates(r))
<1> USE OutputAssumption DEF OutputAssumption
<1>1. CASE IsError(r)
  BY <1>1, ErrorCandidatesWell DEF Candidates
<1>2. CASE ~IsError(r)
  <2> DEFINE x == [output |-> NoteSize, truncation |-> FactsSize]
             y == [output |-> NoteSize]
             c == <<x, y>>
  <2>1. /\ DOMAIN x = {"output", "truncation"} /\ x \in [DOMAIN x -> Nat] /\ x["output"] = NoteSize
        /\ DOMAIN y = {"output"} /\ y \in [DOMAIN y -> Nat] /\ y["output"] = NoteSize
    OBVIOUS
  <2>2. IsFiniteSet(DOMAIN x) /\ IsFiniteSet(DOMAIN y)
    BY <2>1, FewParts
  <2>3. PartSizes(x) /\ PartSizes(y)
    BY <2>1, <2>2 DEF PartSizes
  <2> HIDE DEF x, y
  <2>4. SizeOf(y) = NoteSize /\ NoteSize <= SizeOf(x)
    BY <2>1, <2>3, SizeOfFacts
  <2>5. DOMAIN c = {1, 2} /\ Len(c) = 2 /\ c[1] = x /\ c[2] = y
    OBVIOUS
  <2>6. c \in Seq({c[i]: i \in DOMAIN c})
    BY <2>5
  <2>7. Candidates(r) = c
    BY <1>2 DEF Candidates, x, y
  <2> HIDE DEF c
  <2>8. \A i \in DOMAIN c: PartSizes(c[i]) /\ SizeOf(c[Len(c)]) <= SizeOf(c[i])
    BY <2>3, <2>4, <2>5
  <2>9. CandidatesWell(r, c)
    <3>1. \A i \in DOMAIN c: IsError(r) => "code" \in DOMAIN c[i]
      BY <1>2
    <3>2. Len(c) > 0
      BY <2>5
    <3> QED BY <2>6, <2>8, <3>1, <3>2 DEF CandidatesWell
  <2> QED BY <2>7, <2>9
<1> QED BY <1>1, <1>2

\* The first candidate that fits is taken, or else the last.
LEMMA FirstBoundedFacts ==
  ASSUME NEW r, NEW c, CandidatesWell(r, c), NEW limit \in Nat
  PROVE  \E i \in DOMAIN c: /\ FirstBounded(c, limit) = c[i]
                            /\ SizeOf(c[i]) <= limit \/ i = Len(c)
<1> DEFINE fits == {i \in DOMAIN c: SizeOf(c[i]) <= limit}
<1>1. DOMAIN c = 1..Len(c) /\ Len(c) \in DOMAIN c /\ Len(c) \in Nat
  BY DEF CandidatesWell
<1>2. CASE fits = {}
  <2>1. FirstBounded(c, limit) = c[Len(c)]
    BY <1>2 DEF FirstBounded
  <2> QED BY <1>1, <2>1
<1>3. CASE fits # {}
  <2>1. fits \subseteq Nat
    BY <1>1
  <2>2. \E x \in fits: \A y \in fits: x <= y
    <3> HIDE DEF fits
    <3> QED BY <1>3, <2>1, LeastElement
  <2>3. Min(fits) \in fits
    <3> HIDE DEF fits
    <3> QED BY <2>2 DEF Min
  <2>4. FirstBounded(c, limit) = c[Min(fits)]
    BY <1>3 DEF FirstBounded
  <2>5. Min(fits) \in DOMAIN c /\ SizeOf(c[Min(fits)]) <= limit
    BY <2>3
  <2> QED BY <2>4, <2>5
<1> QED BY <1>2, <1>3

\* How one output is told, whatever it is and however often its call was made.
LEMMA OneToldWell ==
  ASSUME NEW o \in TriedOutputs, NEW raised \in BOOLEAN, NEW repeats,
         NEW limit \in TriedLimits, NEW max \in TriedTrims
  PROVE  ToldWell(o, raised, repeats, limit, max)
<1> DEFINE r == Result(o, raised, repeats)
           m == ToolMessage(r, limit)
           sizes == {SizeOf(c): c \in Range(Candidates(r))}
           least == IF r.form = "mapping" THEN Min(sizes) ELSE 0
<1>1. OutputWell(r)
  BY ResultWell
<1>2. limit \in Nat /\ max \in Nat
  BY OutputAssumption DEF OutputAssumption
<1> HIDE DEF r
<1>3. r.form \in {"text", "mapping"} /\ PartSizes(r.parts) /\ SizeOf(r.parts) \in Nat
  BY <1>1, SizeOfFacts DEF OutputWell
<1>4. PICK parts, json: json \in BOOLEAN /\ Bounded(r, limit) = [json |-> json, parts |-> parts]
  <2> DEFINE IsView(v) == \E parts, json: json \in BOOLEAN /\ v = [json |-> json, parts |-> parts]
  <2>1. \A parts: IsView(View(TRUE, parts)) /\ IsView(View(FALSE, parts))
    BY DEF View
  <2>2. IsView(Preview(SizeOf(r.parts), limit))
    BY <2>1 DEF Preview
  <2>3. IsView(View(r.form # "text", r.parts))
    <3>1. CASE r.form = "text"
      BY <2>1, <3>1 DEF View
    <3>2. CASE r.form # "text"
      BY <2>1, <3>2 DEF View
    <3> QED BY <3>1, <3>2
  <2>4. IsView(Bounded(r, limit))
    <3> HIDE DEF IsView, m, least, sizes
    <3> QED BY <2>1, <2>2, <2>3 DEF Bounded
  <2> QED BY <2>4
<1>5. /\ m.kind = (IF r.form = "text" THEN "text" ELSE "json")
      /\ m.view = [json |-> json, parts |-> parts]
      /\ m = [kind |-> m.kind, view |-> m.view]
  BY <1>4 DEF ToolMessage
<1> HIDE DEF m
<1>6. /\ Trimmed(m, max).kind = m.kind
      /\ Trimmed(m, max).view.json = json
      /\ m.kind = "json" => DOMAIN Trimmed(m, max).view.parts = DOMAIN parts
  BY <1>5 DEF Trimmed
<1>7. CASE r.form = "text"
  <2>1. Readable(m) /\ Readable(Trimmed(m, max))
    BY <1>5, <1>6, <1>7 DEF Readable
  <2>2. ~IsError(r)
    BY <1>7 DEF IsError
  <2>3. SizeOf(parts) <= limit
    <3>1. CASE SizeOf(r.parts) <= limit
      BY <1>4, <3>1 DEF Bounded, View
    <3>2. CASE ~(SizeOf(r.parts) <= limit)
      <4>1. Preview(SizeOf(r.parts), limit).parts = parts
        BY <1>4, <1>7, <3>2 DEF Bounded
      <4> QED BY <1>1, <1>2, <1>3, <1>7, <4>1, PreviewFits DEF OutputWell
    <3> QED BY <3>1, <3>2
  <2>4. SizeOf(m.view.parts) <= Max({limit, least})
    <3>1. least = 0
      BY <1>7
    <3>2. Max({limit, 0}) \in Nat /\ limit <= Max({limit, 0})
      BY <1>2, MaxOfTwo
    <3>3. SizeOf(m.view.parts) = SizeOf(parts)
      BY <1>5
    <3>4. SizeOf(parts) \in Nat
      <4>1. CASE SizeOf(r.parts) <= limit
        BY <1>3, <1>4, <4>1 DEF Bounded, View
      <4>2. CASE ~(SizeOf(r.parts) <= limit)
        <5>1. Preview(SizeOf(r.parts), limit).parts = parts
          BY <1>4, <1>7, <4>2 DEF Bounded
        <5> QED BY <1>1, <1>2, <1>3, <1>7, <5>1, PreviewFits DEF OutputWell
      <4> QED BY <4>1, <4>2
    <3> HIDE DEF least
    <3> QED BY <1>2, <2>3, <3>1, <3>2, <3>3, <3>4
  <2> QED BY <2>1, <2>2, <2>4 DEF ToldWell, r, m
<1>8. CASE r.form = "mapping"
  <2> DEFINE c == Candidates(r)
  <2>1. CandidatesWell(r, c)
    BY <1>3, <1>8, CandidatesAreWell
  <2> HIDE DEF c
  <2>2. json = TRUE
    BY <1>4, <1>8 DEF Bounded, View
  <2>3. Readable(m) /\ Readable(Trimmed(m, max))
    BY <1>5, <1>6, <2>2 DEF Readable
  <2>4. sizes = {SizeOf(c[i]): i \in DOMAIN c}
    BY DEF c, Range
  <2>5. \A i \in DOMAIN c: SizeOf(c[i]) \in Nat
    BY <2>1, SizeOfFacts DEF CandidatesWell
  <2>6. Len(c) \in DOMAIN c
    BY <2>1 DEF CandidatesWell
  <2> HIDE DEF sizes
  <2>7. least \in Nat /\ SizeOf(c[Len(c)]) <= least
    <3>1. sizes \subseteq Nat /\ sizes # {}
      BY <2>4, <2>5, <2>6
    <3>2. \E x \in sizes: \A y \in sizes: x <= y
      BY <3>1, LeastElement
    <3>3. Min(sizes) \in sizes
      BY <3>2 DEF Min
    <3>4. \A x \in sizes: SizeOf(c[Len(c)]) <= x
      BY <2>1, <2>4 DEF CandidatesWell
    <3> QED BY <1>8, <3>1, <3>3, <3>4
  <2> HIDE DEF least
  <2>8. /\ SizeOf(parts) \in Nat
        /\ SizeOf(parts) <= limit \/ SizeOf(parts) <= least
        /\ IsError(r) => "code" \in DOMAIN parts
    <3>1. CASE SizeOf(r.parts) <= limit
      <4>1. parts = r.parts
        BY <1>4, <3>1 DEF Bounded, View
      <4> QED BY <1>3, <3>1, <4>1 DEF IsError
    <3>2. CASE ~(SizeOf(r.parts) <= limit)
      <4>1. parts = FirstBounded(c, limit)
        BY <1>4, <1>8, <3>2 DEF Bounded, View, c
      <4>2. PICK i \in DOMAIN c: parts = c[i] /\ (SizeOf(c[i]) <= limit \/ i = Len(c))
        BY <1>2, <2>1, <4>1, FirstBoundedFacts
      <4>3. IsError(r) => "code" \in DOMAIN c[i]
        BY <2>1 DEF CandidatesWell
      <4> QED BY <2>5, <2>7, <4>2, <4>3
    <3> QED BY <3>1, <3>2
  <2>9. SizeOf(m.view.parts) <= Max({limit, least})
    <3>1. Max({limit, least}) \in Nat /\ limit <= Max({limit, least}) /\ least <= Max({limit, least})
      BY <1>2, <2>7, MaxOfTwo
    <3>2. m.view.parts = parts
      BY <1>5
    <3> QED BY <1>2, <2>7, <2>8, <3>1, <3>2
  <2>10. IsError(r) => "code" \in DOMAIN Trimmed(m, max).view.parts
    BY <1>5, <1>6, <1>8, <2>8
  <2> QED BY <2>3, <2>9, <2>10 DEF ToldWell, r, m, least, sizes
<1> QED BY <1>3, <1>7, <1>8

\* Whatever a tool returned and however often it was called with the same arguments,
\* the model is told of it in a form that parses, within its limit, and with an
\* error's code; and so it stays when the context is pruned.
THEOREM OutputsStayReadableHolds == TurnSpec => []OutputsStayReadable
<1>1. AllToldWell
  BY OneToldWell DEF AllToldWell
<1>2. TurnInit => OutputsStayReadable
  BY <1>1 DEF OutputsStayReadable
<1>3. OutputsStayReadable /\ [TurnNext]_turnVars => OutputsStayReadable'
  BY <1>1 DEF OutputsStayReadable
<1> QED BY <1>2, <1>3, PTL DEF TurnSpec

-----------------------------------------------------------------------------
(***************************************************************************)
(* CompactExtraction.                                                      *)
(***************************************************************************)

-----------------------------------------------------------------------------
(***************************************************************************)
(* The account of the slots, and with it type correctness: that a slot     *)
(* given back fits into the semaphore follows from the account.            *)
(***************************************************************************)

\* Everything but the range of the semaphore's value.
Shape ==
  /\ threads \subseteq Jobs
  /\ closed \in BOOLEAN
  /\ job \in [Jobs -> {"new", "open", "slot", "running", "left", "done",
                       "refused", "failed"}]
  /\ closer \in [Closers -> {"ready", "joining", "returned", "raised"}]
  /\ awaited \subseteq Jobs
  /\ missed \subseteq Jobs

SlotInv == Shape /\ slots \in Nat /\ SlotsAccounted

LEMMA NextShape == Shape /\ [Next]_vars => Shape'
<1> SUFFICES ASSUME Shape, [Next]_vars PROVE Shape'
  OBVIOUS
<1> USE DEF Shape, Becomes, Closers
<1>1. CASE UNCHANGED vars
  BY <1>1 DEF vars
<1>2. ASSUME NEW j \in Jobs, JobStep(j) PROVE Shape'
  <2>1. CASE Submit(j)       BY <2>1 DEF Submit
  <2>2. CASE TakeSlot(j)     BY <2>2 DEF TakeSlot
  <2>3. CASE StartJob(j)     BY <2>3 DEF StartJob
  <2>4. CASE LeaveThreads(j) BY <2>4 DEF LeaveThreads
  <2>5. CASE ReleaseSlot(j)  BY <2>5 DEF ReleaseSlot
  <2> QED BY <1>2, <2>1, <2>2, <2>3, <2>4, <2>5 DEF JobStep
<1>3. ASSUME NEW j \in Jobs, Join(j) \/ JoinTimesOut(j) PROVE Shape'
  BY <1>3 DEF Join, JoinTimesOut
<1>4. ASSUME NEW c \in Closers, Shutdown(c) PROVE Shape'
  BY <1>4 DEF Shutdown
<1>5. CASE Joined
  BY <1>5 DEF Joined
<1> QED BY <1>1, <1>2, <1>3, <1>4, <1>5 DEF Next

\* One job more in the slots and one slot less, or the other way round, keep
\* the account.
LEMMA AccountMoves ==
  ASSUME NEW S \in SUBSET Jobs, NEW j \in Jobs
  PROVE  /\ j \notin S => Cardinality(S \cup {j}) = Cardinality(S) + 1
         /\ j \in S => Cardinality(S \ {j}) = Cardinality(S) - 1
<1>1. IsFiniteSet(S)
  BY CompactAssumption, FS_Subset DEF CompactAssumption
<1> QED BY <1>1, FS_AddElement, FS_RemoveElement, FS_CardinalityType

LEMMA InSlotsCount == InSlots \in SUBSET Jobs /\ Cardinality(InSlots) \in Nat
<1>1. InSlots \subseteq Jobs
  BY DEF InSlots
<1> QED BY <1>1, CompactAssumption, FS_Subset, FS_CardinalityType
        DEF CompactAssumption

LEMMA NextSlotInv == SlotInv /\ [Next]_vars => SlotInv'
<1> SUFFICES ASSUME SlotInv, [Next]_vars PROVE SlotInv'
  OBVIOUS
<1>1. Shape'
  BY NextShape DEF SlotInv
<1>2. InSlots \in SUBSET Jobs /\ Cardinality(InSlots) \in Nat
  BY InSlotsCount
<1>3. Slots \in Nat /\ slots \in Nat /\ slots + Cardinality(InSlots) = Slots
  BY CompactAssumption DEF CompactAssumption, SlotInv, SlotsAccounted
<1>4. ASSUME slots' = slots, InSlots' = InSlots PROVE SlotInv'
  BY <1>1, <1>3, <1>4 DEF SlotInv, SlotsAccounted
<1> USE DEF SlotInv, Shape, Becomes
<1>5. CASE UNCHANGED vars
  BY <1>4, <1>5 DEF vars, InSlots
<1>6. ASSUME NEW j \in Jobs, JobStep(j) PROVE SlotInv'
  <2>1. CASE Submit(j)
    BY <1>4, <2>1 DEF Submit, InSlots
  <2>2. CASE TakeSlot(j)
    <3>1. CASE slots > 0
      <4>1. InSlots' = InSlots \cup {j} /\ j \notin InSlots /\ slots' = slots - 1
        BY <2>2, <3>1 DEF TakeSlot, InSlots
      <4> QED BY <1>1, <1>2, <1>3, <3>1, <4>1, AccountMoves DEF SlotsAccounted
    <3>2. CASE ~(slots > 0)
      BY <1>4, <2>2, <3>2 DEF TakeSlot, InSlots
    <3> QED BY <3>1, <3>2
  <2>3. CASE StartJob(j)
    <3>1. CASE closed
      <4>1. InSlots' = InSlots \ {j} /\ j \in InSlots /\ slots' = slots + 1
        BY <2>3, <3>1 DEF StartJob, InSlots
      <4> QED BY <1>1, <1>2, <1>3, <4>1, AccountMoves DEF SlotsAccounted
    <3>2. CASE ~closed
      BY <1>4, <2>3, <3>2 DEF StartJob, InSlots
    <3> QED BY <3>1, <3>2
  <2>4. CASE LeaveThreads(j)
    BY <1>4, <2>4 DEF LeaveThreads, InSlots
  <2>5. CASE ReleaseSlot(j)
    <3>1. InSlots' = InSlots \ {j} /\ j \in InSlots /\ slots' = slots + 1
      BY <2>5 DEF ReleaseSlot, InSlots
    <3> QED BY <1>1, <1>2, <1>3, <3>1, AccountMoves DEF SlotsAccounted
  <2> QED BY <1>6, <2>1, <2>2, <2>3, <2>4, <2>5 DEF JobStep
<1>7. ASSUME NEW j \in Jobs, Join(j) \/ JoinTimesOut(j) PROVE SlotInv'
  BY <1>4, <1>7 DEF Join, JoinTimesOut, InSlots
<1>8. ASSUME NEW c \in Closers, Shutdown(c) PROVE SlotInv'
  BY <1>4, <1>8 DEF Shutdown, InSlots
<1>9. CASE Joined
  BY <1>4, <1>9 DEF Joined, InSlots
<1> QED BY <1>5, <1>6, <1>7, <1>8, <1>9 DEF Next

LEMMA InitSlotInv == Init => SlotInv
<1> SUFFICES ASSUME Init PROVE SlotInv
  OBVIOUS
<1>1. InSlots = {}
  BY DEF Init, InSlots
<1>2. Shape
  BY DEF Init, Shape
<1> QED BY <1>1, <1>2, CompactAssumption, FS_EmptySet
        DEF CompactAssumption, Init, SlotInv, SlotsAccounted

\* The semaphore's value stays within its bound, and all else in its set.
THEOREM TypeCorrect == Spec => []TypeOK
<1>1. SlotInv => TypeOK
  <2> SUFFICES ASSUME SlotInv PROVE TypeOK
    OBVIOUS
  <2>1. Cardinality(InSlots) \in Nat
    BY InSlotsCount
  <2>2. slots \in 0..Slots
    BY <2>1, CompactAssumption DEF CompactAssumption, SlotInv, SlotsAccounted
  <2> QED BY <2>2 DEF SlotInv, Shape, TypeOK
<1> QED BY <1>1, InitSlotInv, NextSlotInv, PTL DEF Spec

\* For any number of jobs and slots, no slot is lost or given back twice.
THEOREM SlotsAccountedHolds == Spec => []SlotsAccounted
<1>1. SlotInv => SlotsAccounted
  BY DEF SlotInv
<1> QED BY <1>1, InitSlotInv, NextSlotInv, PTL DEF Spec

-----------------------------------------------------------------------------
(***************************************************************************)
(* Silence after a shutdown.  A job runs only while it is in the set of    *)
(* threads, and run() awaits all that were there when it closed the        *)
(* service, or misses them.                                                *)
(***************************************************************************)

QuietInv ==
  /\ \A j \in Jobs : job[j] = "running" => j \in threads
  /\ closer["run"] # "ready" => closed
  /\ closer["run"] = "joining" =>
       \A j \in Jobs : job[j] = "running" => j \in awaited \cup missed
  /\ closer["run"] = "returned" =>
       \A j \in Jobs : job[j] = "running" => j \in missed

LEMMA NextQuietInv ==
  ASSUME Shape, QuietInv, [Next]_vars PROVE QuietInv'
<1> USE DEF Shape, QuietInv, Becomes, Closers
<1>1. CASE UNCHANGED vars
  BY <1>1 DEF vars
<1>2. ASSUME NEW j \in Jobs, JobStep(j) PROVE QuietInv'
  <2>1. CASE Submit(j)       BY <2>1 DEF Submit
  <2>2. CASE TakeSlot(j)     BY <2>2 DEF TakeSlot
  <2>3. CASE StartJob(j)     BY <2>3 DEF StartJob
  <2>4. CASE LeaveThreads(j) BY <2>4 DEF LeaveThreads
  <2>5. CASE ReleaseSlot(j)  BY <2>5 DEF ReleaseSlot
  <2> QED BY <1>2, <2>1, <2>2, <2>3, <2>4, <2>5 DEF JobStep
<1>3. ASSUME NEW j \in Jobs, Join(j) \/ JoinTimesOut(j) PROVE QuietInv'
  BY <1>3 DEF Join, JoinTimesOut
<1>4. ASSUME NEW c \in Closers, Shutdown(c) PROVE QuietInv'
  BY <1>4 DEF Shutdown
<1>5. CASE Joined
  BY <1>5 DEF Joined
<1> QED BY <1>1, <1>2, <1>3, <1>4, <1>5 DEF Next

\* Once run() has waited for the jobs, none runs that it did not give up.
THEOREM QuietAfterShutdownHolds == Spec => []QuietAfterShutdown
<1>1. Init => QuietInv /\ Shape
  BY DEF Init, QuietInv, Shape, Closers
<1>2. Shape /\ QuietInv /\ [Next]_vars => QuietInv'
  BY NextQuietInv
<1>3. QuietInv => QuietAfterShutdown
  BY DEF QuietInv, QuietAfterShutdown
<1> QED BY <1>1, <1>2, <1>3, NextShape, PTL DEF Spec

\* Each job is accounted for.
THEOREM JobsAccountedHolds == Spec => []JobsAccounted
<1>1. SlotsAccounted /\ QuietAfterShutdown => JobsAccounted
  BY DEF JobsAccounted
<1> QED BY <1>1, SlotsAccountedHolds, QuietAfterShutdownHolds, PTL

=============================================================================
