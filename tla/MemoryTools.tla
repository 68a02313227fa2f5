---------------------------- MODULE MemoryTools ----------------------------
(***************************************************************************)
(* The belief store as a turn's memory tools use it: memory_recall looks   *)
(* beliefs up, memory_propose plans an update in one reading of the store  *)
(* and writes it in a later transaction.  Domain summaries that ask for    *)
(* confirmation make a planned update wait for the user.                   *)
(*                                                                         *)
(* A belief is a number with fixed traits.  Its rows in the search indexes *)
(* are rewritten by every transaction that writes it and follow its        *)
(* lifecycle, so they are not kept apart.  What a text matches is data: a  *)
(* query says which signals each belief gives and how well it matches.     *)
(***************************************************************************)
EXTENDS Integers, Sequences, FiniteSetsExt

CONSTANTS
  NBeliefs,       \* beliefs are 1..NBeliefs (bound)
  Traits,         \* Traits[b]: [scope, about, type, content, domains, by]
  Expiring,       \* the beliefs that have a valid_until
  peer,           \* {the turn's counterpart}, or {} when it has none
  Queries,        \* what texts may match: see QueryType
  SourceLimit,    \* rows read for one signal: max(4 * limit, 32)
  ScanLimit,      \* _RECALL_SCAN_LIMIT
  CandidateLimit, \* the limit of memory_propose's own search
  MaxIds          \* target ids of one update (bound; _id_list() cuts at 5)

Beliefs == 1..NBeliefs

\* _CANDIDATE_REASON_ORDER
Signals == <<"entity_exact", "object_exact", "object_partial", "term_fts",
             "trigram_fts", "substring">>
Ranks == 0..9  \* what an index may rank a row at (bound)

\* reasons: the signals a belief gives; rank: how well an index matches it, the
\* least the best; held: when it was formed; types: those asked for, {} when any will do.
QueryType == [reasons : [Beliefs -> SUBSET {Signals[i] : i \in DOMAIN Signals}],
              rank : [{"term_fts", "trigram_fts"} -> [Beliefs -> Ranks]],
              held : [Beliefs -> Nat], types : SUBSET {Traits[b].type : b \in Beliefs},
              max : Nat \ {0}]
Scopes == {"global", "counterpart", "both"}

ASSUME MemoryAssumption ==
  /\ NBeliefs \in Nat
  /\ DOMAIN Traits = Beliefs
  /\ \A b \in Beliefs : Traits[b].by \in {"tool", "worker"}
  /\ Expiring \subseteq Beliefs
  /\ Cardinality(peer) <= 1
  /\ Queries \subseteq QueryType
  /\ \A q \in Queries : q.max <= ScanLimit
  /\ ScanLimit \in Nat \ {0}
  /\ SourceLimit \in Nat
  /\ ScanLimit <= SourceLimit
  /\ CandidateLimit \in Nat \ {0}

VARIABLES
  life,       \* absent, active or inactive: pending, superseded, ...
  expired,    \* beliefs whose valid_until has passed
  summaries,  \* summary beliefs, in the order they were written
  turn,       \* a turn holds the Subject's lock
  plan        \* the update it has planned and not yet written

toolVars == <<life, expired, summaries, turn, plan>>

Absent == {b \in Beliefs : life[b] = "absent"}
Active == {b \in Beliefs : life[b] = "active"}

-----------------------------------------------------------------------------
(* recall_candidates(): five kinds of search, merged, sorted and cut.       *)

\* The n elements of S that come first, when Less orders S.
First(S, n, Less(_, _)) == {b \in S : Cardinality({c \in S : Less(c, b)}) < n}

\* How sort keys compare.
Before(k, l) == \E i \in DOMAIN k : k[i] < l[i] /\ \A j \in 1..(i - 1) : k[j] = l[j]

\* Who a search looks at: the beliefs of the counterparts in who, the global
\* ones when asked to.
InScope(b, who, global) ==
  \/ global /\ Traits[b].scope = "global"
  \/ who # {} /\ Traits[b].scope = "counterpart" /\ who \subseteq Traits[b].about

\* _filter_clause()
Filtered(types, who, global) ==
  {b \in Active : (types = {} \/ Traits[b].type \in types) /\ InScope(b, who, global)}

\* Each search takes the first rows that match; a belief's number stands for its id.
Oldest(q, S) ==
  LET Older(b, c) == Before(<<q.held[b], b>>, <<q.held[c], c>>)
  IN First(S, SourceLimit, Older)

EntityRows(q, S) == Oldest(q, {b \in S : "entity_exact" \in q.reasons[b]})
ObjectRows(q, S, match) == Oldest(q, {b \in S : match \in q.reasons[b]})
SubstringRows(q, S) == Oldest(q, {b \in S : "substring" \in q.reasons[b]})
FtsRows(q, S, index) ==
  LET Better(b, c) == Before(<<q.rank[index][b], q.held[b], b>>,
                             <<q.rank[index][c], q.held[c], c>>)
  IN First({b \in S : index \in q.reasons[b]}, SourceLimit, Better)

Rows(q, S) ==
  [entity_exact |-> EntityRows(q, S), object_exact |-> ObjectRows(q, S, "object_exact"),
   object_partial |-> ObjectRows(q, S, "object_partial"), substring |-> SubstringRows(q, S),
   term_fts |-> FtsRows(q, S, "term_fts"), trigram_fts |-> FtsRows(q, S, "trigram_fts")]

\* _merge_candidate(): one candidate per belief, with the signals that found it; an
\* index that did not ranks it last.
Merged(q, rows) ==
  LET Rank(b, index) == IF b \in rows[index] THEN q.rank[index][b] ELSE Cardinality(Ranks)
  IN [b \in UNION {rows[s] : s \in DOMAIN rows} |->
        [reasons |-> {s \in DOMAIN rows : b \in rows[s]},
         term_fts |-> Rank(b, "term_fts"), trigram_fts |-> Rank(b, "trigram_fts")]]

\* _candidate_sort_key(): the best signal first
CandidateKey(q, m, b) ==
  <<Min({i \in DOMAIN Signals : Signals[i] \in m[b].reasons}),
    m[b].term_fts, m[b].trigram_fts, q.held[b], b>>

FirstCandidates(q, m, limit) ==
  LET Sooner(b, c) == Before(CandidateKey(q, m, b), CandidateKey(q, m, c))
  IN [b \in First(DOMAIN m, limit, Sooner) |-> m[b]]

Candidates(q, S, limit) == FirstCandidates(q, Merged(q, Rows(q, S)), limit)

-----------------------------------------------------------------------------
(* memory_recall: the candidates are scored and sorted anew.  Scores are in  *)
(* parts of one: those of the inputs that TLC tries come out whole.          *)

One == 24

\* _belief_scope(), _scope_score()
BeliefScope(b) ==
  IF Traits[b].scope = "counterpart" /\ peer # {} /\ peer \subseteq Traits[b].about
  THEN "counterpart" ELSE "global"
ScopeScore(b, scope) ==
  One * (IF BeliefScope(b) = "counterpart" THEN 4 ELSE IF scope = "global" THEN 3 ELSE 1)

\* _rank_score_by_belief_id()
RankScore(m, index, b, max) ==
  IF index \notin m[b].reasons THEN 0
  ELSE (One * max) \div (1 + m[b][index] - Min({m[c][index] : c \in DOMAIN m}))

\* _recency_score_by_belief_id(): a quarter at most
Recency(q, m, b) ==
  LET times == {q.held[c] : c \in DOMAIN m}
  IN IF Min(times) = Max(times) THEN 0
     ELSE ((One \div 4) * (q.held[b] - Min(times))) \div (Max(times) - Min(times))

\* score_belief_candidates()
Score(q, scope, m, b) ==
  LET For(reason, points) == IF reason \in m[b].reasons THEN One * points ELSE 0
  IN ScopeScore(b, scope)
     + (IF Traits[b].type \in q.types THEN 2 * One ELSE 0)
     + For("entity_exact", 4) + For("object_exact", 3) + For("object_partial", 1)
     + For("substring", 1)
     + RankScore(m, "term_fts", b, 4) + RankScore(m, "trigram_fts", b, 2) + Recency(q, m, b)

\* Mutation: an exact match is one signal among others.
PriorityOfScore(reasons) == 1

\* _exact_priority()
Priority(reasons) == IF reasons \cap {"entity_exact", "object_exact"} # {} THEN 0 ELSE 1

\* _scored_candidate_sort_key()
ScoredKey(q, scope, m, b) ==
  <<Priority(m[b].reasons), -Score(q, scope, m, b),
    IF BeliefScope(b) = "counterpart" THEN 0 ELSE 1, -q.held[b], b>>

\* What the arguments ask for: "both", the counterpart's or the global ones.
Searchable(types, scope) ==
  Filtered(types, IF scope = "global" THEN {} ELSE peer, scope # "counterpart")

Best(q, scope, m) ==
  LET key == [b \in DOMAIN m |-> ScoredKey(q, scope, m, b)]
      Less(b, c) == Before(key[b], key[c])
  IN First(DOMAIN m, q.max, Less)

Recall(q, scope) ==
  IF scope = "counterpart" /\ peer = {} THEN {}
  ELSE Best(q, scope, Candidates(q, Searchable(q.types, scope), ScanLimit))

-----------------------------------------------------------------------------
(* Domain guidance.                                                         *)

\* active_domain_guidance(), memory_propose_requires_confirmation()
Guides(s) ==
  /\ s.life = "active"
  /\ s.kind = "domain_summary"
  /\ s.domain = "memory_propose"
  /\ s.until # "past"
  /\ \/ s.scope = "global"
     \/ s.scope = "counterpart" /\ peer # {} /\ peer \subseteq s.about
  /\ s.asks

Guided == \E i \in DOMAIN summaries : Guides(summaries[i])

-----------------------------------------------------------------------------
(* memory_propose: what an update is planned to be.                         *)

\* The memory of an update is the belief it would become, 0 when it has none.  One
\* that names targets and reviewed candidates is rejected whatever it is.
Updates ==
  {u \in [operation : {"append_distinct", "reinforce", "replace", "merge", "correct", "retract"},
          memory : {n \in Absent : /\ Traits[n].by = "tool"
                                  /\ \A m \in Absent : Traits[m] = Traits[n] => n <= m}
                   \cup {0},
          targets : {S \in SUBSET Beliefs : Cardinality(S) <= MaxIds},
          reviewed : {S \in SUBSET Beliefs : Cardinality(S) <= 1}] :
     u.targets = {} \/ u.reviewed = {}}

\* An update's errors, then the counterpart it needs.
WellPosed(u) ==
  /\ u.operation # "retract" => u.memory # 0
  /\ u.memory # 0 /\ Traits[u.memory].scope = "counterpart" => peer # {}

\* _target_scope_matches() and the type
Comparable(b, memory) ==
  /\ memory # 0 => /\ Traits[b].scope = Traits[memory].scope
                   /\ Traits[b].type = Traits[memory].type
  /\ Traits[b].scope = "counterpart" => peer # {} /\ peer \subseteq Traits[b].about

ReviewedValid(u) ==
  u.reviewed # {} => /\ u.operation = "append_distinct"
                     /\ \A b \in u.reviewed : b \in Active /\ Comparable(b, u.memory)

TargetsValid(u) ==
  u.targets # {} => /\ u.operation # "append_distinct"
                    /\ \A b \in u.targets : b \in Active /\ Comparable(b, u.memory)

\* _same_scope_type_active_beliefs()
SameScopeType(memory) ==
  {b \in Active : /\ Traits[b].scope = Traits[memory].scope
                 /\ Traits[b].type = Traits[memory].type
                 /\ Traits[b].scope = "counterpart" => peer \subseteq Traits[b].about}

Duplicates(memory) ==
  {b \in SameScopeType(memory) : Traits[b].content = Traits[memory].content}

\* _candidate_outputs(): related beliefs a search finds, in its first rows
Related(q, memory) ==
  LET global == Traits[memory].scope = "global"
      S == Filtered({Traits[memory].type}, IF global THEN {} ELSE peer, global)
  IN {b \in DOMAIN Candidates(q, S, CandidateLimit) :
        Traits[b].content # Traits[memory].content}

Plan(decision, operation, targets, memory) ==
  [decision |-> decision, operation |-> operation, targets |-> targets, memory |-> memory]
NoPlan == Plan("none", "none", {}, 0)

\* _plan_append_distinct(): a duplicate is reinforced instead.
AppendPlan(u, q) ==
  IF Duplicates(u.memory) # {} THEN NoPlan
  ELSE IF u.reviewed = {} /\ Related(q, u.memory) # {} THEN NoPlan
  ELSE Plan("accepted", "append_distinct", {}, u.memory)

\* _plan_update().  What is rejected, asks for targets or reinforces a belief
\* (which gets a source more) leaves the store as it is.
Planned(u, q) ==
  IF ~(WellPosed(u) /\ ReviewedValid(u) /\ TargetsValid(u)) THEN NoPlan
  ELSE CASE u.operation = "append_distinct" -> AppendPlan(u, q)
         [] u.operation = "reinforce" -> NoPlan
         [] u.operation = "replace" /\ Cardinality(u.targets) = 1 ->
              Plan("accepted", "replace", u.targets, u.memory)
         [] u.operation = "merge" /\ Cardinality(u.targets) >= 2 ->
              Plan("accepted", "merge", u.targets, u.memory)
         [] u.operation = "correct" /\ (u.targets # {} \/ Related(q, u.memory) = {}) ->
              Plan("pending", "correct", {}, u.memory)
         [] u.operation = "retract" /\ u.targets # {} /\ u.memory # 0 ->
              Plan("accepted", "retract", u.targets, u.memory)
         [] OTHER -> NoPlan

\* _apply_domain_guidance()
Confirmed(p) ==
  IF p.decision = "accepted" /\ Guided THEN Plan("pending", p.operation, {}, p.memory) ELSE p

-----------------------------------------------------------------------------
(* memory_propose: one update after the other, planned afresh.              *)

PlanUpdate ==
  /\ turn
  /\ plan = NoPlan
  /\ plan' \in {Confirmed(Planned(u, q)) : u \in Updates, q \in Queries}
  /\ UNCHANGED <<life, expired, summaries, turn>>

\* write_atomic_belief(), supersede_many(), mark_lifecycle(): none of them looks
\* at the lifecycle the targets have by now.
Written(memory, lifecycle) == [life EXCEPT ![memory] = lifecycle]
Marked(b) == [life EXCEPT ![b] = "inactive"]
Superseded(targets, memory) ==
  [b \in Beliefs |-> IF b = memory THEN "active" ELSE IF b \in targets THEN "inactive" ELSE life[b]]

ApplyAppend ==
  /\ plan.decision = "accepted"
  /\ plan.operation = "append_distinct"
  /\ life' = Written(plan.memory, "active")
  /\ plan' = NoPlan
  /\ UNCHANGED <<expired, summaries, turn>>

ApplySupersede ==
  /\ plan.decision = "accepted"
  /\ plan.operation \in {"replace", "merge"}
  /\ life' = Superseded(plan.targets, plan.memory)
  /\ plan' = NoPlan
  /\ UNCHANGED <<expired, summaries, turn>>

\* One transaction per target.
ApplyRetract ==
  /\ plan.decision = "accepted"
  /\ plan.operation = "retract"
  /\ \E b \in plan.targets :
       /\ life' = Marked(b)
       /\ plan' = IF plan.targets = {b} THEN NoPlan ELSE [plan EXCEPT !.targets = @ \ {b}]
  /\ UNCHANGED <<expired, summaries, turn>>

\* Whatever the operation was, its memory is kept as a belief of its own.
ApplyPending ==
  /\ plan.decision = "pending"
  /\ life' = Written(plan.memory, "inactive")
  /\ plan' = NoPlan
  /\ UNCHANGED <<expired, summaries, turn>>

Propose == PlanUpdate \/ ApplyAppend \/ ApplySupersede \/ ApplyRetract \/ ApplyPending
=============================================================================
