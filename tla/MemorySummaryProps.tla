------------------------- MODULE MemorySummaryProps -------------------------
(***************************************************************************)
(* What the memory tools, the summary worker and the contract of its LLM   *)
(* promise together.                                                       *)
(***************************************************************************)
EXTENDS MemorySummary

CONSTANTS Contexts, Outputs  \* the calls and the answers the contract is tried on

ASSUME ContextAssumption ==
  \A ctx \in Contexts :
    ctx.stage \in {"extraction", "consolidation", "conflict_review", "summary"}

\* While a domain summary asks for confirmation, no update of a turn changes
\* which beliefs are active: the plan that looked at the guidance is carried out
\* before the worker, which writes guidance, has the lock back.
GuidanceStep ==
  (Guided /\ plan # NoPlan /\ plan' # plan /\ turn') => Active' = Active

\* append_distinct never says again what an active belief of the same scope and
\* type says, whatever candidates the model says it has reviewed: nothing forms
\* one between the plan, which looks for duplicates, and the writing.
AppendStep ==
  (plan.decision = "accepted" /\ plan.operation = "append_distinct" /\ plan' # plan /\ turn') =>
    ~\E b \in Active : /\ Comparable(b, plan.memory)
                      /\ Traits[b].content = Traits[plan.memory].content

\* What an update was planned from still holds when it is written, in another
\* transaction: the guidance, and that nobody says the same.
PlanStillStands == [][GuidanceStep /\ AppendStep]_summaryVars

Matching(q, scope) == {b \in Searchable(q.types, scope) : q.reasons[b] # {}}

AnswersWell(q, scope, answer, matching) ==
  LET exact == {b \in matching : q.reasons[b] \cap {"entity_exact", "object_exact"} # {}}
  IN /\ answer \subseteq matching
     /\ scope = "counterpart" => \A b \in answer : Traits[b].about \cap peer # {}
     /\ (scope = "counterpart" => peer # {}) =>
          \/ answer = matching
          \/ Cardinality(answer) = q.max
     /\ answer \subseteq exact \/ exact \subseteq answer

\* A search answers with as many active beliefs of its scope as it may, and
\* leaves an exact match out only for others: the cuts of the single searches
\* and of the merged list come before the final order and must not undo it.
RecallAnswers ==
  \A q \in Queries, scope \in Scopes :
    AnswersWell(q, scope, Recall(q, scope), Matching(q, scope))

\* A target has one active summary, except between the two transactions that
\* write the new one and supersede the old one, or for ever when the second
\* never comes.
OneActiveSummary ==
  \A i \in DOMAIN Units :
    \/ Cardinality(Fitting(Units[i])) <= 1
    \/ Units[i] \in torn
    \/ at = "superseding" /\ job.target = Units[i]

\* What a summary says of one counterpart, project or domain is drawn from
\* beliefs about just that: the LLM chooses the words, never the reader.
SummaryOnTarget ==
  \A i \in DOMAIN summaries : \A b \in summaries[i].sources :
    /\ summaries[i].scope = Traits[b].scope
    /\ summaries[i].about = Traits[b].about
    /\ summaries[i].kind = "domain_summary" => summaries[i].domain \in Traits[b].domains

ContractKept ==
  \A ctx \in Contexts, out \in Outputs :
    Accepted(out, ctx) =>
      /\ Persistable(out, ctx)
      /\ Update \in out.keys => out.update.target \in ctx.updatable
      /\ ctx.stage = "summary" => AtomicDraft \notin out.keys

\* When an answer is judged, whatever an LLM answers at whatever stage: what the
\* contract accepts the store can persist, and only a stage that was shown beliefs
\* updates one, and one of those.
AcceptedIsPersistable == at = "calling" => ContractKept

\* The first target that is due cannot be had: its window was processed or left
\* claimed, or no answer about it is acceptable.  The targets behind it wait.
HeadIsStuck ==
  LET next == NextTarget
      key  == <<next.target, next.sources, next.gate>>
  IN \/ key \in spent \cup orphans
     \/ \A out \in Replies(next.target) :
          ~Accepted(out, [stage |-> "summary", sourceKind |-> "background_synthesis",
                          updatable |-> {}, refs |-> next.target.about,
                          required |-> {next.target}])

\* Unless it is stuck like that, the worker gets through: in the end no target
\* calls for a summary, however often calls failed, yields came first or turns
\* took the lock in between.
SummaryEventuallyFresh ==
  <>[](Len(summaries) = MaxSummaries \/ Due = {} \/ HeadIsStuck)
=============================================================================
