------------------------- MODULE BackgroundContract -------------------------
(***************************************************************************)
(* The contract every answer of a background LLM call has to keep, and     *)
(* what the state store makes of an answer that keeps it.                  *)
(*                                                                         *)
(* An answer "out" is the decoded JSON: its envelope, the keys of its      *)
(* payload, the belief it drafts and the belief it updates.  A context     *)
(* "ctx" is what the program says of the call: its stage, its source, the  *)
(* beliefs that may be updated, the references that may be named, and for  *)
(* a summary its target.  Texts are reduced to whether they are flawed and *)
(* whether their words are those of the sources.                           *)
(***************************************************************************)
EXTENDS Integers, FiniteSets

AtomicDraft  == "atomic_belief_draft"
SummaryDraft == "summary_belief_draft"
ProfileDraft == "profile_summary_candidate"
Update       == "belief_update"

Semantic == {"create", "strengthen", "supersede", "retract", "archive",
             "pending-confirmation"}
Supported == Semantic \cup {"create_atomic_belief", "create_summary_belief",
                            "update_belief", "profile_summary_candidate"}
Flaws == {"malformed", "strength", "provenance", "injection", "rationale",
          "confirmation"}

Canonical(operation) ==
  IF operation = "pending_confirmation" THEN "pending-confirmation" ELSE operation

\* _AUTHORITY_RANK, in ascending order
Authorities == <<"llm_interpreted", "background_synthesized", "user_asserted",
                 "human_confirmed", "system_defined">>

Ceiling(sourceKind) ==
  CASE sourceKind = "llm_interpretation"         -> "llm_interpreted"
    [] sourceKind = "background_synthesis"       -> "background_synthesized"
    [] sourceKind = "direct_user_statement"      -> "user_asserted"
    [] sourceKind = "explicit_confirmation_flow" -> "human_confirmed"
    [] sourceKind = "system_project_rule"        -> "system_defined"

WithinCeiling(authority, sourceKind) ==
  \E i, j \in DOMAIN Authorities :
    i <= j /\ Authorities[i] = authority /\ Authorities[j] = Ceiling(sourceKind)

\* What the recursive searches of an answer must not find.
NoStrength(out)   == "strength" \notin out.flaws
NoProvenance(out) == "provenance" \notin out.flaws
NoInjection(out)  == "injection" \notin out.flaws

\* validate_background_llm_json(): the text is an object at all.
Wellformed(out) ==
  "malformed" \notin out.flaws /\ NoStrength(out) /\ NoProvenance(out) /\ NoInjection(out)

Envelope(out, ctx) ==
  /\ Canonical(out.operation) \in Supported
  /\ WithinCeiling(out.authority, ctx.sourceKind)
  /\ out.flaws \cap {"rationale", "confirmation"} = {}

-----------------------------------------------------------------------------
(* What an operation may carry, stage by stage.                             *)

ConsolidationShape(operation, keys) ==
  /\ operation \in Semantic
  /\ keys = CASE operation \in {"create", "pending-confirmation"}    -> {AtomicDraft}
              [] operation \in {"strengthen", "retract", "archive"} -> {Update}
              [] OTHER                                -> {Update, AtomicDraft}

SummaryShape(operation, keys) ==
  \/ operation = "create_summary_belief"     /\ keys = {SummaryDraft}
  \/ operation = "profile_summary_candidate" /\ keys = {ProfileDraft}

\* Mutation: only the stages that update beliefs have a shape to keep.
StageShapeOfUpdates(operation, keys, stage) ==
  stage \in {"consolidation", "conflict_review"} => ConsolidationShape(operation, keys)

StageShape(operation, keys, stage) ==
  CASE stage \in {"consolidation", "conflict_review"} -> ConsolidationShape(operation, keys)
    [] stage = "summary"    -> SummaryShape(operation, keys)
    [] stage = "extraction" -> operation = "create_atomic_belief" /\ keys \subseteq {AtomicDraft}

\* The parts of the payload that an operation reads.
Payloads(operation) ==
  CASE operation \in {"create_atomic_belief", "create", "pending-confirmation"} -> {AtomicDraft}
    [] operation = "create_summary_belief"     -> {SummaryDraft}
    [] operation = "profile_summary_candidate" -> {ProfileDraft}
    [] operation = "supersede"                 -> {Update, AtomicDraft}
    [] OTHER                                   -> {Update}

-----------------------------------------------------------------------------
(* Drafts and updates.                                                      *)

ScopeKinds(scope) ==
  CASE scope = "counterpart" -> {"counterpart"}
    [] scope = "self"        -> {"subject", "self"}
    [] scope = "session"     -> {"session"}
    [] OTHER                 -> {}

\* References are pairs <<kind, id>>.  The program derives a project's
\* reference itself, from the descriptor.
Resolvable(draft) == draft.descriptor
AllowedAbout(draft, ctx) == draft.about \subseteq ctx.refs
ScopeAbout(draft, ctx) ==
  IF draft.scope = "project"
  THEN draft.about = {} /\ Resolvable(draft)
  ELSE /\ ScopeKinds(draft.scope) = {} \/ \E r \in draft.about : r[1] \in ScopeKinds(draft.scope)
       /\ AllowedAbout(draft, ctx)

\* A draft's text has no word of four letters that its sources lack; the
\* program gives it its id.
Grounded(draft) == draft.grounded /\ ~draft.generatedId

AtomicDraftValid(draft, ctx) == ScopeAbout(draft, ctx) /\ Grounded(draft)

\* Mutation: the domain of a summary is not compared with its target's.
SummaryDraftAnyDomain(draft, ctx) ==
  /\ ScopeAbout(draft, ctx)
  /\ Grounded(draft)
  /\ \A t \in ctx.required :
       draft.kind = t.kind /\ draft.scope = t.scope /\ draft.about = t.about

\* ctx.required: the target of a summary, for the other stages nothing
SummaryDraftValid(draft, ctx) ==
  /\ ScopeAbout(draft, ctx)
  /\ Grounded(draft)
  /\ \A t \in ctx.required :
       /\ draft.kind = t.kind
       /\ draft.scope = t.scope
       /\ draft.about = t.about
       /\ t.domain # "" => draft.domain = t.domain

UpdateValid(update, operation, ctx) ==
  /\ operation # "update_belief" => update.kind \in {"", operation}
  /\ update.target \in ctx.updatable

\* validate_background_llm_output()
Accepted(out, ctx) ==
  LET operation == Canonical(out.operation) IN
  /\ Wellformed(out)
  /\ Envelope(out, ctx)
  /\ StageShape(operation, out.keys, ctx.stage)
  /\ Payloads(operation) \subseteq out.keys
  /\ AtomicDraft \in Payloads(operation) => AtomicDraftValid(out.draft, ctx)
  /\ Payloads(operation) \cap {SummaryDraft, ProfileDraft} # {} => SummaryDraftValid(out.draft, ctx)
  /\ Update \in Payloads(operation) => UpdateValid(out.update, operation, ctx)

-----------------------------------------------------------------------------
(* The store's side: CognitionStateStore.                                   *)

\* _accept_validated_background_llm_output(): an update outside of the stages
\* that update is refused there once more.
Persistable(out, ctx) ==
  LET operation == Canonical(out.operation) IN
  IF ctx.stage \in {"consolidation", "conflict_review"}
  THEN operation \in Semantic
  ELSE Update \notin Payloads(operation)

\* The lifecycle a new summary starts with.
FirstLifecycle(confirmation) == IF confirmation THEN "pending" ELSE "active"
=============================================================================
