-------------------------- MODULE MCMemorySummary --------------------------
(***************************************************************************)
(* Instances of MemorySummary for TLC.                                     *)
(***************************************************************************)
EXTENDS MemorySummaryProps

Peer == <<"counterpart", "peer">>
Other == <<"counterpart", "other">>
Project == <<"project", "described">>

Trait(scope, about, content, domains, by) ==
  [scope |-> scope, about |-> about, type |-> "fact", content |-> content,
   domains |-> domains, by |-> by]

\* Two consolidated beliefs about the counterpart that are to guide memory_propose,
\* and one that a turn may write: it says the same as the first.
GuidanceTraits ==
  <<Trait("counterpart", {Peer}, "told", {"memory_propose"}, "worker"),
    Trait("counterpart", {Peer}, "also", {"memory_propose"}, "worker"),
    Trait("counterpart", {Peer}, "told", {}, "tool")>>

Target(kind, scope, about, domain) ==
  [kind |-> kind, scope |-> scope, about |-> about, domain |-> domain]
GuidanceUnits == <<Target("counterpart_profile", "counterpart", {Peer}, ""),
                   Target("domain_summary", "counterpart", {Peer}, "memory_propose")>>
OnePeer == {Peer}

\* Texts that match nothing, everything in one index, or the first belief's object
\* and all of the others a little.
Query(types, reasons) ==
  [reasons |-> reasons, types |-> types, max |-> 1,
   rank |-> [index \in {"term_fts", "trigram_fts"} |-> [b \in Beliefs |-> b]],
   held |-> [b \in Beliefs |-> NBeliefs - b]]
ThreeQueries ==
  {Query({}, [b \in Beliefs |-> {}]), Query({"fact"}, [b \in Beliefs |-> {"term_fts"}]),
   Query({}, [b \in Beliefs |-> IF b = 1 THEN {"object_exact"}
                                ELSE {"object_partial", "term_fts", "substring"}])}

\* An answer of the summary stage that is about its target.
Plain(t) ==
  [flaws |-> {}, operation |-> "create_summary_belief",
   authority |-> "background_synthesized", confirm |-> FALSE, keys |-> {SummaryDraft},
   draft |-> [kind |-> t.kind, scope |-> t.scope, about |-> t.about, descriptor |-> TRUE,
              grounded |-> TRUE, generatedId |-> FALSE, domain |-> t.domain,
              asks |-> FALSE, until |-> "none"],
   update |-> [kind |-> "", target |-> 1]]

\* ... and what may be different about it.
SummaryReplies(t) ==
  LET p == Plain(t) IN
  {p, [p EXCEPT !.confirm = TRUE],
   [p EXCEPT !.draft.asks = TRUE, !.draft.until = "ahead"],
   [p EXCEPT !.draft.about = @ \cup {Other}], [p EXCEPT !.draft.domain = "stray"],
   [p EXCEPT !.draft.grounded = FALSE], [p EXCEPT !.authority = "user_asserted"]}

\* Every stage, having shown belief 1, and answers of every form.
StageContexts ==
  {[stage |-> s, sourceKind |-> "background_synthesis",
    updatable |-> IF s \in {"consolidation", "conflict_review"} THEN {1} ELSE {},
    refs |-> {Peer}, required |-> IF s = "summary" THEN {GuidanceUnits[1]} ELSE {}] :
     s \in {"extraction", "consolidation", "conflict_review", "summary"}}
FormOutputs ==
  {[Plain(GuidanceUnits[1]) EXCEPT !.operation = op, !.keys = keys, !.update.target = t,
                                   !.update.kind = k, !.flaws = f] :
     op \in Supported \cup {"pending_confirmation", "forget"},
     keys \in SUBSET {AtomicDraft, SummaryDraft, ProfileDraft, Update},
     t \in {1, 2}, k \in {"", "retract"}, f \in SUBSET {"injection", "confirmation"}}
=============================================================================
