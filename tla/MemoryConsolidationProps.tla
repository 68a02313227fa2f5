---------------------- MODULE MemoryConsolidationProps ----------------------
(***************************************************************************)
(* Properties of MemoryConsolidation.                                      *)
(***************************************************************************)
EXTENDS MemoryConsolidation

Store == INSTANCE BeliefLifecycle

\* Whatever the turns, the drafts, the consolidation and the archive walks do
\* to each other, the store keeps its promise: a belief is superseded once, by
\* a belief formed with it, and never becomes active again.
\* (state_service.py _require_active_atomic_target, supersede_many.)
ImplementsBeliefLifecycle == Store!Spec

\* A draft and the belief it was consolidated into are never both active: what
\* is recalled is not said twice (_archive_consolidated_source_drafts).
SaidOnce ==
  \A b \in Beliefs : origin[b] # 0 => life[origin[b]] # "active"

\* A claimed draft belongs to the attempt in progress, or a crash left it: no
\* path through an attempt forgets its claim (_mark_failed_if_needed).
ClaimHasWorker ==
  \A d \in Beliefs :
    progress[d] = "claimed" =>
      \/ d = draft /\ pc \in Working
      \/ d \in orphans

\* Every extracted draft that stays active is consolidated at last, behind any
\* failures of others, unless a crash left it claimed.
DraftEventuallySettled ==
  \A d \in Beliefs :
    d \in drafts \cap Active ~> life[d] # "active" \/ d \in orphans

\* An expired belief is archived at last, even if every single step of the
\* walk has to give way to a turn (archive_expired.py, after_cursor_wrap).
ExpiredEventuallyArchived ==
  \A b \in Beliefs : b \in expired ~> life[b] # "active"

\* Neither backlog of the daemon stays: it works on drafts and on expired
\* beliefs by turns, and gives way to each foreground turn in between.
BacklogsClear == DraftEventuallySettled /\ ExpiredEventuallyArchived
=============================================================================
