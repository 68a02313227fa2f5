----------------------- MODULE MemoryExtractionProps -----------------------
(***************************************************************************)
(* Properties of MemoryExtraction.                                         *)
(***************************************************************************)
EXTENDS MemoryExtraction

\* No path through an attempt leaves the ledger claimed: a claimed source or an
\* open window belongs to a thread still at work on it, or a crash left it.
\* (memory_extraction.py _run_candidate, _mark_failed_if_needed.)
ClaimHasOwner ==
  /\ \A m \in Sources :
       progress[m] = "claimed" =>
         \/ \E t \in Threads : pc[t] \in Working /\ m \in refs[t]
         \/ \E w \in orphans : m \in w[2]
  /\ \A w \in Windows :
       window[w] \in {"pending", "claimed"} =>
         \/ \E t \in Threads : pc[t] \in Working /\ WindowOf(t) = w
         \/ w \in orphans

\* A source or a window counts as processed only when a belief was accepted
\* from it ("marks source records processed only after validated outputs").
ProcessedHasOutput ==
  /\ \A m \in Sources : progress[m] = "processed" => extracted[m] > 0
  /\ \A w \in Windows :
       window[w] = "processed" => \A m \in w[2] : extracted[m] > 0

\* A source reaches a terminal status only together with a claimed window that
\* covers it: no late handler overwrites what another attempt has settled.
SettlesWithWindow ==
  \A m \in Sources :
    progress'[m] \in {"processed", "failed"} /\ progress'[m] # progress[m] =>
      \E w \in Windows :
        m \in w[2] /\ window[w] = "claimed" /\ window'[w] = progress'[m]
ClosedTogether == [][SettlesWithWindow]_ledger

\* With the backlog path alone a source yields its belief exactly once, across
\* failures, yields and restarts.
ExtractedOnce ==
  \A m \in Sources : extracted[m] = IF progress[m] = "processed" THEN 1 ELSE 0

\* The foreground leaves the worker alone and session s is inactive.
Quiet(s) == turn = 0 /\ s \notin active

\* Every stored source of a session that stays inactive is extracted at last,
\* behind whatever failures of earlier sessions: the walk over the sessions is
\* not blocked (memory_extraction.py _inactive_backlog_candidate).
InactiveEventuallyExtracted ==
  \A m \in Sources :
    <>[]Quiet(m[1]) => (m \in Stored(m[1]) ~> progress[m] = "processed")
=============================================================================
