----------------------- MODULE CompactExtractionProps -----------------------
(***************************************************************************)
(* Properties of CompactExtraction.                                        *)
(***************************************************************************)
EXTENDS CompactExtraction

\* The jobs that own a slot of the semaphore.
InSlots == {j \in Jobs : job[j] \in {"slot", "running", "left", "failed"}}

\* No slot is given back twice or lost, on whatever way out of submit() or of
\* a job, except to a thread that never started: a lost one refuses extractions
\* for the rest of the process.
SlotsAccounted == slots + Cardinality(InSlots) = Slots

\* "Prevent new submissions and optionally wait for already-started jobs":
\* when run() has waited, no job extracts but those it waited for in vain, nor
\* will one that was being submitted meanwhile.
QuietAfterShutdown ==
  closer["run"] = "returned" => \A j \in Jobs \ missed : job[j] # "running"

\* Each job is accounted for, by its slot while it has one and by the thread
\* that a shutdown waits for.
JobsAccounted == SlotsAccounted /\ QuietAfterShutdown

\* A shutdown that waits comes to an end without its timeout, by joining every
\* thread or by the exception of one that never started.
ShutdownEnds == closer["run"] = "joining" ~> closer["run"] # "joining"
=============================================================================
