----------------------------- MODULE MCJobQueue -----------------------------
(* JobQueue against the promise of SerialExecution, for TLC.               *)
EXTENDS JobQueueInvariant, TLC

\* Slots of the control plane are alike, and so are workloads that are not
\* treated differently.
Alike ==
  Permutations(Poll) \cup Permutations(Reporter)
  \cup (IF Superseding = {} THEN Permutations(Workload) ELSE {})
=============================================================================
