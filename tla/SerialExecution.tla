-------------------------- MODULE SerialExecution --------------------------
(***************************************************************************)
(* What the job queue promises its callers: the jobs of one workload are   *)
(* worked off one at a time, in the order they were submitted.             *)
(***************************************************************************)
EXTENDS Naturals

CONSTANTS JobId, Workload

VARIABLES phase, owner
vars == <<phase, owner>>

Phase == {"none", "waiting", "active", "over"}

Init ==
  /\ phase = [j \in JobId |-> "none"]
  /\ owner \in [JobId -> Workload]

Submit(j) ==
  /\ phase[j] = "none"
  /\ phase' = [phase EXCEPT ![j] = "waiting"]
  /\ UNCHANGED owner

\* A waiting job may begin when every older job of its workload is over.
Ready(j) ==
  /\ phase[j] = "waiting"
  /\ \A i \in JobId : owner[i] = owner[j] =>
       phase[i] # "active" /\ (i < j => phase[i] # "waiting")

\* Jobs of different workloads begin together.
Begin(S) ==
  /\ \A j \in S : Ready(j)
  /\ phase' = [j \in JobId |-> IF j \in S THEN "active" ELSE phase[j]]
  /\ UNCHANGED owner

\* Jobs end; a waiting one may be dropped.
End(S) ==
  /\ \A j \in S : phase[j] \in {"waiting", "active"}
  /\ phase' = [j \in JobId |-> IF j \in S THEN "over" ELSE phase[j]]
  /\ UNCHANGED owner

Next ==
  \/ \E j \in JobId : Submit(j)
  \/ \E S \in SUBSET JobId : Begin(S) \/ End(S)

Spec == Init /\ [][Next]_vars
=============================================================================
