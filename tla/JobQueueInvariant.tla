------------------------- MODULE JobQueueInvariant -------------------------
(***************************************************************************)
(* The inductive invariant behind the safety properties of JobQueue: who   *)
(* may hold a job at which moment.                                         *)
(***************************************************************************)
EXTENDS JobQueue

\* Rows are inserted in the order of their numbers.
Inserted == \A j \in JobId : status[j] = "none" <=> j >= next

\* A claim holds queued rows only, and every older queued row with them; two
\* claims never hold rows at the same time.
LockInv ==
  /\ \A p \in Poll : rows[p] # {} => pollPc[p] = "take"
  /\ \A p \in Poll : \A j \in rows[p] :
       /\ status[j] = "queued"
       /\ \A i \in JobId : i < j /\ status[i] = "queued" => i \in rows[p]
  /\ \A p, q \in Poll : rows[p] # {} /\ rows[q] # {} => p = q

\* Being handed out, a job is in one place: the claim's response, the agent's
\* inbox, the agent's execution, or its report.
Untouched(j) ==
  /\ agent[j] = "absent"
  /\ runs[j] = 0
  /\ \A r \in Reporter : repJob[r] # j
  /\ \A p \in Poll : j \notin taken[p]

NotStarted ==
  \A j \in JobId : status[j] \in {"none", "queued", "cancelled"} => Untouched(j)

\* A response names each job once, to an agent that has not heard of it.
InResponse ==
  /\ \A p \in Poll : taken[p] # {} => pollPc[p] = "answer"
  /\ \A p \in Poll : \A j \in taken[p] :
       /\ agent[j] = "absent"
       /\ runs[j] = 0
       /\ \A r \in Reporter : repJob[r] # j
       /\ \A q \in Poll : j \in taken[q] => p = q
       /\ j \notin expired => status[j] = "running"

InInbox ==
  \A j \in JobId : agent[j] = "inbox" =>
    /\ runs[j] = 0
    /\ \A r \in Reporter : repJob[r] # j
    /\ j \notin expired => status[j] = "running"

\* While it is executed nobody reports the job, and only its time to live can
\* end it.
InExecution ==
  \A j \in JobId : agent[j] = "executing" =>
    /\ runs[j] = 1
    /\ status[j] # "succeeded"
    /\ \A r \in Reporter : repJob[r] # j
    /\ ~Overrun => j \notin expired
    /\ j \notin expired => status[j] = "running"

ExpiredRan == \A j \in expired : status[j] \notin {"none", "queued", "cancelled"}

IdleReporter == \A r \in Reporter : repPc[r] = "idle" => repJob[r] = None

DispatchInv ==
  NotStarted /\ InResponse /\ InInbox /\ InExecution /\ StartedOnce /\ ExpiredRan /\ IdleReporter

\* Success is only ever the result of an execution.
ResultInv ==
  /\ HonestSuccess
  /\ \A j \in JobId : outcome[j] = "succeeded" => runs[j] = 1

\* With one poll at a time, a claim's busy set covers every running row.
OnePoll  == \A p, q \in Poll : pollPc[p] # "idle" /\ pollPc[q] # "idle" => p = q
BusyInv  == \A p \in Poll : pollPc[p] \in {"lock", "take"} =>
              \A j \in Running : owner[j] \in busy[p]
PollInv  == ~Overlap => OnePoll /\ BusyInv /\ OneRunning

\* With one report of a job at a time, its outcome waits for the one handler
\* that saw the row running.
OneReport  == \A r, q \in Reporter : repJob[r] # None /\ repJob[r] = repJob[q] => r = q
UnapplyInv == \A r \in Reporter :
                /\ repPc[r] \in {"write", "apply"} => applied[repJob[r]] = 0
                /\ repPc[r] = "apply" => status[repJob[r]] \in Reported
AppliedInv == \A j \in JobId : applied[j] # 0 => applied[j] = 1 /\ status[j] \in Reported
ReportInv  == ~Overlap => OneReport /\ UnapplyInv /\ AppliedInv

\* While the agent waits for a response, whatever comes of it fits beside what the
\* agent runs: jobs it runs may end meanwhile, and none begins.
RoomInv ==
  /\ Cardinality(AgentRunning \cup InPhase("inbox")) <= MaxParallel
  /\ waiting # None =>
       /\ InPhase("inbox") = {}
       /\ pollPc[waiting] # "idle"
       /\ IF pollPc[waiting] = "answer"
          THEN Cardinality(AgentRunning) + Cardinality(taken[waiting]) <= MaxParallel
          ELSE Cardinality(AgentRunning) + capacity[waiting] <= MaxParallel

\* All of it together: the inductive invariant.
IInv ==
  /\ TypeOK
  /\ Inserted
  /\ LockInv
  /\ DispatchInv
  /\ FifoStart
  /\ ResultInv
  /\ PollInv
  /\ ReportInv
  /\ RoomInv
-----------------------------------------------------------------------------
(* The promise of SerialExecution and how the table maps to it.            *)

\* A row's status as a caller of the queue sees it.
PhaseOf(s) ==
  CASE s = "none"         -> "none"
    [] s = "queued"       -> "waiting"
    [] s = "running"      -> "active"
    [] s \in Terminal     -> "over"
phase == [j \in JobId |-> PhaseOf(status[j])]

Serial == INSTANCE SerialExecution WITH phase <- phase, owner <- owner

\* claimJobs, reportJob and the agent implement serial execution per workload.
ImplementsSerial == Serial!Spec
==============================================================================
