------------------------------ MODULE JobQueue ------------------------------
(***************************************************************************)
(* The job queue of one node: the rows of the jobs table, the control      *)
(* plane's handlers of the agent's HTTP calls (claimJobs, reportJob) and   *)
(* the agent that executes the jobs (Agent.tick, Agent.execute).           *)
(*                                                                         *)
(* Every handler is split where the code awaits the database, so handlers  *)
(* of different calls interleave between their statements.  An HTTP call   *)
(* that fails for the caller may still be in progress at the server; with  *)
(* Overlap = FALSE it has ended there before the agent calls again.  With  *)
(* Overrun = FALSE every execution ends before its job's time to live.     *)
(***************************************************************************)
EXTENDS Naturals, FiniteSets

CONSTANTS
  Workload,      \* what jobs are serialised on; jobs without a workload share one element
  Superseding,   \* the workloads whose queued jobs a newer one cancels (dns.sync)
  MaxJobs,       \* bound: how many rows are ever inserted
  Poll,          \* slots for poll requests in progress at the control plane
  Reporter,      \* slots for report requests in progress at the control plane
  MaxParallel,   \* ASTER_MAX_PARALLEL, jobs the agent runs at once
  Batch,         \* rows one claim looks at (50 in the code)
  MaxAttempts,   \* deliveries of a final report the agent tries (5 in the code)
  MaxCrashes,    \* bound: crashes of the agent, and of the control plane
  Lossy,         \* HTTP calls of the agent may fail
  Overlap,       \* an abandoned HTTP call may still run at the server
  Overrun,       \* an execution may outlast JOB_TTL_MS
  None           \* no slot, no job

ASSUME BoundsAssumption ==
  /\ MaxJobs \in Nat
  /\ MaxParallel \in Nat
  /\ Batch \in Nat
  /\ MaxAttempts \in Nat
  /\ MaxCrashes \in Nat
ASSUME FlagsAssumption == {Lossy, Overlap, Overrun} \subseteq BOOLEAN
ASSUME SlotsAssumption ==
  None \notin Poll /\ None \notin Reporter /\ None \notin 1 .. MaxJobs
ASSUME SupersedingAssumption == Superseding \subseteq Workload

VARIABLES
  \* the jobs table
  status,        \* JobStatus of each row, "none" before the insert
  owner,         \* workloadId of each row
  next,          \* the next row to insert: rows are numbered by createdAt
  expired,       \* rows whose time to live has passed
  applied,       \* how often applyOutcome ran for each row
  \* poll requests at the control plane
  pollPc,        \* where each claimJobs stands
  capacity,      \* its capacity argument
  busy,          \* its set of busy workloads
  rows,          \* the queued rows it read FOR UPDATE
  taken,         \* the rows it claimed
  \* report requests at the control plane
  repPc,         \* where each reportJob stands
  repJob,        \* its job
  \* the agent
  up,            \* the agent process runs
  waiting,       \* the poll the agent awaits
  agent,         \* what the agent does with each job
  seen,          \* job ids it accepted since it started
  outcome,       \* the status in the job's final report
  attempts,      \* reports sent for the job
  awaiting,      \* the report request the agent awaits for the job
  runs,          \* how often an execution of the job began
  crashes        \* crashes so far

table    == <<status, owner, next, expired, applied>>
pollVars == <<pollPc, capacity, busy, rows, taken>>
repVars  == <<repPc, repJob>>
agentVars == <<up, waiting, agent, seen, outcome, attempts, awaiting, runs>>
vars     == <<table, pollVars, repVars, agentVars, crashes>>

JobId     == 1 .. MaxJobs
Live      == {"queued", "running"}
Reported  == {"succeeded", "failed"}
Terminal  == Reported \cup {"cancelled"}
JobStatus == {"none"} \cup Live \cup Terminal

PollPhase  == {"idle", "sweep", "read", "lock", "take", "answer"}
RepPhase   == {"idle", "read", "write", "apply", "answer"}
AgentPhase == {"absent", "inbox", "executing", "reporting", "refusing"}

Running      == {j \in JobId : status[j] = "running"}
Queued       == {j \in JobId : status[j] = "queued"}
InPhase(ph)  == {j \in JobId : agent[j] = ph}
\* Agent.running: the ids between the start of execute and its last line.
AgentRunning == InPhase("executing") \cup InPhase("reporting")

TypeOK ==
  /\ status \in [JobId -> JobStatus]
  /\ owner \in [JobId -> Workload]
  /\ next \in 1 .. MaxJobs + 1
  /\ expired \in SUBSET JobId
  /\ applied \in [JobId -> Nat]
  /\ pollPc \in [Poll -> PollPhase]
  /\ capacity \in [Poll -> Nat]
  /\ busy \in [Poll -> SUBSET Workload]
  /\ rows \in [Poll -> SUBSET JobId]
  /\ taken \in [Poll -> SUBSET JobId]
  /\ repPc \in [Reporter -> RepPhase]
  /\ repJob \in [Reporter -> JobId \cup {None}]
  /\ \A r \in Reporter : repPc[r] # "idle" => repJob[r] \in JobId
  /\ up \in BOOLEAN
  /\ waiting \in Poll \cup {None}
  /\ agent \in [JobId -> AgentPhase]
  /\ seen \in SUBSET JobId
  /\ outcome \in [JobId -> Reported]
  /\ attempts \in [JobId -> Nat]
  /\ awaiting \in [JobId -> Reporter \cup {None}]
  /\ runs \in [JobId -> Nat]
  /\ crashes \in Nat

Init ==
  /\ status = [j \in JobId |-> "none"]
  /\ owner \in [JobId -> Workload]
  /\ next = 1
  /\ expired = {}
  /\ applied = [j \in JobId |-> 0]
  /\ pollPc = [p \in Poll |-> "idle"]
  /\ capacity = [p \in Poll |-> 0]
  /\ busy = [p \in Poll |-> {}]
  /\ rows = [p \in Poll |-> {}]
  /\ taken = [p \in Poll |-> {}]
  /\ repPc = [r \in Reporter |-> "idle"]
  /\ repJob = [r \in Reporter |-> None]
  /\ up = TRUE
  /\ waiting = None
  /\ agent = [j \in JobId |-> "absent"]
  /\ seen = {}
  /\ outcome = [j \in JobId |-> "failed"]
  /\ attempts = [j \in JobId |-> 0]
  /\ awaiting = [j \in JobId |-> None]
  /\ runs = [j \in JobId |-> 0]
  /\ crashes = 0

-----------------------------------------------------------------------------
(* Producers: every operation of the engine that enqueues.                 *)

\* The row's workload is fixed in Init: which job comes when is arbitrary.
Enqueue ==
  /\ next \in JobId
  /\ status' = [status EXCEPT ![next] = "queued"]
  /\ next' = next + 1
  /\ UNCHANGED <<owner, expired, applied, pollVars, repVars, agentVars, crashes>>

\* The rows a claim holds FOR UPDATE until it commits.
Locked == UNION {rows[p] : p \in {q \in Poll : pollPc[q] = "take"}}

\* Mutant: the update does not ask whether the job is still queued.
CancelAnyStatus(j) ==
  /\ status[j] # "none"
  /\ owner[j] \in Superseding
  /\ j \notin Locked
  /\ status' = [status EXCEPT ![j] = "cancelled"]
  /\ UNCHANGED <<owner, next, expired, applied, pollVars, repVars, agentVars, crashes>>

\* syncDns replaces what is still queued; an UPDATE waits for row locks.
Cancel(j) ==
  /\ status[j] = "queued"
  /\ owner[j] \in Superseding
  /\ j \notin Locked
  /\ status' = [status EXCEPT ![j] = "cancelled"]
  /\ UNCHANGED <<owner, next, expired, applied, pollVars, repVars, agentVars, crashes>>

\* JOB_TTL_MS goes by: the row is due for the sweep and its envelope invalid.
Expire(j) ==
  /\ status[j] = "running"
  /\ j \notin expired
  /\ Overrun \/ agent[j] # "executing"
  /\ expired' = expired \cup {j}
  /\ UNCHANGED <<status, owner, next, applied, pollVars, repVars, agentVars, crashes>>

-----------------------------------------------------------------------------
(* The control plane answers a poll.                                       *)

\* Mutant: jobs that timed out are queued again, for another 30 minutes.
SweepRequeues(p) ==
  LET due == Running \cap expired IN
  /\ pollPc[p] = "sweep"
  /\ status' = [j \in JobId |-> IF j \in due THEN "queued" ELSE status[j]]
  /\ expired' = expired \ due
  /\ pollPc' = [pollPc EXCEPT ![p] = "read"]
  /\ UNCHANGED <<owner, next, applied, capacity, busy, rows, taken,
                 repVars, agentVars, crashes>>
\* Mutant: nothing is timed out.
SweepNothing(p) ==
  /\ pollPc[p] = "sweep"
  /\ pollPc' = [pollPc EXCEPT ![p] = "read"]
  /\ UNCHANGED <<table, capacity, busy, rows, taken, repVars, agentVars, crashes>>

\* The statement that fails running rows whose time to live has passed.
Sweep(p) ==
  /\ pollPc[p] = "sweep"
  /\ status' = [j \in JobId |-> IF status[j] = "running" /\ j \in expired
                                THEN "failed" ELSE status[j]]
  /\ pollPc' = [pollPc EXCEPT ![p] = "read"]
  /\ UNCHANGED <<owner, next, expired, applied, capacity, busy, rows, taken,
                 repVars, agentVars, crashes>>

ReadBusy(p) ==
  /\ pollPc[p] = "read"
  /\ busy' = [busy EXCEPT ![p] = {owner[j] : j \in Running}]
  /\ pollPc' = [pollPc EXCEPT ![p] = "lock"]
  /\ UNCHANGED <<table, capacity, rows, taken, repVars, agentVars, crashes>>

\* Mutant: newest first.
NewerFirst(i, S) == {j \in S : j > i}
Older(i, S)   == {j \in S : j < i}
Oldest(S, n)  == {j \in S : Cardinality(Older(j, S)) < n}

\* SELECT ... FOR UPDATE: waits for the rows another claim has locked, and
\* then sees them as that claim left them.
LockQueued(p) ==
  /\ pollPc[p] = "lock"
  /\ Locked = {}
  /\ rows' = [rows EXCEPT ![p] = Oldest(Queued, Batch)]
  /\ pollPc' = [pollPc EXCEPT ![p] = "take"]
  /\ UNCHANGED <<table, capacity, busy, taken, repVars, agentVars, crashes>>

\* Mutant: the busy set is not asked.
EligibleWhileBusy(p) ==
  {j \in rows[p] : \A i \in Older(j, rows[p]) : owner[i] # owner[j]}
\* Mutant: a taken job does not make its workload busy.
EligibleTogether(p) == {j \in rows[p] : owner[j] \notin busy[p]}
\* Rows of no busy workload, the oldest of each workload.
Eligible(p) ==
  {j \in rows[p] : /\ owner[j] \notin busy[p]
                   /\ \A i \in Older(j, rows[p]) : owner[i] # owner[j]}
Choice(p) == Oldest(Eligible(p), capacity[p])

\* The loop over the queued rows, the update to "running" and the commit.
Take(p) ==
  /\ pollPc[p] = "take"
  /\ status' = [j \in JobId |-> IF j \in Choice(p) THEN "running" ELSE status[j]]
  /\ taken' = [taken EXCEPT ![p] = Choice(p)]
  /\ rows' = [rows EXCEPT ![p] = {}]
  /\ busy' = [busy EXCEPT ![p] = {}]
  /\ capacity' = [capacity EXCEPT ![p] = 0]
  /\ pollPc' = [pollPc EXCEPT ![p] = "answer"]
  /\ UNCHANGED <<owner, next, expired, applied, repVars, agentVars, crashes>>

\* The response reaches the agent, unless it no longer waits for it.
AnswerPoll(p) ==
  /\ pollPc[p] = "answer"
  /\ pollPc' = [pollPc EXCEPT ![p] = "idle"]
  /\ taken' = [taken EXCEPT ![p] = {}]
  /\ IF waiting = p
     THEN /\ waiting' = None
          /\ agent' = [j \in JobId |-> IF j \in taken[p] THEN "inbox" ELSE agent[j]]
     ELSE UNCHANGED <<waiting, agent>>
  /\ UNCHANGED <<table, capacity, busy, rows, repVars, up, seen, outcome,
                 attempts, awaiting, runs, crashes>>

-----------------------------------------------------------------------------
(* The control plane takes a final report.                                 *)

\* Mutant: a report is taken whatever the status.
ReadAnyStatus(r) ==
  /\ repPc[r] = "read"
  /\ repPc' = [repPc EXCEPT ![r] = "write"]
  /\ UNCHANGED <<table, pollVars, repJob, agentVars, crashes>>
ReadReported(r) ==
  /\ repPc[r] = "read"
  /\ repPc' = [repPc EXCEPT ![r] = IF status[repJob[r]] = "running" THEN "write" ELSE "answer"]
  /\ UNCHANGED <<table, pollVars, repJob, agentVars, crashes>>

\* Mutant: a finished job counts as a success.
WriteSuccess(r) ==
  /\ repPc[r] = "write"
  /\ status' = [status EXCEPT ![repJob[r]] = "succeeded"]
  /\ repPc' = [repPc EXCEPT ![r] = "apply"]
  /\ UNCHANGED <<owner, next, expired, applied, pollVars, repJob, agentVars, crashes>>
\* The update names the row only by its id, whatever its status is by now.
WriteStatus(r) ==
  /\ repPc[r] = "write"
  /\ status' = [status EXCEPT ![repJob[r]] = outcome[repJob[r]]]
  /\ repPc' = [repPc EXCEPT ![r] = "apply"]
  /\ UNCHANGED <<owner, next, expired, applied, pollVars, repJob, agentVars, crashes>>

ApplyOutcome(r) ==
  /\ repPc[r] = "apply"
  /\ applied' = [applied EXCEPT ![repJob[r]] = @ + 1]
  /\ repPc' = [repPc EXCEPT ![r] = "answer"]
  /\ UNCHANGED <<status, owner, next, expired, pollVars, repJob, agentVars, crashes>>

Forget(j) ==
  /\ agent' = [agent EXCEPT ![j] = "absent"]
  /\ awaiting' = [awaiting EXCEPT ![j] = None]
  /\ attempts' = [attempts EXCEPT ![j] = 0]
  /\ UNCHANGED <<up, waiting, seen, outcome, runs>>

\* 200 or 409: either way the agent has nothing left to do for the job.
AnswerReport(r) ==
  /\ repPc[r] = "answer"
  /\ repPc' = [repPc EXCEPT ![r] = "idle"]
  /\ repJob' = [repJob EXCEPT ![r] = None]
  /\ IF awaiting[repJob[r]] = r THEN Forget(repJob[r]) ELSE UNCHANGED agentVars
  /\ UNCHANGED <<table, pollVars, crashes>>

\* The control plane restarts: open transactions roll back, calls fail.
ServerCrash ==
  /\ crashes < MaxCrashes
  /\ crashes' = crashes + 1
  /\ \/ \E p \in Poll : pollPc[p] # "idle"
     \/ \E r \in Reporter : repPc[r] # "idle"
  /\ pollPc' = [p \in Poll |-> "idle"]
  /\ capacity' = [p \in Poll |-> 0]
  /\ busy' = [p \in Poll |-> {}]
  /\ rows' = [p \in Poll |-> {}]
  /\ taken' = [p \in Poll |-> {}]
  /\ repPc' = [r \in Reporter |-> "idle"]
  /\ repJob' = [r \in Reporter |-> None]
  /\ waiting' = None
  /\ awaiting' = [j \in JobId |-> None]
  /\ UNCHANGED <<table, up, agent, seen, outcome, attempts, runs>>

-----------------------------------------------------------------------------
(* The agent.                                                              *)

Smaller(a, b) == IF a < b THEN a ELSE b
RouteLimit    == 8
\* Mutant: jobs already running are not subtracted.
SpareUnaware == Smaller(MaxParallel, RouteLimit)
\* Free slots of the agent, never negative, as the poll route clamps them.
Spare ==
  LET used == Cardinality(AgentRunning)
  IN  IF used < MaxParallel THEN Smaller(MaxParallel - used, RouteLimit) ELSE 0

\* One cycle of tick: not before the previous response is dealt with.  The
\* route claims nothing, and sweeps nothing, for a capacity of zero.
StartPoll(p) ==
  /\ up
  /\ waiting = None
  /\ InPhase("inbox") \cup InPhase("refusing") = {}
  /\ pollPc[p] = "idle"
  /\ Overlap \/ \A q \in Poll : pollPc[q] = "idle"
  /\ capacity' = [capacity EXCEPT ![p] = Spare]
  /\ pollPc' = [pollPc EXCEPT ![p] = IF capacity'[p] > 0 THEN "sweep" ELSE "answer"]
  /\ waiting' = p
  /\ UNCHANGED <<table, busy, rows, taken, repVars, up, agent, seen, outcome,
                 attempts, awaiting, runs, crashes>>

\* The request times out after 30 s, or the connection breaks.
AbandonPoll ==
  /\ Lossy
  /\ waiting # None
  /\ waiting' = None
  /\ UNCHANGED <<table, pollVars, repVars, up, agent, seen, outcome, attempts,
                 awaiting, runs, crashes>>

\* Mutant: expiry is not checked.
GenuineForever(j) == j \notin seen
\* What reject checks, but for the signature and the node, which are right.
Genuine(j) == j \notin expired /\ j \notin seen

\* The envelopes of a response are gone through in its order.
NextInInbox(j) ==
  /\ agent[j] = "inbox"
  /\ InPhase("refusing") = {}
  /\ \A i \in InPhase("inbox") : j <= i

Accept(j) ==
  /\ NextInInbox(j)
  /\ Genuine(j)
  /\ agent' = [agent EXCEPT ![j] = "executing"]
  /\ seen' = seen \cup {j}
  /\ runs' = [runs EXCEPT ![j] = @ + 1]
  /\ UNCHANGED <<table, pollVars, repVars, up, waiting, outcome, attempts, awaiting, crashes>>

Refuse(j) ==
  /\ NextInInbox(j)
  /\ ~Genuine(j)
  /\ agent' = [agent EXCEPT ![j] = "refusing"]
  /\ outcome' = [outcome EXCEPT ![j] = "failed"]
  /\ UNCHANGED <<table, pollVars, repVars, up, waiting, seen, attempts, awaiting, runs, crashes>>

\* The driver returns or throws.
Finish(j) ==
  /\ agent[j] = "executing"
  /\ agent' = [agent EXCEPT ![j] = "reporting"]
  /\ \E o \in Reported : outcome' = [outcome EXCEPT ![j] = o]
  /\ UNCHANGED <<table, pollVars, repVars, up, waiting, seen, attempts, awaiting, runs, crashes>>

\* A refusal is reported once, an outcome until an attempt gets an answer.
Allowance(j) == IF agent[j] = "refusing" THEN 1 ELSE MaxAttempts

MaySend(j) ==
  /\ agent[j] \in {"reporting", "refusing"}
  /\ awaiting[j] = None
  /\ attempts[j] < Allowance(j)

SendReport(j, r) ==
  /\ MaySend(j)
  /\ repPc[r] = "idle"
  /\ Overlap \/ \A q \in Reporter : repJob[q] # j
  /\ repPc' = [repPc EXCEPT ![r] = "read"]
  /\ repJob' = [repJob EXCEPT ![r] = j]
  /\ attempts' = [attempts EXCEPT ![j] = @ + 1]
  /\ awaiting' = [awaiting EXCEPT ![j] = r]
  /\ UNCHANGED <<table, pollVars, up, waiting, agent, seen, outcome, runs, crashes>>

\* The request never reaches the control plane.
LoseReport(j) ==
  /\ Lossy
  /\ MaySend(j)
  /\ attempts' = [attempts EXCEPT ![j] = @ + 1]
  /\ UNCHANGED <<table, pollVars, repVars, up, waiting, agent, seen, outcome,
                 awaiting, runs, crashes>>

\* The request times out after 30 s, or its answer is lost.
AbandonReport(j) ==
  /\ Lossy
  /\ awaiting[j] # None
  /\ awaiting' = [awaiting EXCEPT ![j] = None]
  /\ UNCHANGED <<table, pollVars, repVars, up, waiting, agent, seen, outcome,
                 attempts, runs, crashes>>

GiveUp(j) ==
  /\ agent[j] \in {"reporting", "refusing"}
  /\ awaiting[j] = None
  /\ attempts[j] >= Allowance(j)
  /\ Forget(j)
  /\ UNCHANGED <<table, pollVars, repVars, crashes>>

\* The process ends; nothing it knew is on disk.
AgentCrash ==
  /\ up
  /\ crashes < MaxCrashes
  /\ crashes' = crashes + 1
  /\ up' = FALSE
  /\ waiting' = None
  /\ agent' = [j \in JobId |-> "absent"]
  /\ seen' = {}
  /\ awaiting' = [j \in JobId |-> None]
  /\ attempts' = [j \in JobId |-> 0]
  /\ UNCHANGED <<table, pollVars, repVars, outcome, runs>>

AgentRestart ==
  /\ ~up
  /\ up' = TRUE
  /\ UNCHANGED <<table, pollVars, repVars, waiting, agent, seen, outcome,
                 attempts, awaiting, runs, crashes>>

-----------------------------------------------------------------------------

PollStep(p) ==
  Sweep(p) \/ ReadBusy(p) \/ LockQueued(p) \/ Take(p) \/ AnswerPoll(p)

ReportStep(r) ==
  ReadReported(r) \/ WriteStatus(r) \/ ApplyOutcome(r) \/ AnswerReport(r)

AgentStep(j) == Accept(j) \/ Refuse(j) \/ Finish(j) \/ GiveUp(j)

Next ==
  \/ Enqueue
  \/ \E j \in JobId : Cancel(j) \/ Expire(j)
  \/ \E p \in Poll : StartPoll(p) \/ PollStep(p)
  \/ AbandonPoll
  \/ \E r \in Reporter : ReportStep(r)
  \/ \E j \in JobId : AgentStep(j) \/ LoseReport(j) \/ AbandonReport(j)
  \/ \E j \in JobId, r \in Reporter : SendReport(j, r)
  \/ ServerCrash
  \/ AgentCrash
  \/ AgentRestart

Spec == Init /\ [][Next]_vars

\* What keeps going: handlers end, a running agent polls, executes and
\* reports, time passes.  Nobody is bound to enqueue, to lose or to crash.
Progress ==
  /\ WF_vars(\E p \in Poll : StartPoll(p))
  /\ \A p \in Poll : WF_vars(PollStep(p))
  /\ \A r \in Reporter : WF_vars(ReportStep(r))
  /\ \A j \in JobId : WF_vars(AgentStep(j))
  /\ \A j \in JobId : WF_vars(\E r \in Reporter : SendReport(j, r))
  /\ \A j \in JobId : WF_vars(Expire(j))

\* The agent may stay dead.
LiveSpec == Spec /\ Progress
\* An agent that died is started again.
RestartSpec == LiveSpec /\ WF_vars(AgentRestart)

-----------------------------------------------------------------------------
(* Properties.                                                             *)

\* The jobs table never has two running rows of one workload: what the busy
\* set of claimJobs is for.
OneRunning ==
  \A i, j \in Running : owner[i] = owner[j] => i = j

\* The agent never executes two jobs of one workload at the same time, so
\* drivers never meet on the same containers and volumes.
OneExecuting ==
  \A i, j \in InPhase("executing") : owner[i] = owner[j] => i = j

\* Jobs of one workload are handed out in the order they were enqueued: a
\* restore relies on the safety backup enqueued right before it.
FifoStart ==
  \A i, j \in JobId :
    /\ i < j
    /\ owner[i] = owner[j]
    /\ status[j] \in {"running"} \cup Reported
    => status[i] # "queued"

\* No job is executed twice, whatever is lost, repeated or restarted.
StartedOnce == \A j \in JobId : runs[j] <= 1

\* An execution only begins while the control plane still counts the job as
\* running: an envelope outlived by its row's time to live is refused.
NoLateStart ==
  [][\A j \in JobId : runs'[j] > runs[j] => status[j] = "running"]_vars

\* The agent never runs more than maxParallel jobs, although the capacity it
\* sends is old by the time the answer arrives.
CapacityKept == Cardinality(AgentRunning) <= MaxParallel

\* A row says "succeeded" only of a job whose one execution succeeded.
HonestSuccess ==
  \A j \in JobId : status[j] = "succeeded" => runs[j] = 1 /\ outcome[j] = "succeeded"

\* The outcome of a job is folded into the workload at most once, however
\* often its report is repeated.
OutcomeOnce == \A j \in JobId : applied[j] <= 1

\* A finished job never runs again, and what was cancelled or succeeded
\* never becomes anything else.
SettledStays ==
  [][\A j \in JobId : status[j] \in Terminal =>
        status'[j] = status[j] \/ (status[j] = "failed" /\ status'[j] \in Reported)]_vars

\* Every job that is enqueued ends, also when answers are lost and processes
\* crash, and so does every job behind it.
EveryJobEnds == \A j \in JobId : status[j] = "queued" ~> status[j] \in Terminal
=============================================================================
