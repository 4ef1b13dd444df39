--------------------------- MODULE JobQueueProofs ---------------------------
(***************************************************************************)
(* Safety of the job queue for every number of jobs, workloads, request    *)
(* slots and crashes.                                                      *)
(***************************************************************************)
EXTENDS JobQueueInvariant, FiniteSetTheorems, TLAPS

\* The ids of a bounded table are a finite set of numbers.
LEMMA JobIdFinite == IsFiniteSet(JobId) /\ JobId \subseteq Nat
  BY FS_Interval, BoundsAssumption DEF JobId

\* The free slots an agent reports are a number, never a negative one.
LEMMA SpareIsNat == Spare \in Nat
  <1>1. IsFiniteSet(AgentRunning)
    BY JobIdFinite, FS_Subset DEF AgentRunning, InPhase
  <1>2. Cardinality(AgentRunning) \in Nat
    BY <1>1, FS_CardinalityType
  <1>. QED
    BY <1>2, BoundsAssumption DEF Spare, Smaller, RouteLimit

LEMMA InitTypeOK == Init => TypeOK
  <1>. SUFFICES ASSUME Init PROVE TypeOK
    OBVIOUS
  <1>1. next \in 1 .. MaxJobs + 1
    BY BoundsAssumption DEF Init
  <1>2. status \in [JobId -> JobStatus]
    BY DEF Init, JobStatus
  <1>3. outcome \in [JobId -> Reported]
    BY DEF Init, Reported
  <1>4. /\ pollPc \in [Poll -> PollPhase]
        /\ repPc \in [Reporter -> RepPhase]
        /\ agent \in [JobId -> AgentPhase]
    BY DEF Init, PollPhase, RepPhase, AgentPhase
  <1>. QED
    BY <1>1, <1>2, <1>3, <1>4 DEF Init, TypeOK

LEMMA NextTypeOK ==
  ASSUME TypeOK, [Next]_vars
  PROVE  TypeOK'
  <1>. USE DEF TypeOK, table, pollVars, repVars, agentVars
  <1>1. CASE Enqueue
    <2>1. next' \in 1 .. MaxJobs + 1
      BY <1>1, BoundsAssumption DEF Enqueue, JobId
    <2>2. status' \in [JobId -> JobStatus]
      BY <1>1 DEF Enqueue, JobStatus, Live
    <2>. QED
      BY <1>1, <2>1, <2>2 DEF Enqueue
  <1>2. ASSUME NEW j \in JobId, Cancel(j) PROVE TypeOK'
    BY <1>2 DEF Cancel, JobStatus, Terminal
  <1>3. ASSUME NEW j \in JobId, Expire(j) PROVE TypeOK'
    BY <1>3 DEF Expire
  <1>4. ASSUME NEW p \in Poll, StartPoll(p) PROVE TypeOK'
    BY <1>4, SpareIsNat DEF StartPoll, PollPhase
  <1>5. ASSUME NEW p \in Poll, Sweep(p) PROVE TypeOK'
    BY <1>5 DEF Sweep, PollPhase, JobStatus, Terminal, Reported
  <1>6. ASSUME NEW p \in Poll, ReadBusy(p) PROVE TypeOK'
    BY <1>6 DEF ReadBusy, PollPhase, Running
  <1>7. ASSUME NEW p \in Poll, LockQueued(p) PROVE TypeOK'
    BY <1>7 DEF LockQueued, PollPhase, Oldest, Queued
  <1>8. ASSUME NEW p \in Poll, Take(p) PROVE TypeOK'
    BY <1>8 DEF Take, PollPhase, JobStatus, Live, Choice, Oldest, Eligible
  <1>9. ASSUME NEW p \in Poll, AnswerPoll(p) PROVE TypeOK'
    BY <1>9 DEF AnswerPoll, PollPhase, AgentPhase
  <1>10. CASE AbandonPoll
    BY <1>10 DEF AbandonPoll
  <1>11. ASSUME NEW r \in Reporter, ReadReported(r) PROVE TypeOK'
    BY <1>11 DEF ReadReported, RepPhase
  <1>12. ASSUME NEW r \in Reporter, WriteStatus(r) PROVE TypeOK'
    BY <1>12 DEF WriteStatus, RepPhase, JobStatus, Terminal
  <1>13. ASSUME NEW r \in Reporter, ApplyOutcome(r) PROVE TypeOK'
    BY <1>13 DEF ApplyOutcome, RepPhase
  <1>14. ASSUME NEW r \in Reporter, AnswerReport(r) PROVE TypeOK'
    BY <1>14 DEF AnswerReport, RepPhase, Forget, AgentPhase
  <1>15. ASSUME NEW j \in JobId, Accept(j) PROVE TypeOK'
    BY <1>15 DEF Accept, AgentPhase
  <1>16. ASSUME NEW j \in JobId, Refuse(j) PROVE TypeOK'
    BY <1>16 DEF Refuse, AgentPhase, Reported
  <1>17. ASSUME NEW j \in JobId, Finish(j) PROVE TypeOK'
    BY <1>17 DEF Finish, AgentPhase
  <1>18. ASSUME NEW j \in JobId, GiveUp(j) PROVE TypeOK'
    BY <1>18 DEF GiveUp, Forget, AgentPhase
  <1>19. ASSUME NEW j \in JobId, LoseReport(j) PROVE TypeOK'
    BY <1>19 DEF LoseReport
  <1>20. ASSUME NEW j \in JobId, AbandonReport(j) PROVE TypeOK'
    BY <1>20 DEF AbandonReport
  <1>21. ASSUME NEW j \in JobId, NEW r \in Reporter, SendReport(j, r) PROVE TypeOK'
    BY <1>21 DEF SendReport, RepPhase
  <1>22. CASE ServerCrash
    BY <1>22 DEF ServerCrash, PollPhase, RepPhase
  <1>23. CASE AgentCrash
    <2>1. crashes' \in Nat
      BY <1>23 DEF AgentCrash
    <2>2. /\ up' \in BOOLEAN
          /\ agent' \in [JobId -> AgentPhase]
          /\ attempts' \in [JobId -> Nat]
          /\ awaiting' \in [JobId -> Reporter \cup {None}]
      BY <1>23 DEF AgentCrash, AgentPhase
    <2>. QED
      BY <1>23, <2>1, <2>2 DEF AgentCrash
  <1>24. CASE AgentRestart
    BY <1>24 DEF AgentRestart
  <1>25. CASE UNCHANGED vars
    BY <1>25 DEF vars
  <1>. QED
    BY <1>1, <1>2, <1>3, <1>4, <1>5, <1>6, <1>7, <1>8, <1>9, <1>10, <1>11, <1>12, <1>13,
       <1>14, <1>15, <1>16, <1>17, <1>18, <1>19, <1>20, <1>21, <1>22, <1>23, <1>24, <1>25
       DEF Next, PollStep, ReportStep, AgentStep

\* Every variable keeps its type, whatever fails.
THEOREM Typing == Spec => []TypeOK
  BY InitTypeOK, NextTypeOK, PTL DEF Spec
-----------------------------------------------------------------------------
(* Preparation: who changes what.                                          *)

\* The statements that change the status column, and nothing else does.
LEMMA StatusSteps ==
  ASSUME [Next]_vars
  PROVE  \/ Enqueue
         \/ \E j \in JobId : Cancel(j)
         \/ \E p \in Poll : Sweep(p) \/ Take(p)
         \/ \E r \in Reporter : WriteStatus(r)
         \/ UNCHANGED <<status, next>>
  BY DEF Next, vars, table, pollVars, repVars, agentVars, PollStep, ReportStep, AgentStep,
     Expire, StartPoll, ReadBusy, LockQueued, AnswerPoll, AbandonPoll, ReadReported,
     ApplyOutcome, AnswerReport, Forget, Accept, Refuse, Finish, GiveUp, LoseReport,
     AbandonReport, SendReport, ServerCrash, AgentCrash, AgentRestart

\* The workload of a row never changes.
LEMMA OwnerFixed == [Next]_vars => owner' = owner
  BY DEF Next, vars, table, pollVars, repVars, agentVars, PollStep, ReportStep, AgentStep,
     Enqueue, Cancel, Expire, StartPoll, Sweep, ReadBusy, LockQueued, Take, AnswerPoll,
     AbandonPoll, ReadReported, WriteStatus, ApplyOutcome, AnswerReport, Accept, Refuse,
     Finish, GiveUp, LoseReport, AbandonReport, SendReport, ServerCrash, AgentCrash,
     AgentRestart

\* The steps that read or release queued rows, and nothing else touches them.
LEMMA RowsSteps ==
  ASSUME [Next]_vars
  PROVE  \/ \E p \in Poll : LockQueued(p) \/ Take(p)
         \/ ServerCrash
         \/ /\ UNCHANGED rows
            /\ \A p \in Poll : pollPc[p] = "take" /\ TypeOK => pollPc'[p] = "take"
  BY DEF Next, vars, table, pollVars, repVars, agentVars, PollStep, ReportStep, AgentStep,
     Enqueue, Cancel, Expire, StartPoll, Sweep, ReadBusy, AnswerPoll, AbandonPoll,
     ReadReported, WriteStatus, ApplyOutcome, AnswerReport, Forget, Accept, Refuse, Finish,
     GiveUp, LoseReport, AbandonReport, SendReport, AgentCrash, AgentRestart, TypeOK

\* The oldest n rows of a set are a prefix of it.
LEMMA OldestPrefix ==
  ASSUME NEW S \in SUBSET JobId, NEW n \in Nat,
         NEW j \in Oldest(S, n), NEW i \in S, i < j
  PROVE  i \in Oldest(S, n)
  <1>1. Older(i, S) \subseteq Older(j, S) /\ Older(j, S) \subseteq JobId
    <2>1. S \subseteq Nat /\ i \in Nat /\ j \in Nat
      BY JobIdFinite DEF Oldest
    <2>2. ASSUME NEW h \in S, h < i PROVE h < j
      BY <2>1, <2>2
    <2>. QED
      BY <2>2 DEF Older
  <1>2. /\ IsFiniteSet(Older(j, S))
        /\ IsFiniteSet(Older(i, S))
        /\ Cardinality(Older(i, S)) <= Cardinality(Older(j, S))
    BY <1>1, JobIdFinite, FS_Subset
  <1>3. Cardinality(Older(i, S)) \in Nat /\ Cardinality(Older(j, S)) \in Nat
    BY <1>2, FS_CardinalityType
  <1>. QED
    BY <1>2, <1>3 DEF Oldest
-----------------------------------------------------------------------------
(* The table: insertion order and row locks.                               *)

\* A report in progress, and a response on its way, are about inserted rows.
LEMMA ReportedInserted ==
  ASSUME TypeOK, DispatchInv, NEW r \in Reporter, repPc[r] # "idle"
  PROVE  repJob[r] \in JobId /\ status[repJob[r]] \notin {"none", "queued", "cancelled"}
  BY DEF TypeOK, DispatchInv, NotStarted, Untouched

LEMMA NextInserted ==
  ASSUME TypeOK, Inserted, LockInv, DispatchInv, [Next]_vars
  PROVE  Inserted'
  <1>. USE DEF Inserted
  <1>1. CASE Enqueue
    <2>. SUFFICES ASSUME NEW j \in JobId
                  PROVE  status'[j] = "none" <=> j >= next'
      BY DEF JobId
    <2>1. next \in Nat /\ j \in Nat /\ next' = next + 1
      BY <1>1, JobIdFinite DEF Enqueue
    <2>2. status'[j] = IF j = next THEN "queued" ELSE status[j]
      BY <1>1 DEF Enqueue, TypeOK
    <2>. QED
      BY <2>1, <2>2
  <1>2. ASSUME NEW i \in JobId, Cancel(i) PROVE Inserted'
    BY <1>2 DEF Cancel, TypeOK
  <1>3. ASSUME NEW p \in Poll, Sweep(p) PROVE Inserted'
    BY <1>3 DEF Sweep, TypeOK
  <1>4. ASSUME NEW p \in Poll, Take(p) PROVE Inserted'
    <2>1. Choice(p) \subseteq rows[p]
      BY DEF Choice, Oldest, Eligible
    <2>. QED
      BY <1>4, <2>1 DEF Take, TypeOK, LockInv
  <1>5. ASSUME NEW r \in Reporter, WriteStatus(r) PROVE Inserted'
    <2>1. repJob[r] \in JobId /\ status[repJob[r]] # "none"
      BY <1>5, ReportedInserted DEF WriteStatus
    <2>2. outcome[repJob[r]] # "none"
      BY <2>1 DEF TypeOK, Reported
    <2>. QED
      BY <1>5, <2>1, <2>2 DEF WriteStatus, TypeOK
  <1>6. CASE UNCHANGED <<status, next>>
    BY <1>6 DEF JobId
  <1>. QED
    BY <1>1, <1>2, <1>3, <1>4, <1>5, <1>6, StatusSteps

\* While a claim holds rows, nobody else changes them, and newer rows come
\* after them.
LEMMA NextLockInv ==
  ASSUME TypeOK, Inserted, LockInv, DispatchInv, [Next]_vars
  PROVE  LockInv'
  <1>1. ASSUME NEW p \in Poll, LockQueued(p) PROVE LockInv'
    <2>1. \A q \in Poll : rows[q] = {}
      BY <1>1 DEF LockQueued, Locked, LockInv
    <2>2. \A q \in Poll : rows'[q] # {} => q = p
      BY <1>1, <2>1 DEF LockQueued, TypeOK
    <2>3. rows'[p] = Oldest(Queued, Batch) /\ pollPc'[p] = "take" /\ status' = status
      BY <1>1 DEF LockQueued, TypeOK, table
    <2>4. \A j \in Oldest(Queued, Batch) : status[j] = "queued"
      BY DEF Oldest, Queued
    <2>5. ASSUME NEW j \in Oldest(Queued, Batch), NEW i \in JobId, i < j, status[i] = "queued"
          PROVE  i \in Oldest(Queued, Batch)
      BY <2>5, OldestPrefix, BoundsAssumption DEF Queued
    <2>. QED
      BY <2>2, <2>3, <2>4, <2>5 DEF LockInv, JobId
  <1>2. ASSUME NEW p \in Poll, Take(p) PROVE LockInv'
    <2>1. rows' = [rows EXCEPT ![p] = {}]
      BY <1>2 DEF Take
    <2>2. \A q \in Poll : q # p => pollPc'[q] = pollPc[q]
      BY <1>2 DEF Take, TypeOK
    <2>3. \A q \in Poll : rows'[q] # {} => q # p /\ rows'[q] = rows[q]
      BY <2>1 DEF TypeOK
    <2>4. ASSUME NEW q \in Poll, rows'[q] # {}
          PROVE  rows[p] = {} /\ status' = status
      <3>1. rows[p] = {}
        BY <2>3, <2>4 DEF LockInv
      <3>2. Choice(p) = {}
        BY <3>1 DEF Choice, Oldest, Eligible
      <3>. QED
        BY <1>2, <3>1, <3>2 DEF Take, TypeOK
    <2>. QED
      BY <2>2, <2>3, <2>4 DEF LockInv, JobId
  <1>3. CASE ServerCrash
    BY <1>3 DEF ServerCrash, LockInv
  <1>4. CASE /\ UNCHANGED rows
             /\ \A p \in Poll : pollPc[p] = "take" /\ TypeOK => pollPc'[p] = "take"
    <2>1. /\ \A p \in Poll : rows'[p] # {} => pollPc'[p] = "take"
          /\ \A p, q \in Poll : rows'[p] # {} /\ rows'[q] # {} => p = q
      BY <1>4 DEF LockInv
    <2>2. ASSUME NEW p \in Poll, NEW j \in rows[p]
          PROVE  /\ status'[j] = "queued"
                 /\ \A i \in JobId : i < j /\ status'[i] = "queued" => i \in rows[p]
      <3>1. j \in JobId /\ status[j] = "queued" /\ pollPc[p] = "take" /\ j \in Locked
        BY DEF LockInv, TypeOK, Locked
      <3>2. CASE Enqueue
        <4>1. next \in JobId /\ next # j /\ ~(next < j)
          BY <3>1, <3>2, JobIdFinite DEF Enqueue, Inserted
        <4>. QED
          BY <3>1, <3>2, <4>1 DEF Enqueue, TypeOK, LockInv
      <3>3. ASSUME NEW i \in JobId, Cancel(i)
            PROVE  /\ status'[j] = "queued"
                   /\ \A h \in JobId : h < j /\ status'[h] = "queued" => h \in rows[p]
        BY <3>1, <3>3 DEF Cancel, TypeOK, LockInv
      <3>4. ASSUME NEW q \in Poll, Sweep(q)
            PROVE  /\ status'[j] = "queued"
                   /\ \A h \in JobId : h < j /\ status'[h] = "queued" => h \in rows[p]
        BY <3>1, <3>4 DEF Sweep, TypeOK, LockInv
      <3>5. ASSUME NEW r \in Reporter, WriteStatus(r)
            PROVE  /\ status'[j] = "queued"
                   /\ \A h \in JobId : h < j /\ status'[h] = "queued" => h \in rows[p]
        <4>1. repJob[r] \in JobId /\ repJob[r] # j /\ outcome[repJob[r]] # "queued"
          BY <3>1, <3>5, ReportedInserted DEF WriteStatus, TypeOK, Reported
        <4>. QED
          BY <3>1, <3>5, <4>1 DEF WriteStatus, TypeOK, LockInv
      <3>6. ASSUME NEW q \in Poll, Take(q)
            PROVE  FALSE
        <4>1. q = p \/ rows[q] = {}
          BY DEF LockInv
        <4>2. rows'[q] = {} /\ pollPc[q] = "take" /\ pollPc'[q] = "answer"
          BY <3>6 DEF Take, TypeOK
        <4>. QED
          BY <1>4, <4>2
      <3>7. CASE UNCHANGED <<status, next>>
        BY <3>1, <3>7 DEF LockInv
      <3>. QED
        BY <3>2, <3>3, <3>4, <3>5, <3>6, <3>7, StatusSteps
    <2>. QED
      BY <1>4, <2>1, <2>2 DEF LockInv, JobId
  <1>. QED
    BY <1>1, <1>2, <1>3, <1>4, RowsSteps

\* A claim takes a job only when no older one of its workload is queued.
LEMMA NextFifoStart ==
  ASSUME TypeOK, Inserted, LockInv, DispatchInv, FifoStart, [Next]_vars
  PROVE  FifoStart'
  <1>. SUFFICES ASSUME NEW i \in JobId, NEW j \in JobId, i < j, owner[i] = owner[j],
                       status'[j] \in {"running"} \cup Reported
                PROVE  status'[i] # "queued"
    BY OwnerFixed DEF FifoStart, JobId
  <1>1. CASE Enqueue
    <2>1. next \in Nat /\ i \in Nat /\ j \in Nat
      BY <1>1, JobIdFinite DEF Enqueue
    <2>2. j # next /\ status[j] = status'[j]
      BY <1>1 DEF Enqueue, TypeOK, Reported
    <2>3. j < next
      BY <2>1, <2>2 DEF Inserted, Reported
    <2>. QED
      BY <1>1, <2>1, <2>2, <2>3 DEF Enqueue, TypeOK, FifoStart
  <1>2. ASSUME NEW h \in JobId, Cancel(h) PROVE status'[i] # "queued"
    BY <1>2 DEF Cancel, TypeOK, FifoStart, Reported
  <1>3. ASSUME NEW p \in Poll, Sweep(p) PROVE status'[i] # "queued"
    BY <1>3 DEF Sweep, TypeOK, FifoStart, Reported
  <1>4. ASSUME NEW p \in Poll, Take(p) PROVE status'[i] # "queued"
    <2>1. CASE j \in Choice(p)
      <3>1. j \in Eligible(p) /\ j \in rows[p]
        BY <2>1 DEF Choice, Oldest, Eligible
      <3>2. status[i] = "queued" => i \in Older(j, rows[p])
        BY <3>1 DEF LockInv, Older
      <3>3. status[i] # "queued"
        BY <3>1, <3>2 DEF Eligible
      <3>. QED
        BY <1>4, <3>3 DEF Take
    <2>2. CASE j \notin Choice(p)
      BY <1>4, <2>2 DEF Take, FifoStart
    <2>. QED
      BY <2>1, <2>2
  <1>5. ASSUME NEW r \in Reporter, WriteStatus(r) PROVE status'[i] # "queued"
    <2>1. repJob[r] \in JobId /\ status[repJob[r]] \in {"running"} \cup Reported
      BY <1>5, ReportedInserted DEF WriteStatus, TypeOK, JobStatus, Live, Terminal
    <2>2. outcome[repJob[r]] \in Reported
      BY <2>1 DEF TypeOK
    <2>. QED
      BY <1>5, <2>1, <2>2 DEF WriteStatus, TypeOK, FifoStart, Reported
  <1>6. CASE UNCHANGED <<status, next>>
    BY <1>6 DEF FifoStart
  <1>. QED
    BY <1>1, <1>2, <1>3, <1>4, <1>5, <1>6, StatusSteps
-----------------------------------------------------------------------------
(* Handing out: a job is in one place at a time.                           *)

LEMMA NextDispatchInv ==
  ASSUME TypeOK, Inserted, LockInv, DispatchInv, [Next]_vars
  PROVE  DispatchInv'
  <1>. USE DEF DispatchInv
  <1>0. expired \subseteq JobId /\ \A q \in Poll : taken[q] \subseteq JobId
    BY DEF TypeOK
  <1>1. ASSUME NEW j \in JobId, Expire(j) PROVE DispatchInv'
    BY <1>1 DEF Expire, table, pollVars, repVars, agentVars, Untouched, NotStarted, InResponse, InInbox, InExecution,
           StartedOnce, ExpiredRan, IdleReporter, TypeOK
  <1>2. ASSUME NEW p \in Poll, StartPoll(p) PROVE DispatchInv'
    BY <1>2 DEF StartPoll, table, pollVars, repVars, agentVars, Untouched, NotStarted, InResponse, InInbox, InExecution,
           StartedOnce, ExpiredRan, IdleReporter, TypeOK
  <1>3. ASSUME NEW p \in Poll, Sweep(p) PROVE DispatchInv'
    BY <1>3 DEF Sweep, table, pollVars, repVars, agentVars, Untouched, NotStarted, InResponse, InInbox, InExecution,
           StartedOnce, ExpiredRan, IdleReporter, TypeOK
  <1>4. ASSUME NEW p \in Poll, ReadBusy(p) PROVE DispatchInv'
    BY <1>4 DEF ReadBusy, table, pollVars, repVars, agentVars, Untouched, NotStarted, InResponse, InInbox, InExecution,
           StartedOnce, ExpiredRan, IdleReporter, TypeOK
  <1>5. ASSUME NEW p \in Poll, LockQueued(p) PROVE DispatchInv'
    BY <1>5 DEF LockQueued, table, pollVars, repVars, agentVars, Untouched, NotStarted, InResponse, InInbox, InExecution,
           StartedOnce, ExpiredRan, IdleReporter, TypeOK
  <1>6. ASSUME NEW p \in Poll, AnswerPoll(p) PROVE DispatchInv'
    BY <1>6 DEF AnswerPoll, table, pollVars, repVars, agentVars, Untouched, NotStarted, InResponse, InInbox, InExecution,
           StartedOnce, ExpiredRan, IdleReporter, TypeOK
  <1>7. ASSUME NEW r \in Reporter, ReadReported(r) PROVE DispatchInv'
    BY <1>7 DEF ReadReported, table, pollVars, repVars, agentVars, Untouched, NotStarted, InResponse, InInbox, InExecution,
           StartedOnce, ExpiredRan, IdleReporter, TypeOK
  <1>8. ASSUME NEW r \in Reporter, WriteStatus(r) PROVE DispatchInv'
    <2>1. /\ repJob[r] \in JobId
          /\ status[repJob[r]] \notin {"none", "queued", "cancelled"}
          /\ outcome[repJob[r]] \in Reported
      BY <1>8, ReportedInserted DEF WriteStatus, TypeOK
    <2>2. \A j \in JobId : /\ status'[j] \in {"none", "queued", "cancelled"} => status'[j] = status[j]
                          /\ status'[j] = IF j = repJob[r] THEN outcome[j] ELSE status[j]
      BY <1>8, <2>1 DEF WriteStatus, TypeOK, Reported
    <2>3. /\ UNCHANGED <<agent, runs, repJob, taken, expired>>
          /\ \A q \in Poll : pollPc'[q] = pollPc[q]
          /\ \A q \in Reporter : repPc'[q] = "idle" => repPc[q] = "idle"
      BY <1>8 DEF WriteStatus, TypeOK, pollVars, agentVars
    <2>4. NotStarted'
      BY <2>1, <2>2, <2>3 DEF NotStarted, Untouched
    <2>5. InResponse'
      BY <1>0, <2>1, <2>2, <2>3 DEF InResponse
    <2>6. InInbox'
      BY <2>1, <2>2, <2>3 DEF InInbox
    <2>7. InExecution'
      BY <2>1, <2>2, <2>3 DEF InExecution
    <2>8. StartedOnce'
      BY <2>1, <2>2, <2>3 DEF StartedOnce
    <2>9. ExpiredRan'
      BY <1>0, <2>1, <2>2, <2>3 DEF ExpiredRan
    <2>10. IdleReporter'
      BY <2>1, <2>2, <2>3 DEF IdleReporter
    <2>. QED
      BY <2>4, <2>5, <2>6, <2>7, <2>8, <2>9, <2>10 DEF DispatchInv
  <1>9. ASSUME NEW r \in Reporter, ApplyOutcome(r) PROVE DispatchInv'
    BY <1>9 DEF ApplyOutcome, table, pollVars, repVars, agentVars, Untouched, NotStarted, InResponse, InInbox, InExecution,
           StartedOnce, ExpiredRan, IdleReporter, TypeOK
  <1>10. ASSUME NEW r \in Reporter, AnswerReport(r) PROVE DispatchInv'
    <2>1. repJob[r] \in JobId /\ status[repJob[r]] \notin {"none", "queued", "cancelled"}
      BY <1>10, ReportedInserted DEF AnswerReport
    <2>2. /\ UNCHANGED <<status, expired, taken, pollPc, runs>>
          /\ \A j \in JobId : agent'[j] \in {agent[j], "absent"}
          /\ \A q \in Reporter : repJob'[q] \in {repJob[q], None}
      BY <1>10 DEF AnswerReport, Forget, TypeOK, table, pollVars, agentVars
    <2>3. \A q \in Reporter : repPc'[q] = "idle" => repJob'[q] = None
      BY <1>10 DEF AnswerReport, TypeOK, IdleReporter
    <2>4. NotStarted'
      BY <2>1, <2>2, <2>3, SlotsAssumption DEF NotStarted, Untouched, JobId
    <2>5. InResponse'
      BY <1>0, <2>1, <2>2, <2>3, SlotsAssumption DEF InResponse, JobId
    <2>6. InInbox'
      BY <2>1, <2>2, <2>3, SlotsAssumption DEF InInbox, JobId
    <2>7. InExecution'
      BY <2>1, <2>2, <2>3, SlotsAssumption DEF InExecution, JobId
    <2>8. StartedOnce'
      BY <2>1, <2>2, <2>3, SlotsAssumption DEF StartedOnce
    <2>9. ExpiredRan'
      BY <1>0, <2>1, <2>2, <2>3, SlotsAssumption DEF ExpiredRan
    <2>10. IdleReporter'
      BY <2>1, <2>2, <2>3, SlotsAssumption DEF IdleReporter
    <2>. QED
      BY <2>4, <2>5, <2>6, <2>7, <2>8, <2>9, <2>10 DEF DispatchInv
  <1>11. ASSUME NEW j \in JobId, Accept(j) PROVE DispatchInv'
    <2>1. /\ agent[j] = "inbox" /\ runs[j] = 0 /\ j \notin expired /\ status[j] = "running"
          /\ \A q \in Reporter : repJob[q] # j
          /\ \A q \in Poll : j \notin taken[q]
      BY <1>11 DEF Accept, NextInInbox, Genuine, InInbox, InResponse
    <2>2. /\ UNCHANGED <<status, expired, taken, pollPc, repPc, repJob>>
          /\ \A i \in JobId : i # j => agent'[i] = agent[i] /\ runs'[i] = runs[i]
          /\ agent'[j] = "executing"
          /\ runs'[j] = 1
      BY <1>11, <2>1 DEF Accept, TypeOK, table, pollVars, repVars
    <2>3. NotStarted'
      BY <2>1, <2>2 DEF NotStarted, Untouched
    <2>4. InResponse'
      BY <1>0, <2>1, <2>2 DEF InResponse
    <2>5. InInbox'
      BY <2>1, <2>2 DEF InInbox
    <2>6. InExecution'
      BY <2>1, <2>2 DEF InExecution
    <2>7. StartedOnce'
      BY <2>1, <2>2 DEF StartedOnce
    <2>8. ExpiredRan'
      BY <1>0, <2>1, <2>2 DEF ExpiredRan
    <2>9. IdleReporter'
      BY <2>1, <2>2 DEF IdleReporter
    <2>. QED
      BY <2>3, <2>4, <2>5, <2>6, <2>7, <2>8, <2>9 DEF DispatchInv
  <1>12. ASSUME NEW j \in JobId, Refuse(j) PROVE DispatchInv'
    <2>1. /\ agent[j] = "inbox"
          /\ \A q \in Poll : j \notin taken[q]
          /\ status[j] \notin {"none", "queued", "cancelled"}
      BY <1>12 DEF Refuse, NextInInbox, InResponse, NotStarted, Untouched
    <2>2. /\ UNCHANGED <<status, expired, taken, pollPc, repPc, repJob, runs>>
          /\ \A i \in JobId : i # j => agent'[i] = agent[i]
          /\ agent'[j] = "refusing"
      BY <1>12 DEF Refuse, TypeOK, table, pollVars, repVars
    <2>3. NotStarted'
      BY <2>1, <2>2 DEF NotStarted, Untouched
    <2>4. InResponse'
      BY <1>0, <2>1, <2>2 DEF InResponse
    <2>5. InInbox'
      BY <2>1, <2>2 DEF InInbox
    <2>6. InExecution'
      BY <2>1, <2>2 DEF InExecution
    <2>7. StartedOnce'
      BY <2>1, <2>2 DEF StartedOnce
    <2>8. ExpiredRan'
      BY <1>0, <2>1, <2>2 DEF ExpiredRan
    <2>9. IdleReporter'
      BY <2>1, <2>2 DEF IdleReporter
    <2>. QED
      BY <2>3, <2>4, <2>5, <2>6, <2>7, <2>8, <2>9 DEF DispatchInv
  <1>13. ASSUME NEW j \in JobId, Finish(j) PROVE DispatchInv'
    BY <1>13 DEF Finish, table, pollVars, repVars, agentVars, Untouched, NotStarted, InResponse, InInbox, InExecution,
           StartedOnce, ExpiredRan, IdleReporter, TypeOK
  <1>14. ASSUME NEW j \in JobId, GiveUp(j) PROVE DispatchInv'
    BY <1>14 DEF GiveUp, table, pollVars, repVars, agentVars, Forget, Untouched, NotStarted, InResponse, InInbox, InExecution,
           StartedOnce, ExpiredRan, IdleReporter, TypeOK
  <1>15. ASSUME NEW j \in JobId, LoseReport(j) PROVE DispatchInv'
    BY <1>15 DEF LoseReport, table, pollVars, repVars, agentVars, Untouched, NotStarted, InResponse, InInbox, InExecution,
           StartedOnce, ExpiredRan, IdleReporter, TypeOK
  <1>16. ASSUME NEW j \in JobId, AbandonReport(j) PROVE DispatchInv'
    BY <1>16 DEF AbandonReport, table, pollVars, repVars, agentVars, Untouched, NotStarted, InResponse, InInbox, InExecution,
           StartedOnce, ExpiredRan, IdleReporter, TypeOK
  <1>17. ASSUME NEW j \in JobId, Cancel(j) PROVE DispatchInv'
    BY <1>17 DEF Cancel, table, pollVars, repVars, agentVars, Untouched, NotStarted, InResponse, InInbox, InExecution,
           StartedOnce, ExpiredRan, IdleReporter, TypeOK
  <1>18. ASSUME NEW p \in Poll, Take(p) PROVE DispatchInv'
    <2>1. \A j \in Choice(p) : j \in JobId /\ status[j] = "queued" /\ Untouched(j)
      BY DEF Choice, Oldest, Eligible, LockInv, NotStarted, TypeOK
    <2>2. /\ UNCHANGED <<agent, runs, expired, repPc, repJob>>
          /\ \A j \in JobId : status'[j] = IF j \in Choice(p) THEN "running" ELSE status[j]
          /\ \A q \in Poll : taken'[q] = IF q = p THEN Choice(p) ELSE taken[q]
          /\ \A q \in Poll : pollPc'[q] = IF q = p THEN "answer" ELSE pollPc[q]
      BY <1>18 DEF Take, TypeOK, repVars, agentVars
    <2>3. NotStarted'
      BY <2>1, <2>2 DEF NotStarted, Untouched
    <2>4. InResponse'
      <3>1. \A q \in Poll : taken'[q] # {} => pollPc'[q] = "answer"
        BY <2>2 DEF InResponse
      <3>2. ASSUME NEW q \in Poll, NEW j \in taken[q], q # p
            PROVE  j \in JobId /\ j \notin Choice(p) /\ status'[j] = status[j]
        BY <1>0, <2>1, <2>2, <3>2 DEF Untouched
      <3>3. ASSUME NEW j \in Choice(p)
            PROVE  /\ agent'[j] = "absent"
                   /\ runs'[j] = 0
                   /\ \A r \in Reporter : repJob'[r] # j
                   /\ \A q \in Poll : j \in taken'[q] => p = q
                   /\ status'[j] = "running"
        BY <2>1, <2>2 DEF Untouched
      <3>4. ASSUME NEW q \in Poll, NEW j \in taken[q], q # p
            PROVE  /\ agent'[j] = "absent"
                   /\ runs'[j] = 0
                   /\ \A r \in Reporter : repJob'[r] # j
                   /\ \A o \in Poll : j \in taken'[o] => q = o
                   /\ j \notin expired' => status'[j] = "running"
        BY <2>2, <3>2, <3>4 DEF InResponse
      <3>. QED
        BY <2>2, <3>1, <3>3, <3>4 DEF InResponse
    <2>5. InInbox'
      BY <2>1, <2>2 DEF InInbox, Untouched
    <2>6. InExecution'
      BY <2>1, <2>2 DEF InExecution, Untouched
    <2>7. StartedOnce'
      BY <2>1, <2>2 DEF StartedOnce
    <2>8. ExpiredRan'
      BY <1>0, <2>1, <2>2 DEF ExpiredRan
    <2>9. IdleReporter'
      BY <2>1, <2>2 DEF IdleReporter
    <2>. QED
      BY <2>3, <2>4, <2>5, <2>6, <2>7, <2>8, <2>9 DEF DispatchInv
  <1>19. ASSUME NEW j \in JobId, NEW r \in Reporter, SendReport(j, r) PROVE DispatchInv'
    <2>1. /\ agent[j] \in {"reporting", "refusing"}
          /\ \A q \in Poll : j \notin taken[q]
          /\ status[j] \notin {"none", "queued", "cancelled"}
      BY <1>19 DEF SendReport, MaySend, InResponse, NotStarted, Untouched
    <2>2. /\ UNCHANGED <<status, expired, taken, pollPc, agent, runs>>
          /\ \A q \in Reporter : repJob'[q] = IF q = r THEN j ELSE repJob[q]
          /\ \A q \in Reporter : repPc'[q] = IF q = r THEN "read" ELSE repPc[q]
      BY <1>19 DEF SendReport, TypeOK, table, pollVars
    <2>3. NotStarted'
      BY <2>1, <2>2 DEF NotStarted, Untouched
    <2>4. InResponse'
      BY <1>0, <2>1, <2>2 DEF InResponse
    <2>5. InInbox'
      BY <2>1, <2>2 DEF InInbox
    <2>6. InExecution'
      BY <2>1, <2>2 DEF InExecution
    <2>7. StartedOnce'
      BY <2>1, <2>2 DEF StartedOnce
    <2>8. ExpiredRan'
      BY <1>0, <2>1, <2>2 DEF ExpiredRan
    <2>9. IdleReporter'
      BY <2>1, <2>2 DEF IdleReporter
    <2>. QED
      BY <2>3, <2>4, <2>5, <2>6, <2>7, <2>8, <2>9 DEF DispatchInv
  <1>20. CASE Enqueue
    <2>1. next \in JobId /\ next \in Nat /\ status[next] = "none"
      BY <1>20, JobIdFinite DEF Enqueue, Inserted
    <2>2. /\ UNCHANGED <<agent, runs, expired, taken, pollPc, repPc, repJob>>
          /\ \A j \in JobId : status'[j] = IF j = next THEN "queued" ELSE status[j]
          /\ Untouched(next) /\ next \notin expired
      BY <1>20, <2>1 DEF Enqueue, TypeOK, pollVars, repVars, agentVars, NotStarted, ExpiredRan
    <2>3. NotStarted'
      BY <2>1, <2>2 DEF NotStarted, Untouched
    <2>4. InResponse'
      <3>1. \A q \in Poll : \A j \in taken[q] : j # next /\ status'[j] = status[j]
        BY <1>0, <2>2 DEF Untouched
      <3>. QED
        BY <1>0, <2>2, <3>1 DEF InResponse
    <2>5. InInbox'
      BY <2>1, <2>2 DEF InInbox, Untouched
    <2>6. InExecution'
      BY <2>1, <2>2 DEF InExecution, Untouched
    <2>7. StartedOnce'
      BY <2>1, <2>2 DEF StartedOnce
    <2>8. ExpiredRan'
      BY <1>0, <2>1, <2>2 DEF ExpiredRan
    <2>9. IdleReporter'
      BY <2>1, <2>2 DEF IdleReporter
    <2>. QED
      BY <2>3, <2>4, <2>5, <2>6, <2>7, <2>8, <2>9 DEF DispatchInv
  <1>21. CASE AbandonPoll
    BY <1>21 DEF AbandonPoll, table, pollVars, repVars, agentVars, Untouched, NotStarted, InResponse, InInbox, InExecution,
           StartedOnce, ExpiredRan, IdleReporter, TypeOK
  <1>22. CASE ServerCrash
    <2>1. /\ UNCHANGED <<status, expired, agent, runs>>
          /\ \A q \in Poll : taken'[q] = {}
          /\ \A q \in Reporter : repJob'[q] = None /\ repPc'[q] = "idle"
      BY <1>22 DEF ServerCrash, table
    <2>2. None \notin JobId
      BY SlotsAssumption DEF JobId
    <2>3. NotStarted'
      BY <2>1, <2>2 DEF NotStarted, Untouched
    <2>4. InResponse'
      BY <1>0, <2>1, <2>2 DEF InResponse, Untouched
    <2>5. InInbox'
      BY <2>1, <2>2 DEF InInbox, Untouched
    <2>6. InExecution'
      BY <2>1, <2>2 DEF InExecution, Untouched
    <2>7. StartedOnce'
      BY <2>1, <2>2 DEF StartedOnce
    <2>8. ExpiredRan'
      BY <1>0, <2>1, <2>2 DEF ExpiredRan
    <2>9. IdleReporter'
      BY <2>1, <2>2 DEF IdleReporter
    <2>. QED
      BY <2>3, <2>4, <2>5, <2>6, <2>7, <2>8, <2>9 DEF DispatchInv
  <1>23. CASE AgentCrash
    BY <1>23 DEF AgentCrash, table, pollVars, repVars, agentVars, Untouched, NotStarted, InResponse, InInbox, InExecution,
           StartedOnce, ExpiredRan, IdleReporter, TypeOK
  <1>24. CASE AgentRestart
    BY <1>24 DEF AgentRestart, table, pollVars, repVars, agentVars, Untouched, NotStarted, InResponse, InInbox, InExecution,
           StartedOnce, ExpiredRan, IdleReporter, TypeOK
  <1>25. CASE UNCHANGED vars
    BY <1>25 DEF vars, table, pollVars, repVars, agentVars, Untouched, NotStarted, InResponse, InInbox, InExecution,
           StartedOnce, ExpiredRan, IdleReporter, TypeOK
  <1>. QED
    BY <1>1, <1>2, <1>3, <1>4, <1>5, <1>6, <1>7, <1>8, <1>9, <1>10, <1>11, <1>12, <1>13, <1>14, <1>15, <1>16, <1>17, <1>18, <1>19, <1>20, <1>21, <1>22, <1>23, <1>24, <1>25
       DEF Next, PollStep, ReportStep, AgentStep

-----------------------------------------------------------------------------
(* Success, and the outcomes applied.                                      *)

\* The steps that change what is known of an execution, and nothing else does.
LEMMA ResultSteps ==
  ASSUME [Next]_vars
  PROVE  \/ \E j \in JobId : Accept(j) \/ Refuse(j) \/ Finish(j)
         \/ UNCHANGED <<outcome, runs>>
  BY DEF Next, vars, table, pollVars, repVars, agentVars, PollStep, ReportStep, AgentStep,
     Enqueue, Cancel, Expire, StartPoll, Sweep, ReadBusy, LockQueued, Take, AnswerPoll,
     AbandonPoll, ReadReported, WriteStatus, ApplyOutcome, AnswerReport, Forget, GiveUp,
     LoseReport, AbandonReport, SendReport, ServerCrash, AgentCrash, AgentRestart

LEMMA NextResultInv ==
  ASSUME TypeOK, Inserted, LockInv, DispatchInv, ResultInv, [Next]_vars
  PROVE  ResultInv'
  <1>. USE DEF ResultInv, HonestSuccess
  <1>1. ASSUME NEW i \in JobId, Accept(i) PROVE ResultInv'
    <2>1. runs[i] = 0 /\ runs' = [runs EXCEPT ![i] = runs[i] + 1]
      BY <1>1 DEF Accept, NextInInbox, DispatchInv, InInbox
    <2>2. runs'[i] = 1 /\ \A j \in JobId : j # i => runs'[j] = runs[j]
      BY <2>1 DEF TypeOK
    <2>. QED
      BY <1>1, <2>1, <2>2 DEF Accept, table
  <1>2. ASSUME NEW i \in JobId, Refuse(i) PROVE ResultInv'
    BY <1>2 DEF Refuse, NextInInbox, DispatchInv, InInbox, TypeOK, table
  <1>3. ASSUME NEW i \in JobId, Finish(i) PROVE ResultInv'
    BY <1>3 DEF Finish, DispatchInv, InExecution, TypeOK, table
  <1>4. CASE UNCHANGED <<outcome, runs>>
    <2>. SUFFICES ASSUME NEW j \in JobId, status'[j] = "succeeded"
                  PROVE  status[j] = "succeeded" \/ outcome[j] = "succeeded"
      BY <1>4
    <2>1. CASE Enqueue
      BY <2>1 DEF Enqueue, TypeOK
    <2>2. ASSUME NEW i \in JobId, Cancel(i) PROVE status[j] = "succeeded"
      BY <2>2 DEF Cancel, TypeOK
    <2>3. ASSUME NEW p \in Poll, Sweep(p) PROVE status[j] = "succeeded"
      BY <2>3 DEF Sweep
    <2>4. ASSUME NEW p \in Poll, Take(p) PROVE status[j] = "succeeded"
      BY <2>4 DEF Take
    <2>5. ASSUME NEW r \in Reporter, WriteStatus(r)
          PROVE  status[j] = "succeeded" \/ outcome[j] = "succeeded"
      BY <2>5 DEF WriteStatus, TypeOK
    <2>6. CASE UNCHANGED <<status, next>>
      BY <2>6
    <2>. QED
      BY <2>1, <2>2, <2>3, <2>4, <2>5, <2>6, StatusSteps
  <1>. QED
    BY <1>1, <1>2, <1>3, <1>4, ResultSteps

\* The steps of report requests, and nothing else touches them.
LEMMA RepSteps ==
  ASSUME [Next]_vars
  PROVE  \/ \E r \in Reporter : ReportStep(r)
         \/ \E j \in JobId, r \in Reporter : SendReport(j, r)
         \/ ServerCrash
         \/ UNCHANGED <<repPc, repJob, applied>>
  BY DEF Next, vars, table, pollVars, repVars, agentVars, PollStep, AgentStep, Enqueue,
     Cancel, Expire, StartPoll, Sweep, ReadBusy, LockQueued, Take, AnswerPoll, AbandonPoll,
     Accept, Refuse, Finish, GiveUp, Forget, LoseReport, AbandonReport, AgentCrash,
     AgentRestart

\* What is reported stays reported.
LEMMA ReportedStays ==
  ASSUME TypeOK, Inserted, LockInv, DispatchInv, [Next]_vars,
         NEW j \in JobId, status[j] \in Reported
  PROVE  status'[j] \in Reported
  <1>. USE DEF Reported
  <1>1. CASE Enqueue
    <2>1. next \in Nat /\ status[next] = "none"
      BY <1>1, JobIdFinite DEF Enqueue, Inserted
    <2>. QED
      BY <1>1, <2>1 DEF Enqueue, TypeOK
  <1>2. ASSUME NEW i \in JobId, Cancel(i) PROVE status'[j] \in Reported
    BY <1>2 DEF Cancel, TypeOK
  <1>3. ASSUME NEW p \in Poll, Sweep(p) PROVE status'[j] \in Reported
    BY <1>3 DEF Sweep
  <1>4. ASSUME NEW p \in Poll, Take(p) PROVE status'[j] \in Reported
    <2>1. j \notin Choice(p)
      BY DEF Choice, Oldest, Eligible, LockInv
    <2>. QED
      BY <1>4, <2>1 DEF Take
  <1>5. ASSUME NEW r \in Reporter, WriteStatus(r) PROVE status'[j] \in Reported
    BY <1>5, ReportedInserted DEF WriteStatus, TypeOK
  <1>6. CASE UNCHANGED <<status, next>>
    BY <1>6
  <1>. QED
    BY <1>1, <1>2, <1>3, <1>4, <1>5, <1>6, StatusSteps

LEMMA NextReportInv ==
  ASSUME TypeOK, Inserted, LockInv, DispatchInv, ReportInv, [Next]_vars
  PROVE  ReportInv'
  <1>. SUFFICES ASSUME ~Overlap
                PROVE  OneReport' /\ UnapplyInv' /\ AppliedInv'
    BY DEF ReportInv
  <1>. USE DEF OneReport, UnapplyInv, AppliedInv
  <1>0. /\ OneReport /\ UnapplyInv /\ AppliedInv
        /\ None \notin JobId
        /\ \A r \in Reporter : repPc[r] # "idle" => repJob[r] \in JobId
        /\ \A r \in Reporter : repJob[r] # None => repJob[r] \in JobId
        /\ \A j \in JobId : status[j] \in Reported => status'[j] \in Reported
    BY ReportedStays, SlotsAssumption DEF ReportInv, TypeOK, JobId
  <1>1. ASSUME NEW r \in Reporter, ReadReported(r) PROVE OneReport' /\ UnapplyInv' /\ AppliedInv'
    BY <1>0, <1>1 DEF ReadReported, TypeOK, table, Reported
  <1>2. ASSUME NEW r \in Reporter, WriteStatus(r) PROVE OneReport' /\ UnapplyInv' /\ AppliedInv'
    BY <1>0, <1>2 DEF WriteStatus, TypeOK
  <1>3. ASSUME NEW r \in Reporter, ApplyOutcome(r) PROVE OneReport' /\ UnapplyInv' /\ AppliedInv'
    BY <1>0, <1>3 DEF ApplyOutcome, TypeOK
  <1>4. ASSUME NEW r \in Reporter, AnswerReport(r) PROVE OneReport' /\ UnapplyInv' /\ AppliedInv'
    BY <1>0, <1>4 DEF AnswerReport, TypeOK, table
  <1>5. ASSUME NEW j \in JobId, NEW r \in Reporter, SendReport(j, r)
        PROVE  OneReport' /\ UnapplyInv' /\ AppliedInv'
    BY <1>0, <1>5 DEF SendReport, TypeOK, table
  <1>6. CASE ServerCrash
    BY <1>0, <1>6 DEF ServerCrash, table
  <1>7. CASE UNCHANGED <<repPc, repJob, applied>>
    BY <1>0, <1>7
  <1>. QED
    BY <1>1, <1>2, <1>3, <1>4, <1>5, <1>6, <1>7, RepSteps DEF ReportStep

-----------------------------------------------------------------------------
(* One poll at a time.                                                     *)

\* The steps of poll requests, and nothing else touches them.
LEMMA PollSteps ==
  ASSUME [Next]_vars
  PROVE  \/ \E p \in Poll : StartPoll(p) \/ PollStep(p)
         \/ ServerCrash
         \/ UNCHANGED <<pollPc, busy>>
  BY DEF Next, vars, table, pollVars, repVars, agentVars, ReportStep, AgentStep, Enqueue,
     Cancel, Expire, AbandonPoll, ReadReported, WriteStatus, ApplyOutcome, AnswerReport,
     Forget, Accept, Refuse, Finish, GiveUp, LoseReport, AbandonReport, SendReport,
     AgentCrash, AgentRestart

\* Only a claim makes rows running.
LEMMA RunningShrinks ==
  ASSUME TypeOK, Inserted, DispatchInv, [Next]_vars, \A p \in Poll : ~Take(p)
  PROVE  Running' \subseteq Running
  <1>. SUFFICES ASSUME NEW j \in JobId, status'[j] = "running"
                PROVE  status[j] = "running"
    BY DEF Running, JobId
  <1>1. CASE Enqueue
    BY <1>1 DEF Enqueue, TypeOK
  <1>2. ASSUME NEW i \in JobId, Cancel(i) PROVE status[j] = "running"
    BY <1>2 DEF Cancel, TypeOK
  <1>3. ASSUME NEW p \in Poll, Sweep(p) PROVE status[j] = "running"
    BY <1>3 DEF Sweep
  <1>4. ASSUME NEW r \in Reporter, WriteStatus(r) PROVE status[j] = "running"
    BY <1>4, ReportedInserted DEF WriteStatus, TypeOK, Reported
  <1>5. CASE UNCHANGED <<status, next>>
    BY <1>5
  <1>. QED
    BY <1>1, <1>2, <1>3, <1>4, <1>5, StatusSteps

\* The jobs a claim takes are of idle workloads, one of each.
LEMMA ChoiceFresh ==
  ASSUME TypeOK, BusyInv, NEW p \in Poll, pollPc[p] = "take"
  PROVE  /\ Choice(p) \subseteq JobId
         /\ \A j \in Choice(p), i \in Running : owner[i] # owner[j]
         /\ \A i, j \in Choice(p) : owner[i] = owner[j] => i = j
  <1>1. /\ Choice(p) \subseteq Eligible(p)
        /\ Eligible(p) \subseteq JobId
        /\ \A j \in Eligible(p) : owner[j] \notin busy[p]
    BY DEF Choice, Oldest, Eligible, TypeOK
  <1>2. ASSUME NEW i \in Eligible(p), NEW j \in Eligible(p), owner[i] = owner[j]
        PROVE  i = j
    <2>1. i \in rows[p] /\ j \in rows[p] /\ i \in Nat /\ j \in Nat
      BY <1>1, JobIdFinite DEF Eligible
    <2>2. ~(i < j) /\ ~(j < i)
      BY <1>2, <2>1 DEF Eligible, Older
    <2>. QED
      BY <2>1, <2>2
  <1>. QED
    BY <1>1, <1>2 DEF BusyInv

LEMMA NextPollInv ==
  ASSUME TypeOK, Inserted, LockInv, DispatchInv, PollInv, [Next]_vars
  PROVE  PollInv'
  <1>. SUFFICES ASSUME ~Overlap
                PROVE  OnePoll' /\ BusyInv' /\ OneRunning'
    BY DEF PollInv
  <1>0. OnePoll /\ BusyInv /\ OneRunning /\ owner' = owner
    BY OwnerFixed DEF PollInv
  <1>1. OnePoll'
    <2>1. ASSUME NEW p \in Poll, StartPoll(p) PROVE OnePoll'
      BY <1>0, <2>1 DEF StartPoll, OnePoll, TypeOK
    <2>2. ASSUME NEW p \in Poll, PollStep(p) PROVE OnePoll'
      <3>1. pollPc[p] # "idle" /\ \A q \in Poll : q # p => pollPc'[q] = pollPc[q]
        BY <2>2 DEF PollStep, Sweep, ReadBusy, LockQueued, Take, AnswerPoll, TypeOK
      <3>. QED
        BY <1>0, <3>1 DEF OnePoll
    <2>3. CASE ServerCrash
      BY <2>3 DEF ServerCrash, OnePoll
    <2>4. CASE UNCHANGED <<pollPc, busy>>
      BY <1>0, <2>4 DEF OnePoll
    <2>. QED
      BY <2>1, <2>2, <2>3, <2>4, PollSteps
  <1>2. ASSUME NEW p \in Poll, Take(p) PROVE BusyInv' /\ OneRunning'
    <2>1. /\ pollPc[p] = "take"
          /\ \A q \in Poll : pollPc'[q] \in {"answer", "idle"}
          /\ \A j \in JobId : status'[j] = IF j \in Choice(p) THEN "running" ELSE status[j]
      BY <1>0, <1>2 DEF Take, OnePoll, TypeOK
    <2>2. Running' = Running \cup Choice(p)
      BY <1>0, <2>1, ChoiceFresh DEF Running, JobId
    <2>3. OneRunning'
      BY <1>0, <2>1, <2>2, ChoiceFresh DEF OneRunning
    <2>. QED
      BY <2>1, <2>3 DEF BusyInv
  <1>3. ASSUME \A p \in Poll : ~Take(p) PROVE BusyInv' /\ OneRunning'
    <2>1. Running' \subseteq Running
      BY <1>3, RunningShrinks
    <2>2. OneRunning'
      BY <1>0, <2>1 DEF OneRunning
    <2>3. ASSUME NEW q \in Poll, pollPc'[q] \in {"lock", "take"}
          PROVE  \A j \in Running : owner[j] \in busy'[q]
      <3>1. ASSUME NEW p \in Poll, ReadBusy(p)
            PROVE  \A j \in Running : owner[j] \in busy'[q]
        <4>1. busy'[p] = {owner[j] : j \in Running}
          BY <3>1 DEF ReadBusy, TypeOK
        <4>2. q = p
          BY <1>0, <2>3, <3>1 DEF ReadBusy, OnePoll, TypeOK
        <4>. QED
          BY <4>1, <4>2
      <3>2. ASSUME NEW p \in Poll,
                   StartPoll(p) \/ Sweep(p) \/ LockQueued(p) \/ AnswerPoll(p)
            PROVE  pollPc[q] \in {"lock", "take"} /\ busy'[q] = busy[q]
        BY <2>3, <3>2 DEF StartPoll, Sweep, LockQueued, AnswerPoll, TypeOK
      <3>3. CASE ServerCrash
        BY <2>3, <3>3 DEF ServerCrash
      <3>4. CASE UNCHANGED <<pollPc, busy>>
        BY <1>0, <2>3, <3>4 DEF BusyInv
      <3>. QED
        BY <1>0, <1>3, <3>1, <3>2, <3>3, <3>4, PollSteps DEF PollStep, BusyInv
    <2>. QED
      BY <1>0, <2>1, <2>2, <2>3 DEF BusyInv
  <1>. QED
    BY <1>1, <1>2, <1>3

-----------------------------------------------------------------------------
(* Room at the agent.                                                      *)

\* Sets of jobs are finite, and a part is no larger than the whole.
LEMMA PartFits ==
  ASSUME NEW A \in SUBSET JobId, NEW B \in SUBSET A
  PROVE  /\ Cardinality(A) \in Nat /\ Cardinality(B) \in Nat
         /\ Cardinality(B) <= Cardinality(A)
  <1>1. IsFiniteSet(A) /\ IsFiniteSet(B)
    BY JobIdFinite, FS_Subset
  <1>. QED
    BY <1>1, FS_CardinalityType, FS_Subset

\* The oldest n of a set are n at the most.
LEMMA OldestBounded ==
  ASSUME NEW S \in SUBSET JobId, NEW n \in Nat
  PROVE  Cardinality(Oldest(S, n)) <= n
  <1>. DEFINE O == Oldest(S, n)
              rank == [j \in O |-> Cardinality(Older(j, S))]
  <1>1. O \in SUBSET JobId /\ O \subseteq S
    BY DEF Oldest
  <1>2. IsFiniteSet(O) /\ Cardinality(O) \in Nat
    BY <1>1, JobIdFinite, FS_Subset, FS_CardinalityType
  <1>3. \A j \in O : Older(j, S) \in SUBSET JobId /\ IsFiniteSet(Older(j, S))
    BY JobIdFinite, FS_Subset DEF Older
  <1>4. rank \in [O -> 0 .. n - 1]
    <2>. SUFFICES ASSUME NEW j \in O PROVE Cardinality(Older(j, S)) \in 0 .. n - 1
      OBVIOUS
    <2>1. Cardinality(Older(j, S)) \in Nat /\ Cardinality(Older(j, S)) < n
      BY <1>3, PartFits DEF Oldest
    <2>. QED
      BY <2>1
  <1>5. ASSUME NEW i \in O, NEW j \in O, i < j
        PROVE  rank[i] # rank[j]
    <2>1. Older(i, S) \subseteq Older(j, S) /\ i \in Older(j, S) /\ i \notin Older(i, S)
      <3>1. S \subseteq Nat /\ i \in S /\ i \in Nat /\ j \in Nat
        BY <1>1, JobIdFinite
      <3>2. \A h \in S : h < i => h < j
        BY <3>1, <1>5
      <3>3. ~(i < i)
        BY <3>1
      <3>. QED
        BY <3>1, <3>2, <3>3, <1>5 DEF Older
    <2>2. Older(i, S) # Older(j, S)
      BY <2>1
    <2>. QED
      BY <1>3, <2>1, <2>2, FS_Subset
  <1>6. \A i, j \in O : i # j => rank[i] # rank[j]
    <2>1. O \subseteq Nat
      BY <1>1, JobIdFinite
    <2>2. \A i, j \in O : i = j \/ i < j \/ j < i
      BY <2>1
    <2>. QED
      BY <1>5, <2>2
  <1>7. IsFiniteSet(0 .. n - 1) /\ Cardinality(0 .. n - 1) = n
    BY FS_Interval
  <1>. HIDE DEF O, rank
  <1>8. ~(n < Cardinality(O))
    BY <1>2, <1>4, <1>6, <1>7, FS_PigeonHole
  <1>9. Cardinality(O) <= n
    BY <1>2, <1>8
  <1>. QED
    BY <1>9 DEF O

\* A capacity the agent sends is what is free then.
LEMMA SpareFits ==
  ASSUME Cardinality(AgentRunning) <= MaxParallel
  PROVE  Cardinality(AgentRunning) + Spare <= MaxParallel
  <1>1. Cardinality(AgentRunning) \in Nat
    BY PartFits DEF AgentRunning, InPhase
  <1>. QED
    BY <1>1, BoundsAssumption DEF Spare, Smaller, RouteLimit

\* What agents run and were handed is of the table.
LEMMA RoomIsNat ==
  /\ AgentRunning \in SUBSET JobId /\ InPhase("inbox") \in SUBSET JobId
  /\ Cardinality(AgentRunning) \in Nat
  /\ Cardinality(AgentRunning \cup InPhase("inbox")) \in Nat
  <1>1. AgentRunning \in SUBSET JobId /\ InPhase("inbox") \in SUBSET JobId
    BY DEF AgentRunning, InPhase
  <1>. QED
    BY <1>1, PartFits

\* Steps that begin no execution and hand nothing out leave the room there is.
LEMMA RoomStays ==
  ASSUME TypeOK, RoomInv,
         AgentRunning' \subseteq AgentRunning, InPhase("inbox")' \subseteq InPhase("inbox"),
         waiting' \in {waiting, None}, UNCHANGED <<pollPc, capacity, taken>>
  PROVE  RoomInv'
  <1>1. AgentRunning' \cup InPhase("inbox")' \subseteq AgentRunning \cup InPhase("inbox")
    OBVIOUS
  <1>2. /\ AgentRunning \cup InPhase("inbox") \in SUBSET JobId
        /\ AgentRunning \in SUBSET JobId
    BY RoomIsNat
  <1>3. /\ Cardinality(AgentRunning') \in Nat
        /\ Cardinality(AgentRunning') <= Cardinality(AgentRunning)
        /\ Cardinality(AgentRunning' \cup InPhase("inbox")') \in Nat
        /\ Cardinality(AgentRunning' \cup InPhase("inbox")')
             <= Cardinality(AgentRunning \cup InPhase("inbox"))
    BY <1>1, <1>2, PartFits
  <1>4. Cardinality(AgentRunning) \in Nat /\ Cardinality(AgentRunning \cup InPhase("inbox")) \in Nat
    BY RoomIsNat
  <1>5. Cardinality(AgentRunning' \cup InPhase("inbox")') <= MaxParallel
    BY <1>3, <1>4, BoundsAssumption DEF RoomInv
  <1>6. ASSUME waiting' # None
        PROVE  /\ InPhase("inbox")' = {}
               /\ pollPc[waiting] # "idle"
               /\ IF pollPc[waiting] = "answer"
                  THEN Cardinality(AgentRunning') + Cardinality(taken[waiting]) <= MaxParallel
                  ELSE Cardinality(AgentRunning') + capacity[waiting] <= MaxParallel
    <2>1. waiting' = waiting /\ waiting \in Poll
      BY <1>6 DEF TypeOK
    <2>2. Cardinality(taken[waiting]) \in Nat /\ capacity[waiting] \in Nat
      BY <2>1, PartFits DEF TypeOK
    <2>. QED
      BY <1>3, <1>4, <1>6, <2>1, <2>2, BoundsAssumption DEF RoomInv
  <1>. QED
    BY <1>5, <1>6 DEF RoomInv

LEMMA NextRoomInv ==
  ASSUME TypeOK, DispatchInv, RoomInv, [Next]_vars
  PROVE  RoomInv'
  <1>0. /\ AgentRunning \in SUBSET JobId /\ InPhase("inbox") \in SUBSET JobId
        /\ Cardinality(AgentRunning) \in Nat
        /\ Cardinality(AgentRunning \cup InPhase("inbox")) \in Nat
    BY RoomIsNat
  <1>1. ASSUME NEW p \in Poll, StartPoll(p) PROVE RoomInv'
    <2>1. /\ waiting' = p /\ p # None /\ agent' = agent /\ taken' = taken
          /\ capacity'[p] = Spare /\ pollPc'[p] = IF capacity'[p] > 0 THEN "sweep" ELSE "answer"
          /\ InPhase("inbox") = {} /\ pollPc[p] = "idle"
      BY <1>1, SlotsAssumption DEF StartPoll, TypeOK
    <2>2. AgentRunning' = AgentRunning /\ InPhase("inbox")' = InPhase("inbox")
      BY <2>1 DEF AgentRunning, InPhase
    <2>3. Cardinality(AgentRunning) <= MaxParallel
      BY <2>1 DEF RoomInv
    <2>4. taken[p] = {}
      BY <2>1 DEF DispatchInv, InResponse
    <2>5. Cardinality(AgentRunning) + Spare <= MaxParallel /\ Spare \in Nat
      BY <2>3, SpareFits, SpareIsNat
    <2>6. Cardinality(AgentRunning') + Cardinality(taken'[p]) <= MaxParallel
      <3>1. taken'[p] = {} /\ Cardinality({}) = 0
        BY <2>1, <2>4, FS_EmptySet
      <3>. QED
        BY <1>0, <2>2, <2>3, <3>1, BoundsAssumption
    <2>7. Cardinality(AgentRunning') + capacity'[p] <= MaxParallel
      BY <2>1, <2>2, <2>5
    <2>8. pollPc'[p] # "idle"
      BY <2>1
    <2>9. Cardinality(AgentRunning' \cup InPhase("inbox")') <= MaxParallel /\ InPhase("inbox")' = {}
      BY <2>1, <2>2 DEF RoomInv
    <2>. QED
      BY <2>1, <2>6, <2>7, <2>8, <2>9 DEF RoomInv
  <1>2. ASSUME NEW p \in Poll, Sweep(p) \/ ReadBusy(p) \/ LockQueued(p) PROVE RoomInv'
    <2>1. /\ UNCHANGED <<waiting, agent, taken, capacity>>
          /\ pollPc[p] # "answer" /\ pollPc'[p] \notin {"idle", "answer"}
          /\ \A q \in Poll : q # p => pollPc'[q] = pollPc[q]
      BY <1>2 DEF Sweep, ReadBusy, LockQueued, TypeOK, table, pollVars, repVars, agentVars
    <2>2. AgentRunning' = AgentRunning /\ InPhase("inbox")' = InPhase("inbox")
      BY <2>1 DEF AgentRunning, InPhase
    <2>. QED
      BY <2>1, <2>2 DEF RoomInv, TypeOK
  <1>3. ASSUME NEW p \in Poll, Take(p) PROVE RoomInv'
    <2>1. /\ UNCHANGED <<waiting, agent>>
          /\ pollPc[p] = "take" /\ pollPc'[p] = "answer" /\ taken'[p] = Choice(p)
          /\ \A q \in Poll : q # p => /\ pollPc'[q] = pollPc[q] /\ taken'[q] = taken[q]
                                      /\ capacity'[q] = capacity[q]
      BY <1>3 DEF Take, TypeOK, repVars, agentVars
    <2>2. AgentRunning' = AgentRunning /\ InPhase("inbox")' = InPhase("inbox")
      BY <2>1 DEF AgentRunning, InPhase
    <2>3. CASE waiting = p
      <3>1. Eligible(p) \in SUBSET JobId /\ capacity[p] \in Nat
        BY DEF Eligible, TypeOK
      <3>2. Cardinality(Choice(p)) <= capacity[p]
        BY <3>1, OldestBounded DEF Choice
      <3>3. Choice(p) \in SUBSET JobId
        BY <3>1 DEF Choice, Oldest
      <3>4. Cardinality(Choice(p)) \in Nat
        BY <3>3, PartFits
      <3>5. /\ InPhase("inbox") = {} /\ Cardinality(AgentRunning) + capacity[p] <= MaxParallel
            /\ Cardinality(AgentRunning \cup InPhase("inbox")) <= MaxParallel
        BY <2>1, <2>3, SlotsAssumption DEF RoomInv
      <3>6. Cardinality(AgentRunning) + Cardinality(Choice(p)) <= MaxParallel
        BY <1>0, <3>1, <3>2, <3>4, <3>5, BoundsAssumption
      <3>. QED
        BY <2>1, <2>2, <2>3, <3>5, <3>6 DEF RoomInv
    <2>4. CASE waiting # p
      BY <2>1, <2>2, <2>4 DEF RoomInv, TypeOK
    <2>. QED
      BY <2>3, <2>4
  <1>4. ASSUME NEW p \in Poll, AnswerPoll(p) PROVE RoomInv'
    <2>1. CASE waiting = p
      <3>1. waiting' = None /\ agent' = [j \in JobId |-> IF j \in taken[p] THEN "inbox" ELSE agent[j]]
        BY <1>4, <2>1 DEF AnswerPoll
      <3>2. /\ pollPc[p] = "answer" /\ p # None /\ taken[p] \in SUBSET JobId
            /\ \A j \in taken[p] : agent[j] = "absent"
        BY <1>4, SlotsAssumption DEF AnswerPoll, TypeOK, DispatchInv, InResponse
      <3>3. InPhase("inbox") = {} /\ Cardinality(AgentRunning) + Cardinality(taken[p]) <= MaxParallel
        BY <2>1, <3>2 DEF RoomInv
      <3>4. AgentRunning' = AgentRunning /\ InPhase("inbox")' = taken[p]
        BY <3>1, <3>2, <3>3 DEF AgentRunning, InPhase, JobId
      <3>5. IsFiniteSet(AgentRunning) /\ IsFiniteSet(taken[p])
        BY <1>0, <3>2, JobIdFinite, FS_Subset
      <3>6. Cardinality(AgentRunning \cup taken[p])
              = Cardinality(AgentRunning) + Cardinality(taken[p]) - Cardinality(AgentRunning \cap taken[p])
        BY <3>5, FS_Union
      <3>7. /\ Cardinality(AgentRunning \cap taken[p]) \in Nat /\ Cardinality(taken[p]) \in Nat
        BY <3>2, PartFits
      <3>8. Cardinality(AgentRunning \cup taken[p]) <= MaxParallel
        BY <1>0, <3>3, <3>6, <3>7, BoundsAssumption
      <3>. QED
        BY <3>1, <3>4, <3>8 DEF RoomInv
    <2>2. CASE waiting # p
      <3>1. /\ UNCHANGED <<waiting, agent, capacity>>
            /\ \A q \in Poll : q # p => pollPc'[q] = pollPc[q] /\ taken'[q] = taken[q]
        BY <1>4, <2>2 DEF AnswerPoll, TypeOK
      <3>2. AgentRunning' = AgentRunning /\ InPhase("inbox")' = InPhase("inbox")
        BY <3>1 DEF AgentRunning, InPhase
      <3>. QED
        BY <2>2, <3>1, <3>2 DEF RoomInv, TypeOK
    <2>. QED
      BY <2>1, <2>2
  <1>5. ASSUME NEW j \in JobId, Accept(j) PROVE RoomInv'
    <2>1. /\ agent[j] = "inbox" /\ agent' = [agent EXCEPT ![j] = "executing"]
          /\ UNCHANGED <<waiting, pollPc, capacity, taken>>
      BY <1>5 DEF Accept, NextInInbox, pollVars
    <2>2. waiting = None
      BY <2>1 DEF RoomInv, InPhase
    <2>3. AgentRunning' \cup InPhase("inbox")' = AgentRunning \cup InPhase("inbox")
      BY <2>1 DEF AgentRunning, InPhase, TypeOK, JobId
    <2>. QED
      BY <2>1, <2>2, <2>3 DEF RoomInv
  <1>6. CASE ServerCrash
    <2>1. waiting' = None /\ agent' = agent
      BY <1>6 DEF ServerCrash
    <2>2. AgentRunning' = AgentRunning /\ InPhase("inbox")' = InPhase("inbox")
      BY <2>1 DEF AgentRunning, InPhase
    <2>. QED
      BY <2>1, <2>2 DEF RoomInv
  <1>7. ASSUME NEW j \in JobId, Refuse(j) \/ Finish(j) \/ GiveUp(j) PROVE RoomInv'
    <2>1. /\ UNCHANGED <<waiting, pollPc, capacity, taken>>
          /\ \A i \in JobId : i # j => agent'[i] = agent[i]
          /\ \/ agent[j] # "executing" /\ agent'[j] \in {"refusing", "absent"}
             \/ agent[j] = "executing" /\ agent'[j] = "reporting"
      BY <1>7 DEF Refuse, NextInInbox, Finish, GiveUp, Forget, TypeOK, table, pollVars, repVars
    <2>2. AgentRunning' \subseteq AgentRunning /\ InPhase("inbox")' \subseteq InPhase("inbox")
      BY <2>1 DEF AgentRunning, InPhase, JobId
    <2>. QED
      BY <2>1, <2>2, RoomStays
  <1>8. ASSUME NEW r \in Reporter, AnswerReport(r) PROVE RoomInv'
    <2>1. /\ UNCHANGED <<waiting, pollPc, capacity, taken>>
          /\ \A i \in JobId : agent'[i] \in {agent[i], "absent"}
      BY <1>8 DEF AnswerReport, Forget, TypeOK, table, pollVars, agentVars
    <2>2. AgentRunning' \subseteq AgentRunning /\ InPhase("inbox")' \subseteq InPhase("inbox")
      BY <2>1 DEF AgentRunning, InPhase, JobId
    <2>. QED
      BY <2>1, <2>2, RoomStays
  <1>9. CASE AgentCrash
    <2>1. /\ waiting' = None /\ UNCHANGED <<pollPc, capacity, taken>>
          /\ \A i \in JobId : agent'[i] = "absent"
      BY <1>9 DEF AgentCrash, pollVars
    <2>2. AgentRunning' \subseteq AgentRunning /\ InPhase("inbox")' \subseteq InPhase("inbox")
      BY <2>1 DEF AgentRunning, InPhase, JobId
    <2>. QED
      BY <2>1, <2>2, RoomStays
  <1>10. CASE waiting' \in {waiting, None} /\ UNCHANGED <<agent, pollPc, capacity, taken>>
    <2>1. AgentRunning' = AgentRunning /\ InPhase("inbox")' = InPhase("inbox")
      BY <1>10 DEF AgentRunning, InPhase
    <2>. QED
      BY <1>10, <2>1, RoomStays
  <1>11. \/ \E p \in Poll : StartPoll(p) \/ PollStep(p)
         \/ \E j \in JobId : Accept(j) \/ Refuse(j) \/ Finish(j) \/ GiveUp(j)
         \/ \E r \in Reporter : AnswerReport(r)
         \/ ServerCrash \/ AgentCrash
         \/ waiting' \in {waiting, None} /\ UNCHANGED <<agent, pollPc, capacity, taken>>
    BY DEF Next, vars, table, pollVars, repVars, agentVars, ReportStep, AgentStep, Enqueue,
       Cancel, Expire, AbandonPoll, ReadReported, WriteStatus, ApplyOutcome,
       LoseReport, AbandonReport, SendReport, AgentRestart
  <1>. QED
    BY <1>1, <1>2, <1>3, <1>4, <1>5, <1>6, <1>7, <1>8, <1>9, <1>10, <1>11 DEF PollStep

-----------------------------------------------------------------------------
(* The invariant and what follows from it.                                 *)

LEMMA InitIInv == Init => IInv
  <1>. SUFFICES ASSUME Init PROVE IInv
    OBVIOUS
  <1>1. TypeOK
    BY InitTypeOK
  <1>2. Inserted
    BY BoundsAssumption DEF Init, Inserted, JobId
  <1>3. LockInv
    BY DEF Init, LockInv
  <1>4. DispatchInv
    BY SlotsAssumption DEF Init, DispatchInv, NotStarted, Untouched, InResponse, InInbox,
       InExecution, StartedOnce, ExpiredRan, IdleReporter, JobId
  <1>5. FifoStart /\ ResultInv
    BY DEF Init, FifoStart, ResultInv, HonestSuccess, Reported
  <1>6. PollInv
    BY DEF Init, PollInv, OnePoll, BusyInv, OneRunning, Running
  <1>7. ReportInv
    BY DEF Init, ReportInv, OneReport, UnapplyInv, AppliedInv
  <1>8. RoomInv
    <2>1. AgentRunning \cup InPhase("inbox") = {} /\ waiting = None
      BY DEF Init, AgentRunning, InPhase
    <2>. QED
      BY <2>1, FS_EmptySet, BoundsAssumption DEF RoomInv
  <1>. QED
    BY <1>1, <1>2, <1>3, <1>4, <1>5, <1>6, <1>7, <1>8 DEF IInv

LEMMA NextIInv == IInv /\ [Next]_vars => IInv'
  BY NextTypeOK, NextInserted, NextLockInv, NextDispatchInv, NextFifoStart, NextResultInv,
     NextPollInv, NextReportInv, NextRoomInv DEF IInv

\* The inductive invariant holds in every state the queue can reach.
THEOREM Invariance == Spec => []IInv
  BY InitIInv, NextIInv, PTL DEF Spec

\* Whatever calls overlap, get lost or outlast their job, the jobs of one
\* workload are handed out in the order they were enqueued.
THEOREM Fifo == Spec => []FifoStart
  <1>1. IInv => FifoStart
    BY DEF IInv
  <1>. QED
    BY <1>1, Invariance, PTL

\* Whatever is lost, repeated or restarted, no job is executed twice.
THEOREM AtMostOnce == Spec => []StartedOnce
  <1>1. IInv => StartedOnce
    BY DEF IInv, DispatchInv
  <1>. QED
    BY <1>1, Invariance, PTL

\* A row only says "succeeded" of a job whose one execution succeeded.
THEOREM Honest == Spec => []HonestSuccess
  <1>1. IInv => HonestSuccess
    BY DEF IInv, ResultInv
  <1>. QED
    BY <1>1, Invariance, PTL

\* However old the capacity is by the time a response arrives, and whatever polls
\* overlap at the control plane, the agent never runs more than maxParallel jobs.
THEOREM RoomForJobs == Spec => []CapacityKept
  <1>1. IInv => CapacityKept
    <2>. SUFFICES ASSUME RoomInv PROVE CapacityKept
      BY DEF IInv
    <2>1. AgentRunning \cup InPhase("inbox") \in SUBSET JobId
      BY RoomIsNat
    <2>2. /\ Cardinality(AgentRunning) <= Cardinality(AgentRunning \cup InPhase("inbox"))
          /\ Cardinality(AgentRunning) \in Nat
          /\ Cardinality(AgentRunning \cup InPhase("inbox")) \in Nat
      BY <2>1, PartFits
    <2>. QED
      BY <2>2, BoundsAssumption DEF CapacityKept, RoomInv
  <1>. QED
    BY <1>1, Invariance, PTL

\* When every poll ends at the control plane before the agent polls again,
\* no two jobs of one workload are ever running.
THEOREM Exclusive == ASSUME ~Overlap PROVE Spec => []OneRunning
  <1>1. IInv => OneRunning
    BY DEF IInv, PollInv
  <1>. QED
    BY <1>1, Invariance, PTL

\* When, besides, no execution outlasts its job's time to live, the agent
\* never executes two jobs of one workload together.
THEOREM ExclusiveExecution == ASSUME ~Overlap, ~Overrun PROVE Spec => []OneExecuting
  <1>1. IInv => OneExecuting
    BY DEF IInv, PollInv, DispatchInv, InExecution, OneExecuting, OneRunning, InPhase, Running
  <1>. QED
    BY <1>1, Invariance, PTL

\* When every report ends at the control plane before the agent repeats it,
\* a job's outcome is applied once at the most.
THEOREM AppliedOnce == ASSUME ~Overlap PROVE Spec => []OutcomeOnce
  <1>1. IInv => OutcomeOnce
    BY DEF IInv, ReportInv, AppliedInv, OutcomeOnce, TypeOK
  <1>. QED
    BY <1>1, Invariance, PTL

\* An execution only begins while the row is running.
THEOREM TimelyStart == Spec => NoLateStart
  <1>1. ASSUME IInv, [Next]_vars, NEW j \in JobId, runs'[j] > runs[j]
        PROVE  status[j] = "running"
    <2>1. ASSUME NEW i \in JobId, Accept(i) PROVE status[j] = "running"
      <3>1. i = j
        BY <1>1, <2>1 DEF Accept, IInv, TypeOK
      <3>. QED
        BY <1>1, <2>1, <3>1 DEF Accept, NextInInbox, Genuine, IInv, DispatchInv, InInbox
    <2>2. CASE \A i \in JobId : ~Accept(i)
      <3>1. runs' = runs
        BY <1>1, <2>2, ResultSteps DEF Refuse, Finish
      <3>. QED
        BY <1>1, <3>1 DEF IInv, TypeOK
    <2>. QED
      BY <2>1, <2>2
  <1>2. IInv /\ [Next]_vars => [\A j \in JobId : runs'[j] > runs[j] => status[j] = "running"]_vars
    BY <1>1
  <1>. QED
    BY <1>2, Invariance, PTL DEF Spec, NoLateStart

\* A finished job never runs again; only a timed-out one can still turn out
\* to have succeeded.
THEOREM Settled == Spec => SettledStays
  <1>1. ASSUME IInv, [Next]_vars, NEW j \in JobId, status[j] \in Terminal
        PROVE  status'[j] = status[j] \/ (status[j] = "failed" /\ status'[j] \in Reported)
    <2>1. TypeOK /\ Inserted /\ LockInv /\ DispatchInv /\ HonestSuccess
      BY <1>1 DEF IInv, ResultInv
    <2>2. CASE Enqueue
      <3>1. next \in JobId /\ next # j
        BY <1>1, <2>1, <2>2, JobIdFinite DEF Enqueue, Inserted, Terminal, Reported
      <3>. QED
        BY <2>1, <2>2, <3>1 DEF Enqueue, TypeOK
    <2>3. ASSUME NEW i \in JobId, Cancel(i) PROVE status'[j] = status[j]
      BY <1>1, <2>1, <2>3 DEF Cancel, TypeOK, Terminal, Reported
    <2>4. ASSUME NEW p \in Poll, Sweep(p) PROVE status'[j] = status[j]
      BY <1>1, <2>4 DEF Sweep, Terminal, Reported
    <2>5. ASSUME NEW p \in Poll, Take(p) PROVE status'[j] = status[j]
      <3>1. j \notin Choice(p)
        BY <1>1, <2>1 DEF Choice, Oldest, Eligible, LockInv, Terminal, Reported
      <3>. QED
        BY <2>5, <3>1 DEF Take
    <2>6. ASSUME NEW r \in Reporter, WriteStatus(r)
          PROVE  status'[j] = status[j] \/ (status[j] = "failed" /\ status'[j] \in Reported)
      <3>1. CASE j = repJob[r]
        <4>1. status[j] \in Reported /\ status'[j] = outcome[j] /\ outcome[j] \in Reported
          BY <1>1, <2>1, <2>6, <3>1, ReportedInserted DEF WriteStatus, TypeOK, Terminal
        <4>. QED
          BY <2>1, <4>1 DEF HonestSuccess, Reported
      <3>2. CASE j # repJob[r]
        BY <2>1, <2>6, <3>2 DEF WriteStatus, TypeOK
      <3>. QED
        BY <3>1, <3>2
    <2>7. CASE UNCHANGED <<status, next>>
      BY <2>7
    <2>. QED
      BY <1>1, <2>2, <2>3, <2>4, <2>5, <2>6, <2>7, StatusSteps
  <1>2. IInv /\ [Next]_vars =>
          [\A j \in JobId : status[j] \in Terminal =>
             status'[j] = status[j] \/ (status[j] = "failed" /\ status'[j] \in Reported)]_vars
    BY <1>1
  <1>. QED
    BY <1>2, Invariance, PTL DEF Spec, SettledStays

-----------------------------------------------------------------------------
(* The table implements serial execution.                                  *)

\* What a caller sees of a row, case by case.
LEMMA PhaseValues ==
  /\ PhaseOf("none") = "none"
  /\ PhaseOf("queued") = "waiting"
  /\ PhaseOf("running") = "active"
  /\ \A s \in Terminal : PhaseOf(s) = "over"
  BY DEF PhaseOf, Terminal, Reported

LEMMA PhaseCases ==
  ASSUME TypeOK, NEW j \in JobId
  PROVE  /\ phase[j] = "waiting" <=> status[j] = "queued"
         /\ phase[j] = "active" <=> status[j] = "running"
  BY PhaseValues DEF TypeOK, JobStatus, Live, phase

\* The abstract phase changes where the status does.
LEMMA PhaseChange ==
  ASSUME NEW S \in SUBSET JobId, NEW v,
         \A j \in JobId : IF j \in S THEN PhaseOf(status'[j]) = v
                                    ELSE status'[j] = status[j]
  PROVE  phase' = [j \in JobId |-> IF j \in S THEN v ELSE phase[j]]
  <1>1. \A j \in JobId : PhaseOf(status'[j]) = IF j \in S THEN v ELSE phase[j]
    BY DEF phase
  <1>. QED
    BY <1>1 DEF phase, JobId

\* A claim begins jobs that are ready: nothing of their workload is running,
\* nothing older of it is waiting.
LEMMA TakeBegins ==
  ASSUME IInv, ~Overlap, NEW p \in Poll, Take(p)
  PROVE  Serial!Begin(Choice(p))
  <1>1. TypeOK /\ LockInv /\ BusyInv /\ pollPc[p] = "take"
    BY DEF IInv, PollInv, Take
  <1>2. ASSUME NEW j \in Choice(p)
        PROVE  Serial!Ready(j)
    <2>1. j \in JobId /\ status[j] = "queued" /\ j \in Eligible(p) /\ j \in rows[p]
      BY <1>1 DEF Choice, Oldest, Eligible, LockInv, TypeOK
    <2>2. ASSUME NEW i \in JobId, owner[i] = owner[j]
          PROVE  status[i] # "running" /\ (i < j => status[i] # "queued")
      <3>1. status[i] # "running"
        BY <1>1, <2>2, ChoiceFresh DEF Running
      <3>2. CASE i < j /\ status[i] = "queued"
        <4>1. i \in Older(j, rows[p])
          BY <1>1, <2>1, <3>2 DEF LockInv, Older
        <4>. QED
          BY <2>1, <2>2, <4>1 DEF Eligible
      <3>. QED
        BY <3>1, <3>2
    <2>. QED
      BY <1>1, <2>1, <2>2, PhaseCases DEF Serial!Ready
  <1>3. Choice(p) \subseteq JobId
    BY <1>1, ChoiceFresh
  <1>4. phase' = [j \in JobId |-> IF j \in Choice(p) THEN "active" ELSE phase[j]]
    <2>1. \A j \in JobId : IF j \in Choice(p) THEN PhaseOf(status'[j]) = "active"
                                           ELSE status'[j] = status[j]
      BY PhaseValues DEF Take
    <2>. QED
      BY <1>3, <2>1, PhaseChange
  <1>. QED
    BY <1>2, <1>4 DEF Serial!Begin, Take

\* Every step of the queue is a step of serial execution, or none.
LEMMA StepRefines ==
  ASSUME IInv, ~Overlap, [Next]_vars
  PROVE  [Serial!Next]_Serial!vars
  <1>0. TypeOK /\ owner' = owner
    BY OwnerFixed DEF IInv
  <1>1. CASE Enqueue
    <2>1. next \in JobId /\ status[next] = "none"
      BY <1>1, JobIdFinite DEF Enqueue, IInv, Inserted
    <2>2. \A j \in JobId : IF j \in {next} THEN PhaseOf(status'[j]) = "waiting"
                                       ELSE status'[j] = status[j]
      BY <1>0, <1>1, PhaseValues DEF Enqueue, TypeOK
    <2>3. phase' = [j \in JobId |-> IF j \in {next} THEN "waiting" ELSE phase[j]]
      <3>. DEFINE S == {next}
      <3>1. S \in SUBSET JobId
        BY <2>1
      <3>2. \A j \in JobId : IF j \in S THEN PhaseOf(status'[j]) = "waiting"
                                       ELSE status'[j] = status[j]
        BY <2>2
      <3>3. phase' = [j \in JobId |-> IF j \in S THEN "waiting" ELSE phase[j]]
        <4>. HIDE DEF S
        <4>. QED
          BY <3>1, <3>2, PhaseChange
      <3>. QED
        BY <3>3
    <2>4. phase[next] = "none"
      BY <2>1, PhaseValues DEF phase
    <2>5. phase' = [phase EXCEPT ![next] = "waiting"]
      BY <2>3 DEF phase
    <2>. QED
      BY <1>0, <2>1, <2>4, <2>5 DEF Serial!Submit, Serial!Next
  <1>2. ASSUME NEW S \in SUBSET JobId,
               \A j \in S : status[j] \in {"queued", "running"} /\ status'[j] \in Terminal,
               \A j \in JobId \ S : status'[j] = status[j]
        PROVE  Serial!Next
    <2>1. phase' = [j \in JobId |-> IF j \in S THEN "over" ELSE phase[j]]
      BY <1>2, PhaseValues, PhaseChange
    <2>2. \A j \in S : phase[j] \in {"waiting", "active"}
      BY <1>0, <1>2, PhaseCases
    <2>. QED
      BY <1>0, <2>1, <2>2 DEF Serial!End, Serial!Next
  <1>3. ASSUME NEW h \in JobId, Cancel(h) PROVE Serial!Next
    <2>. DEFINE S == {h}
    <2>1. \A j \in S : status[j] \in {"queued", "running"} /\ status'[j] \in Terminal
      BY <1>0, <1>3 DEF Cancel, TypeOK, Terminal
    <2>2. \A j \in JobId \ S : status'[j] = status[j]
      BY <1>0, <1>3 DEF Cancel, TypeOK
    <2>. QED
      BY <1>2, <2>1, <2>2
  <1>4. ASSUME NEW p \in Poll, Sweep(p) PROVE Serial!Next
    <2>. DEFINE S == {j \in JobId : status[j] = "running" /\ j \in expired}
    <2>1. \A j \in S : status[j] \in {"queued", "running"} /\ status'[j] \in Terminal
      BY <1>4 DEF Sweep, Terminal, Reported
    <2>2. \A j \in JobId \ S : status'[j] = status[j]
      BY <1>4 DEF Sweep
    <2>. QED
      BY <1>2, <2>1, <2>2
  <1>5. ASSUME NEW p \in Poll, Take(p) PROVE Serial!Next
    <2>1. Choice(p) \subseteq JobId
      BY <1>0 DEF Choice, Oldest, Eligible, TypeOK
    <2>. QED
      BY <1>5, <2>1, TakeBegins DEF Serial!Next
  <1>6. ASSUME NEW r \in Reporter, WriteStatus(r) PROVE [Serial!Next]_Serial!vars
    <2>. DEFINE h == repJob[r]
    <2>1. h \in JobId /\ status[h] \in {"running"} \cup Reported /\ outcome[h] \in Reported
      BY <1>0, <1>6, ReportedInserted DEF WriteStatus, IInv, TypeOK, JobStatus, Live, Terminal
    <2>2. status'[h] = outcome[h] /\ \A j \in JobId \ {h} : status'[j] = status[j]
      BY <1>0, <1>6, <2>1 DEF WriteStatus, TypeOK
    <2>3. CASE status[h] = "running"
      <3>1. \A j \in {h} : status[j] \in {"queued", "running"} /\ status'[j] \in Terminal
        BY <2>1, <2>2, <2>3 DEF Terminal
      <3>. QED
        BY <1>2, <2>1, <2>2, <3>1
    <2>4. CASE status[h] \in Reported
      <3>1. \A j \in JobId : PhaseOf(status'[j]) = PhaseOf(status[j])
        BY <2>1, <2>2, <2>4, PhaseValues DEF Terminal
      <3>. QED
        BY <1>0, <3>1 DEF Serial!vars, phase, JobId
    <2>. QED
      BY <2>1, <2>3, <2>4
  <1>7. CASE UNCHANGED <<status, next>>
    BY <1>0, <1>7 DEF Serial!vars, phase, JobId
  <1>. QED
    BY <1>1, <1>3, <1>4, <1>5, <1>6, <1>7, StatusSteps

\* With one poll at a time the table, the claims and the reports implement
\* serial execution per workload.
THEOREM Refinement == ASSUME ~Overlap PROVE Spec => ImplementsSerial
  <1>1. Init => Serial!Init
    <2>. SUFFICES ASSUME Init PROVE Serial!Init
      OBVIOUS
    <2>1. \A j \in JobId : PhaseOf(status[j]) = "none"
      BY PhaseValues DEF Init
    <2>. QED
      BY <2>1 DEF Init, Serial!Init, phase, JobId
  <1>2. IInv /\ [Next]_vars => [Serial!Next]_Serial!vars
    BY StepRefines
  <1>. QED
    BY <1>1, <1>2, Invariance, PTL DEF Spec, Serial!Spec, ImplementsSerial
=============================================================================
