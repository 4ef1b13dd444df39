------------------------------- MODULE Crons --------------------------------
(***************************************************************************)
(* Scheduled jobs of an app: the list the customer saves, the file the     *)
(* agent keeps of it on the node, and the minutes in which the agent       *)
(* starts what is due.                                                     *)
(***************************************************************************)
EXTENDS Naturals, Sequences

CONSTANTS
  Task,        \* scheduled jobs
  MaxMinutes,  \* bound: minutes
  MaxWaiting,  \* bound: jobs of the queue that wait for the node
  MaxOps,      \* bound: changes and power switches of the customer
  MaxLapses    \* bound: restarts of the agent, and clients it gives up

ASSUME CronsBounds ==
  {MaxMinutes, MaxWaiting, MaxOps, MaxLapses} \subseteq Nat

VARIABLES
  wanted,   \* config.crons
  waiting,  \* jobs of the queue, each with the list of its spec
  failed,   \* the last update of the node failed
  cronFile, \* tasks in the file on the node
  appUp,    \* the container runs
  resumed,  \* it was started again after a stop
  procs,    \* procs[t]: processes of task t in the container
  known,    \* cronsRunning of the agent
  astray,   \* astray[t]: history, times the agent lost sight of t in this container
  minute, due, lastMinute,
  begunNow,    \* begunNow[t]: times t was started in this minute
  anew,        \* history: times the agent came back in this minute
  ops, lapses

cronVars == <<wanted, waiting, failed, cronFile, appUp, resumed, procs, known, astray,
              minute, due, lastMinute, begunNow, anew, ops, lapses>>
nodeSide == <<failed, cronFile, appUp, resumed>>
tasks == <<procs, known, astray>>
clock == <<minute, due, lastMinute, begunNow, anew>>

Kinds == {"update", "start", "stop", "restart"}
Idle  == [t \in Task |-> 0]

\* Lists and files are of the tasks there are, and the node has a bounded queue.
CronsTypeOK ==
  /\ wanted \subseteq Task /\ cronFile \subseteq Task /\ known \subseteq Task /\ due \subseteq Task
  /\ waiting \in Seq([kind : Kinds, crons : SUBSET Task]) /\ Len(waiting) <= MaxWaiting
  /\ {failed, appUp, resumed} \subseteq BOOLEAN
  /\ procs \in [Task -> Nat] /\ begunNow \in [Task -> Nat]
  /\ lastMinute <= minute /\ lapses <= MaxLapses

\* The app was deployed without tasks; the agent has seen minute 0.
CronsInit ==
  /\ wanted = {} /\ waiting = <<>> /\ failed = FALSE
  /\ cronFile = {} /\ appUp = TRUE /\ resumed = FALSE
  /\ procs = Idle /\ known = {} /\ astray = Idle
  /\ minute = 1 /\ due \in SUBSET Task /\ lastMinute = 0 /\ begunNow = Idle /\ anew = 0
  /\ ops = 0 /\ lapses = 0

-----------------------------------------------------------------------------
Orders(kind, crons) ==
  /\ ops < MaxOps /\ ops' = ops + 1
  /\ Len(waiting) < MaxWaiting
  /\ waiting' = Append(waiting, [kind |-> kind, crons |-> crons])

\* saveCrons, through updateWorkloadConfig.
SaveCrons ==
  \E l \in SUBSET Task :
    /\ wanted' = l
    /\ Orders("update", l)
    /\ UNCHANGED <<nodeSide, tasks, clock, lapses>>

\* powerWorkload, and suspendWorkload and unsuspendWorkload.
Power ==
  \E k \in Kinds \ {"update"} :
    /\ Orders(k, wanted)
    /\ UNCHANGED <<wanted, nodeSide, tasks, clock, lapses>>

Takes(kind) == waiting # <<>> /\ Head(waiting).kind = kind /\ waiting' = Tail(waiting)

\* A process of a task dies with its container, and its client returns.
Cleared == procs' = Idle /\ known' = {} /\ astray' = Idle
TasksGoOn == UNCHANGED tasks

\* release: the container is replaced and the file is written; a version that
\* does not answer leaves the old one, and its file, in place.
RunUpdate ==
  /\ Takes("update")
  /\ \/ /\ cronFile' = Head(waiting).crons
        /\ appUp' = TRUE /\ resumed' = FALSE /\ failed' = FALSE
        /\ Cleared
     \/ failed' = TRUE /\ TasksGoOn /\ UNCHANGED <<cronFile, appUp, resumed>>
  /\ UNCHANGED <<wanted, clock, ops, lapses>>

RunStart ==
  /\ Takes("start")
  /\ appUp' = TRUE /\ resumed' = (resumed \/ ~appUp)
  /\ TasksGoOn
  /\ UNCHANGED <<wanted, failed, cronFile, clock, ops, lapses>>

RunStop ==
  /\ Takes("stop")
  /\ cronFile' = {} /\ appUp' = FALSE /\ resumed' = FALSE
  /\ Cleared
  /\ UNCHANGED <<wanted, failed, clock, ops, lapses>>

\* restart is a stop and a start.
RunRestart ==
  /\ Takes("restart")
  /\ cronFile' = {} /\ appUp' = TRUE /\ resumed' = TRUE
  /\ Cleared
  /\ UNCHANGED <<wanted, failed, clock, ops, lapses>>

-----------------------------------------------------------------------------
\* The clock is at minute m, with what is due in it.
ClockAt(m) ==
  /\ m <= MaxMinutes /\ minute' = m
  /\ IF m = minute THEN UNCHANGED <<due, begunNow>> /\ anew' = anew + 1
     ELSE due' \in SUBSET Task /\ begunNow' = Idle /\ anew' = 0

MinutePasses ==
  /\ ClockAt(minute + 1)
  /\ UNCHANGED <<wanted, waiting, nodeSide, tasks, lastMinute, ops, lapses>>

\* runDueCrons: what is due and not known to run is started; in a container
\* that is down the client fails at once.
DueTasks == (cronFile \cap due) \ known

CronTick ==
  /\ minute # lastMinute /\ lastMinute' = minute
  /\ IF appUp THEN /\ known' = known \cup DueTasks
                   /\ procs' = [t \in Task |-> IF t \in DueTasks THEN procs[t] + 1 ELSE procs[t]]
                   /\ begunNow' = [t \in Task |-> IF t \in DueTasks THEN begunNow[t] + 1 ELSE begunNow[t]]
     ELSE UNCHANGED <<known, procs, begunNow>>
  /\ UNCHANGED <<wanted, waiting, nodeSide, astray, minute, due, anew, ops, lapses>>

\* A process ends, and the client that waited for it returns.
TaskEnds(t) ==
  /\ procs[t] > 0
  /\ procs' = [procs EXCEPT ![t] = @ - 1]
  /\ known' \in {known \ {t}} \cup (IF procs[t] > 1 THEN {known} ELSE {})
  /\ UNCHANGED <<wanted, waiting, nodeSide, astray, clock, ops, lapses>>

Lapse == lapses < MaxLapses /\ lapses' = lapses + 1

\* After fifteen minutes the client is killed, and the process in the container is not.
GivesUp(t) ==
  /\ t \in known /\ Lapse
  /\ known' = known \ {t}
  /\ astray' = [astray EXCEPT ![t] = @ + 1]
  /\ UNCHANGED <<wanted, waiting, nodeSide, procs, clock, ops>>

\* What the agent has in memory is gone, its processes in the containers are not;
\* it is back later, or in the same minute.
AgentRestarts ==
  /\ Lapse
  /\ lastMinute' = 0 /\ known' = {}
  /\ astray' = [t \in Task |-> IF t \in known THEN astray[t] + 1 ELSE astray[t]]
  /\ \E m \in {minute, minute + 1} : ClockAt(m)
  /\ UNCHANGED <<wanted, waiting, nodeSide, procs, ops>>

CronsNext ==
  \/ SaveCrons \/ Power
  \/ RunUpdate \/ RunStart \/ RunStop \/ RunRestart
  \/ MinutePasses \/ CronTick \/ AgentRestarts
  \/ \E t \in Task : TaskEnds(t) \/ GivesUp(t)

CronsSpec == CronsInit /\ [][CronsNext]_cronVars

-----------------------------------------------------------------------------
(* Properties.                                                             *)

\* "the same minute is never run twice", and "a job still running from its
\* previous turn is not started again on top of itself". The agent knows both from
\* memory only: a minute is run once more for each time it came back in that
\* minute, and a job for each time it lost sight of one, and for nothing else.
NeverTwice == \A t \in Task : begunNow[t] <= 1 + anew /\ procs[t] <= 1 + astray[t]

\* "a stopped app runs nothing": neither processes nor a file are left of it.
StoppedIsQuiet == ~appUp => cronFile = {} /\ procs = Idle

\* Once the node has done what was asked, the file is the list, unless a change
\* failed or the app was started again after a stop.
ListReachesNode == waiting = <<>> /\ appUp /\ ~failed /\ ~resumed => cronFile = wanted

CronsRight == NeverTwice /\ StoppedIsQuiet /\ ListReachesNode

\* The same, whatever was switched off and on: the jobs "are kept on disk so they
\* survive". It does not hold: stop removes the file, and start does not write it.
JobsReturn == waiting = <<>> /\ appUp /\ ~failed => cronFile = wanted
=============================================================================
