----------------------------- MODULE Workloads -----------------------------
(***************************************************************************)
(* The life of sites and their copies: the rows of the workloads table,    *)
(* the requests of customers, staff and billing that change them and queue *)
(* jobs, the containers on the node, and applyOutcome, which folds the end *)
(* of a job back into the row.                                             *)
(*                                                                         *)
(* The queue is used through what SerialExecution promises: the jobs of a  *)
(* workload are executed one at a time, in their order.  A handler is a    *)
(* request or a report in progress; its statements interleave with those   *)
(* of the other handlers.  With one Handler they come one after another,   *)
(* and only the node's executions run beside it.                           *)
(***************************************************************************)
EXTENDS Naturals, Sequences, SequencesExt

CONSTANTS
  Site,         \* the live workloads
  Copy,         \* rows for their staging copies and previews
  Handler,      \* slots for requests and reports in progress
  MaxCopies,    \* MAX_STAGING, MAX_PREVIEWS
  MaxRequests,  \* bound: requests after the creations
  MaxFailures,  \* bound: jobs that fail
  Rash,         \* requests come whatever the state of the workload
  NoSite        \* the parent of a live workload

ASSUME WorkloadsBounds == {MaxCopies, MaxRequests, MaxFailures} \subseteq Nat
ASSUME WorkloadsNames ==
  /\ Site \cap Copy = {}
  /\ NoSite \notin Site \cup Copy
  /\ IsFiniteSet(Copy)
  /\ Rash \in BOOLEAN

VARIABLES
  row,       \* workloads.status, "none" before the insert
  parent,    \* workloads.parentId
  work,      \* the queued and running jobs of each workload, in order
  site,      \* the containers on the node
  doing,     \* the workloads whose first job the node executes
  handler,   \* what each handler is doing
  failed,    \* history: the workloads whose last job failed, or stopped or
             \* started what a failed creation never made
  leaving,   \* history: the workloads whose deletion was asked for
  asked,     \* requests so far
  failures   \* failed jobs so far

wlVars == <<row, parent, work, site, doing, handler, failed, leaving, asked, failures>>

WorkloadId == Site \cup Copy
RowStatus  == {"creating", "running", "stopped", "suspended", "error", "deleting", "deleted"}
JobKind    == {"create", "clone", "start", "stop", "update", "deploy", "push", "delete"}
Container  == {"absent", "down", "up"}

\* The job each request queues, and the status it writes before.
JobOf == [start |-> "start", stop |-> "stop", update |-> "update", deploy |-> "deploy",
          push |-> "push", suspend |-> "stop", unsuspend |-> "start", delete |-> "delete",
          create |-> "create", copy |-> "clone"]

\* Mutant: the status of a service, which a workload has not.
WritesActive == [suspend |-> "suspended", unsuspend |-> "active", delete |-> "deleting"]
Writes == [suspend |-> "suspended", unsuspend |-> "stopped", delete |-> "deleting"]

Idle == [op |-> "none", pc |-> "idle", todo |-> <<>>]
Free(h)   == handler[h].pc = "idle"
At(h, pc) == handler[h].pc = pc
Target(h) == Head(handler[h].todo)
Turns(h, op, pc, todo) == handler' = [handler EXCEPT ![h] = [op |-> op, pc |-> pc, todo |-> todo]]
Goto(h, pc) == Turns(h, handler[h].op, pc, handler[h].todo)
Ends(h)   == handler' = [handler EXCEPT ![h] = Idle]

WorkloadsTypeOK ==
  /\ row \in [WorkloadId -> RowStatus \cup {"none"}]
  /\ parent \in [WorkloadId -> Site \cup {NoSite}]
  /\ work \in [WorkloadId -> Seq(JobKind)]
  /\ site \in [WorkloadId -> Container]
  /\ doing \in SUBSET WorkloadId
  /\ \A w \in doing : work[w] # <<>>
  /\ \A h \in Handler : At(h, "idle") \/ Target(h) \in WorkloadId
  /\ failed \in SUBSET WorkloadId

WorkloadsInit ==
  /\ row = [w \in WorkloadId |-> "none"]
  /\ parent = [w \in WorkloadId |-> NoSite]
  /\ work = [w \in WorkloadId |-> <<>>]
  /\ site = [w \in WorkloadId |-> "absent"]
  /\ doing = {}
  /\ handler = [h \in Handler |-> Idle]
  /\ failed = {}
  /\ leaving = {}
  /\ asked = 0
  /\ failures = 0

CopiesOf(w) == {c \in Copy : parent[c] = w /\ row[c] # "deleted"}

-----------------------------------------------------------------------------
(* Requests.                                                               *)

\* What people ask of a workload whose row they see; the handlers check less.
\* Without Rash nobody asks more of one whose deletion was asked for.
Offered(op, w) ==
  CASE op = "unsuspend" -> row[w] = "suspended"
    [] op = "suspend"   -> row[w] \in {"running", "stopped", "creating"}
    [] op = "delete"    -> row[w] \in {"running", "stopped", "suspended", "error"}
    [] OTHER            -> row[w] \in {"running", "stopped"}

\* createWorkload: the row is inserted, the job queued by a later statement.
CreateWorkload(h, w) ==
  /\ Free(h)
  /\ row[w] = "none"
  /\ row' = [row EXCEPT ![w] = "creating"]
  /\ Turns(h, "create", "queue", <<w>>)
  /\ UNCHANGED <<parent, work, site, doing, failed, leaving, asked, failures>>

\* A request arrives; deletion takes the copies first, so it reads them here.
Request(h, op, w) ==
  /\ Free(h)
  /\ row[w] # "none"
  /\ asked < MaxRequests
  /\ Rash \/ (w \notin leaving /\ Offered(op, w))
  /\ w \in Copy => op \notin {"copy", "push", "suspend", "unsuspend"}
  /\ op = "push" => CopiesOf(w) # {}
  /\ asked' = asked + 1
  /\ leaving' = IF op = "delete" THEN leaving \cup {w} \cup CopiesOf(w) ELSE leaving
  /\ Turns(h, op, "load", IF op = "delete" THEN Append(SetToSeq(CopiesOf(w)), w) ELSE <<w>>)
  /\ UNCHANGED <<row, parent, work, site, doing, failed, failures>>

\* load and the checks of the operation.  Whatever they refuse ends the request.
Refused(h) ==
  LET op == handler[h].op
      w  == Target(h)
  IN \/ row[w] = "deleted"
     \/ op \in {"start", "deploy"} /\ row[w] = "suspended"

Load(h) ==
  /\ At(h, "load")
  /\ IF Refused(h) THEN Ends(h)
     ELSE CASE handler[h].op \in DOMAIN Writes -> Goto(h, "write")
            [] handler[h].op = "copy" -> Goto(h, "count")
            [] OTHER -> Goto(h, "queue")
  /\ UNCHANGED <<row, parent, work, site, doing, failed, leaving, asked, failures>>

\* createStaging and handlePush count the copies, then insert one more.
CountCopies(h) ==
  /\ At(h, "count")
  /\ IF Len(SetToSeq(CopiesOf(Target(h)))) >= MaxCopies THEN Ends(h) ELSE Goto(h, "insert")
  /\ UNCHANGED <<row, parent, work, site, doing, failed, leaving, asked, failures>>

InsertCopy(h, c) ==
  /\ At(h, "insert")
  /\ row[c] = "none"
  /\ row' = [row EXCEPT ![c] = "creating"]
  /\ parent' = [parent EXCEPT ![c] = Target(h)]
  /\ Turns(h, "copy", "queue", <<c>>)
  /\ UNCHANGED <<work, site, doing, failed, leaving, asked, failures>>

\* setStatus of suspendWorkload, unsuspendWorkload and deleteWorkload.
SetStatus(h) ==
  /\ At(h, "write")
  /\ row' = [row EXCEPT ![Target(h)] = Writes[handler[h].op]]
  /\ Goto(h, "queue")
  /\ UNCHANGED <<parent, work, site, doing, failed, leaving, asked, failures>>

\* Mutant: suspension stops the site alone.
GoesOnToNone(op, w) == <<>>

\* The copies a suspension goes on to: it reads them once its own job is queued.
GoesOnTo(op, w) == IF op = "suspend" THEN SetToSeq(CopiesOf(w)) ELSE <<>>

\* enqueue; then the next workload of the same request, if any.
Enqueue(h) ==
  LET op   == handler[h].op
      w    == Target(h)
      left == Tail(handler[h].todo) \o GoesOnTo(op, w)
  IN /\ At(h, "queue")
     /\ work' = [work EXCEPT ![w] = Append(@, JobOf[op])]
     /\ IF left = <<>> THEN Ends(h) ELSE Turns(h, op, "load", left)
     /\ UNCHANGED <<row, parent, site, doing, failed, leaving, asked, failures>>

-----------------------------------------------------------------------------
(* The node.                                                               *)

Start(w) ==
  /\ work[w] # <<>>
  /\ w \notin doing
  /\ doing' = doing \cup {w}
  /\ UNCHANGED <<row, parent, work, site, handler, failed, leaving, asked, failures>>

\* What a driver operation does to the containers when it succeeds: start
\* starts those there are, and is content when there are none.
Effect(kind, was) ==
  CASE kind = "delete" -> "absent"
    [] kind = "start"  -> IF was = "absent" THEN "absent" ELSE "up"
    [] kind = "stop"   -> IF was = "absent" THEN "absent" ELSE "down"
    [] OTHER           -> "up"

\* An update runs containers in a network that the deletion removed.
CanSucceed(kind, was) == kind \in {"update", "deploy"} => was # "absent"

\* A failed operation may have done anything on the way.
MayLeave(kind, was) ==
  IF kind \in {"create", "clone", "delete"} \/ was = "absent" THEN Container ELSE {"down", "up"}

\* The job's row is written: from here on the node may start the next one.
Report(h, w, ok) ==
  LET kind == Head(work[w])
  IN /\ w \in doing
     /\ Free(h)
     /\ IF ok THEN CanSucceed(kind, site[w]) ELSE failures < MaxFailures \/ ~CanSucceed(kind, site[w])
     /\ \E s \in IF ok THEN {Effect(kind, site[w])} ELSE MayLeave(kind, site[w]) :
          site' = [site EXCEPT ![w] = s]
     /\ work' = [work EXCEPT ![w] = Tail(@)]
     /\ doing' = doing \ {w}
     /\ failed' = IF ~ok THEN failed \cup {w}
                  ELSE IF kind \in {"start", "stop"} /\ site[w] = "absent" THEN failed
                  ELSE failed \ {w}
     /\ failures' = IF ok THEN failures ELSE failures + 1
     /\ handler' = [handler EXCEPT ![h] =
          [op |-> "fold", pc |-> "read", todo |-> <<w>>, kind |-> kind, ok |-> ok]]
     /\ UNCHANGED <<row, parent, leaving, asked>>

-----------------------------------------------------------------------------
(* applyOutcome: it reads the workload once and decides with what it read. *)

\* Mutant: the outcome forgets the suspension.
FoldedForgets(kind, ok, saw, now) ==
  CASE kind = "delete" -> IF ok THEN "deleted" ELSE "error"
    [] kind = "stop" -> IF ok THEN "stopped" ELSE now
    [] OTHER -> IF ok THEN "running" ELSE IF kind \in {"create", "clone", "push"} THEN "error" ELSE now

Folded(kind, ok, saw, now) ==
  CASE kind \in {"create", "clone", "push"} ->
         IF ~ok THEN "error" ELSE IF saw = "suspended" THEN "suspended" ELSE "running"
    [] kind \in {"start", "update", "deploy"} -> IF ok /\ saw # "suspended" THEN "running" ELSE now
    [] kind = "stop" -> IF ok /\ saw # "suspended" THEN "stopped" ELSE now
    [] kind = "delete" -> IF ok THEN "deleted" ELSE "error"

FoldRead(h) ==
  /\ At(h, "read")
  /\ handler' = [handler EXCEPT ![h] =
       [op |-> "fold", pc |-> "fold", todo |-> @.todo, kind |-> @.kind, ok |-> @.ok, saw |-> row[Target(h)]]]
  /\ UNCHANGED <<row, parent, work, site, doing, failed, leaving, asked, failures>>

Fold(h) ==
  /\ At(h, "fold")
  /\ row' = [row EXCEPT ![Target(h)] = Folded(handler[h].kind, handler[h].ok, handler[h].saw, @)]
  /\ Ends(h)
  /\ UNCHANGED <<parent, work, site, doing, failed, leaving, asked, failures>>

-----------------------------------------------------------------------------
Handle(h) ==
  \/ Load(h) \/ CountCopies(h) \/ SetStatus(h) \/ Enqueue(h) \/ FoldRead(h) \/ Fold(h)
  \/ \E c \in Copy : InsertCopy(h, c)

Works(w) == Start(w) \/ \E h \in Handler, ok \in BOOLEAN : Report(h, w, ok)

WorkloadsNext ==
  \/ \E h \in Handler, w \in Site : CreateWorkload(h, w)
  \/ \E h \in Handler, w \in WorkloadId, op \in DOMAIN JobOf \ {"create"} : Request(h, op, w)
  \/ \E h \in Handler : Handle(h)
  \/ \E w \in WorkloadId : Works(w)

\* The server finishes its handlers and the node its jobs; nobody has to ask.
WorkloadsFairness ==
  /\ \A h \in Handler : WF_wlVars(Handle(h))
  /\ \A w \in WorkloadId : SF_wlVars(Works(w))

WorkloadsSpec == WorkloadsInit /\ [][WorkloadsNext]_wlVars /\ WorkloadsFairness

-----------------------------------------------------------------------------
(* Properties.                                                             *)

\* Nothing concerning w is queued, executed or being handled.
Quiet(w) ==
  /\ work[w] = <<>>
  /\ \A h \in Handler : w \notin Range(handler[h].todo) /\ (At(h, "idle") \/ handler[h].op \notin {"suspend", "delete"})

\* "overdue -> suspended (containers stopped)": once the queue is drained, a
\* suspended site is down, unless the stop itself failed.
SuspendedStaysDown ==
  \A w \in WorkloadId : row[w] = "suspended" /\ Quiet(w) /\ w \notin failed => site[w] # "up"

\* When nothing is in progress and the last job succeeded, the row tells what
\* the node has: the panel never shows a running site that is not there.
RowTellsNode ==
  \A w \in WorkloadId : Quiet(w) /\ w \notin failed =>
    /\ row[w] = "running" => site[w] = "up"
    /\ row[w] = "stopped" => site[w] # "up"
    /\ row[w] = "deleted" => site[w] = "absent"

\* Suspension and deletion reach every copy: as long as no job fails, no copy
\* of a suspended or deleted site goes on serving.
CopiesFollow ==
  \A c \in Copy :
    LET w == parent[c]
    IN /\ w # NoSite
       /\ Quiet(w) /\ Quiet(c)
       /\ failures = 0
       /\ row[w] \in {"suspended", "deleted"}
       => site[c] # "up"

\* The three together: what the node runs is what the rows say.
NodeFollowsRow == SuspendedStaysDown /\ RowTellsNode /\ CopiesFollow

\* A deleted workload stays deleted: no late outcome brings its row back. It does not
\* hold, and no run checks it: load refuses only deleted, so a job may be queued behind
\* a deletion and its outcome is written over the row.
DeletedStays ==
  [][\A w \in WorkloadId : row[w] = "deleted" => row'[w] = "deleted"]_wlVars

\* Only unsuspending or deleting a suspended workload ends its suspension; the end
\* of a job, which applyOutcome folds in, does not. It does not hold, and no run checks
\* it: a job that fails writes error over suspended.
SuspensionHolds ==
  [][\A w \in WorkloadId : row[w] = "suspended" /\ row'[w] # "suspended" =>
       \E h \in Handler : At(h, "write") /\ Target(h) = w]_wlVars

\* The same of outcomes that succeed, which holds.
SuccessKeepsSuspension ==
  [][\A w \in WorkloadId : row[w] = "suspended" /\ row'[w] # "suspended" =>
       \E h \in Handler : Target(h) = w /\ (At(h, "write") \/ (At(h, "fold") /\ (~handler[h].ok \/ handler[h].kind = "delete")))]_wlVars

\* What is being created or deleted does not stay so.
Settles == \A w \in WorkloadId : row[w] \in {"creating", "deleting"} ~> row[w] \notin {"creating", "deleting"}
=============================================================================
