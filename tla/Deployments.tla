---------------------------- MODULE Deployments ----------------------------
(***************************************************************************)
(* The deployments of one app: the rows of the deployments table, the jobs *)
(* that build, roll back or re-release it, and on the node the images, the *)
(* tag "current" and the two containers of a release.  An image is named   *)
(* after the deployment that built it.  The agent may end between any two  *)
(* commands; what Docker holds stays, the job is lost.                     *)
(***************************************************************************)
EXTENDS Naturals, Sequences, FiniteSetsExt

CONSTANTS
  MaxDeployments,  \* bound: rows ever inserted
  MaxUpdates,      \* bound: changes of a setting, each re-releases the app
  RollbackDepth,   \* ROLLBACK_DEPTH
  Sick,            \* the builds that never answer their health check
  Moody,           \* the builds that answer it or not
  MaxDeaths,       \* bound: ends of the agent in the middle of a job
  Impatient        \* a build may be queued before the last one was folded in

ASSUME DeploymentsBounds ==
  /\ {MaxDeployments, MaxUpdates, MaxDeaths} \subseteq Nat
  /\ RollbackDepth \in Nat \ {0}
  /\ Impatient \in BOOLEAN
  /\ Sick \cup Moody \subseteq Nat \ {0}

VARIABLES
  deployment,  \* status of each row: none, queued, live, failed
  trigger,     \* create, push or rollback
  builds,      \* the queued and running jobs, in order
  phase,       \* how far the agent is with the first one
  images,      \* the tags d-<id>
  current,     \* the build the tag "current" names, 0 when there is none
  serving,     \* the build in the app's container, 0 when there is none
  beside,      \* the build in the container <name>-next
  joined,      \* that container is connected to the proxy
  outcomes,    \* finished jobs that are not folded in yet
  updates, deaths

depVars == <<deployment, trigger, builds, phase, images, current, serving, beside, joined,
             outcomes, updates, deaths>>
depNode == <<images, current, serving, beside, joined>>

Id == 1 .. MaxDeployments
Nothing == 0
ReleasePhase == {"idle", "build", "run", "health", "remove", "rename", "keep"}

DeploymentsTypeOK ==
  /\ deployment \in [Id -> {"none", "queued", "live", "failed"}]
  /\ trigger \in [Id -> {"create", "push", "rollback"}]
  /\ phase \in ReleasePhase
  /\ images \in SUBSET Id
  /\ {current, serving, beside} \subseteq Id \cup {Nothing}
  /\ joined \in BOOLEAN

DeploymentsInit ==
  /\ deployment = [d \in Id |-> "none"]
  /\ trigger = [d \in Id |-> "create"]
  /\ builds = <<>>
  /\ phase = "idle"
  /\ images = {}
  /\ current = Nothing /\ serving = Nothing /\ beside = Nothing
  /\ joined = FALSE
  /\ outcomes = {}
  /\ updates = 0 /\ deaths = 0

-----------------------------------------------------------------------------
(* The control plane.                                                      *)

Inserted == {d \in Id : deployment[d] # "none"}
NewId    == Cardinality(Inserted) + 1

\* rollbackCandidates: the newest successful builds.
Candidates ==
  LET built == {d \in Id : deployment[d] = "live" /\ trigger[d] # "rollback"}
  IN {d \in built : Cardinality({e \in built : e > d}) < RollbackDepth}

\* keepImages: all of them but the oldest when there are ROLLBACK_DEPTH.
KeepImages ==
  {d \in Candidates : Cardinality({e \in Candidates : e > d}) < RollbackDepth - 1}

NewDeployment(why, job) ==
  /\ NewId \in Id
  /\ deployment' = [deployment EXCEPT ![NewId] = "queued"]
  /\ trigger' = [trigger EXCEPT ![NewId] = why]
  /\ builds' = Append(builds, job)
  /\ UNCHANGED <<phase, depNode, outcomes, updates, deaths>>

Settled == builds = <<>> /\ outcomes = {}

\* createWorkload of an app; the driver's create deploys without ids, so no
\* image is kept for this deployment.
CreateApp ==
  /\ Inserted = {}
  /\ NewDeployment("create", [kind |-> "create", id |-> NewId, from |-> NewId, keep |-> {}])

\* deployWorkload
Deploy ==
  /\ Inserted # {}
  /\ Impatient \/ Settled
  /\ NewDeployment("push", [kind |-> "deploy", id |-> NewId, from |-> NewId, keep |-> KeepImages])

\* rollbackDeployment
Rollback ==
  /\ Impatient \/ Settled
  /\ \E target \in Candidates :
       NewDeployment("rollback", [kind |-> "rollback", id |-> NewId, from |-> target, keep |-> {}])

\* applyWorkload: the driver's update releases whatever "current" names.
Update ==
  /\ Inserted # {}
  /\ updates < MaxUpdates
  /\ Impatient \/ Settled
  /\ updates' = updates + 1
  /\ builds' = Append(builds, [kind |-> "update", id |-> Nothing, from |-> Nothing, keep |-> {}])
  /\ UNCHANGED <<deployment, trigger, phase, depNode, outcomes, deaths>>

Outcome(ok) == IF ok THEN "live" ELSE "failed"

\* applyOutcome, for a job with a deployment.
FoldDeployment ==
  \E o \in outcomes :
    /\ outcomes' = outcomes \ {o}
    /\ deployment' = IF o.id = Nothing THEN deployment
                     ELSE [deployment EXCEPT ![o.id] = Outcome(o.ok)]
    /\ UNCHANGED <<trigger, builds, phase, depNode, updates, deaths>>

-----------------------------------------------------------------------------
(* The agent: deploy, update and the release they end in.                  *)

Job == Head(builds)
Enters(ph) == phase' = ph

JobEnds(ok) ==
  /\ builds' = Tail(builds)
  /\ outcomes' = outcomes \cup {[id |-> Job.id, ok |-> ok]}
  /\ Enters("idle")

Begin ==
  /\ phase = "idle"
  /\ builds # <<>>
  /\ Enters(IF Job.kind = "update" THEN "run" ELSE "build")
  /\ UNCHANGED <<deployment, trigger, builds, depNode, outcomes, updates, deaths>>

\* Build or find the image, and tag it "current" before anything was tried.
Build ==
  /\ phase = "build"
  /\ \/ /\ Job.kind = "rollback" => Job.from \in images
        /\ current' = Job.from
        /\ Enters("run")
        /\ UNCHANGED <<builds, outcomes>>
     \/ /\ Job.kind = "rollback" => Job.from \notin images
        /\ JobEnds(FALSE)
        /\ UNCHANGED current
  /\ UNCHANGED <<deployment, trigger, images, serving, beside, joined, updates, deaths>>

\* release: the next container replaces a left-over of its name.
RunBeside ==
  /\ phase = "run"
  /\ IF current = Nothing
     THEN /\ JobEnds(FALSE) /\ beside' = Nothing
     ELSE /\ Enters("health") /\ beside' = current /\ UNCHANGED <<builds, outcomes>>
  /\ joined' = FALSE
  /\ UNCHANGED <<deployment, trigger, images, current, serving, updates, deaths>>

Healthy == beside \notin Sick

\* Mutant: the new container is not connected before the old one goes.
AnswersApart ==
  /\ phase = "health"
  /\ Healthy
  /\ Enters("remove")
  /\ UNCHANGED <<deployment, trigger, builds, images, current, serving, beside, joined, outcomes, updates, deaths>>

\* waitHealthy
Answers ==
  /\ phase = "health"
  /\ Healthy
  /\ joined' = TRUE
  /\ Enters("remove")
  /\ UNCHANGED <<deployment, trigger, builds, images, current, serving, beside, outcomes, updates, deaths>>

NeverAnswers ==
  /\ phase = "health"
  /\ beside \in Sick \cup Moody
  /\ beside' = Nothing
  /\ JobEnds(FALSE)
  /\ UNCHANGED <<deployment, trigger, images, current, serving, joined, updates, deaths>>

RemoveOld ==
  /\ phase = "remove"
  /\ serving' = Nothing
  /\ Enters("rename")
  /\ UNCHANGED <<deployment, trigger, builds, images, current, beside, joined, outcomes, updates, deaths>>

Rename ==
  /\ phase = "rename"
  /\ serving' = beside
  /\ beside' = Nothing
  /\ joined' = FALSE
  /\ IF Job.kind = "deploy" THEN Enters("keep") /\ UNCHANGED <<builds, outcomes>> ELSE JobEnds(TRUE)
  /\ UNCHANGED <<deployment, trigger, images, current, updates, deaths>>

\* keepImage: tag what went live, drop every kept build the job does not name.
KeepImage ==
  /\ phase = "keep"
  /\ images' = (images \cap Job.keep) \cup {Job.id}
  /\ JobEnds(TRUE)
  /\ UNCHANGED <<deployment, trigger, current, serving, beside, joined, updates, deaths>>

\* The agent ends; the sweep fails the job's row, and nothing is folded in.
AgentEnds ==
  /\ phase # "idle"
  /\ deaths < MaxDeaths
  /\ deaths' = deaths + 1
  /\ builds' = Tail(builds)
  /\ Enters("idle")
  /\ UNCHANGED <<deployment, trigger, depNode, outcomes, updates>>

Release == Begin \/ Build \/ RunBeside \/ Answers \/ NeverAnswers \/ RemoveOld \/ Rename \/ KeepImage

DeploymentsNext ==
  \/ CreateApp \/ Deploy \/ Rollback \/ Update
  \/ FoldDeployment
  \/ Release
  \/ AgentEnds

\* The agent goes on with the job it has, the server folds in what it reports.
DeploymentsFairness == WF_depVars(Release) /\ WF_depVars(FoldDeployment)

DeploymentsSpec == DeploymentsInit /\ [][DeploymentsNext]_depVars /\ DeploymentsFairness

-----------------------------------------------------------------------------
(* Properties.                                                             *)

\* "Apps switch without downtime": from the first release on, some container
\* that passed its health check is connected to the proxy.
NoDowntime ==
  [][serving # Nothing /\ deaths = 0 => serving' # Nothing \/ joined']_depVars

\* A build that never answers is discarded: no customer ever sees it.
SickNeverServes == serving \notin Sick /\ (joined => beside \notin Sick)

\* Whatever the panel offers to roll back to is still on the node, once all is
\* settled; the deployment that created the app is offered but was never kept.
OfferedIsKept ==
  Settled /\ phase = "idle" /\ deaths = 0 =>
    \A d \in Candidates : trigger[d] = "create" \/ d \in images

\* The node keeps no more builds than one can roll back to.
ImagesBounded == Cardinality(images) <= RollbackDepth

\* What serves went live by a deployment that succeeded: not a refused build
\* that a later change of a setting brought in through the tag "current".
ServesLive ==
  Settled /\ phase = "idle" /\ deaths = 0 /\ serving # Nothing => deployment[serving] = "live"

\* The four together: only builds that work serve, and they can be put back.
GoodBuildsServe == SickNeverServes /\ OfferedIsKept /\ ImagesBounded /\ ServesLive

\* Every deployment comes to an end, unless the agent ended with it.
DeploymentEnds ==
  \A d \in Id : deployment[d] = "queued" /\ deaths = 0 ~> deployment[d] \in {"live", "failed"} \/ deaths > 0
=============================================================================
