----------------------------- MODULE SitesProofs -----------------------------
(***************************************************************************)
(* What the releases, the backups and the previews of a site promise, for  *)
(* any number of them, of requests and of failures.                        *)
(***************************************************************************)
EXTENDS MCSites, WorkloadsProofs, Sums, FiniteSetTheorems, FunctionTheorems, SequenceTheorems, NaturalsInduction, WellFoundedInduction, TLAPS

-----------------------------------------------------------------------------
(* Releases, whatever is asked when, and whenever the agent ends.          *)

BuildJob ==
  [kind : {"create", "deploy", "rollback", "update"}, id : Id \cup {Nothing}, from : Id \cup {Nothing},
   keep : SUBSET Id]

DepTypes ==
  /\ deployment \in [Id -> {"none", "queued", "live", "failed"}]
  /\ trigger \in [Id -> {"create", "push", "rollback"}]
  /\ phase \in ReleasePhase
  /\ images \in SUBSET Id
  /\ current \in Id \cup {Nothing} /\ serving \in Id \cup {Nothing} /\ beside \in Id \cup {Nothing}
  /\ joined \in BOOLEAN
  /\ builds \in Seq(BuildJob)
  /\ outcomes \in SUBSET [id : Id \cup {Nothing}, ok : BOOLEAN]
  /\ updates \in Nat /\ deaths \in Nat

\* The phases are those of the first job, and only an update builds nothing.
Working ==
  /\ phase # "idle" => builds # <<>>
  /\ phase = "build" => Job.kind # "update"
  /\ phase = "keep" => Job.kind = "deploy"
  /\ \A i \in DOMAIN builds : builds[i].kind # "update" => builds[i].id \in Id /\ builds[i].from \in Id

\* Only what answered is connected, and only what is connected replaces the other.
Released ==
  /\ phase = "health" => beside # Nothing
  /\ phase \in {"remove", "rename"} => joined /\ beside # Nothing
  /\ SickNeverServes

\* What a job keeps leaves room for its own build.
Bounded ==
  /\ \A i \in DOMAIN builds : Cardinality(builds[i].keep) < RollbackDepth
  /\ ImagesBounded

DepInv == DepTypes /\ Working /\ Released /\ Bounded

LEMMA IdIsFinite == IsFiniteSet(Id)
BY DeploymentsBounds, FS_Interval DEF Id

\* Of any numbers at most k have fewer than k greater ones among them.
LEMMA NewestAreFew ==
  ASSUME NEW S \in SUBSET Int, IsFiniteSet(S), NEW k \in Nat
  PROVE  Cardinality({d \in S : Cardinality({e \in S : e > d}) < k}) <= k
<1> DEFINE Above(d) == {e \in S : e > d}
           T == {d \in S : Cardinality(Above(d)) < k}
           f == [d \in T |-> Cardinality(Above(d))]
<1>1. ASSUME NEW d \in S
      PROVE  IsFiniteSet(Above(d)) /\ Cardinality(Above(d)) \in Nat
  <2>1. Above(d) \in SUBSET S
    OBVIOUS
  <2>2. IsFiniteSet(Above(d))
    <3> HIDE DEF Above
    <3> QED BY <2>1, FS_Subset
  <2> QED BY <2>2, FS_CardinalityType
<1>2. ASSUME NEW c \in T, NEW d \in T, c < d
      PROVE  f[d] < f[c]
  <2>3. c \in S /\ d \in S /\ c \in Int /\ d \in Int
    OBVIOUS
  <2>1. ASSUME NEW e \in S, e > d PROVE e > c /\ e # d
    <3>1. e \in Int
      OBVIOUS
    <3> QED BY <1>2, <2>1, <2>3, <3>1
  <2>10. Above(d) \in SUBSET (Above(c) \ {d})
    <3> HIDE DEF T
    <3> QED BY <2>1
  <2>2. d \in Above(c)
    <3> HIDE DEF T
    <3> QED BY <1>2, <2>3
  <2>4. IsFiniteSet(Above(c) \ {d}) /\ Cardinality(Above(c) \ {d}) = Cardinality(Above(c)) - 1
    <3> HIDE DEF Above, T
    <3> QED BY <1>1, <2>2, <2>3, FS_RemoveElement
  <2>5. Cardinality(Above(d)) <= Cardinality(Above(c) \ {d})
    <3> HIDE DEF Above, T
    <3> QED BY <2>10, <2>4, FS_Subset
  <2>6. f[c] = Cardinality(Above(c)) /\ f[d] = Cardinality(Above(d))
    OBVIOUS
  <2>7. Cardinality(Above(c)) \in Nat /\ Cardinality(Above(d)) \in Nat
    BY <1>1, <2>3
  <2> HIDE DEF Above, T, f
  <2> QED BY <2>4, <2>5, <2>6, <2>7
<1>3. f \in Injection(T, 0 .. k - 1)
  <2>1. f \in [T -> 0 .. k - 1]
    <3>1. ASSUME NEW d \in T PROVE Cardinality(Above(d)) \in 0 .. k - 1
      <4>1. d \in S /\ Cardinality(Above(d)) < k
        OBVIOUS
      <4>2. Cardinality(Above(d)) \in Nat
        BY <1>1, <4>1
      <4> HIDE DEF Above, T
      <4> QED BY <4>1, <4>2
    <3> HIDE DEF Above, T
    <3> QED BY <3>1
  <2>2. ASSUME NEW c \in T, NEW d \in T, f[c] = f[d]
        PROVE  c = d
    <3>1. f[c] \in Int /\ f[d] \in Int
      <4> HIDE DEF f, T
      <4> QED BY <2>1
    <3>2. c \in Int /\ d \in Int
      OBVIOUS
    <3>3. ~(c < d) /\ ~(d < c)
      <4> HIDE DEF f, T
      <4> QED BY <1>2, <2>2, <3>1
    <3> QED BY <3>2, <3>3
  <2> HIDE DEF f, T
  <2> QED BY <2>1, <2>2 DEF Injection, IsInjective
<1>4. IsFiniteSet(0 .. k - 1) /\ Cardinality(0 .. k - 1) = k
  BY FS_Interval
<1>5. Cardinality(T) <= k
  <2> HIDE DEF f, T
  <2> QED BY <1>3, <1>4, FS_Injection
<1> QED BY <1>5

\* The builds a push may keep leave room for one more.
LEMMA KeepLeavesRoom == Cardinality(KeepImages) < RollbackDepth /\ KeepImages \in SUBSET Id
<1> DEFINE k == RollbackDepth - 1
<1>1. RollbackDepth \in Nat /\ k \in Nat
  BY DeploymentsBounds
<1>2. Candidates \in SUBSET Id
  BY DEF Candidates
<1>3. Candidates \in SUBSET Int /\ IsFiniteSet(Candidates)
  <2>1. Id \in SUBSET Int
    BY DeploymentsBounds DEF Id
  <2> QED BY <1>2, <2>1, IdIsFinite, FS_Subset
<1>4. Cardinality({d \in Candidates : Cardinality({e \in Candidates : e > d}) < k}) <= k
  <2> HIDE DEF k
  <2> QED BY <1>1, <1>3, NewestAreFew
<1>5. KeepImages = {d \in Candidates : Cardinality({e \in Candidates : e > d}) < k}
  BY DEF KeepImages
<1>6. KeepImages \in SUBSET Id
  BY <1>2 DEF KeepImages
<1>7. Cardinality(KeepImages) \in Nat
  BY <1>6, IdIsFinite, FS_Subset, FS_CardinalityType
<1> QED BY <1>1, <1>4, <1>5, <1>6, <1>7

LEMMA DepInvInit == DeploymentsInit => DepInv
<1> SUFFICES ASSUME DeploymentsInit PROVE DepInv
  OBVIOUS
<1> USE DeploymentsBounds DEF DeploymentsInit
<1>1. DepTypes
  <2>1. builds \in Seq(BuildJob) /\ outcomes \in SUBSET [id : Id \cup {Nothing}, ok : BOOLEAN]
    OBVIOUS
  <2>2. deployment \in [Id -> {"none", "queued", "live", "failed"}] /\ trigger \in [Id -> {"create", "push", "rollback"}]
    OBVIOUS
  <2> QED BY <2>1, <2>2 DEF DepTypes, ReleasePhase
<1>2. Working
  BY DEF Working
<1>3. Released
  BY DEF Released, SickNeverServes, Nothing
<1>4. Bounded
  BY FS_EmptySet DEF Bounded, ImagesBounded
<1> QED BY <1>1, <1>2, <1>3, <1>4 DEF DepInv

\* What is queued goes behind what is there.
LEMMA QueueKeeps ==
  ASSUME DepInv, NEW j \in BuildJob, builds' = Append(builds, j),
         j.kind # "update" => j.id \in Id /\ j.from \in Id, Cardinality(j.keep) < RollbackDepth,
         UNCHANGED <<phase, depNode>>
  PROVE  /\ builds' \in Seq(BuildJob)
         /\ Working' /\ Released' /\ Bounded'
         /\ builds # <<>> => Job' = Job
<1> USE DEF DepInv, DepTypes, depNode
<1>1. builds' \in Seq(BuildJob) /\ builds' # <<>>
  OBVIOUS
<1>2. DOMAIN builds' = DOMAIN builds \cup {Len(builds) + 1}
  OBVIOUS
<1>3. \A i \in DOMAIN builds : builds'[i] = builds[i]
  OBVIOUS
<1>4. builds'[Len(builds) + 1] = j
  OBVIOUS
<1>5. builds # <<>> => Job' = Job
  BY DEF Job
<1>6. Working'
  BY <1>1, <1>2, <1>3, <1>4, <1>5 DEF Working
<1>7. Released'
  BY DEF Released, SickNeverServes
<1>8. Bounded'
  BY <1>2, <1>3, <1>4 DEF Bounded, ImagesBounded
<1> QED BY <1>1, <1>5, <1>6, <1>7, <1>8

\* The first job ends, the others are as they were.
LEMMA TailKeeps ==
  ASSUME DepInv, builds # <<>>, builds' = Tail(builds)
  PROVE  /\ builds' \in Seq(BuildJob)
         /\ \A i \in DOMAIN builds' : \E k \in DOMAIN builds : builds'[i] = builds[k]
<1> USE DEF DepInv, DepTypes
<1>1. builds' \in Seq(BuildJob)
  OBVIOUS
<1>2. \A i \in DOMAIN builds' : i + 1 \in DOMAIN builds /\ builds'[i] = builds[i + 1]
  OBVIOUS
<1> QED BY <1>1, <1>2

LEMMA JobIsFirst ==
  ASSUME DepInv, builds # <<>>
  PROVE  Job \in BuildJob /\ 1 \in DOMAIN builds /\ Job = builds[1]
BY DEF Job, DepInv, DepTypes

LEMMA NewIdIsNat == NewId \in Nat
<1>1. Inserted \in SUBSET Id
  BY DEF Inserted
<1>2. Cardinality(Inserted) \in Nat
  BY <1>1, IdIsFinite, FS_Subset, FS_CardinalityType
<1> QED BY <1>2 DEF NewId

\* A new row and its job.
LEMMA NewKeeps ==
  ASSUME DepInv, NEW why \in {"create", "push", "rollback"}, NEW kind \in {"create", "deploy", "rollback"},
         NEW from \in Id, NEW keep \in SUBSET Id, Cardinality(keep) < RollbackDepth,
         NewDeployment(why, [kind |-> kind, id |-> NewId, from |-> from, keep |-> keep])
  PROVE  DepInv'
<1> DEFINE j == [kind |-> kind, id |-> NewId, from |-> from, keep |-> keep]
<1> USE DEF NewDeployment
<1>1. j \in BuildJob /\ j.id \in Id /\ j.from \in Id /\ j.keep = keep
  BY DEF BuildJob
<1>2. builds' = Append(builds, j) /\ UNCHANGED <<phase, depNode, outcomes, updates, deaths>>
  OBVIOUS
<1>3. builds' \in Seq(BuildJob) /\ Working' /\ Released' /\ Bounded'
  <2> HIDE DEF j
  <2> QED BY <1>1, <1>2, QueueKeeps
<1>4. DepTypes'
  BY <1>2, <1>3 DEF DepInv, DepTypes, depNode
<1> QED BY <1>3, <1>4 DEF DepInv

LEMMA RequestsKeep ==
  ASSUME DepInv, CreateApp \/ Deploy \/ Rollback \/ Update
  PROVE  DepInv'
<1>1. RollbackDepth \in Nat /\ 0 < RollbackDepth
  BY DeploymentsBounds
<1>2. Cardinality({}) = 0
  BY FS_EmptySet
<1>3. CASE CreateApp
  <2>1. NewDeployment("create", [kind |-> "create", id |-> NewId, from |-> NewId, keep |-> {}]) /\ NewId \in Id
    BY <1>3 DEF CreateApp, NewDeployment
  <2> QED BY <1>1, <1>2, <2>1, NewKeeps
<1>4. CASE Deploy
  <2>1. NewDeployment("push", [kind |-> "deploy", id |-> NewId, from |-> NewId, keep |-> KeepImages]) /\ NewId \in Id
    BY <1>4 DEF Deploy, NewDeployment
  <2> QED BY <2>1, KeepLeavesRoom, NewKeeps
<1>5. CASE Rollback
  <2>1. PICK target \in Candidates :
          NewDeployment("rollback", [kind |-> "rollback", id |-> NewId, from |-> target, keep |-> {}])
    BY <1>5 DEF Rollback
  <2>2. target \in Id
    BY DEF Candidates
  <2> QED BY <1>1, <1>2, <2>1, <2>2, NewKeeps
<1>6. CASE Update
  <2> DEFINE j == [kind |-> "update", id |-> Nothing, from |-> Nothing, keep |-> {}]
  <2>1. j \in BuildJob /\ j.kind = "update" /\ j.keep = {}
    BY DEF BuildJob
  <2>2. builds' = Append(builds, j) /\ UNCHANGED <<phase, depNode>>
    BY <1>6 DEF Update
  <2>3. builds' \in Seq(BuildJob) /\ Working' /\ Released' /\ Bounded'
    <3> HIDE DEF j
    <3> QED BY <1>1, <1>2, <2>1, <2>2, QueueKeeps
  <2>4. DepTypes'
    BY <1>6, <2>3 DEF Update, DepInv, DepTypes, depNode
  <2> QED BY <2>3, <2>4 DEF DepInv
<1> QED BY <1>3, <1>4, <1>5, <1>6

LEMMA FoldDeploymentKeeps ==
  ASSUME DepInv, FoldDeployment
  PROVE  DepInv'
<1> USE DEF DepInv, DepTypes
<1>1. PICK o \in outcomes :
        /\ outcomes' = outcomes \ {o}
        /\ deployment' = IF o.id = Nothing THEN deployment
                         ELSE [deployment EXCEPT ![o.id] = Outcome(o.ok)]
        /\ UNCHANGED <<trigger, builds, phase, depNode, updates, deaths>>
  BY DEF FoldDeployment
<1>2. o.id \in Id \cup {Nothing} /\ Outcome(o.ok) \in {"live", "failed"}
  BY DEF Outcome
<1>3. deployment' \in [Id -> {"none", "queued", "live", "failed"}]
  BY <1>1, <1>2
<1>4. DepTypes'
  BY <1>1, <1>3 DEF depNode
<1>5. Working'
  BY <1>1 DEF Working, Job, depNode
<1>6. Released'
  BY <1>1 DEF Released, SickNeverServes, depNode
<1>7. Bounded'
  BY <1>1 DEF Bounded, ImagesBounded, depNode
<1> QED BY <1>4, <1>5, <1>6, <1>7

\* The end of a job, in the middle of a step.
LEMMA EndKeeps ==
  ASSUME DepInv, builds # <<>>, builds' = Tail(builds)
  PROVE  /\ builds' \in Seq(BuildJob)
         /\ \A i \in DOMAIN builds' :
              /\ builds'[i].kind # "update" => builds'[i].id \in Id /\ builds'[i].from \in Id
              /\ Cardinality(builds'[i].keep) < RollbackDepth
<1>1. /\ \A i \in DOMAIN builds : builds[i].kind # "update" => builds[i].id \in Id /\ builds[i].from \in Id
      /\ \A i \in DOMAIN builds : Cardinality(builds[i].keep) < RollbackDepth
  BY DEF DepInv, Working, Bounded
<1> QED BY <1>1, TailKeeps

LEMMA JobEndsKeeps ==
  ASSUME DepInv, builds # <<>>, NEW ok \in BOOLEAN, JobEnds(ok)
  PROVE  /\ builds' \in Seq(BuildJob) /\ phase' = "idle"
         /\ outcomes' \in SUBSET [id : Id \cup {Nothing}, ok : BOOLEAN]
         /\ \A i \in DOMAIN builds' :
              /\ builds'[i].kind # "update" => builds'[i].id \in Id /\ builds'[i].from \in Id
              /\ Cardinality(builds'[i].keep) < RollbackDepth
<1>1. builds' = Tail(builds) /\ phase' = "idle" /\ outcomes' = outcomes \cup {[id |-> Job.id, ok |-> ok]}
  BY DEF JobEnds, Enters
<1>2. Job.id \in Id \cup {Nothing}
  BY JobIsFirst DEF BuildJob
<1>3. outcomes' \in SUBSET [id : Id \cup {Nothing}, ok : BOOLEAN]
  BY <1>1, <1>2 DEF DepInv, DepTypes
<1> QED BY <1>1, <1>3, EndKeeps

LEMMA BuildKeeps ==
  ASSUME DepInv, Begin \/ Build \/ RunBeside
  PROVE  DepInv'
<1> USE DEF DepInv, DepTypes, Enters
<1>1. CASE Begin
  <2> USE <1>1 DEF Begin, depNode
  <2>1. DepTypes'
    BY DEF ReleasePhase
  <2>2. Working'
    BY DEF Working, Job
  <2>3. Released' /\ Bounded'
    BY DEF Released, SickNeverServes, Bounded, ImagesBounded
  <2> QED BY <2>1, <2>2, <2>3
<1>2. CASE Build
  <2>1. phase = "build" /\ builds # <<>> /\ Job.kind # "update"
    BY <1>2 DEF Build, Working
  <2>2. Job.from \in Id /\ Job = builds[1] /\ Job.id \in Id
    BY <2>1, JobIsFirst DEF Working
  <2>3. UNCHANGED <<deployment, trigger, images, serving, beside, joined, updates, deaths>>
    BY <1>2 DEF Build
  <2>4. CASE current' = Job.from /\ Enters("run") /\ UNCHANGED <<builds, outcomes>>
    <3>1. DepTypes'
      BY <2>2, <2>3, <2>4 DEF ReleasePhase
    <3>2. Working'
      BY <2>1, <2>4 DEF Working, Job
    <3>3. Released' /\ Bounded'
      BY <2>3, <2>4 DEF Released, SickNeverServes, Bounded, ImagesBounded
    <3> QED BY <3>1, <3>2, <3>3
  <2>5. CASE JobEnds(FALSE) /\ UNCHANGED current
    <3>1. /\ builds' \in Seq(BuildJob) /\ phase' = "idle"
          /\ outcomes' \in SUBSET [id : Id \cup {Nothing}, ok : BOOLEAN]
          /\ \A i \in DOMAIN builds' :
               /\ builds'[i].kind # "update" => builds'[i].id \in Id /\ builds'[i].from \in Id
               /\ Cardinality(builds'[i].keep) < RollbackDepth
      BY <2>1, <2>5, JobEndsKeeps
    <3>2. DepTypes'
      BY <2>3, <2>5, <3>1 DEF ReleasePhase
    <3>3. Working'
      BY <3>1 DEF Working
    <3>4. Released' /\ Bounded'
      BY <2>3, <3>1 DEF Released, SickNeverServes, Bounded, ImagesBounded
    <3> QED BY <3>2, <3>3, <3>4
  <2> QED BY <1>2, <2>4, <2>5 DEF Build
<1>3. CASE RunBeside
  <2>1. phase = "run" /\ builds # <<>>
    BY <1>3 DEF RunBeside, Working
  <2>2. joined' = FALSE /\ UNCHANGED <<deployment, trigger, images, current, serving, updates, deaths>>
    BY <1>3 DEF RunBeside
  <2>3. CASE current = Nothing
    <3>1. JobEnds(FALSE) /\ beside' = Nothing
      BY <1>3, <2>3 DEF RunBeside
    <3>2. /\ builds' \in Seq(BuildJob) /\ phase' = "idle"
          /\ outcomes' \in SUBSET [id : Id \cup {Nothing}, ok : BOOLEAN]
          /\ \A i \in DOMAIN builds' :
               /\ builds'[i].kind # "update" => builds'[i].id \in Id /\ builds'[i].from \in Id
               /\ Cardinality(builds'[i].keep) < RollbackDepth
      BY <2>1, <3>1, JobEndsKeeps
    <3>3. DepTypes'
      BY <2>2, <3>1, <3>2 DEF ReleasePhase
    <3>4. Working'
      BY <3>2 DEF Working
    <3>5. Released' /\ Bounded'
      BY <2>2, <3>2 DEF Released, SickNeverServes, Bounded, ImagesBounded
    <3> QED BY <3>3, <3>4, <3>5
  <2>4. CASE current # Nothing
    <3>1. phase' = "health" /\ beside' = current /\ UNCHANGED <<builds, outcomes>>
      BY <1>3, <2>4 DEF RunBeside
    <3>2. DepTypes'
      BY <2>2, <3>1 DEF ReleasePhase
    <3>3. Working'
      BY <2>1, <3>1 DEF Working, Job
    <3>4. Released' /\ Bounded'
      BY <2>2, <2>4, <3>1 DEF Released, SickNeverServes, Bounded, ImagesBounded
    <3> QED BY <3>2, <3>3, <3>4
  <2> QED BY <2>3, <2>4
<1> QED BY <1>1, <1>2, <1>3

LEMMA ReleaseKeeps ==
  ASSUME DepInv, Answers \/ NeverAnswers \/ RemoveOld
  PROVE  DepInv'
<1> USE DEF DepInv, DepTypes, Enters
<1>1. CASE Answers
  <2> USE <1>1 DEF Answers
  <2>1. DepTypes'
    BY DEF ReleasePhase
  <2>2. Working'
    BY DEF Working, Job
  <2>3. Released'
    BY DEF Released, SickNeverServes, Healthy
  <2>4. Bounded'
    BY DEF Bounded, ImagesBounded
  <2> QED BY <2>1, <2>2, <2>3, <2>4
<1>2. CASE NeverAnswers
  <2>1. phase = "health" /\ builds # <<>> /\ JobEnds(FALSE) /\ beside' = Nothing
        /\ UNCHANGED <<deployment, trigger, images, current, serving, joined, updates, deaths>>
    BY <1>2 DEF NeverAnswers, Working
  <2>2. /\ builds' \in Seq(BuildJob) /\ phase' = "idle"
        /\ outcomes' \in SUBSET [id : Id \cup {Nothing}, ok : BOOLEAN]
        /\ \A i \in DOMAIN builds' :
             /\ builds'[i].kind # "update" => builds'[i].id \in Id /\ builds'[i].from \in Id
             /\ Cardinality(builds'[i].keep) < RollbackDepth
    BY <2>1, JobEndsKeeps
  <2>3. DepTypes'
    BY <2>1, <2>2 DEF ReleasePhase
  <2>4. Working'
    BY <2>2 DEF Working
  <2>5. Released'
    BY <2>1, <2>2, DeploymentsBounds DEF Released, SickNeverServes, Nothing
  <2>6. Bounded'
    BY <2>1, <2>2 DEF Bounded, ImagesBounded
  <2> QED BY <2>3, <2>4, <2>5, <2>6
<1>3. CASE RemoveOld
  <2> USE <1>3 DEF RemoveOld
  <2>1. DepTypes'
    BY DEF ReleasePhase
  <2>2. Working'
    BY DEF Working, Job
  <2>3. Released'
    BY DeploymentsBounds DEF Released, SickNeverServes, Nothing
  <2>4. Bounded'
    BY DEF Bounded, ImagesBounded
  <2> QED BY <2>1, <2>2, <2>3, <2>4
<1> QED BY <1>1, <1>2, <1>3

LEMMA RenameKeeps ==
  ASSUME DepInv, Rename
  PROVE  DepInv'
<1> USE DEF DepInv, DepTypes, Enters
<1>1. /\ phase = "rename" /\ builds # <<>> /\ joined /\ beside # Nothing /\ beside \notin Sick
      /\ serving' = beside /\ beside' = Nothing /\ joined' = FALSE
      /\ UNCHANGED <<deployment, trigger, images, current, updates, deaths>>
  BY DEF Rename, Working, Released, SickNeverServes
<1>2. Released'
  <2>1. phase' \in {"keep", "idle"}
    BY DEF Rename, JobEnds
  <2> QED BY <1>1, <2>1 DEF Released, SickNeverServes
<1>3. CASE Job.kind = "deploy"
  <2>1. phase' = "keep" /\ UNCHANGED <<builds, outcomes>>
    BY <1>3 DEF Rename
  <2>2. DepTypes'
    BY <1>1, <2>1 DEF ReleasePhase
  <2>3. Working'
    BY <1>1, <1>3, <2>1 DEF Working, Job
  <2>4. Bounded'
    BY <1>1, <2>1 DEF Bounded, ImagesBounded
  <2> QED BY <1>2, <2>2, <2>3, <2>4
<1>4. CASE Job.kind # "deploy"
  <2>1. JobEnds(TRUE)
    BY <1>4 DEF Rename
  <2>2. /\ builds' \in Seq(BuildJob) /\ phase' = "idle"
        /\ outcomes' \in SUBSET [id : Id \cup {Nothing}, ok : BOOLEAN]
        /\ \A i \in DOMAIN builds' :
             /\ builds'[i].kind # "update" => builds'[i].id \in Id /\ builds'[i].from \in Id
             /\ Cardinality(builds'[i].keep) < RollbackDepth
    BY <1>1, <2>1, JobEndsKeeps
  <2>3. DepTypes'
    BY <1>1, <2>2 DEF ReleasePhase
  <2>4. Working' /\ Bounded'
    BY <1>1, <2>2 DEF Working, Bounded, ImagesBounded
  <2> QED BY <1>2, <2>3, <2>4
<1> QED BY <1>3, <1>4

LEMMA KeepImageKeeps ==
  ASSUME DepInv, KeepImage
  PROVE  DepInv'
<1> USE DEF DepInv, DepTypes
<1>1. /\ phase = "keep" /\ builds # <<>> /\ Job.kind = "deploy" /\ JobEnds(TRUE)
      /\ images' = (images \cap Job.keep) \cup {Job.id}
      /\ UNCHANGED <<deployment, trigger, current, serving, beside, joined, updates, deaths>>
  BY DEF KeepImage, Working
<1>2. /\ builds' \in Seq(BuildJob) /\ phase' = "idle"
      /\ outcomes' \in SUBSET [id : Id \cup {Nothing}, ok : BOOLEAN]
      /\ \A i \in DOMAIN builds' :
           /\ builds'[i].kind # "update" => builds'[i].id \in Id /\ builds'[i].from \in Id
           /\ Cardinality(builds'[i].keep) < RollbackDepth
  BY <1>1, JobEndsKeeps
<1>3. Job.id \in Id /\ Job.keep \in SUBSET Id /\ Cardinality(Job.keep) < RollbackDepth
  BY <1>1, JobIsFirst DEF Working, Bounded, BuildJob
<1>4. Cardinality(images') <= RollbackDepth
  <2>1. IsFiniteSet(Job.keep) /\ Cardinality(Job.keep) \in Nat
    BY <1>3, IdIsFinite, FS_Subset, FS_CardinalityType
  <2>2. IsFiniteSet(images \cap Job.keep) /\ Cardinality(images \cap Job.keep) <= Cardinality(Job.keep)
        /\ Cardinality(images \cap Job.keep) \in Nat
    BY <2>1, FS_Subset, FS_CardinalityType
  <2> DEFINE S == images \cap Job.keep
  <2>3. ASSUME NEW T, T = S \cup {Job.id}
        PROVE  Cardinality(T) \in Nat /\ Cardinality(T) <= Cardinality(S) + 1
    <3> HIDE DEF S
    <3>1. IsFiniteSet(S) /\ Cardinality(S) \in Nat
      BY <2>2 DEF S
    <3>2. IsFiniteSet(T) /\ Cardinality(T) = IF Job.id \in S THEN Cardinality(S) ELSE Cardinality(S) + 1
      BY <2>3, <3>1, FS_AddElement
    <3> QED BY <3>1, <3>2
  <2>4. Cardinality(images') \in Nat /\ Cardinality(images') <= Cardinality(S) + 1
    <3> HIDE DEF S
    <3>1. images' = S \cup {Job.id}
      BY <1>1 DEF S
    <3> QED BY <2>3, <3>1
  <2> QED BY <1>3, <2>1, <2>2, <2>4, DeploymentsBounds
<1>5. DepTypes'
  BY <1>1, <1>2, <1>3 DEF ReleasePhase
<1>6. Working'
  BY <1>2 DEF Working
<1>7. Released'
  BY <1>1, <1>2 DEF Released, SickNeverServes
<1>8. Bounded'
  BY <1>2, <1>4 DEF Bounded, ImagesBounded
<1> QED BY <1>5, <1>6, <1>7, <1>8

LEMMA AgentEndsKeeps ==
  ASSUME DepInv, AgentEnds
  PROVE  DepInv'
<1> USE DEF DepInv, DepTypes
<1>1. /\ builds # <<>> /\ builds' = Tail(builds) /\ phase' = "idle" /\ deaths' = deaths + 1
      /\ UNCHANGED <<deployment, trigger, depNode, outcomes, updates>>
  BY DEF AgentEnds, Working, Enters
<1>2. /\ builds' \in Seq(BuildJob)
      /\ \A i \in DOMAIN builds' :
           /\ builds'[i].kind # "update" => builds'[i].id \in Id /\ builds'[i].from \in Id
           /\ Cardinality(builds'[i].keep) < RollbackDepth
  BY <1>1, EndKeeps
<1>3. DepTypes'
  BY <1>1, <1>2 DEF ReleasePhase, depNode
<1>4. Working' /\ Released' /\ Bounded'
  BY <1>1, <1>2 DEF Working, Released, SickNeverServes, Bounded, ImagesBounded, depNode
<1> QED BY <1>3, <1>4

LEMMA DepStep ==
  ASSUME DepInv, [DeploymentsNext]_depVars
  PROVE  DepInv'
<1>1. CASE CreateApp \/ Deploy \/ Rollback \/ Update
  BY <1>1, RequestsKeep
<1>2. CASE FoldDeployment
  BY <1>2, FoldDeploymentKeeps
<1>3. CASE Begin \/ Build \/ RunBeside
  BY <1>3, BuildKeeps
<1>4. CASE Answers \/ NeverAnswers \/ RemoveOld
  BY <1>4, ReleaseKeeps
<1>5. CASE Rename
  BY <1>5, RenameKeeps
<1>6. CASE KeepImage
  BY <1>6, KeepImageKeeps
<1>7. CASE AgentEnds
  BY <1>7, AgentEndsKeeps
<1>8. CASE UNCHANGED depVars
  <2> USE <1>8 DEF depVars
  <2>1. DepTypes'
    BY DEF DepInv, DepTypes
  <2>2. Working' /\ Released' /\ Bounded'
    BY DEF DepInv, Working, Job, Released, SickNeverServes, Bounded, ImagesBounded
  <2> QED BY <2>1, <2>2 DEF DepInv
<1> QED BY <1>1, <1>2, <1>3, <1>4, <1>5, <1>6, <1>7, <1>8 DEF DeploymentsNext, Release

\* Some container that answered is connected, from the first release on.
LEMMA ServesOn ==
  ASSUME DepInv, [DeploymentsNext]_depVars, serving # Nothing, deaths = 0
  PROVE  serving' # Nothing \/ joined'
<1>1. CASE RemoveOld
  BY <1>1 DEF RemoveOld, DepInv, Released
<1>2. CASE Rename
  BY <1>2 DEF Rename, DepInv, Released
<1>3. ASSUME serving' = serving PROVE serving' # Nothing
  BY <1>3
<1>4. [DeploymentsNext]_depVars => RemoveOld \/ Rename \/ serving' = serving
  BY DEF DeploymentsNext, depVars, depNode, Release, CreateApp, Deploy, Rollback, Update, NewDeployment, FoldDeployment,
         Begin, Build, RunBeside, Answers, NeverAnswers, KeepImage, AgentEnds
<1> QED BY <1>1, <1>2, <1>3, <1>4

-----------------------------------------------------------------------------
(* One build after another.  When all is settled, what serves and what is  *)
(* offered follow from the job that was done last: it built the newest     *)
(* row, or nothing, and kept what is offered beside its own.               *)

Patient == ~Impatient /\ Moody = {}

OneAtWork ==
  \/ builds = <<>> /\ \A o, p \in outcomes : o = p
  \/ Len(builds) = 1 /\ outcomes = {}

Numbered == \A d \in Id : deployment[d] # "none" <=> d < NewId

NewestRow(d) == d + 1 = NewId /\ deployment[d] = "queued" /\ (trigger[d] = "create" => d = 1)

JobFits ==
  builds # <<>> =>
    /\ Job.kind # "update" => NewestRow(Job.id)
    /\ Job.kind = "update" => Job.id = Nothing
    /\ Job.kind = "create" => Job.from = Job.id /\ trigger[Job.id] = "create"
    /\ Job.kind = "deploy" => Job.from = Job.id /\ trigger[Job.id] = "push" /\ Job.keep = KeepImages
    /\ Job.kind = "rollback" => Job.from \in Candidates /\ trigger[Job.id] = "rollback"

OutcomeFits == \A o \in outcomes : o.id # Nothing => NewestRow(o.id)

Begun == Inserted = {} => Settled

QueueInv == OneAtWork /\ Begun /\ Numbered /\ JobFits /\ OutcomeFits

There(d)  == trigger[d] = "create" \/ d \in images
Pushed(o) == o.ok /\ o.id # Nothing /\ trigger[o.id] = "push"

OfferedFits ==
  deaths = 0 =>
    /\ (\A o \in outcomes : ~Pushed(o)) => \A d \in Candidates : There(d)
    /\ \A o \in outcomes : Pushed(o) => o.id \in images /\ \A d \in KeepImages : There(d)

\* What went live, or will when the outcome is folded in.
GoesLive(d) == deployment[d] = "live" \/ \E o \in outcomes : o.ok /\ o.id = d

AtIt == phase \in {"run", "health", "remove", "rename", "keep"}

CurrentFits ==
  /\ deaths = 0 /\ current # Nothing =>
       \/ current \in Sick \/ GoesLive(current)
       \/ AtIt /\ Job.kind # "update" /\ current = Job.from
  /\ AtIt /\ Job.kind # "update" => current = Job.from
  /\ phase \in {"health", "remove", "rename"} => beside = current

ServingFits ==
  deaths = 0 /\ serving # Nothing => GoesLive(serving) \/ (phase = "keep" /\ serving = Job.id)

NodeInv == OfferedFits /\ CurrentFits /\ ServingFits

PatInv == QueueInv /\ NodeInv

Built == {d \in Id : deployment[d] = "live" /\ trigger[d] # "rollback"}
Top(S, k) == {d \in S : Cardinality({e \in S : e > d}) < k}

LEMMA CandidatesAreTop ==
  /\ Candidates = Top(Built, RollbackDepth) /\ KeepImages = Top(Candidates, RollbackDepth - 1)
  /\ Candidates' = Top(Built', RollbackDepth) /\ KeepImages' = Top(Candidates', RollbackDepth - 1)
BY DEF Candidates, KeepImages, Top, Built

LEMMA SameBuilt ==
  ASSUME Built' = Built
  PROVE  Candidates' = Candidates /\ KeepImages' = KeepImages
BY CandidatesAreTop

LEMMA SameRows ==
  ASSUME UNCHANGED <<deployment, trigger>>
  PROVE  /\ Candidates' = Candidates /\ KeepImages' = KeepImages /\ NewId' = NewId /\ Inserted' = Inserted
         /\ Numbered => Numbered'
         /\ \A d : NewestRow(d)' <=> NewestRow(d)
<1>1. Built' = Built
  BY DEF Built
<1>2. NewId' = NewId /\ Inserted' = Inserted
  BY DEF NewId, Inserted
<1>3. Candidates' = Candidates /\ KeepImages' = KeepImages
  BY <1>1, SameBuilt
<1> QED BY <1>2, <1>3 DEF Numbered, NewestRow

\* A row of its own for a new job.
LEMMA NewRowFits ==
  ASSUME DepInv, Numbered, NEW why \in {"create", "push", "rollback"}, NewId \in Id, NewId = 1 \/ why # "create",
         deployment' = [deployment EXCEPT ![NewId] = "queued"], trigger' = [trigger EXCEPT ![NewId] = why]
  PROVE  /\ Candidates' = Candidates /\ KeepImages' = KeepImages
         /\ Numbered' /\ trigger'[NewId] = why /\ \A n : n = NewId => NewestRow(n)'
         /\ deployment[NewId] = "none" /\ Inserted' # {}
         /\ \A d \in Id : deployment[d] # "none" => deployment'[d] = deployment[d] /\ trigger'[d] = trigger[d]
<1> USE DEF DepInv, DepTypes
<1>1. NewId \in Nat
  BY NewIdIsNat
<1>2. deployment[NewId] = "none"
  BY <1>1 DEF Numbered
<1>3. \A d \in Id : d # NewId => deployment'[d] = deployment[d] /\ trigger'[d] = trigger[d]
  OBVIOUS
<1>4. deployment'[NewId] = "queued" /\ trigger'[NewId] = why
  OBVIOUS
<1>5. Built' = Built
  BY <1>2, <1>3, <1>4 DEF Built
<1>6. NewId' = NewId + 1
  <2>1. Inserted' = Inserted \cup {NewId}
    BY <1>2, <1>3, <1>4 DEF Inserted
  <2>2. NewId \notin Inserted
    BY <1>2 DEF Inserted
  <2>3. Inserted \in SUBSET Id
    BY DEF Inserted
  <2>4. IsFiniteSet(Inserted)
    BY <2>3, IdIsFinite, FS_Subset
  <2>5. Cardinality(Inserted \cup {NewId}) = Cardinality(Inserted) + 1
    BY <2>2, <2>4, FS_AddElement
  <2> QED BY <2>1, <2>5 DEF NewId
<1>7. Numbered'
  <2>1. \A d \in Id : d \in Int
    BY DeploymentsBounds DEF Id
  <2>2. ASSUME NEW d \in Id PROVE deployment'[d] # "none" <=> d < NewId + 1
    <3>1. CASE d = NewId
      BY <1>1, <1>4, <3>1
    <3>2. CASE d # NewId
      BY <1>1, <1>3, <2>1, <3>2 DEF Numbered
    <3> QED BY <3>1, <3>2
  <2> QED BY <1>6, <2>2 DEF Numbered
<1>8. \A n : n = NewId => NewestRow(n)'
  <2>1. NewId' = NewId + 1 /\ deployment'[NewId] = "queued" /\ (trigger'[NewId] = "create" => NewId = 1)
    BY <1>4, <1>6
  <2>2. ASSUME NEW n, n = NewId PROVE NewestRow(n)'
    BY <2>1, <2>2 DEF NewestRow
  <2> QED BY <2>2
<1>9. Candidates' = Candidates /\ KeepImages' = KeepImages
  BY <1>5, SameBuilt
<1>10. Inserted' # {}
  BY <1>4 DEF Inserted
<1> QED BY <1>2, <1>3, <1>4, <1>7, <1>8, <1>9, <1>10

LEMMA SettledIs ==
  ASSUME DepInv, PatInv, Settled
  PROVE  /\ builds = <<>> /\ outcomes = {} /\ phase = "idle"
         /\ deaths = 0 => \A d \in Candidates : There(d)
         /\ deaths = 0 /\ current # Nothing => current \in Sick \/ deployment[current] = "live"
         /\ deaths = 0 /\ serving # Nothing => deployment[serving] = "live"
<1>1. builds = <<>> /\ outcomes = {} /\ phase = "idle"
  BY DEF Settled, DepInv, Working
<1>2. ~AtIt
  BY <1>1 DEF AtIt
<1> QED BY <1>1, <1>2 DEF PatInv, NodeInv, OfferedFits, CurrentFits, ServingFits, GoesLive

LEMMA OneJob ==
  ASSUME NEW j
  PROVE  /\ Append(<<>>, j) = <<j>> /\ Len(<<j>>) = 1 /\ Head(<<j>>) = j /\ <<j>> # <<>> /\ Tail(<<j>>) = <<>>
OBVIOUS

LEMMA NewJobFits ==
  ASSUME DepInv, PatInv, Settled, NEW why \in {"create", "push", "rollback"}, NEW j \in BuildJob,
         NewId = 1 \/ why # "create", j.kind # "update", j.id = NewId,
         j.kind = "create" => j.from = NewId /\ why = "create",
         j.kind = "deploy" => j.from = NewId /\ why = "push" /\ j.keep = KeepImages,
         j.kind = "rollback" => j.from \in Candidates /\ why = "rollback",
         NewDeployment(why, j)
  PROVE  PatInv'
<1>1. /\ builds = <<>> /\ outcomes = {} /\ phase = "idle"
      /\ deaths = 0 => \A d \in Candidates : There(d)
      /\ deaths = 0 /\ current # Nothing => current \in Sick \/ deployment[current] = "live"
      /\ deaths = 0 /\ serving # Nothing => deployment[serving] = "live"
  BY SettledIs
<1>2. /\ NewId \in Id
      /\ deployment' = [deployment EXCEPT ![NewId] = "queued"] /\ trigger' = [trigger EXCEPT ![NewId] = why]
      /\ builds' = Append(builds, j)
      /\ UNCHANGED <<phase, images, current, serving, beside, joined, outcomes, updates, deaths>>
  BY DEF NewDeployment, depNode
<1>3. Numbered
  BY DEF PatInv, QueueInv
<1>4. /\ Candidates' = Candidates /\ KeepImages' = KeepImages
      /\ Numbered' /\ trigger'[NewId] = why /\ \A n : n = NewId => NewestRow(n)'
      /\ deployment[NewId] = "none" /\ Inserted' # {}
      /\ \A d \in Id : deployment[d] # "none" => deployment'[d] = deployment[d] /\ trigger'[d] = trigger[d]
  <2> HIDE DEF DepInv
  <2> QED BY <1>2, <1>3, NewRowFits
<1>5. Len(builds') = 1 /\ Job' = j /\ builds' # <<>>
  <2>1. builds' = <<j>>
    BY <1>1, <1>2, OneJob
  <2> QED BY <2>1, OneJob DEF Job
<1>6. QueueInv'
  <2>1. OneAtWork'
    BY <1>1, <1>2, <1>5 DEF OneAtWork
  <2>2. OutcomeFits'
    BY <1>1, <1>2 DEF OutcomeFits
  <2>3. Job'.id = NewId /\ trigger'[Job'.id] = why
    BY <1>4, <1>5
  <2>4. NewestRow(Job.id)'
    BY <1>4, <1>5 DEF NewestRow
  <2>5. JobFits'
    BY <1>4, <1>5, <2>3, <2>4 DEF JobFits
  <2>6. Begun'
    BY <1>4 DEF Begun
  <2> QED BY <1>4, <2>1, <2>2, <2>5, <2>6 DEF QueueInv
<1>7. OfferedFits'
  <2>1. ASSUME NEW d \in Candidates, There(d) PROVE There(d)'
    <3>1. d \in Id /\ deployment[d] = "live"
      BY DEF Candidates
    <3> QED BY <1>2, <1>4, <2>1, <3>1 DEF There
  <2> QED BY <1>1, <1>2, <1>4, <2>1 DEF OfferedFits
<1>8. CurrentFits' /\ ServingFits'
  <2>1. ~AtIt'
    BY <1>1, <1>2 DEF AtIt
  <2>2. deaths = 0 /\ current # Nothing => current \in Sick \/ deployment'[current] = "live"
    BY <1>1, <1>4 DEF DepInv, DepTypes
  <2>3. deaths = 0 /\ serving # Nothing => deployment'[serving] = "live"
    BY <1>1, <1>4 DEF DepInv, DepTypes
  <2> QED BY <1>1, <1>2, <2>1, <2>2, <2>3 DEF CurrentFits, ServingFits, GoesLive
<1> QED BY <1>6, <1>7, <1>8 DEF PatInv, NodeInv

LEMMA RequestsFit ==
  ASSUME Patient, DepInv, PatInv, CreateApp \/ Deploy \/ Rollback \/ Update
  PROVE  PatInv'
<1>1. CASE CreateApp
  <2> DEFINE j == [kind |-> "create", id |-> NewId, from |-> NewId, keep |-> {}]
  <2>1. Inserted = {} /\ NewDeployment("create", j) /\ NewId \in Id
    BY <1>1 DEF CreateApp, NewDeployment
  <2>2. NewId = 1
    BY <2>1, FS_EmptySet DEF NewId
  <2>3. Settled
    BY <2>1 DEF PatInv, QueueInv, Begun
  <2>4. j \in BuildJob /\ j.kind = "create" /\ j.id = NewId /\ j.from = NewId
    BY <2>1 DEF BuildJob
  <2> HIDE DEF j
  <2> QED BY <2>1, <2>2, <2>3, <2>4, NewJobFits
<1>2. CASE Deploy
  <2> DEFINE j == [kind |-> "deploy", id |-> NewId, from |-> NewId, keep |-> KeepImages]
  <2>1. Settled /\ NewDeployment("push", j) /\ NewId \in Id
    BY <1>2 DEF Deploy, NewDeployment, Patient
  <2>2. j \in BuildJob /\ j.kind = "deploy" /\ j.id = NewId /\ j.from = NewId /\ j.keep = KeepImages
    BY <2>1, KeepLeavesRoom DEF BuildJob
  <2> HIDE DEF j
  <2> QED BY <2>1, <2>2, NewJobFits
<1>3. CASE Rollback
  <2>1. PICK target \in Candidates :
          NewDeployment("rollback", [kind |-> "rollback", id |-> NewId, from |-> target, keep |-> {}])
    BY <1>3 DEF Rollback
  <2> DEFINE j == [kind |-> "rollback", id |-> NewId, from |-> target, keep |-> {}]
  <2>2. Settled /\ NewId \in Id /\ target \in Id
    BY <1>3, <2>1 DEF Rollback, NewDeployment, Patient, Candidates
  <2>3. j \in BuildJob /\ j.kind = "rollback" /\ j.id = NewId /\ j.from = target
    BY <2>2 DEF BuildJob
  <2> HIDE DEF j
  <2>4. NewDeployment("rollback", j)
    BY <2>1 DEF j
  <2> QED BY <2>2, <2>3, <2>4, NewJobFits
<1>4. CASE Update
  <2> DEFINE j == [kind |-> "update", id |-> Nothing, from |-> Nothing, keep |-> {}]
  <2>1. /\ Settled /\ builds' = Append(builds, j)
        /\ UNCHANGED <<deployment, trigger, phase, images, current, serving, beside, joined, outcomes, deaths>>
    BY <1>4 DEF Update, Patient, depNode
  <2>2. /\ builds = <<>> /\ outcomes = {} /\ phase = "idle"
        /\ deaths = 0 => \A d \in Candidates : There(d)
        /\ deaths = 0 /\ current # Nothing => current \in Sick \/ deployment[current] = "live"
        /\ deaths = 0 /\ serving # Nothing => deployment[serving] = "live"
    BY <2>1, SettledIs
  <2>3. j.kind = "update" /\ j.id = Nothing
    OBVIOUS
  <2> HIDE DEF j
  <2>4. Len(builds') = 1 /\ Job' = j /\ builds' # <<>>
    <3>1. builds' = <<j>>
      BY <2>1, <2>2, OneJob
    <3> QED BY <3>1, OneJob DEF Job
  <2>5. /\ Candidates' = Candidates /\ KeepImages' = KeepImages /\ Numbered'
    BY <2>1, SameRows DEF PatInv, QueueInv
  <2>6. QueueInv'
    <3>1. JobFits'
      BY <2>3, <2>4 DEF JobFits
    <3>2. OutcomeFits' /\ OneAtWork'
      BY <2>1, <2>2, <2>4 DEF OutcomeFits, OneAtWork
    <3>3. Begun'
      <4>1. Inserted # {} /\ Inserted' = Inserted
        BY <1>4 DEF Update, Inserted
      <4> QED BY <4>1 DEF Begun
    <3> QED BY <2>5, <3>1, <3>2, <3>3 DEF QueueInv
  <2>7. OfferedFits'
    <3>1. \A d : There(d) => There(d)'
      BY <2>1 DEF There
    <3> QED BY <2>1, <2>2, <2>5, <3>1 DEF OfferedFits
  <2>8. CurrentFits' /\ ServingFits'
    <3>1. ~AtIt'
      BY <2>1, <2>2 DEF AtIt
    <3> QED BY <2>1, <2>2, <3>1 DEF CurrentFits, ServingFits, GoesLive
  <2> QED BY <2>6, <2>7, <2>8 DEF PatInv, NodeInv
<1> QED BY <1>1, <1>2, <1>3, <1>4

\* Steps of the agent that neither begin nor end a job.
LEMMA GoesOnFits ==
  ASSUME PatInv, UNCHANGED <<deployment, trigger, builds, outcomes>>
  PROVE  /\ QueueInv' /\ Job' = Job
         /\ Candidates' = Candidates /\ KeepImages' = KeepImages
         /\ \A d : GoesLive(d)' <=> GoesLive(d)
<1>1. /\ Candidates' = Candidates /\ KeepImages' = KeepImages /\ Inserted' = Inserted /\ Numbered'
      /\ \A d : NewestRow(d)' <=> NewestRow(d)
  BY SameRows DEF PatInv, QueueInv
<1>2. Job' = Job
  BY DEF Job
<1>3. JobFits'
  <2>1. NewestRow(Job.id) <=> NewestRow(Job.id)'
    BY <1>2, SameRows DEF NewestRow
  <2> QED BY <1>1, <1>2, <2>1 DEF JobFits, PatInv, QueueInv
<1>4. OneAtWork' /\ Begun' /\ OutcomeFits'
  BY <1>1 DEF OneAtWork, Begun, Settled, OutcomeFits, PatInv, QueueInv
<1> QED BY <1>1, <1>2, <1>3, <1>4 DEF QueueInv, GoesLive

\* The job ends, and nothing is queued behind it.
LEMMA EndsFit ==
  ASSUME DepInv, PatInv, builds # <<>>, NEW ok \in BOOLEAN, JobEnds(ok), UNCHANGED <<deployment, trigger>>
  PROVE  /\ QueueInv' /\ phase' = "idle" /\ outcomes = {}
         /\ Candidates' = Candidates /\ KeepImages' = KeepImages
         /\ outcomes' = {[id |-> Job.id, ok |-> ok]}
         /\ \A d : GoesLive(d)' <=> deployment[d] = "live" \/ (ok /\ Job.id = d)
<1>1. builds' = Tail(builds) /\ phase' = "idle" /\ outcomes' = outcomes \cup {[id |-> Job.id, ok |-> ok]}
  BY DEF JobEnds, Enters
<1>2. Len(builds) = 1 /\ outcomes = {}
  BY DEF PatInv, QueueInv, OneAtWork
<1>3. builds' = <<>>
  BY <1>1, <1>2 DEF DepInv, DepTypes
<1>4. /\ Candidates' = Candidates /\ KeepImages' = KeepImages /\ Inserted' = Inserted /\ Numbered'
      /\ \A d : NewestRow(d)' <=> NewestRow(d)
  BY SameRows DEF PatInv, QueueInv
<1>5. outcomes' = {[id |-> Job.id, ok |-> ok]}
  BY <1>1, <1>2
<1>6. Job.id # Nothing => NewestRow(Job.id)
  BY DEF PatInv, QueueInv, JobFits
<1>7. OutcomeFits'
  BY <1>4, <1>5, <1>6 DEF OutcomeFits
<1>8. OneAtWork' /\ JobFits'
  BY <1>3, <1>5 DEF OneAtWork, JobFits
<1>9. Begun'
  BY <1>4 DEF Begun, Settled, PatInv, QueueInv
<1>10. \A d : GoesLive(d)' <=> deployment[d] = "live" \/ (ok /\ Job.id = d)
  BY <1>5 DEF GoesLive
<1> QED BY <1>1, <1>2, <1>4, <1>5, <1>7, <1>8, <1>9, <1>10 DEF QueueInv

LEMMA AtWorkIs ==
  ASSUME DepInv, PatInv, phase # "idle"
  PROVE  /\ builds # <<>> /\ outcomes = {}
         /\ deaths = 0 => \A d \in Candidates : There(d)
         /\ \A d : GoesLive(d) <=> deployment[d] = "live"
<1>1. builds # <<>>
  BY DEF DepInv, Working
<1>2. outcomes = {}
  BY <1>1 DEF PatInv, QueueInv, OneAtWork
<1> QED BY <1>1, <1>2 DEF PatInv, NodeInv, OfferedFits, GoesLive

LEMMA BuildFits ==
  ASSUME DepInv, PatInv, Begin \/ Build \/ RunBeside
  PROVE  PatInv'
<1>1. CASE Begin
  <2>1. /\ phase = "idle" /\ phase' = IF Job.kind = "update" THEN "run" ELSE "build"
        /\ UNCHANGED <<deployment, trigger, builds, images, current, serving, beside, joined, outcomes, deaths>>
    BY <1>1 DEF Begin, Enters, depNode
  <2>2. /\ QueueInv' /\ Job' = Job /\ Candidates' = Candidates /\ KeepImages' = KeepImages
        /\ \A d : GoesLive(d)' <=> GoesLive(d)
    BY <2>1, GoesOnFits
  <2>3. OfferedFits'
    BY <2>1, <2>2 DEF OfferedFits, There, Pushed, PatInv, NodeInv
  <2>4. ~AtIt /\ (AtIt' => Job.kind = "update")
    BY <2>1 DEF AtIt
  <2>5. CurrentFits' /\ ServingFits'
    BY <2>1, <2>2, <2>4 DEF CurrentFits, ServingFits, PatInv, NodeInv
  <2> QED BY <2>2, <2>3, <2>5 DEF PatInv, NodeInv
<1>2. CASE Build
  <2>1. phase = "build" /\ UNCHANGED <<deployment, trigger, images, serving, beside, joined, deaths>>
    BY <1>2 DEF Build
  <2>2. /\ builds # <<>> /\ outcomes = {} /\ (deaths = 0 => \A d \in Candidates : There(d))
        /\ \A d : GoesLive(d) <=> deployment[d] = "live"
    BY <2>1, AtWorkIs
  <2>3. ~AtIt
    BY <2>1 DEF AtIt
  <2>4. CASE current' = Job.from /\ Enters("run") /\ UNCHANGED <<builds, outcomes>>
    <3>1. /\ QueueInv' /\ Job' = Job /\ Candidates' = Candidates /\ KeepImages' = KeepImages
          /\ \A d : GoesLive(d)' <=> GoesLive(d)
      BY <2>1, <2>4, GoesOnFits
    <3>2. OfferedFits'
      BY <2>1, <2>4, <3>1 DEF OfferedFits, There, Pushed, PatInv, NodeInv
    <3>3. Job.kind # "update"
      BY <2>1 DEF DepInv, Working
    <3>4. phase' = "run"
      BY <2>4 DEF Enters
    <3>5. CurrentFits'
      BY <2>4, <3>1, <3>3, <3>4 DEF CurrentFits, AtIt
    <3>6. ServingFits'
      BY <2>1, <3>1 DEF ServingFits, PatInv, NodeInv
    <3> QED BY <3>1, <3>2, <3>5, <3>6 DEF PatInv, NodeInv
  <2>5. CASE JobEnds(FALSE) /\ UNCHANGED current
    <3>1. /\ QueueInv' /\ phase' = "idle" /\ Candidates' = Candidates
          /\ outcomes' = {[id |-> Job.id, ok |-> FALSE]}
          /\ \A d : GoesLive(d)' <=> deployment[d] = "live"
      BY <2>1, <2>2, <2>5, EndsFit
    <3>2. OfferedFits'
      <4>1. \A o \in outcomes' : ~Pushed(o)'
        BY <3>1 DEF Pushed
      <4>2. \A d : There(d) => There(d)'
        BY <2>1 DEF There
      <4> QED BY <2>1, <2>2, <3>1, <4>1, <4>2 DEF OfferedFits
    <3>3. ~AtIt'
      BY <3>1 DEF AtIt
    <3>4. CurrentFits' /\ ServingFits'
      BY <2>1, <2>2, <2>3, <2>5, <3>1, <3>3 DEF CurrentFits, ServingFits, PatInv, NodeInv
    <3> QED BY <3>1, <3>2, <3>4 DEF PatInv, NodeInv
  <2> QED BY <1>2, <2>4, <2>5 DEF Build
<1>3. CASE RunBeside
  <2>1. phase = "run" /\ UNCHANGED <<deployment, trigger, images, current, serving, deaths>>
    BY <1>3 DEF RunBeside
  <2>2. /\ builds # <<>> /\ outcomes = {} /\ (deaths = 0 => \A d \in Candidates : There(d))
        /\ \A d : GoesLive(d) <=> deployment[d] = "live"
    BY <2>1, AtWorkIs
  <2>3. CASE current = Nothing
    <3>1. JobEnds(FALSE)
      BY <1>3, <2>3 DEF RunBeside
    <3>2. /\ QueueInv' /\ phase' = "idle" /\ Candidates' = Candidates
          /\ outcomes' = {[id |-> Job.id, ok |-> FALSE]}
          /\ \A d : GoesLive(d)' <=> deployment[d] = "live"
      BY <2>1, <2>2, <3>1, EndsFit
    <3>3. OfferedFits'
      <4>1. \A o \in outcomes' : ~Pushed(o)'
        BY <3>2 DEF Pushed
      <4>2. \A d : There(d) => There(d)'
        BY <2>1 DEF There
      <4> QED BY <2>1, <2>2, <3>2, <4>1, <4>2 DEF OfferedFits
    <3>4. ~AtIt'
      BY <3>2 DEF AtIt
    <3>5. CurrentFits' /\ ServingFits'
      BY <2>1, <2>2, <2>3, <3>2, <3>4 DEF CurrentFits, ServingFits, PatInv, NodeInv
    <3> QED BY <3>2, <3>3, <3>5 DEF PatInv, NodeInv
  <2>4. CASE current # Nothing
    <3>1. phase' = "health" /\ beside' = current /\ UNCHANGED <<builds, outcomes>>
      BY <1>3, <2>4 DEF RunBeside, Enters
    <3>2. /\ QueueInv' /\ Job' = Job /\ Candidates' = Candidates /\ KeepImages' = KeepImages
          /\ \A d : GoesLive(d)' <=> GoesLive(d)
      BY <2>1, <3>1, GoesOnFits
    <3>3. OfferedFits'
      BY <2>1, <3>1, <3>2 DEF OfferedFits, There, Pushed, PatInv, NodeInv
    <3>4. AtIt /\ AtIt'
      BY <2>1, <3>1 DEF AtIt
    <3>5. CurrentFits' /\ ServingFits'
      BY <2>1, <3>1, <3>2, <3>4 DEF CurrentFits, ServingFits, PatInv, NodeInv
    <3> QED BY <3>2, <3>3, <3>5 DEF PatInv, NodeInv
  <2> QED BY <2>3, <2>4
<1> QED BY <1>1, <1>2, <1>3

LEMMA ReleaseFits ==
  ASSUME Patient, DepInv, PatInv, Answers \/ NeverAnswers \/ RemoveOld
  PROVE  PatInv'
<1>1. CASE Answers
  <2>1. /\ phase = "health" /\ phase' = "remove"
        /\ UNCHANGED <<deployment, trigger, builds, images, current, serving, beside, outcomes, deaths>>
    BY <1>1 DEF Answers, Enters
  <2>2. /\ QueueInv' /\ Job' = Job /\ Candidates' = Candidates /\ KeepImages' = KeepImages
        /\ \A d : GoesLive(d)' <=> GoesLive(d)
    BY <2>1, GoesOnFits
  <2>3. OfferedFits'
    BY <2>1, <2>2 DEF OfferedFits, There, Pushed, PatInv, NodeInv
  <2>4. AtIt /\ AtIt'
    BY <2>1 DEF AtIt
  <2>5. CurrentFits' /\ ServingFits'
    BY <2>1, <2>2, <2>4 DEF CurrentFits, ServingFits, PatInv, NodeInv
  <2> QED BY <2>2, <2>3, <2>5 DEF PatInv, NodeInv
<1>2. CASE NeverAnswers
  <2>1. /\ phase = "health" /\ beside \in Sick /\ JobEnds(FALSE)
        /\ UNCHANGED <<deployment, trigger, images, current, serving, deaths>>
    BY <1>2 DEF NeverAnswers, Patient
  <2>2. /\ builds # <<>> /\ outcomes = {} /\ (deaths = 0 => \A d \in Candidates : There(d))
        /\ \A d : GoesLive(d) <=> deployment[d] = "live"
    BY <2>1, AtWorkIs
  <2>3. /\ QueueInv' /\ phase' = "idle" /\ Candidates' = Candidates
        /\ outcomes' = {[id |-> Job.id, ok |-> FALSE]}
        /\ \A d : GoesLive(d)' <=> deployment[d] = "live"
    BY <2>1, <2>2, EndsFit
  <2>4. OfferedFits'
    <3>1. \A o \in outcomes' : ~Pushed(o)'
      BY <2>3 DEF Pushed
    <3>2. \A d : There(d) => There(d)'
      BY <2>1 DEF There
    <3> QED BY <2>1, <2>2, <2>3, <3>1, <3>2 DEF OfferedFits
  <2>5. ~AtIt'
    BY <2>3 DEF AtIt
  <2>6. current \in Sick
    BY <2>1 DEF PatInv, NodeInv, CurrentFits
  <2>7. CurrentFits' /\ ServingFits'
    BY <2>1, <2>2, <2>3, <2>5, <2>6 DEF CurrentFits, ServingFits, PatInv, NodeInv
  <2> QED BY <2>3, <2>4, <2>7 DEF PatInv, NodeInv
<1>3. CASE RemoveOld
  <2>1. /\ phase = "remove" /\ phase' = "rename" /\ serving' = Nothing
        /\ UNCHANGED <<deployment, trigger, builds, images, current, beside, outcomes, deaths>>
    BY <1>3 DEF RemoveOld, Enters
  <2>2. /\ QueueInv' /\ Job' = Job /\ Candidates' = Candidates /\ KeepImages' = KeepImages
        /\ \A d : GoesLive(d)' <=> GoesLive(d)
    BY <2>1, GoesOnFits
  <2>3. OfferedFits'
    BY <2>1, <2>2 DEF OfferedFits, There, Pushed, PatInv, NodeInv
  <2>4. AtIt /\ AtIt'
    BY <2>1 DEF AtIt
  <2>5. CurrentFits' /\ ServingFits'
    BY <2>1, <2>2, <2>4 DEF CurrentFits, ServingFits, PatInv, NodeInv
  <2> QED BY <2>2, <2>3, <2>5 DEF PatInv, NodeInv
<1> QED BY <1>1, <1>2, <1>3

LEMMA RenameFits ==
  ASSUME DepInv, PatInv, Rename
  PROVE  PatInv'
<1>1. /\ phase = "rename" /\ serving' = beside /\ beside \notin Sick /\ beside # Nothing
      /\ UNCHANGED <<deployment, trigger, images, current, deaths>>
  BY DEF Rename, DepInv, Released, SickNeverServes
<1>2. /\ builds # <<>> /\ outcomes = {} /\ (deaths = 0 => \A d \in Candidates : There(d))
      /\ \A d : GoesLive(d) <=> deployment[d] = "live"
  BY <1>1, AtWorkIs
<1>3. AtIt /\ beside = current /\ (Job.kind # "update" => current = Job.from)
  BY <1>1 DEF AtIt, PatInv, NodeInv, CurrentFits
<1>4. CASE Job.kind = "deploy"
  <2>1. phase' = "keep" /\ UNCHANGED <<builds, outcomes>>
    BY <1>4 DEF Rename, Enters
  <2>2. /\ QueueInv' /\ Job' = Job /\ Candidates' = Candidates /\ KeepImages' = KeepImages
        /\ \A d : GoesLive(d)' <=> GoesLive(d)
    BY <1>1, <2>1, GoesOnFits
  <2>3. OfferedFits'
    BY <1>1, <2>1, <2>2 DEF OfferedFits, There, Pushed, PatInv, NodeInv
  <2>4. AtIt'
    BY <2>1 DEF AtIt
  <2>5. CurrentFits'
    BY <1>1, <1>3, <1>4, <2>1, <2>2, <2>4 DEF CurrentFits
  <2>6. Job.from = Job.id
    BY <1>2, <1>4 DEF PatInv, QueueInv, JobFits
  <2>7. ServingFits'
    BY <1>1, <1>3, <1>4, <2>1, <2>2, <2>6 DEF ServingFits
  <2> QED BY <2>2, <2>3, <2>5, <2>7 DEF PatInv, NodeInv
<1>5. CASE Job.kind # "deploy"
  <2>1. JobEnds(TRUE)
    BY <1>5 DEF Rename
  <2>2. /\ QueueInv' /\ phase' = "idle" /\ Candidates' = Candidates
        /\ outcomes' = {[id |-> Job.id, ok |-> TRUE]}
        /\ \A d : GoesLive(d)' <=> deployment[d] = "live" \/ Job.id = d
    BY <1>1, <1>2, <2>1, EndsFit
  <2>3. Job \in BuildJob
    BY <1>2, JobIsFirst
  <2>4. OfferedFits'
    <3>1. Job.id = Nothing \/ trigger[Job.id] # "push"
      BY <1>2, <1>5, <2>3 DEF PatInv, QueueInv, JobFits, BuildJob
    <3>2. \A o \in outcomes' : ~Pushed(o)'
      BY <1>1, <2>2, <3>1 DEF Pushed
    <3>3. \A d : There(d) => There(d)'
      BY <1>1 DEF There
    <3> QED BY <1>1, <1>2, <2>2, <3>2, <3>3 DEF OfferedFits
  <2>5. ~AtIt'
    BY <2>2 DEF AtIt
  <2>6. deaths = 0 => deployment[current] = "live" \/ Job.id = current
    <3>1. CASE Job.kind = "update"
      BY <1>1, <1>2, <1>3, <3>1 DEF PatInv, NodeInv, CurrentFits
    <3>2. CASE Job.kind = "create"
      BY <1>2, <1>3, <3>2 DEF PatInv, QueueInv, JobFits
    <3>3. CASE Job.kind = "rollback"
      BY <1>2, <1>3, <3>3 DEF PatInv, QueueInv, JobFits, Candidates
    <3> QED BY <1>5, <2>3, <3>1, <3>2, <3>3 DEF BuildJob
  <2>7. CurrentFits'
    BY <1>1, <2>2, <2>5, <2>6 DEF CurrentFits
  <2>8. ServingFits'
    BY <1>1, <1>3, <2>2, <2>6 DEF ServingFits
  <2> QED BY <2>2, <2>4, <2>7, <2>8 DEF PatInv, NodeInv
<1> QED BY <1>4, <1>5

LEMMA KeepImageFits ==
  ASSUME DepInv, PatInv, KeepImage
  PROVE  PatInv'
<1>1. /\ phase = "keep" /\ Job.kind = "deploy" /\ JobEnds(TRUE)
      /\ images' = (images \cap Job.keep) \cup {Job.id}
      /\ UNCHANGED <<deployment, trigger, current, serving, deaths>>
  BY DEF KeepImage, DepInv, Working
<1>2. /\ builds # <<>> /\ outcomes = {} /\ (deaths = 0 => \A d \in Candidates : There(d))
      /\ \A d : GoesLive(d) <=> deployment[d] = "live"
  BY <1>1, AtWorkIs
<1>3. AtIt /\ current = Job.from
  BY <1>1 DEF AtIt, PatInv, NodeInv, CurrentFits
<1>4. Job.from = Job.id /\ trigger[Job.id] = "push" /\ Job.keep = KeepImages
  BY <1>1, <1>2 DEF PatInv, QueueInv, JobFits
<1>5. Job.id \in Id /\ Nothing \notin Id
  BY <1>1, <1>2, JobIsFirst, DeploymentsBounds DEF DepInv, Working, Id, Nothing
<1>6. /\ QueueInv' /\ phase' = "idle" /\ Candidates' = Candidates /\ KeepImages' = KeepImages
      /\ outcomes' = {[id |-> Job.id, ok |-> TRUE]}
      /\ \A d : GoesLive(d)' <=> deployment[d] = "live" \/ Job.id = d
  BY <1>1, <1>2, EndsFit
<1>7. OfferedFits'
  <2>1. \A o \in outcomes' : Pushed(o)' /\ o.id = Job.id
    BY <1>1, <1>4, <1>5, <1>6 DEF Pushed
  <2>2. Job.id \in images' /\ outcomes' # {}
    BY <1>1, <1>6
  <2>3. ASSUME deaths = 0, NEW d \in KeepImages PROVE There(d)'
    <3>1. d \in Candidates
      BY DEF KeepImages
    <3> QED BY <1>1, <1>2, <1>4, <2>3, <3>1 DEF There
  <2> QED BY <1>1, <1>6, <2>1, <2>2, <2>3 DEF OfferedFits
<1>8. ~AtIt'
  BY <1>6 DEF AtIt
<1>9. CurrentFits' /\ ServingFits'
  BY <1>1, <1>2, <1>3, <1>4, <1>6, <1>8 DEF CurrentFits, ServingFits, PatInv, NodeInv
<1> QED BY <1>6, <1>7, <1>9 DEF PatInv, NodeInv

LEMMA AgentEndsFits ==
  ASSUME DepInv, PatInv, AgentEnds
  PROVE  PatInv'
<1>1. /\ phase # "idle" /\ phase' = "idle" /\ builds' = Tail(builds) /\ deaths' = deaths + 1
      /\ UNCHANGED <<deployment, trigger, outcomes, current, beside>>
  BY DEF AgentEnds, Enters, depNode
<1>2. builds # <<>> /\ outcomes = {} /\ Len(builds) = 1
  <2>1. builds # <<>> /\ outcomes = {}
    BY <1>1, AtWorkIs
  <2> QED BY <2>1 DEF PatInv, QueueInv, OneAtWork
<1>3. builds' = <<>>
  BY <1>1, <1>2 DEF DepInv, DepTypes
<1>4. deaths' # 0
  BY <1>1 DEF DepInv, DepTypes
<1>5. Numbered' /\ Inserted' = Inserted
  BY <1>1, SameRows DEF PatInv, QueueInv
<1>6. QueueInv'
  BY <1>1, <1>2, <1>3, <1>5 DEF QueueInv, OneAtWork, Begun, Settled, JobFits, OutcomeFits
<1>7. ~AtIt'
  BY <1>1 DEF AtIt
<1>8. NodeInv'
  BY <1>1, <1>4, <1>7 DEF NodeInv, OfferedFits, CurrentFits, ServingFits
<1> QED BY <1>6, <1>8 DEF PatInv

\* A push goes live: the oldest of what was offered may go, what is kept stays.
LEMMA NewBuildOffers ==
  ASSUME NEW n \in Id, Built' = Built \cup {n}, n \notin Built, \A d \in Built : d < n,
         NEW c \in Candidates', c # n
  PROVE  c \in KeepImages
<1> DEFINE Over == {e \in Built : e > c}
           Over2 == {e \in Built' : e > c}
           Closer == {e \in Candidates : e > c}
<1>1. c \in Built' /\ Cardinality(Over2) < RollbackDepth
  BY CandidatesAreTop DEF Top
<1>2. c \in Built /\ c \in Id
  <2>1. c \in Built
    BY <1>1
  <2> QED BY <2>1 DEF Built
<1>3. Built \in SUBSET Id /\ Id \in SUBSET Int
  BY DeploymentsBounds DEF Built, Id
<1>4. c \in Int /\ n \in Int /\ c < n
  BY <1>2, <1>3
<1>5. Over2 = Over \cup {n}
  BY <1>4
<1>6. n \notin Over
  OBVIOUS
<1>7. IsFiniteSet(Over) /\ Cardinality(Over) \in Nat
  <2>1. Over \in SUBSET Id
    BY <1>3
  <2> HIDE DEF Over
  <2> QED BY <2>1, IdIsFinite, FS_Subset, FS_CardinalityType
<1>8. Cardinality(Over2) = Cardinality(Over) + 1
  <2> HIDE DEF Over, Over2
  <2>1. ASSUME NEW T, T = Over \cup {n} PROVE Cardinality(T) = Cardinality(Over) + 1
    BY <1>6, <1>7, <2>1, FS_AddElement
  <2> QED BY <1>5, <2>1
<1>9. RollbackDepth \in Nat
  BY DeploymentsBounds
<1>10. Cardinality(Over) < RollbackDepth - 1
  <2> HIDE DEF Over, Over2
  <2> QED BY <1>1, <1>7, <1>8, <1>9
<1>11. c \in Candidates
  <2>1. Cardinality(Over) < RollbackDepth
    <3> HIDE DEF Over
    <3> QED BY <1>7, <1>9, <1>10
  <2> QED BY <1>2, <2>1, CandidatesAreTop DEF Top
<1>12. Closer \in SUBSET Over
  BY CandidatesAreTop DEF Top
<1>13. Cardinality(Closer) <= Cardinality(Over) /\ Cardinality(Closer) \in Nat
  <2> HIDE DEF Over, Closer
  <2> QED BY <1>7, <1>12, FS_Subset, FS_CardinalityType
<1>14. Cardinality(Closer) < RollbackDepth - 1
  <2> HIDE DEF Over, Closer
  <2> QED BY <1>7, <1>9, <1>10, <1>13
<1> QED BY <1>11, <1>14, CandidatesAreTop DEF Top

LEMMA FoldDeploymentFits ==
  ASSUME DepInv, PatInv, FoldDeployment
  PROVE  PatInv'
<1>1. PICK o \in outcomes :
        /\ outcomes' = outcomes \ {o}
        /\ deployment' = IF o.id = Nothing THEN deployment
                         ELSE [deployment EXCEPT ![o.id] = Outcome(o.ok)]
        /\ UNCHANGED <<trigger, builds, phase, images, current, serving, beside, joined, updates, deaths>>
  BY DEF FoldDeployment, depNode
<1>2. builds = <<>> /\ outcomes = {o} /\ phase = "idle"
  <2>1. builds = <<>> /\ \A p \in outcomes : p = o
    BY <1>1 DEF PatInv, QueueInv, OneAtWork
  <2>2. phase = "idle"
    BY <2>1 DEF DepInv, Working
  <2> QED BY <1>1, <2>1, <2>2
<1>3. outcomes' = {} /\ builds' = <<>> /\ phase' = "idle"
  BY <1>1, <1>2
<1>4. o.id # Nothing => NewestRow(o.id) /\ o.id \in Id /\ deployment'[o.id] = Outcome(o.ok)
  <2>1. o.id \in Id \cup {Nothing}
    BY <1>1 DEF DepInv, DepTypes
  <2> QED BY <1>1, <2>1 DEF PatInv, QueueInv, OutcomeFits, DepInv, DepTypes
<1>5. \A d \in Id : d # o.id => deployment'[d] = deployment[d]
  BY <1>1 DEF DepInv, DepTypes
<1>6. o.ok \in BOOLEAN /\ Outcome(o.ok) \in {"live", "failed"} /\ (Outcome(o.ok) = "live" <=> o.ok)
  BY <1>1 DEF DepInv, DepTypes, Outcome
<1>7. \A d \in Id : deployment'[d] # "none" <=> deployment[d] # "none"
  <2>1. ASSUME NEW d \in Id PROVE deployment'[d] # "none" <=> deployment[d] # "none"
    <3>1. CASE d = o.id /\ d # Nothing
      BY <1>4, <1>6, <3>1 DEF NewestRow
    <3>2. CASE d # o.id
      BY <1>5, <3>2
    <3>3. CASE d = Nothing
      BY <3>3, DeploymentsBounds DEF Id, Nothing
    <3> QED BY <3>1, <3>2, <3>3
  <2> QED BY <2>1
<1>8. NewId' = NewId /\ Numbered'
  <2>1. Inserted' = Inserted
    BY <1>7 DEF Inserted
  <2>2. NewId' = NewId
    BY <2>1 DEF NewId
  <2> QED BY <1>7, <2>2 DEF Numbered, PatInv, QueueInv
<1>9. QueueInv'
  BY <1>3, <1>8 DEF QueueInv, OneAtWork, Begun, Settled, JobFits, OutcomeFits
<1>10. \A d : There(d)' <=> There(d)
  BY <1>1 DEF There
<1>11. ASSUME deaths = 0, NEW d \in Candidates' PROVE There(d)
  <2>1. d \in Id /\ deployment'[d] = "live"
    BY <1>1 DEF Candidates
  <2>2. CASE Built' = Built /\ ~Pushed(o)
    <3>1. d \in Candidates
      BY <2>2, SameBuilt
    <3> QED BY <1>2, <1>11, <2>2, <3>1 DEF PatInv, NodeInv, OfferedFits
  <2>3. CASE Pushed(o)
    <3>1. /\ o.ok /\ o.id # Nothing /\ trigger[o.id] = "push" /\ o.id \in Id
          /\ o.id + 1 = NewId /\ deployment[o.id] = "queued" /\ deployment'[o.id] = "live"
      BY <1>4, <1>6, <2>3 DEF Pushed, NewestRow
    <3>2. Built' = Built \cup {o.id} /\ o.id \notin Built
      BY <1>1, <1>5, <3>1 DEF Built
    <3>3. \A b \in Built : b < o.id
      <4>1. ASSUME NEW b \in Built PROVE b < o.id
        <5>1. b \in Id /\ b # o.id /\ deployment[b] # "none"
          BY <3>2 DEF Built
        <5>2. b < NewId /\ b \in Int /\ o.id \in Int
          BY <3>1, <5>1, DeploymentsBounds DEF PatInv, QueueInv, Numbered, Id
        <5> QED BY <3>1, <5>1, <5>2
      <4> QED BY <4>1
    <3>4. o.id \in images /\ \A k \in KeepImages : There(k)
      BY <1>1, <1>11, <2>3 DEF PatInv, NodeInv, OfferedFits
    <3>5. CASE d = o.id
      BY <3>4, <3>5 DEF There
    <3>6. CASE d # o.id
      <4>1. d \in KeepImages
        BY <1>11, <3>1, <3>2, <3>3, <3>6, NewBuildOffers
      <4> QED BY <3>4, <4>1
    <3> QED BY <3>5, <3>6
  <2>4. CASE o.ok /\ o.id # Nothing /\ trigger[o.id] = "create"
    <3>1. o.id = 1 /\ NewId = 2
      <4>1. o.id = 1 /\ o.id + 1 = NewId
        BY <1>4, <2>4 DEF NewestRow
      <4> QED BY <4>1, 1 + 1 = 2
    <3>2. d < NewId /\ d >= 1 /\ d \in Int
      BY <1>7, <2>1, DeploymentsBounds DEF PatInv, QueueInv, Numbered, Id
    <3>3. d = o.id
      BY <3>1, <3>2
    <3> QED BY <2>4, <3>3 DEF There
  <2>5. CASE o.id = Nothing
    <3>1. Built' = Built
      BY <1>1, <2>5 DEF Built
    <3> QED BY <2>2, <2>5, <3>1 DEF Pushed
  <2>6. CASE o.id # Nothing /\ (~o.ok \/ trigger[o.id] = "rollback")
    <3>1. deployment[o.id] = "queued" /\ (deployment'[o.id] = "live" => trigger[o.id] = "rollback")
      BY <1>4, <1>6, <2>6 DEF NewestRow
    <3>2. Built' = Built
      BY <1>1, <1>5, <3>1 DEF Built
    <3>3. ~Pushed(o)
      BY <2>6 DEF Pushed
    <3> QED BY <2>2, <3>2, <3>3
  <2>7. o.id # Nothing => trigger[o.id] \in {"create", "push", "rollback"}
    BY <1>4 DEF DepInv, DepTypes
  <2> QED BY <1>6, <2>3, <2>4, <2>5, <2>6, <2>7 DEF Pushed
<1>12. OfferedFits'
  <2>1. deaths = 0 => \A d \in Candidates' : There(d)'
    BY <1>10, <1>11
  <2> QED BY <1>1, <1>3, <2>1 DEF OfferedFits
<1>13. \A d \in Id : GoesLive(d) => GoesLive(d)'
  <2>1. ASSUME NEW d \in Id, GoesLive(d) PROVE deployment'[d] = "live"
    <3>1. CASE d = o.id /\ d # Nothing
      BY <1>2, <1>4, <1>6, <2>1, <3>1 DEF GoesLive, NewestRow
    <3>2. CASE d # o.id
      BY <1>2, <1>5, <2>1, <3>2 DEF GoesLive
    <3>3. CASE d = Nothing
      BY <3>3, DeploymentsBounds DEF Id, Nothing
    <3> QED BY <3>1, <3>2, <3>3
  <2> QED BY <2>1 DEF GoesLive
<1>14. ~AtIt /\ ~AtIt' /\ UNCHANGED <<current, serving, deaths>>
  BY <1>1, <1>2, <1>3 DEF AtIt
<1>15. current \in Id \cup {Nothing} /\ serving \in Id \cup {Nothing}
  BY DEF DepInv, DepTypes
<1>16. CurrentFits'
  BY <1>3, <1>13, <1>14, <1>15 DEF CurrentFits, PatInv, NodeInv
<1>17. ServingFits'
  BY <1>2, <1>3, <1>13, <1>14, <1>15 DEF ServingFits, PatInv, NodeInv
<1> QED BY <1>9, <1>12, <1>16, <1>17 DEF PatInv, NodeInv

LEMMA PatInvInit == DeploymentsInit => PatInv
<1> SUFFICES ASSUME DeploymentsInit PROVE PatInv
  OBVIOUS
<1> USE DEF DeploymentsInit
<1>1. Inserted = {}
  BY DEF Inserted
<1>2. NewId = 1
  BY <1>1, FS_EmptySet DEF NewId
<1>3. Numbered
  BY <1>2, DeploymentsBounds DEF Numbered, Id
<1>4. QueueInv
  BY <1>3 DEF QueueInv, OneAtWork, Begun, Settled, JobFits, OutcomeFits
<1>5. Candidates = {}
  BY DEF Candidates
<1>6. OfferedFits
  BY <1>5 DEF OfferedFits
<1>7. ~AtIt
  BY DEF AtIt
<1>8. CurrentFits /\ ServingFits
  BY <1>7 DEF CurrentFits, ServingFits
<1> QED BY <1>4, <1>6, <1>8 DEF PatInv, NodeInv

LEMMA PatStep ==
  ASSUME Patient, DepInv, PatInv, [DeploymentsNext]_depVars
  PROVE  PatInv'
<1>1. CASE CreateApp \/ Deploy \/ Rollback \/ Update
  BY <1>1, RequestsFit
<1>2. CASE FoldDeployment
  BY <1>2, FoldDeploymentFits
<1>3. CASE Begin \/ Build \/ RunBeside
  BY <1>3, BuildFits
<1>4. CASE Answers \/ NeverAnswers \/ RemoveOld
  BY <1>4, ReleaseFits
<1>5. CASE Rename
  BY <1>5, RenameFits
<1>6. CASE KeepImage
  BY <1>6, KeepImageFits
<1>7. CASE AgentEnds
  BY <1>7, AgentEndsFits
<1>8. CASE UNCHANGED depVars
  <2>1. UNCHANGED <<deployment, trigger, builds, phase, images, current, serving, beside, joined, outcomes, deaths>>
    BY <1>8 DEF depVars
  <2>2. /\ QueueInv' /\ Job' = Job /\ Candidates' = Candidates /\ KeepImages' = KeepImages
        /\ \A d : GoesLive(d)' <=> GoesLive(d)
    BY <2>1, GoesOnFits
  <2>3. OfferedFits'
    BY <2>1, <2>2 DEF OfferedFits, There, Pushed, PatInv, NodeInv
  <2>4. AtIt' <=> AtIt
    BY <2>1 DEF AtIt
  <2>5. CurrentFits' /\ ServingFits'
    BY <2>1, <2>2, <2>4 DEF CurrentFits, ServingFits, PatInv, NodeInv
  <2> QED BY <2>2, <2>3, <2>5 DEF PatInv, NodeInv
<1> QED BY <1>1, <1>2, <1>3, <1>4, <1>5, <1>6, <1>7, <1>8 DEF DeploymentsNext, Release

LEMMA PatShows == DepInv /\ PatInv => GoodBuildsServe
<1> SUFFICES ASSUME DepInv, PatInv PROVE GoodBuildsServe
  OBVIOUS
<1>1. SickNeverServes /\ ImagesBounded
  BY DEF DepInv, Released, Bounded
<1>2. OfferedIsKept
  <2>1. ASSUME Settled, deaths = 0, NEW d \in Candidates PROVE trigger[d] = "create" \/ d \in images
    BY <2>1, SettledIs DEF There
  <2> QED BY <2>1 DEF OfferedIsKept
<1>3. ServesLive
  BY SettledIs DEF ServesLive
<1> QED BY <1>1, <1>2, <1>3 DEF GoodBuildsServe

-----------------------------------------------------------------------------
(* The same inside the composition, where the other parts do not touch it. *)

LEMMA SitesMoveDeployments ==
  ASSUME [SitesNext]_sitesVars
  PROVE  [DeploymentsNext]_depVars
BY DEF SitesNext, sitesVars

\* A release takes the old container away only when the new one answered and is
\* connected: the driver's release, whatever is asked when, until the agent is ended.
THEOREM AppsSwitchWithoutDowntime == SitesSpec => NoDowntime
<1> DEFINE A == serving # Nothing /\ deaths = 0 => serving' # Nothing \/ joined'
<1>1. SitesInit => DepInv
  BY DepInvInit DEF SitesInit
<1>2. DepInv /\ [SitesNext]_sitesVars => DepInv'
  BY DepStep, SitesMoveDeployments
<1>3. DepInv /\ [SitesNext]_sitesVars => [A]_depVars
  BY ServesOn, SitesMoveDeployments
<1> QED BY <1>1, <1>2, <1>3, PTL DEF SitesSpec, NoDowntime

\* No customer ever sees a build that never answered, and the node keeps no more builds
\* than one can roll back to, also when builds are asked for before the last one ended.
THEOREM OnlyBuildsThatAnswerServe == SitesSpec => [](SickNeverServes /\ ImagesBounded)
<1>1. SitesInit => DepInv
  BY DepInvInit DEF SitesInit
<1>2. DepInv /\ [SitesNext]_sitesVars => DepInv'
  BY DepStep, SitesMoveDeployments
<1>3. DepInv => SickNeverServes /\ ImagesBounded
  BY DEF DepInv, Released, Bounded
<1> QED BY <1>1, <1>2, <1>3, PTL DEF SitesSpec

\* What serves is a build that went live, and every build the panel offers to roll back
\* to is still on the node, as long as one build is asked for after another and each
\* answers its health check or never does: deployWorkload, rollbackCandidates, keepImage.
THEOREM GoodBuildsCanComeBack ==
  ASSUME Patient
  PROVE  SitesSpec => []GoodBuildsServe
<1>1. SitesInit => DepInv /\ PatInv
  BY DepInvInit, PatInvInit DEF SitesInit
<1>2. DepInv /\ PatInv /\ [SitesNext]_sitesVars => (DepInv /\ PatInv)'
  BY DepStep, PatStep, SitesMoveDeployments
<1>3. DepInv /\ PatInv => GoodBuildsServe
  BY PatShows
<1> QED BY <1>1, <1>2, <1>3, PTL DEF SitesSpec

-----------------------------------------------------------------------------
(* Archives.  A row's only job to make one, and what becomes of it, come   *)
(* first; every other job is on a row that has or had an archive.          *)

TaskKind == {"create", "restore", "delete", "autoupdate"}
Place    == {"none", "pending", "uploaded", "failed"}
Task1    == [kind : TaskKind, row : Row]
Ending1  == [kind : TaskKind, row : Row, ok : BOOLEAN, off : Place]
Archive  == {Missing, Hollow} \cup 0 .. MaxContent

BkTypes ==
  /\ backup \in [Row -> {"none", "creating", "ready", "failed", "restoring", "gone"}]
  /\ purpose \in [Row -> {"manual", "scheduled", "system"}]
  /\ offsite \in [Row -> Place]
  /\ tasks \in Seq(Task1) /\ endings \in Seq(Ending1)
  /\ content \in 0 .. MaxContent /\ broken \in BOOLEAN /\ due \in BOOLEAN
  /\ local \in [Row -> Archive] /\ remote \in [Row -> Archive]
  /\ restorer \in Row \cup {NoRow}
  /\ days \in Nat /\ asks \in Nat /\ trouble \in Nat

InOrder == \A b \in Row : backup[b] # "none" <=> b < NewRow

HadArchive(b) == backup[b] \in {"ready", "restoring", "gone"}

MadeOnce ==
  /\ \A i, k \in DOMAIN tasks :
       tasks[i].kind = "create" /\ tasks[k].kind = "create" /\ tasks[i].row = tasks[k].row => i = k
  /\ \A i, k \in DOMAIN endings :
       endings[i].kind = "create" /\ endings[k].kind = "create" /\ endings[i].row = endings[k].row => i = k
  /\ \A i \in DOMAIN tasks, k \in DOMAIN endings :
       ~(tasks[i].kind = "create" /\ endings[k].kind = "create" /\ tasks[i].row = endings[k].row)
  /\ \A i \in DOMAIN tasks : tasks[i].kind = "create" => backup[tasks[i].row] = "creating"
  /\ \A i \in DOMAIN endings : endings[i].kind = "create" => backup[endings[i].row] = "creating"

OnArchives ==
  /\ \A i \in DOMAIN tasks : tasks[i].kind \in {"restore", "delete"} => HadArchive(tasks[i].row)
  /\ \A i \in DOMAIN endings : endings[i].kind \in {"restore", "delete"} => HadArchive(endings[i].row)
  /\ restorer # NoRow => HadArchive(restorer)

Deleted(b) == \E i \in DOMAIN endings : endings[i].kind = "delete" /\ endings[i].ok /\ endings[i].row = b
Somewhere(b, off) == local[b] # Missing \/ (off = "uploaded" /\ remote[b] # Missing)

\* What is deleted stays so, and what was made is somewhere.
ArchivesLast ==
  /\ \A b \in Row : backup[b] = "gone" \/ Deleted(b) => local[b] = Missing /\ remote[b] = Missing
  /\ \A b \in Row : backup[b] \in {"ready", "restoring"} /\ ~Deleted(b) => Somewhere(b, offsite[b])
  /\ \A i \in DOMAIN endings : endings[i].kind = "create" /\ endings[i].ok => Somewhere(endings[i].row, endings[i].off)

NoneHollow == DumpsWork => \A b \in Row : local[b] # Hollow /\ remote[b] # Hollow

BkInv == BkTypes /\ InOrder /\ MadeOnce /\ OnArchives /\ ArchivesLast /\ NoneHollow

LEMMA BackupBounds == MaxBackups \in Nat /\ MaxContent \in Nat /\ MaxTrouble \in Nat
BY BackupsBounds

LEMMA BkInvInit == BackupsInit => BkInv
<1> SUFFICES ASSUME BackupsInit PROVE BkInv
  OBVIOUS
<1> USE DEF BackupsInit
<1>1. {b \in Row : backup[b] # "none"} = {}
  OBVIOUS
<1>2. NewRow = 1
  <2>1. Cardinality({b \in Row : backup[b] # "none"}) = 0
    BY <1>1, FS_EmptySet
  <2> QED BY <2>1 DEF NewRow
<1>3. InOrder
  BY <1>2 DEF InOrder, Row
<1>4. tasks \in Seq(Task1) /\ endings \in Seq(Ending1)
  OBVIOUS
<1>5. BkTypes
  <2>1. 0 \in 0 .. MaxContent
    BY BackupBounds
  <2>2. /\ backup \in [Row -> {"none", "creating", "ready", "failed", "restoring", "gone"}]
        /\ purpose \in [Row -> {"manual", "scheduled", "system"}] /\ offsite \in [Row -> Place]
        /\ local \in [Row -> Archive] /\ remote \in [Row -> Archive]
    BY DEF Place, Archive
  <2> QED BY <1>4, <2>1, <2>2 DEF BkTypes
<1>6. MadeOnce /\ OnArchives /\ NoneHollow
  BY DEF MadeOnce, OnArchives, NoneHollow, Missing, Hollow
<1>7. ArchivesLast
  BY DEF ArchivesLast, Deleted
<1> QED BY <1>3, <1>5, <1>6, <1>7 DEF BkInv

\* The row an insert takes, and the one after it.
LEMMA RowsAreFinite ==
  /\ \A S : S \in SUBSET Row => IsFiniteSet(S)
  /\ NewRow \in Nat
<1>1. IsFiniteSet(Row)
  BY BackupBounds, FS_Interval DEF Row
<1>2. \A S : S \in SUBSET Row => IsFiniteSet(S)
  BY <1>1, FS_Subset
<1>3. {b \in Row : backup[b] # "none"} \in SUBSET Row
  OBVIOUS
<1> QED BY <1>2, <1>3, FS_CardinalityType DEF NewRow

LEMMA InsertTakesNext ==
  ASSUME BkTypes, InOrder, NEW why \in {"manual", "scheduled", "system"}, InsertBackup(why)
  PROVE  /\ NewRow \in Row /\ backup[NewRow] = "none" /\ backup'[NewRow] = "creating"
         /\ \A b \in Row : b # NewRow => backup'[b] = backup[b] /\ offsite'[b] = offsite[b]
         /\ backup' \in [Row -> {"none", "creating", "ready", "failed", "restoring", "gone"}]
         /\ purpose' \in [Row -> {"manual", "scheduled", "system"}]
         /\ offsite' \in [Row -> Place]
         /\ InOrder'
<1>1. NewRow \in Nat /\ NewRow \in Row
  BY RowsAreFinite DEF InsertBackup
<1>2. backup[NewRow] = "none"
  BY <1>1 DEF InOrder
<1>3. /\ backup' = [backup EXCEPT ![NewRow] = "creating"]
      /\ purpose' = [purpose EXCEPT ![NewRow] = why] /\ offsite' = [offsite EXCEPT ![NewRow] = "pending"]
  BY DEF InsertBackup
<1>4. /\ backup'[NewRow] = "creating"
      /\ \A b \in Row : b # NewRow => backup'[b] = backup[b] /\ offsite'[b] = offsite[b]
      /\ backup' \in [Row -> {"none", "creating", "ready", "failed", "restoring", "gone"}]
      /\ purpose' \in [Row -> {"manual", "scheduled", "system"}]
      /\ offsite' \in [Row -> Place]
  BY <1>1, <1>3 DEF BkTypes, Place
<1>5. NewRow' = NewRow + 1
  <2> DEFINE S == {b \in Row : backup[b] # "none"}
             T == {b \in Row : backup'[b] # "none"}
  <2>1. T = S \cup {NewRow} /\ NewRow \notin S
    BY <1>1, <1>2, <1>4
  <2>2. S \in SUBSET Row
    OBVIOUS
  <2>3. IsFiniteSet(S)
    <3> HIDE DEF S
    <3> QED BY <2>2, RowsAreFinite
  <2>4. Cardinality(T) = Cardinality(S) + 1
    <3> HIDE DEF S, T
    <3>1. ASSUME NEW U, U = S \cup {NewRow} PROVE Cardinality(U) = Cardinality(S) + 1
      BY <2>1, <2>3, <3>1, FS_AddElement
    <3> QED BY <2>1, <3>1
  <2>5. NewRow = Cardinality(S) + 1 /\ NewRow' = Cardinality(T) + 1
    BY DEF NewRow
  <2> HIDE DEF S, T
  <2> QED BY <2>4, <2>5
<1>6. InOrder'
  <2>1. \A b \in Row : b \in Int
    BY DEF Row
  <2>2. ASSUME NEW b \in Row PROVE backup'[b] # "none" <=> b < NewRow + 1
    <3>1. CASE b = NewRow
      BY <1>1, <1>4, <3>1
    <3>2. CASE b # NewRow
      BY <1>1, <1>4, <2>1, <3>2 DEF InOrder
    <3> QED BY <3>1, <3>2
  <2> QED BY <1>5, <2>2 DEF InOrder
<1> QED BY <1>1, <1>2, <1>4, <1>6

\* Rows that change their status without being inserted stay in order.
LEMMA OrderStays ==
  ASSUME InOrder, \A b \in Row : backup'[b] # "none" <=> backup[b] # "none"
  PROVE  InOrder'
<1>1. {b \in Row : backup'[b] # "none"} = {b \in Row : backup[b] # "none"}
  OBVIOUS
<1>2. NewRow' = NewRow
  BY <1>1 DEF NewRow
<1> QED BY <1>2 DEF InOrder

\* What stands where when jobs are queued behind the others, or taken from the front.
LEMMA Behind ==
  ASSUME NEW S, NEW s \in Seq(S), NEW t \in Seq(S)
  PROVE  /\ s \o t \in Seq(S)
         /\ \A i \in DOMAIN (s \o t) :
              \/ i \in DOMAIN s /\ (s \o t)[i] = s[i]
              \/ \E k \in DOMAIN t : i = Len(s) + k /\ (s \o t)[i] = t[k]
         /\ \A i \in DOMAIN s : i <= Len(s) /\ i \in Int
         /\ \A k \in DOMAIN t : k >= 1 /\ k \in Int
         /\ Len(s) \in Nat
OBVIOUS

LEMMA InFront ==
  ASSUME NEW S, NEW s \in Seq(S), s # <<>>
  PROVE  /\ Tail(s) \in Seq(S) /\ Head(s) \in S /\ 1 \in DOMAIN s /\ Head(s) = s[1]
         /\ \A i \in DOMAIN Tail(s) : i + 1 \in DOMAIN s /\ Tail(s)[i] = s[i + 1] /\ i + 1 # 1 /\ i \in Int
         /\ \A k \in DOMAIN s : k # 1 => k - 1 \in DOMAIN Tail(s) /\ Tail(s)[k - 1] = s[k]
OBVIOUS

LEMMA AtTheEnd ==
  ASSUME NEW S, NEW s \in Seq(S), NEW e \in S
  PROVE  /\ Append(s, e) \in Seq(S)
         /\ DOMAIN Append(s, e) = DOMAIN s \cup {Len(s) + 1} /\ Len(s) + 1 \notin DOMAIN s
         /\ \A i \in DOMAIN s : Append(s, e)[i] = s[i]
         /\ Append(s, e)[Len(s) + 1] = e
OBVIOUS

\* The jobs of one run to delete backups, in whatever order.
LEMMA SetInOrder ==
  ASSUME NEW S, IsFiniteSet(S)
  PROVE  /\ SetToSeq(S) \in Seq(S)
         /\ \A i \in DOMAIN SetToSeq(S) : SetToSeq(S)[i] \in S
<1> DEFINE n == Cardinality(S)
           P(f) == IsInjective(f)
<1>1. n \in Nat
  BY FS_CardinalityType
<1>2. ExistsBijection(1 .. n, S)
  BY FS_CardinalityType
<1>3. PICK f \in Bijection(1 .. n, S) : TRUE
  BY <1>2 DEF ExistsBijection
<1>4. f \in [1 .. n -> S] /\ IsInjective(f)
  <2> HIDE DEF n
  <2> QED BY <1>3 DEF Bijection, Injection, IsInjective
<1>5. SetToSeq(S) = CHOOSE g \in [1 .. n -> S] : IsInjective(g)
  BY DEF SetToSeq
<1>6. SetToSeq(S) \in [1 .. n -> S]
  <2> HIDE DEF n
  <2> QED BY <1>4, <1>5
<1> HIDE DEF n
<1>7. SetToSeq(S) \in Seq(S) /\ DOMAIN SetToSeq(S) = 1 .. n
  BY <1>1, <1>6
<1> QED BY <1>6, <1>7

LEMMA InSeq ==
  ASSUME NEW S, NEW s \in Seq(S)
  PROVE  \A i \in DOMAIN s : s[i] \in S
OBVIOUS

LEMMA RowsOfJobs ==
  ASSUME BkTypes
  PROVE  /\ \A i \in DOMAIN tasks : tasks[i] \in Task1 /\ tasks[i].row \in Row
         /\ \A i \in DOMAIN endings : endings[i] \in Ending1 /\ endings[i].row \in Row
<1>1. tasks \in Seq(Task1) /\ endings \in Seq(Ending1)
  BY DEF BkTypes
<1>2. (\A i \in DOMAIN tasks : tasks[i] \in Task1) /\ \A i \in DOMAIN endings : endings[i] \in Ending1
  BY <1>1, InSeq
<1> QED BY <1>2 DEF Task1, Ending1

\* Requests: rows are inserted or taken for a restore, and jobs queued.
LEMMA RequestedKeeps ==
  ASSUME BkInv, BkTypes', NEW t \in Seq(Task1), tasks' = tasks \o t, NEW s \in Nat,
         \A i \in DOMAIN endings' : i \in Int /\ i + s \in DOMAIN endings /\ endings'[i] = endings[i + s],
         \A b \in Row : Deleted(b)' <=> Deleted(b),
         UNCHANGED <<local, remote>>,
         \A b \in Row :
           \/ backup'[b] = backup[b] /\ offsite'[b] = offsite[b]
           \/ {backup[b], backup'[b]} \subseteq {"ready", "restoring"} /\ offsite'[b] = offsite[b]
           \/ backup[b] = "none" /\ backup'[b] = "creating",
         \A i, k \in DOMAIN t : t[i].kind = "create" /\ t[k].kind = "create" => i = k,
         \A i \in DOMAIN t : t[i].kind = "create" => backup[t[i].row] = "none" /\ backup'[t[i].row] = "creating",
         \A i \in DOMAIN t : t[i].kind \in {"restore", "delete"} => HadArchive(t[i].row),
         restorer' # NoRow => HadArchive(restorer')
  PROVE  MadeOnce' /\ OnArchives' /\ ArchivesLast' /\ NoneHollow'
<1>1. /\ BkTypes /\ MadeOnce /\ OnArchives /\ ArchivesLast /\ NoneHollow
      /\ tasks \in Seq(Task1) /\ endings \in Seq(Ending1)
      /\ \A i \in DOMAIN tasks : tasks[i].row \in Row
      /\ \A i \in DOMAIN endings : endings[i].row \in Row
  <2>1. /\ BkTypes /\ MadeOnce /\ OnArchives /\ ArchivesLast /\ NoneHollow
        /\ tasks \in Seq(Task1) /\ endings \in Seq(Ending1)
    BY DEF BkInv, BkTypes
  <2> QED BY <2>1, RowsOfJobs
<1>2. /\ \A i \in DOMAIN tasks' :
           \/ i \in DOMAIN tasks /\ tasks'[i] = tasks[i]
           \/ \E k \in DOMAIN t : i = Len(tasks) + k /\ tasks'[i] = t[k]
      /\ \A i \in DOMAIN tasks : i <= Len(tasks) /\ i \in Int
      /\ \A k \in DOMAIN t : k >= 1 /\ k \in Int
      /\ Len(tasks) \in Nat
  BY <1>1, Behind
<1>3. \A b \in Row : backup[b] = "creating" => backup'[b] = "creating"
  OBVIOUS
<1>4. \A b \in Row : HadArchive(b) => backup'[b] \in {"ready", "restoring", "gone"}
  BY DEF HadArchive
<1>5. \A k \in DOMAIN t : t[k].row \in Row
  <2>1. \A k \in DOMAIN t : t[k] \in Task1
    BY InSeq
  <2> QED BY <2>1 DEF Task1
<1>6. MadeOnce'
  <2>1. ASSUME NEW i \in DOMAIN tasks', tasks'[i].kind = "create"
        PROVE  backup'[tasks'[i].row] = "creating"
    <3>1. CASE i \in DOMAIN tasks /\ tasks'[i] = tasks[i]
      BY <1>1, <1>3, <2>1, <3>1 DEF MadeOnce
    <3>2. CASE \E k \in DOMAIN t : i = Len(tasks) + k /\ tasks'[i] = t[k]
      BY <2>1, <3>2
    <3> QED BY <1>2, <3>1, <3>2
  <2>2. ASSUME NEW i \in DOMAIN endings', endings'[i].kind = "create"
        PROVE  backup'[endings'[i].row] = "creating"
    BY <1>1, <1>3, <2>2 DEF MadeOnce
  <2>3. ASSUME NEW i \in DOMAIN tasks', NEW k \in DOMAIN tasks',
               tasks'[i].kind = "create", tasks'[k].kind = "create", tasks'[i].row = tasks'[k].row
        PROVE  i = k
    <3>1. \A j \in DOMAIN tasks' : tasks'[j].kind = "create" =>
            \/ j \in DOMAIN tasks /\ tasks'[j] = tasks[j] /\ backup[tasks'[j].row] = "creating"
            \/ (\E l \in DOMAIN t : j = Len(tasks) + l /\ tasks'[j] = t[l]) /\ backup[tasks'[j].row] = "none"
      BY <1>1, <1>2 DEF MadeOnce
    <3>2. CASE backup[tasks'[i].row] = "creating"
      BY <1>1, <2>3, <3>1, <3>2 DEF MadeOnce
    <3>3. CASE backup[tasks'[i].row] # "creating"
      <4>1. \E l \in DOMAIN t : i = Len(tasks) + l /\ tasks'[i] = t[l]
        BY <2>3, <3>1, <3>3
      <4>2. \E l \in DOMAIN t : k = Len(tasks) + l /\ tasks'[k] = t[l]
        BY <2>3, <3>1, <3>3
      <4> QED BY <2>3, <4>1, <4>2
    <3> QED BY <3>2, <3>3
  <2>4. ASSUME NEW i \in DOMAIN endings', NEW k \in DOMAIN endings',
               endings'[i].kind = "create", endings'[k].kind = "create", endings'[i].row = endings'[k].row
        PROVE  i = k
    <3>1. i + s = k + s
      BY <1>1, <2>4 DEF MadeOnce
    <3> QED BY <3>1
  <2>5. ASSUME NEW i \in DOMAIN tasks', NEW k \in DOMAIN endings',
               tasks'[i].kind = "create", endings'[k].kind = "create", tasks'[i].row = endings'[k].row
        PROVE  FALSE
    <3>1. k + s \in DOMAIN endings /\ endings[k + s] = endings'[k] /\ backup[endings'[k].row] = "creating"
      BY <1>1, <2>5 DEF MadeOnce
    <3>2. CASE i \in DOMAIN tasks /\ tasks'[i] = tasks[i]
      BY <1>1, <2>5, <3>1, <3>2 DEF MadeOnce
    <3>3. CASE \E l \in DOMAIN t : tasks'[i] = t[l]
      BY <2>5, <3>1, <3>3
    <3> QED BY <1>2, <3>2, <3>3
  <2> QED BY <2>1, <2>2, <2>3, <2>4, <2>5 DEF MadeOnce
<1>7. OnArchives'
  <2>1. ASSUME NEW i \in DOMAIN tasks', tasks'[i].kind \in {"restore", "delete"}
        PROVE  backup'[tasks'[i].row] \in {"ready", "restoring", "gone"}
    <3>1. tasks'[i].row \in Row /\ HadArchive(tasks'[i].row)
      BY <1>1, <1>2, <1>5, <2>1 DEF OnArchives
    <3> QED BY <1>4, <3>1
  <2>2. ASSUME NEW i \in DOMAIN endings', endings'[i].kind \in {"restore", "delete"}
        PROVE  backup'[endings'[i].row] \in {"ready", "restoring", "gone"}
    BY <1>1, <1>4, <2>2 DEF OnArchives
  <2>3. restorer' # NoRow => backup'[restorer'] \in {"ready", "restoring", "gone"}
    BY <1>4 DEF BkTypes
  <2> QED BY <2>1, <2>2, <2>3 DEF OnArchives, HadArchive
<1>8. ArchivesLast'
  <2>1. ASSUME NEW b \in Row, backup'[b] = "gone" \/ Deleted(b)'
        PROVE  local'[b] = Missing /\ remote'[b] = Missing
    BY <1>1, <2>1 DEF ArchivesLast
  <2>2. ASSUME NEW b \in Row, backup'[b] \in {"ready", "restoring"}, ~Deleted(b)'
        PROVE  Somewhere(b, offsite[b])' 
    <3>1. Somewhere(b, offsite[b]) /\ offsite'[b] = offsite[b]
      BY <1>1, <2>2 DEF ArchivesLast
    <3> QED BY <3>1 DEF Somewhere
  <2>3. ASSUME NEW i \in DOMAIN endings', endings'[i].kind = "create", endings'[i].ok
        PROVE  Somewhere(endings[i].row, endings[i].off)'
    BY <1>1, <2>3 DEF ArchivesLast, Somewhere
  <2> QED BY <2>1, <2>2, <2>3 DEF ArchivesLast
<1>9. NoneHollow'
  BY <1>1 DEF NoneHollow
<1> QED BY <1>6, <1>7, <1>8, <1>9

LEMMA EndingsStay ==
  ASSUME BkTypes, UNCHANGED endings
  PROVE  /\ endings' \in Seq(Ending1)
         /\ \A i \in DOMAIN endings' : i \in Int /\ i + 0 \in DOMAIN endings /\ endings'[i] = endings[i + 0]
         /\ \A b \in Row : Deleted(b)' <=> Deleted(b)
<1>1. endings \in Seq(Ending1) /\ endings' = endings
  BY DEF BkTypes
<1>2. \A i \in DOMAIN endings : i \in Int /\ i + 0 = i
  BY <1>1
<1> QED BY <1>1, <1>2 DEF Deleted

LEMMA InsertedKeeps ==
  ASSUME BkInv, NEW why \in {"manual", "scheduled", "system"}, InsertBackup(why),
         NEW t \in Seq(Task1), tasks' = tasks \o t, NEW s \in Nat, endings' \in Seq(Ending1),
         \A i \in DOMAIN endings' : i \in Int /\ i + s \in DOMAIN endings /\ endings'[i] = endings[i + s],
         \A b \in Row : Deleted(b)' <=> Deleted(b),
         \A i \in DOMAIN t : t[i].kind = "create" => i = 1 /\ t[i].row = NewRow,
         \A i \in DOMAIN t : t[i].kind \in {"restore", "delete"} => HadArchive(t[i].row),
         restorer' \in Row \cup {NoRow}, restorer' # NoRow => HadArchive(restorer'),
         due' \in BOOLEAN, asks' \in Nat, UNCHANGED <<bkNode, days>>
  PROVE  BkInv'
<1>1. BkTypes /\ InOrder
  BY DEF BkInv
<1>2. /\ NewRow \in Row /\ backup[NewRow] = "none" /\ backup'[NewRow] = "creating"
      /\ \A b \in Row : b # NewRow => backup'[b] = backup[b] /\ offsite'[b] = offsite[b]
      /\ backup' \in [Row -> {"none", "creating", "ready", "failed", "restoring", "gone"}]
      /\ purpose' \in [Row -> {"manual", "scheduled", "system"}]
      /\ offsite' \in [Row -> Place]
      /\ InOrder'
  BY <1>1, InsertTakesNext
<1>3. tasks' \in Seq(Task1)
  BY <1>1, Behind DEF BkTypes
<1>4. UNCHANGED <<content, broken, local, remote, trouble, days>>
  BY DEF bkNode
<1>5. BkTypes'
  BY <1>1, <1>2, <1>3, <1>4 DEF BkTypes
<1>6. \A b \in Row :
        \/ backup'[b] = backup[b] /\ offsite'[b] = offsite[b]
        \/ {backup[b], backup'[b]} \subseteq {"ready", "restoring"} /\ offsite'[b] = offsite[b]
        \/ backup[b] = "none" /\ backup'[b] = "creating"
  BY <1>2
<1>7. /\ \A i, k \in DOMAIN t : t[i].kind = "create" /\ t[k].kind = "create" => i = k
      /\ \A i \in DOMAIN t : t[i].kind = "create" => backup[t[i].row] = "none" /\ backup'[t[i].row] = "creating"
  BY <1>2
<1>8. MadeOnce' /\ OnArchives' /\ ArchivesLast' /\ NoneHollow'
  BY <1>4, <1>5, <1>6, <1>7, RequestedKeeps
<1> QED BY <1>2, <1>5, <1>8 DEF BkInv

LEMMA QueuedKeeps ==
  ASSUME BkInv, NEW t \in Seq(Task1), tasks' = tasks \o t, UNCHANGED <<bkNode, purpose, offsite, endings, days>>,
         \A i \in DOMAIN t : t[i].kind # "create",
         \A i \in DOMAIN t : t[i].kind \in {"restore", "delete"} => HadArchive(t[i].row),
         backup' \in [Row -> {"none", "creating", "ready", "failed", "restoring", "gone"}],
         \A b \in Row : backup'[b] = backup[b] \/ {backup[b], backup'[b]} \subseteq {"ready", "restoring"},
         restorer' \in {restorer, NoRow}, due' \in BOOLEAN, asks' \in Nat
  PROVE  BkInv'
<1>1. BkTypes /\ InOrder /\ OnArchives
  BY DEF BkInv
<1>2. /\ endings' \in Seq(Ending1)
      /\ \A i \in DOMAIN endings' : i \in Int /\ i + 0 \in DOMAIN endings /\ endings'[i] = endings[i + 0]
      /\ \A b \in Row : Deleted(b)' <=> Deleted(b)
  BY <1>1, EndingsStay
<1>3. tasks' \in Seq(Task1)
  BY <1>1, Behind DEF BkTypes
<1>4. UNCHANGED <<content, broken, local, remote, trouble, days, purpose, offsite>>
  BY DEF bkNode
<1>5. BkTypes'
  BY <1>1, <1>2, <1>3, <1>4 DEF BkTypes
<1>6. InOrder'
  <2>1. \A b \in Row : backup'[b] # "none" <=> backup[b] # "none"
    OBVIOUS
  <2> QED BY <1>1, <2>1, OrderStays
<1>7. \A b \in Row :
        \/ backup'[b] = backup[b] /\ offsite'[b] = offsite[b]
        \/ {backup[b], backup'[b]} \subseteq {"ready", "restoring"} /\ offsite'[b] = offsite[b]
        \/ backup[b] = "none" /\ backup'[b] = "creating"
  BY <1>4
<1>8. restorer' # NoRow => HadArchive(restorer')
  BY <1>1 DEF OnArchives
<1>9. MadeOnce' /\ OnArchives' /\ ArchivesLast' /\ NoneHollow'
  <2>1. /\ \A i, k \in DOMAIN t : t[i].kind = "create" /\ t[k].kind = "create" => i = k
        /\ \A i \in DOMAIN t : t[i].kind = "create" => backup[t[i].row] = "none" /\ backup'[t[i].row] = "creating"
    OBVIOUS
  <2>2. 0 \in Nat
    OBVIOUS
  <2> QED BY <1>2, <1>4, <1>5, <1>7, <1>8, <2>1, <2>2, RequestedKeeps
<1> QED BY <1>5, <1>6, <1>9 DEF BkInv

LEMMA OneBehind ==
  ASSUME NEW S, NEW s \in Seq(S), NEW x \in S
  PROVE  /\ Append(s, x) = s \o <<x>> /\ <<x>> \in Seq(S) /\ DOMAIN <<x>> = {1} /\ <<x>>[1] = x
         /\ s \o <<>> = s /\ <<>> \in Seq(S) /\ DOMAIN <<>> = {}
OBVIOUS

LEMMA TaskIs ==
  ASSUME NEW kind \in TaskKind, NEW b \in Row
  PROVE  Task(kind, b) \in Task1 /\ Task(kind, b).kind = kind /\ Task(kind, b).row = b
BY DEF Task, Task1

\* One row more and the job that makes its archive.
LEMMA AskedKeeps ==
  ASSUME BkInv, NEW why \in {"manual", "scheduled", "system"}, InsertBackup(why),
         tasks' = Append(tasks, Task("create", NewRow)), asks' \in Nat,
         restorer' \in Row \cup {NoRow}, restorer' # NoRow => HadArchive(restorer'),
         UNCHANGED <<endings, bkNode, due, days>>
  PROVE  BkInv'
<1>1. BkTypes /\ InOrder /\ tasks \in Seq(Task1) /\ NewRow \in Row
  BY DEF BkInv, BkTypes, InsertBackup
<1> DEFINE x == Task("create", NewRow)
<1>2. x \in Task1 /\ x.kind = "create" /\ x.row = NewRow
  BY <1>1, TaskIs DEF TaskKind
<1>3. tasks' = Append(tasks, x) /\ due' \in BOOLEAN /\ UNCHANGED <<bkNode, days>>
  BY <1>1 DEF BkTypes
<1> HIDE DEF x
<1>4. tasks' = tasks \o <<x>> /\ <<x>> \in Seq(Task1) /\ DOMAIN <<x>> = {1} /\ <<x>>[1] = x
  BY <1>1, <1>2, <1>3, OneBehind
<1>5. /\ endings' \in Seq(Ending1)
      /\ \A i \in DOMAIN endings' : i \in Int /\ i + 0 \in DOMAIN endings /\ endings'[i] = endings[i + 0]
      /\ \A b \in Row : Deleted(b)' <=> Deleted(b)
  BY <1>1, EndingsStay
<1>6. /\ \A i \in DOMAIN <<x>> : <<x>>[i].kind = "create" => i = 1 /\ <<x>>[i].row = NewRow
      /\ \A i \in DOMAIN <<x>> : <<x>>[i].kind \in {"restore", "delete"} => HadArchive(<<x>>[i].row)
      /\ 0 \in Nat
  BY <1>2, <1>4
<1> QED BY <1>3, <1>4, <1>5, <1>6, InsertedKeeps

LEMMA CustomersKeep ==
  ASSUME BkInv, CreateBackup \/ AskRestore \/ QueueRestore \/ DeleteBackup
  PROVE  BkInv'
<1>1. /\ BkTypes /\ tasks \in Seq(Task1) /\ asks \in Nat /\ due \in BOOLEAN /\ restorer \in Row \cup {NoRow}
      /\ restorer # NoRow => HadArchive(restorer)
      /\ backup \in [Row -> {"none", "creating", "ready", "failed", "restoring", "gone"}]
  BY DEF BkInv, BkTypes, OnArchives
<1>2. CASE CreateBackup
  <2>1. /\ InsertBackup("manual") /\ tasks' = Append(tasks, Task("create", NewRow)) /\ asks' = asks + 1
        /\ UNCHANGED <<endings, bkNode, due, days>> /\ restorer' = restorer
    BY <1>2 DEF CreateBackup, Asks
  <2> QED BY <1>1, <2>1, AskedKeeps
<1>3. CASE AskRestore
  <2>1. PICK b \in Row :
          /\ Asks /\ backup[b] = "ready" /\ InsertBackup("system")
          /\ tasks' = Append(tasks, Task("create", NewRow)) /\ restorer' = b
          /\ UNCHANGED <<endings, bkNode, due, days>>
    BY <1>3 DEF AskRestore
  <2>2. asks' \in Nat /\ HadArchive(restorer') /\ restorer' \in Row
    BY <1>1, <2>1 DEF Asks, HadArchive
  <2> QED BY <2>1, <2>2, AskedKeeps
<1>4. CASE QueueRestore
  <2>1. /\ restorer # NoRow /\ restorer' = NoRow
        /\ UNCHANGED <<purpose, offsite, endings, bkNode, due, days, asks>>
    BY <1>4 DEF QueueRestore
  <2>2. CASE backup[restorer] = "gone"
    <3>1. UNCHANGED <<backup, tasks>>
      BY <1>4, <2>2 DEF QueueRestore
    <3>2. tasks' = tasks \o <<>> /\ <<>> \in Seq(Task1) /\ DOMAIN <<>> = {}
      BY <1>1, <3>1
    <3> QED BY <1>1, <2>1, <3>1, <3>2, QueuedKeeps
  <2>3. CASE backup[restorer] # "gone"
    <3> DEFINE x == Task("restore", restorer)
    <3>1. x \in Task1 /\ x.kind = "restore" /\ x.row = restorer
      BY <1>1, <2>1, TaskIs DEF TaskKind
    <3>2. backup' = [backup EXCEPT ![restorer] = "restoring"] /\ tasks' = Append(tasks, x)
      BY <1>4, <2>3 DEF QueueRestore
    <3> HIDE DEF x
    <3>3. tasks' = tasks \o <<x>> /\ <<x>> \in Seq(Task1) /\ DOMAIN <<x>> = {1} /\ <<x>>[1] = x
      BY <1>1, <3>1, <3>2, OneBehind
    <3>4. /\ backup' \in [Row -> {"none", "creating", "ready", "failed", "restoring", "gone"}]
          /\ \A b \in Row : backup'[b] = backup[b] \/ {backup[b], backup'[b]} \subseteq {"ready", "restoring"}
      BY <1>1, <2>1, <2>3, <3>2 DEF HadArchive
    <3>5. /\ \A i \in DOMAIN <<x>> : <<x>>[i].kind # "create"
          /\ \A i \in DOMAIN <<x>> : <<x>>[i].kind \in {"restore", "delete"} => HadArchive(<<x>>[i].row)
      BY <1>1, <2>1, <3>1, <3>3
    <3>6. restorer' \in {restorer, NoRow} /\ due' \in BOOLEAN /\ asks' \in Nat
          /\ UNCHANGED <<bkNode, purpose, offsite, endings, days>>
      BY <1>1, <2>1
    <3> QED BY <3>3, <3>4, <3>5, <3>6, QueuedKeeps
  <2> QED BY <2>2, <2>3
<1>5. CASE DeleteBackup
  <2>1. PICK b \in Row :
          /\ Asks /\ backup[b] = "ready" /\ tasks' = Append(tasks, Task("delete", b))
          /\ UNCHANGED <<bkRows, endings, bkNode, restorer, due, days>>
    BY <1>5 DEF DeleteBackup
  <2> DEFINE x == Task("delete", b)
  <2>2. x \in Task1 /\ x.kind = "delete" /\ x.row = b
    BY TaskIs DEF TaskKind
  <2>3. /\ tasks' = Append(tasks, x) /\ HadArchive(b) /\ asks' \in Nat /\ due' \in BOOLEAN /\ restorer' \in {restorer, NoRow}
        /\ UNCHANGED <<backup, bkNode, purpose, offsite, endings, days>>
    BY <1>1, <2>1 DEF Asks, HadArchive, bkRows
  <2> HIDE DEF x
  <2>4. tasks' = tasks \o <<x>> /\ <<x>> \in Seq(Task1) /\ DOMAIN <<x>> = {1} /\ <<x>>[1] = x
    BY <1>1, <2>2, <2>3, OneBehind
  <2>5. /\ \A i \in DOMAIN <<x>> : <<x>>[i].kind # "create"
        /\ \A i \in DOMAIN <<x>> : <<x>>[i].kind \in {"restore", "delete"} => HadArchive(<<x>>[i].row)
    BY <2>2, <2>3, <2>4
  <2>6. /\ backup' \in [Row -> {"none", "creating", "ready", "failed", "restoring", "gone"}]
        /\ \A c \in Row : backup'[c] = backup[c] \/ {backup[c], backup'[c]} \subseteq {"ready", "restoring"}
    BY <1>1, <2>3
  <2> QED BY <2>3, <2>4, <2>5, <2>6, QueuedKeeps
<1> QED BY <1>2, <1>3, <1>4, <1>5

LEMMA PrunedJobs ==
  ASSUME BkTypes
  PROVE  \A y : y = SetToSeq({Task("delete", b) : b \in Prunable}) =>
           /\ y \in Seq(Task1)
           /\ \A i \in DOMAIN y : y[i].kind = "delete" /\ HadArchive(y[i].row)
<1> DEFINE S == {Task("delete", b) : b \in Prunable}
<1>1. Prunable \in SUBSET Row /\ \A b \in Prunable : backup[b] = "ready"
  BY DEF Prunable, ReadyScheduled
<1>2. \A x \in S : x \in Task1 /\ x.kind = "delete" /\ HadArchive(x.row)
  <2>1. ASSUME NEW b \in Prunable
        PROVE  Task("delete", b) \in Task1 /\ Task("delete", b).kind = "delete" /\ HadArchive(Task("delete", b).row)
    BY <1>1, TaskIs DEF TaskKind, HadArchive
  <2> QED BY <2>1
<1>3. IsFiniteSet(S)
  <2>1. IsFiniteSet(Prunable)
    BY <1>1, RowsAreFinite
  <2> DEFINE f == [b \in Prunable |-> Task("delete", b)]
  <2>2. f \in Surjection(Prunable, S)
    <3>1. f \in [Prunable -> S] /\ \A x \in S : \E b \in Prunable : f[b] = x
      OBVIOUS
    <3> HIDE DEF f, S
    <3> QED BY <3>1 DEF Surjection
  <2> HIDE DEF f, S
  <2> QED BY <2>1, <2>2, FS_Surjection
<1>4. ASSUME NEW y, y = SetToSeq(S) PROVE y \in Seq(S) /\ \A i \in DOMAIN y : y[i] \in S
  <2> HIDE DEF S
  <2> QED BY <1>3, <1>4, SetInOrder
<1>5. ASSUME NEW y \in Seq(S) PROVE y \in Seq(Task1)
  <2> HIDE DEF S
  <2> QED BY <1>2
<1> QED BY <1>2, <1>4, <1>5

LEMMA RunsKeep ==
  ASSUME BkInv, ScheduledRun \/ DayPasses \/ AutoUpdate
  PROVE  BkInv'
<1>1. /\ BkTypes /\ tasks \in Seq(Task1) /\ asks \in Nat /\ due \in BOOLEAN /\ restorer \in Row \cup {NoRow}
      /\ restorer # NoRow => HadArchive(restorer)
      /\ backup \in [Row -> {"none", "creating", "ready", "failed", "restoring", "gone"}]
  BY DEF BkInv, BkTypes, OnArchives
<1>2. CASE ScheduledRun
  <2>1. PICK y : y = SetToSeq({Task("delete", b) : b \in Prunable})
    OBVIOUS
  <2>2. y \in Seq(Task1) /\ \A i \in DOMAIN y : y[i].kind = "delete" /\ HadArchive(y[i].row)
    BY <1>1, <2>1, PrunedJobs
  <2>3. /\ due' = FALSE /\ UNCHANGED <<endings, bkNode, restorer, days, asks>>
        /\ tasks' = tasks \o (IF due THEN <<Task("create", NewRow)>> ELSE <<>>) \o y
    BY <1>2, <2>1 DEF ScheduledRun
  <2>4. CASE due
    <3> DEFINE x == Task("create", NewRow)
    <3>1. InsertBackup("scheduled") /\ NewRow \in Row
      BY <1>2, <2>4 DEF ScheduledRun, InsertBackup
    <3>2. x \in Task1 /\ x.kind = "create" /\ x.row = NewRow
      BY <3>1, TaskIs DEF TaskKind
    <3>3. tasks' = tasks \o <<x>> \o y
      BY <2>3, <2>4
    <3> HIDE DEF x
    <3>4. <<x>> \in Seq(Task1) /\ DOMAIN <<x>> = {1} /\ <<x>>[1] = x
      BY <1>1, <3>2, OneBehind
    <3>5. PICK t : t = <<x>> \o y
      OBVIOUS
    <3>6. tasks' = tasks \o t
      BY <1>1, <2>2, <3>3, <3>4, <3>5
    <3>7. t \in Seq(Task1) /\ \A i \in DOMAIN t : (i = 1 /\ t[i] = x) \/ \E k \in DOMAIN y : t[i] = y[k]
      BY <2>2, <3>4, <3>5, Behind
    <3>8. /\ \A i \in DOMAIN t : t[i].kind = "create" => i = 1 /\ t[i].row = NewRow
          /\ \A i \in DOMAIN t : t[i].kind \in {"restore", "delete"} => HadArchive(t[i].row)
      BY <2>2, <3>2, <3>7
    <3>9. /\ endings' \in Seq(Ending1)
          /\ \A i \in DOMAIN endings' : i \in Int /\ i + 0 \in DOMAIN endings /\ endings'[i] = endings[i + 0]
          /\ \A b \in Row : Deleted(b)' <=> Deleted(b)
      BY <1>1, <2>3, EndingsStay
    <3>10. /\ restorer' \in Row \cup {NoRow} /\ (restorer' # NoRow => HadArchive(restorer'))
           /\ due' \in BOOLEAN /\ asks' \in Nat /\ UNCHANGED <<bkNode, days>> /\ 0 \in Nat
      BY <1>1, <2>3
    <3> QED BY <3>1, <3>6, <3>7, <3>8, <3>9, <3>10, InsertedKeeps
  <2>5. CASE ~due
    <3>1. tasks' = tasks \o y
      <4>1. tasks' = tasks \o <<>> \o y
        BY <2>3, <2>5
      <4> QED BY <1>1, <4>1, OneBehind
    <3>2. UNCHANGED <<backup, purpose, offsite>>
      BY <1>2, <2>5 DEF ScheduledRun, bkRows
    <3>3. /\ \A i \in DOMAIN y : y[i].kind # "create"
          /\ \A i \in DOMAIN y : y[i].kind \in {"restore", "delete"} => HadArchive(y[i].row)
      BY <2>2
    <3>4. /\ backup' \in [Row -> {"none", "creating", "ready", "failed", "restoring", "gone"}]
          /\ \A b \in Row : backup'[b] = backup[b] \/ {backup[b], backup'[b]} \subseteq {"ready", "restoring"}
          /\ restorer' \in {restorer, NoRow} /\ due' \in BOOLEAN /\ asks' \in Nat
          /\ UNCHANGED <<bkNode, purpose, offsite, endings, days>>
      BY <1>1, <2>3, <3>2
    <3> QED BY <2>2, <3>1, <3>3, <3>4, QueuedKeeps
  <2> QED BY <1>1, <2>4, <2>5
<1>3. CASE DayPasses
  <2>1. /\ days' = days + 1 /\ due' = TRUE
        /\ UNCHANGED <<backup, purpose, offsite, tasks, endings, content, broken, local, remote, trouble, restorer, asks>>
    BY <1>3 DEF DayPasses, bkRows, bkNode
  <2>2. BkTypes'
    BY <1>1, <2>1 DEF BkTypes
  <2>3. InOrder'
    BY <2>1 DEF BkInv, InOrder, NewRow
  <2>4. MadeOnce' /\ OnArchives' /\ ArchivesLast' /\ NoneHollow'
    BY <2>1 DEF BkInv, MadeOnce, OnArchives, HadArchive, ArchivesLast, Deleted, Somewhere, NoneHollow
  <2> QED BY <2>2, <2>3, <2>4 DEF BkInv
<1>4. CASE AutoUpdate
  <2> DEFINE x == Task("create", NewRow)
             z == Task("autoupdate", NewRow)
  <2>1. /\ InsertBackup("system") /\ tasks' = tasks \o <<x, z>> /\ asks' = asks + 1 /\ NewRow \in Row
        /\ UNCHANGED <<endings, bkNode, restorer, due, days>>
    BY <1>4 DEF AutoUpdate, Asks, InsertBackup
  <2>2. x \in Task1 /\ x.kind = "create" /\ x.row = NewRow /\ z \in Task1 /\ z.kind = "autoupdate"
    BY <2>1, TaskIs DEF TaskKind
  <2> HIDE DEF x, z
  <2>3. PICK t : t = <<x, z>>
    OBVIOUS
  <2>4. t \in Seq(Task1) /\ DOMAIN t = {1, 2} /\ t[1] = x /\ t[2] = z
    BY <2>2, <2>3
  <2>5. /\ \A i \in DOMAIN t : t[i].kind = "create" => i = 1 /\ t[i].row = NewRow
        /\ \A i \in DOMAIN t : t[i].kind \in {"restore", "delete"} => HadArchive(t[i].row)
    BY <2>2, <2>4
  <2>6. /\ endings' \in Seq(Ending1)
        /\ \A i \in DOMAIN endings' : i \in Int /\ i + 0 \in DOMAIN endings /\ endings'[i] = endings[i + 0]
        /\ \A b \in Row : Deleted(b)' <=> Deleted(b)
    BY <1>1, <2>1, EndingsStay
  <2>7. /\ restorer' \in Row \cup {NoRow} /\ (restorer' # NoRow => HadArchive(restorer'))
        /\ due' \in BOOLEAN /\ asks' \in Nat /\ UNCHANGED <<bkNode, days>> /\ 0 \in Nat
    BY <1>1, <2>1
  <2> QED BY <2>1, <2>3, <2>4, <2>5, <2>6, <2>7, InsertedKeeps
<1> QED BY <1>2, <1>3, <1>4

\* An outcome is folded in: what was made becomes ready, what was deleted is gone.
LEMMA FoldBackupKeeps ==
  ASSUME BkInv, FoldBackup
  PROVE  BkInv'
<1> DEFINE e == Head(endings)
<1>1. /\ BkTypes /\ InOrder /\ MadeOnce /\ OnArchives /\ ArchivesLast /\ NoneHollow
      /\ tasks \in Seq(Task1) /\ endings \in Seq(Ending1) /\ asks \in Nat /\ due \in BOOLEAN
      /\ restorer \in Row \cup {NoRow}
  BY DEF BkInv, BkTypes
<1>2. endings # <<>> /\ endings' = Tail(endings) /\ UNCHANGED <<bkNode, due, days, asks>>
  BY DEF FoldBackup
<1>3. /\ endings' \in Seq(Ending1) /\ e \in Ending1 /\ 1 \in DOMAIN endings /\ e = endings[1]
      /\ \A i \in DOMAIN endings' : i \in Int /\ i + 1 \in DOMAIN endings /\ endings'[i] = endings[i + 1] /\ i + 1 # 1
      /\ \A k \in DOMAIN endings : k # 1 => k - 1 \in DOMAIN endings' /\ endings'[k - 1] = endings[k]
  BY <1>1, <1>2, InFront
<1>4. e.kind \in TaskKind /\ e.row \in Row /\ e.ok \in BOOLEAN /\ e.off \in Place
  BY <1>3 DEF Ending1
<1>5. ASSUME NEW b \in Row
      PROVE  /\ Deleted(b)' => Deleted(b)
             /\ Deleted(b) /\ ~(e.kind = "delete" /\ e.ok /\ e.row = b) => Deleted(b)'
  <2>1. Deleted(b)' <=> \E i \in DOMAIN endings' : endings'[i].kind = "delete" /\ endings'[i].ok /\ endings'[i].row = b
    BY DEF Deleted
  <2> QED BY <1>3, <2>1 DEF Deleted
<1> HIDE DEF e
<1>6. CASE TakesBack(e)
  <2>1. /\ e.kind = "autoupdate" /\ backup[e.row] = "ready" /\ InsertBackup("system")
        /\ tasks' = Append(tasks, Task("create", NewRow)) /\ restorer' = e.row
    BY <1>6 DEF FoldBackup, TakesBack, e
  <2> DEFINE x == Task("create", NewRow)
  <2>2. x \in Task1 /\ x.kind = "create" /\ x.row = NewRow
    BY <2>1, TaskIs DEF TaskKind, InsertBackup
  <2>3. tasks' = Append(tasks, x)
    BY <2>1
  <2> HIDE DEF x
  <2>4. tasks' = tasks \o <<x>> /\ <<x>> \in Seq(Task1) /\ DOMAIN <<x>> = {1} /\ <<x>>[1] = x
    BY <1>1, <2>2, <2>3, OneBehind
  <2>5. /\ \A i \in DOMAIN <<x>> : <<x>>[i].kind = "create" => i = 1 /\ <<x>>[i].row = NewRow
        /\ \A i \in DOMAIN <<x>> : <<x>>[i].kind \in {"restore", "delete"} => HadArchive(<<x>>[i].row)
        /\ 1 \in Nat
    BY <2>2, <2>4
  <2>6. /\ \A i \in DOMAIN endings' : i \in Int /\ i + 1 \in DOMAIN endings /\ endings'[i] = endings[i + 1]
        /\ \A b \in Row : Deleted(b)' <=> Deleted(b)
    BY <1>3, <1>5, <2>1
  <2>7. /\ restorer' \in Row \cup {NoRow} /\ HadArchive(restorer')
        /\ due' \in BOOLEAN /\ asks' \in Nat /\ UNCHANGED <<bkNode, days>>
    BY <1>1, <1>2, <1>4, <2>1 DEF HadArchive
  <2> QED BY <1>3, <2>1, <2>4, <2>5, <2>6, <2>7, InsertedKeeps
<1>7. CASE ~TakesBack(e)
  <2> DEFINE r == e.row
  <2>1. /\ backup' = [backup EXCEPT ![r] = FoldedBackup(e, @)]
        /\ offsite' = IF e.kind = "create" THEN [offsite EXCEPT ![r] = e.off] ELSE offsite
        /\ UNCHANGED <<tasks, restorer, purpose, content, broken, local, remote, trouble, due, days, asks>>
    BY <1>2, <1>7 DEF FoldBackup, e, bkNode
  <2>2. r \in Row /\ backup[r] \in {"none", "creating", "ready", "failed", "restoring", "gone"}
    BY <1>1, <1>4 DEF BkTypes
  <2>3. /\ e.kind = "create" => backup[r] = "creating" /\ FoldedBackup(e, backup[r]) \in {"ready", "failed"}
                                  /\ (e.ok <=> FoldedBackup(e, backup[r]) = "ready")
        /\ e.kind \in {"restore", "delete"} => HadArchive(r) /\ FoldedBackup(e, backup[r]) \in {"ready", "gone"}
        /\ e.kind = "restore" => (FoldedBackup(e, backup[r]) = "gone" <=> backup[r] = "gone")
        /\ e.kind = "delete" => (FoldedBackup(e, backup[r]) = "gone" <=> backup[r] = "gone" \/ e.ok)
        /\ e.kind = "autoupdate" => FoldedBackup(e, backup[r]) = backup[r]
    BY <1>1, <1>3, <1>4 DEF FoldedBackup, MadeOnce, OnArchives, TaskKind
  <2>4. e.kind = "create" \/ e.kind = "restore" \/ e.kind = "delete" \/ e.kind = "autoupdate"
    BY <1>4 DEF TaskKind
  <2>5. FoldedBackup(e, backup[r]) \in {"none", "creating", "ready", "failed", "restoring", "gone"}
    BY <2>2, <2>3, <2>4
  <2>6. /\ backup' \in [Row -> {"none", "creating", "ready", "failed", "restoring", "gone"}]
        /\ offsite' \in [Row -> Place]
        /\ backup'[r] = FoldedBackup(e, backup[r]) /\ (e.kind = "create" => offsite'[r] = e.off)
        /\ e.kind # "create" => offsite' = offsite
        /\ \A b \in Row : b # r => backup'[b] = backup[b] /\ offsite'[b] = offsite[b]
    BY <1>1, <1>4, <2>1, <2>2, <2>5 DEF BkTypes
  <2> HIDE DEF r
  <2>7. BkTypes'
    BY <1>1, <1>3, <2>1, <2>6 DEF BkTypes
  <2>8. InOrder'
    <3>1. \A b \in Row : backup'[b] # "none" <=> backup[b] # "none"
      BY <2>2, <2>3, <2>4, <2>6 DEF HadArchive
    <3> QED BY <1>1, <3>1, OrderStays
  <2>9. ASSUME NEW b \in Row, HadArchive(b) PROVE backup'[b] \in {"ready", "restoring", "gone"}
    BY <2>3, <2>4, <2>6, <2>9 DEF HadArchive
  <2>10. OnArchives'
    <3>1. ASSUME NEW i \in DOMAIN tasks, tasks[i].kind \in {"restore", "delete"}
          PROVE  backup'[tasks[i].row] \in {"ready", "restoring", "gone"}
      BY <1>1, <2>9, <3>1, RowsOfJobs DEF OnArchives
    <3>2. ASSUME NEW i \in DOMAIN endings, endings[i].kind \in {"restore", "delete"}
          PROVE  backup'[endings[i].row] \in {"ready", "restoring", "gone"}
      BY <1>1, <2>9, <3>2, RowsOfJobs DEF OnArchives
    <3>3. restorer # NoRow => backup'[restorer] \in {"ready", "restoring", "gone"}
      BY <1>1, <2>9 DEF OnArchives
    <3> QED BY <1>3, <2>1, <3>1, <3>2, <3>3 DEF OnArchives, HadArchive
  <2>11. MadeOnce'
    <3>1. ASSUME NEW i \in DOMAIN tasks, tasks[i].kind = "create"
          PROVE  backup'[tasks[i].row] = "creating"
      <4>1. tasks[i].row \in Row /\ backup[tasks[i].row] = "creating"
        BY <1>1, <3>1, RowsOfJobs DEF MadeOnce
      <4>2. e.kind = "create" => tasks[i].row # e.row
        BY <1>1, <1>3, <3>1 DEF MadeOnce
      <4> QED BY <2>3, <2>4, <2>6, <4>1, <4>2 DEF HadArchive, r
    <3>2. ASSUME NEW i \in DOMAIN endings, i # 1, endings[i].kind = "create"
          PROVE  backup'[endings[i].row] = "creating"
      <4>1. endings[i].row \in Row /\ backup[endings[i].row] = "creating"
        BY <1>1, <3>2, RowsOfJobs DEF MadeOnce
      <4>2. e.kind = "create" => endings[i].row # e.row
        BY <1>1, <1>3, <3>2 DEF MadeOnce
      <4> QED BY <2>3, <2>4, <2>6, <4>1, <4>2 DEF HadArchive, r
    <3>3. ASSUME NEW i \in DOMAIN endings', NEW k \in DOMAIN endings',
                 endings'[i].kind = "create", endings'[k].kind = "create", endings'[i].row = endings'[k].row
          PROVE  i = k
      <4>1. /\ i + 1 \in DOMAIN endings /\ endings[i + 1].kind = "create" /\ i \in Int
            /\ k + 1 \in DOMAIN endings /\ endings[k + 1].kind = "create" /\ k \in Int
            /\ endings[i + 1].row = endings[k + 1].row
        BY <1>3, <3>3
      <4>2. \A j, l \in DOMAIN endings :
              endings[j].kind = "create" /\ endings[l].kind = "create" /\ endings[j].row = endings[l].row => j = l
        BY <1>1 DEF MadeOnce
      <4>3. i + 1 = k + 1
        BY <4>1, <4>2, Zenon
      <4> QED BY <4>1, <4>3
    <3>4. ASSUME NEW i \in DOMAIN tasks, NEW k \in DOMAIN endings'
          PROVE  ~(tasks[i].kind = "create" /\ endings'[k].kind = "create" /\ tasks[i].row = endings'[k].row)
      BY <1>1, <1>3 DEF MadeOnce
    <3>5. /\ \A i \in DOMAIN tasks' : tasks'[i].kind = "create" => backup'[tasks'[i].row] = "creating"
          /\ \A i \in DOMAIN endings' : endings'[i].kind = "create" => backup'[endings'[i].row] = "creating"
      BY <1>3, <2>1, <3>1, <3>2
    <3>6. \A i, k \in DOMAIN tasks' :
            tasks'[i].kind = "create" /\ tasks'[k].kind = "create" /\ tasks'[i].row = tasks'[k].row => i = k
      BY <1>1, <2>1 DEF MadeOnce
    <3> QED BY <2>1, <3>3, <3>4, <3>5, <3>6 DEF MadeOnce
  <2>12. ArchivesLast'
    <3>1. ASSUME NEW b \in Row, backup'[b] = "gone" \/ Deleted(b)'
          PROVE  local'[b] = Missing /\ remote'[b] = Missing
      <4>1. backup[b] = "gone" \/ Deleted(b)
        <5>1. CASE Deleted(b)'
          BY <1>5, <5>1
        <5>2. CASE backup'[b] = "gone" /\ b # r
          BY <2>6, <5>2
        <5>3. CASE backup'[b] = "gone" /\ b = r
          <6>1. backup[r] = "gone" \/ (e.kind = "delete" /\ e.ok)
            BY <2>3, <2>4, <2>6, <5>3
          <6> QED BY <1>3, <5>3, <6>1 DEF Deleted, r
        <5> QED BY <3>1, <5>1, <5>2, <5>3
      <4> QED BY <1>1, <2>1, <4>1 DEF ArchivesLast
    <3>2. ASSUME NEW b \in Row, backup'[b] \in {"ready", "restoring"}, ~Deleted(b)'
          PROVE  Somewhere(b, offsite[b])'
      <4>1. CASE e.kind = "create" /\ b = r
        <5>1. e.ok /\ offsite'[b] = e.off
          BY <2>3, <2>6, <3>2, <4>1
        <5>2. Somewhere(b, e.off)
          BY <1>1, <1>3, <4>1, <5>1 DEF ArchivesLast, r
        <5> QED BY <2>1, <5>1, <5>2 DEF Somewhere
      <4>2. CASE ~(e.kind = "create" /\ b = r)
        <5>1. backup[b] \in {"ready", "restoring"} /\ offsite'[b] = offsite[b]
          BY <2>2, <2>3, <2>4, <2>6, <3>2, <4>2 DEF HadArchive
        <5>2. ~Deleted(b)
          <6>1. ~(e.kind = "delete" /\ e.ok /\ e.row = b)
            BY <2>3, <2>6, <3>2 DEF r
          <6> QED BY <1>5, <3>2, <6>1
        <5>3. Somewhere(b, offsite[b])
          BY <1>1, <5>1, <5>2 DEF ArchivesLast
        <5> QED BY <2>1, <5>1, <5>3 DEF Somewhere
      <4> QED BY <4>1, <4>2
    <3>3. ASSUME NEW i \in DOMAIN endings', endings'[i].kind = "create", endings'[i].ok
          PROVE  Somewhere(endings[i].row, endings[i].off)'
      <4>1. i + 1 \in DOMAIN endings /\ endings'[i] = endings[i + 1]
        BY <1>3
      <4>2. Somewhere(endings[i + 1].row, endings[i + 1].off)
        BY <1>1, <3>3, <4>1 DEF ArchivesLast
      <4>3. Somewhere(endings'[i].row, endings'[i].off)
        BY <4>1, <4>2
      <4> QED BY <2>1, <4>3 DEF Somewhere
    <3> QED BY <3>1, <3>2, <3>3 DEF ArchivesLast
  <2>13. NoneHollow'
    BY <1>1, <2>1 DEF NoneHollow
  <2> QED BY <2>7, <2>8, <2>10, <2>11, <2>12, <2>13 DEF BkInv
<1> QED BY <1>6, <1>7

\* A job leaves the queue, and its outcome waits: whatever its archive does.
LEMMA TaskEndsKeeps ==
  ASSUME BkInv, tasks # <<>>, NEW ok \in BOOLEAN, NEW off \in Place, TaskEnds(ok, off),
         UNCHANGED <<bkRows, restorer, due, days, asks>>,
         trouble' \in Nat, content' \in 0 .. MaxContent, broken' \in BOOLEAN,
         local' \in [Row -> Archive], remote' \in [Row -> Archive]
  PROVE  /\ BkTypes' /\ InOrder' /\ MadeOnce' /\ OnArchives'
         /\ First \in Task1 /\ First.row \in Row /\ First.kind \in TaskKind
         /\ First.kind = "create" => backup[First.row] = "creating" /\ ~Deleted(First.row)
         /\ First.kind \in {"restore", "delete"} => HadArchive(First.row)
         /\ \A b \in Row : Deleted(b)' <=> Deleted(b) \/ (First.kind = "delete" /\ ok /\ First.row = b)
         /\ \A i \in DOMAIN endings' :
              \/ i \in DOMAIN endings /\ endings'[i] = endings[i]
                 /\ (endings[i].kind = "create" /\ First.kind = "create" => endings[i].row # First.row)
              \/ /\ endings'[i].kind = First.kind /\ endings'[i].row = First.row
                 /\ endings'[i].ok = ok /\ endings'[i].off = off
<1> DEFINE e == [kind |-> First.kind, row |-> First.row, ok |-> ok, off |-> off]
<1>1. /\ BkTypes /\ InOrder /\ MadeOnce /\ OnArchives
      /\ tasks \in Seq(Task1) /\ endings \in Seq(Ending1)
  BY DEF BkInv, BkTypes
<1>2. tasks' = Tail(tasks) /\ endings' = Append(endings, e)
  BY DEF TaskEnds
<1>3. /\ tasks' \in Seq(Task1) /\ First \in Task1 /\ 1 \in DOMAIN tasks /\ First = tasks[1]
      /\ \A i \in DOMAIN tasks' : i + 1 \in DOMAIN tasks /\ tasks'[i] = tasks[i + 1] /\ i + 1 # 1 /\ i \in Int
  BY <1>1, <1>2, InFront DEF First
<1>4. First.kind \in TaskKind /\ First.row \in Row
  BY <1>3 DEF Task1
<1>5. e \in Ending1 /\ e.kind = First.kind /\ e.row = First.row /\ e.ok = ok /\ e.off = off
  BY <1>4 DEF Ending1
<1> HIDE DEF e
<1>6. /\ endings' \in Seq(Ending1) /\ DOMAIN endings' = DOMAIN endings \cup {Len(endings) + 1}
      /\ Len(endings) + 1 \notin DOMAIN endings
      /\ \A i \in DOMAIN endings : endings'[i] = endings[i]
      /\ endings'[Len(endings) + 1] = e
  BY <1>1, <1>2, <1>5, AtTheEnd
<1>7. /\ First.kind = "create" => backup[First.row] = "creating"
      /\ First.kind \in {"restore", "delete"} => HadArchive(First.row)
  BY <1>1, <1>3 DEF MadeOnce, OnArchives
<1>8. First.kind = "create" => ~Deleted(First.row)
  BY <1>1, <1>7 DEF Deleted, OnArchives, HadArchive
<1>9. \A i \in DOMAIN endings : endings[i].kind = "create" /\ First.kind = "create" => endings[i].row # First.row
  BY <1>1, <1>3 DEF MadeOnce
<1>10. ASSUME NEW b \in Row
       PROVE  Deleted(b)' <=> Deleted(b) \/ (First.kind = "delete" /\ ok /\ First.row = b)
  BY <1>5, <1>6 DEF Deleted
<1>11. UNCHANGED <<backup, purpose, offsite, restorer, due, days, asks>>
  BY DEF bkRows
<1>12. BkTypes'
  BY <1>1, <1>3, <1>6, <1>11 DEF BkTypes
<1>13. InOrder'
  BY <1>1, <1>11, OrderStays
<1>14. MadeOnce'
  <2>1. ASSUME NEW i \in DOMAIN tasks', NEW k \in DOMAIN tasks',
               tasks'[i].kind = "create", tasks'[k].kind = "create", tasks'[i].row = tasks'[k].row
        PROVE  i = k
    <3>1. /\ i + 1 \in DOMAIN tasks /\ tasks[i + 1].kind = "create" /\ i \in Int
          /\ k + 1 \in DOMAIN tasks /\ tasks[k + 1].kind = "create" /\ k \in Int
          /\ tasks[i + 1].row = tasks[k + 1].row
      BY <1>3, <2>1
    <3>2. \A j, l \in DOMAIN tasks :
            tasks[j].kind = "create" /\ tasks[l].kind = "create" /\ tasks[j].row = tasks[l].row => j = l
      BY <1>1 DEF MadeOnce
    <3>3. i + 1 = k + 1
      BY <3>1, <3>2, Zenon
    <3> QED BY <3>1, <3>3
  <2>2. ASSUME NEW i \in DOMAIN endings', NEW k \in DOMAIN endings',
               endings'[i].kind = "create", endings'[k].kind = "create", endings'[i].row = endings'[k].row
        PROVE  i = k
    <3>1. CASE i \in DOMAIN endings /\ k \in DOMAIN endings
      BY <1>1, <1>6, <2>2, <3>1 DEF MadeOnce
    <3>2. CASE i = Len(endings) + 1 /\ k \in DOMAIN endings
      BY <1>5, <1>6, <1>9, <2>2, <3>2
    <3>3. CASE k = Len(endings) + 1 /\ i \in DOMAIN endings
      BY <1>5, <1>6, <1>9, <2>2, <3>3
    <3> QED BY <1>6, <3>1, <3>2, <3>3
  <2>3. ASSUME NEW i \in DOMAIN tasks', NEW k \in DOMAIN endings',
               tasks'[i].kind = "create", endings'[k].kind = "create", tasks'[i].row = endings'[k].row
        PROVE  FALSE
    <3>1. i + 1 \in DOMAIN tasks /\ tasks'[i] = tasks[i + 1] /\ i + 1 # 1
      BY <1>3
    <3>2. CASE k \in DOMAIN endings
      BY <1>1, <1>6, <2>3, <3>1, <3>2 DEF MadeOnce
    <3>3. CASE k = Len(endings) + 1
      BY <1>1, <1>3, <1>5, <1>6, <2>3, <3>1, <3>3 DEF MadeOnce
    <3> QED BY <1>6, <3>2, <3>3
  <2>4. ASSUME NEW i \in DOMAIN tasks', tasks'[i].kind = "create" PROVE backup'[tasks'[i].row] = "creating"
    BY <1>1, <1>3, <1>11, <2>4 DEF MadeOnce
  <2>5. ASSUME NEW i \in DOMAIN endings', endings'[i].kind = "create" PROVE backup'[endings'[i].row] = "creating"
    BY <1>1, <1>5, <1>6, <1>7, <1>11, <2>5 DEF MadeOnce
  <2> QED BY <2>1, <2>2, <2>3, <2>4, <2>5 DEF MadeOnce
<1>15. OnArchives'
  <2>1. ASSUME NEW i \in DOMAIN tasks', tasks'[i].kind \in {"restore", "delete"}
        PROVE  backup[tasks'[i].row] \in {"ready", "restoring", "gone"}
    BY <1>1, <1>3, <2>1 DEF OnArchives, HadArchive
  <2>2. ASSUME NEW i \in DOMAIN endings', endings'[i].kind \in {"restore", "delete"}
        PROVE  backup[endings'[i].row] \in {"ready", "restoring", "gone"}
    BY <1>1, <1>5, <1>6, <1>7, <2>2 DEF OnArchives, HadArchive
  <2> QED BY <1>1, <1>11, <2>1, <2>2 DEF OnArchives, HadArchive
<1>16. \A i \in DOMAIN endings' :
         \/ i \in DOMAIN endings /\ endings'[i] = endings[i]
            /\ (endings[i].kind = "create" /\ First.kind = "create" => endings[i].row # First.row)
         \/ /\ endings'[i].kind = First.kind /\ endings'[i].row = First.row
            /\ endings'[i].ok = ok /\ endings'[i].off = off
  BY <1>5, <1>6, <1>9
<1> QED BY <1>3, <1>4, <1>7, <1>8, <1>10, <1>12, <1>13, <1>14, <1>15, <1>16

\* A job that leaves the archives as they are.
LEMMA IdleEndKeeps ==
  ASSUME BkInv, tasks # <<>>, NEW ok \in BOOLEAN, TaskEnds(ok, "none"),
         UNCHANGED <<bkRows, restorer, due, days, asks, local, remote>>,
         trouble' \in Nat, content' \in 0 .. MaxContent, broken' \in BOOLEAN,
         ~ok \/ First.kind \notin {"create", "delete"}
  PROVE  BkInv'
<1>1. ArchivesLast /\ NoneHollow /\ local' \in [Row -> Archive] /\ remote' \in [Row -> Archive] /\ "none" \in Place
  BY DEF BkInv, BkTypes, Place
<1>2. /\ BkTypes' /\ InOrder' /\ MadeOnce' /\ OnArchives'
      /\ \A b \in Row : Deleted(b)' <=> Deleted(b) \/ (First.kind = "delete" /\ ok /\ First.row = b)
      /\ \A i \in DOMAIN endings' :
           \/ i \in DOMAIN endings /\ endings'[i] = endings[i]
           \/ endings'[i].kind = First.kind /\ endings'[i].ok = ok
  BY <1>1, TaskEndsKeeps
<1>3. UNCHANGED <<backup, offsite>> /\ \A b \in Row : Deleted(b)' <=> Deleted(b)
  BY <1>2 DEF bkRows
<1>4. ArchivesLast'
  <2>1. ASSUME NEW b \in Row, backup'[b] = "gone" \/ Deleted(b)' PROVE local'[b] = Missing /\ remote'[b] = Missing
    BY <1>1, <1>3, <2>1 DEF ArchivesLast
  <2>2. ASSUME NEW b \in Row, backup'[b] \in {"ready", "restoring"}, ~Deleted(b)' PROVE Somewhere(b, offsite[b])'
    BY <1>1, <1>3, <2>2 DEF ArchivesLast, Somewhere
  <2>3. ASSUME NEW i \in DOMAIN endings', endings'[i].kind = "create", endings'[i].ok
        PROVE  Somewhere(endings[i].row, endings[i].off)'
    <3>1. i \in DOMAIN endings /\ endings'[i] = endings[i]
      BY <1>2, <2>3
    <3> QED BY <1>1, <2>3, <3>1 DEF ArchivesLast, Somewhere
  <2> QED BY <2>1, <2>2, <2>3 DEF ArchivesLast
<1>5. NoneHollow'
  BY <1>1 DEF NoneHollow
<1> QED BY <1>2, <1>4, <1>5 DEF BkInv

LEMMA FirstIs ==
  ASSUME BkTypes, tasks # <<>>
  PROVE  First \in Task1 /\ First.row \in Row
<1>1. tasks \in Seq(Task1)
  BY DEF BkTypes
<1>2. First \in Task1
  BY <1>1, InFront DEF First
<1> QED BY <1>2 DEF Task1

LEMMA FailsKeeps ==
  ASSUME BkInv, tasks # <<>>, Fails, UNCHANGED <<bkRows, restorer, due, days, asks>>
  PROVE  BkInv'
<1>1. trouble' \in Nat /\ content' \in 0 .. MaxContent /\ broken' \in BOOLEAN
  BY DEF Fails, BkInv, BkTypes
<1>2. TaskEnds(FALSE, "none") /\ UNCHANGED <<local, remote>>
  BY DEF Fails
<1> QED BY <1>1, <1>2, IdleEndKeeps

LEMMA DriverCreateKeeps ==
  ASSUME BkInv, DriverCreate
  PROVE  BkInv'
<1>1. tasks # <<>> /\ First.kind = "create" /\ UNCHANGED <<bkRows, restorer, due, days, asks>>
  BY DEF DriverCreate, Doing
<1>2. CASE Fails
  BY <1>1, <1>2, FailsKeeps
<1>3. ASSUME NEW uploaded \in BOOLEAN, NEW dumped \in BOOLEAN,
             DumpsWork => dumped,
             trouble' = trouble + Cardinality({FALSE} \cap {uploaded, dumped}),
             local' = [local EXCEPT ![First.row] = LeftHere(Archived(dumped), uploaded)],
             remote' = [remote EXCEPT ![First.row] = IF uploaded THEN Archived(dumped) ELSE Missing],
             TaskEnds(TRUE, IF uploaded THEN "uploaded" ELSE "failed"),
             UNCHANGED <<content, broken>>
      PROVE  BkInv'
  <2> DEFINE off == IF uploaded THEN "uploaded" ELSE "failed"
             r == First.row
  <2>1. /\ BkTypes /\ ArchivesLast /\ NoneHollow /\ content \in 0 .. MaxContent /\ broken \in BOOLEAN /\ trouble \in Nat
        /\ local \in [Row -> Archive] /\ remote \in [Row -> Archive]
    BY DEF BkInv, BkTypes
  <2>2. off \in Place /\ (off = "uploaded" <=> uploaded)
    BY DEF Place
  <2>3. trouble' \in Nat
    <3>1. {FALSE} \cap {uploaded, dumped} \in SUBSET {FALSE}
      OBVIOUS
    <3>2. IsFiniteSet({FALSE})
      BY FS_Singleton
    <3>3. Cardinality({FALSE} \cap {uploaded, dumped}) \in Nat
      BY <3>1, <3>2, FS_Subset, FS_CardinalityType
    <3> QED BY <1>3, <2>1, <3>3
  <2>4. /\ Archived(dumped) \in Archive /\ Archived(dumped) # Missing
        /\ DumpsWork => Archived(dumped) # Hollow
        /\ LeftHere(Archived(dumped), uploaded) \in {Missing, Archived(dumped)}
        /\ ~uploaded => LeftHere(Archived(dumped), uploaded) = Archived(dumped)
    BY <1>3, <2>1, BackupBounds DEF Archived, LeftHere, Archive, Missing, Hollow
  <2>5. /\ local' \in [Row -> Archive] /\ remote' \in [Row -> Archive]
        /\ \A b \in Row : b # r => local'[b] = local[b] /\ remote'[b] = remote[b]
        /\ r \in Row => local'[r] = LeftHere(Archived(dumped), uploaded)
                        /\ remote'[r] = IF uploaded THEN Archived(dumped) ELSE Missing
    BY <1>3, <2>1, <2>4 DEF Archive
  <2>6. content' \in 0 .. MaxContent /\ broken' \in BOOLEAN /\ TaskEnds(TRUE, off)
    BY <1>3, <2>1
  <2> HIDE DEF off
  <2>7. /\ BkTypes' /\ InOrder' /\ MadeOnce' /\ OnArchives'
        /\ First.row \in Row
        /\ First.kind = "create" => backup[First.row] = "creating" /\ ~Deleted(First.row)
        /\ \A b \in Row : Deleted(b)' <=> Deleted(b) \/ (First.kind = "delete" /\ TRUE /\ First.row = b)
        /\ \A i \in DOMAIN endings' :
             \/ i \in DOMAIN endings /\ endings'[i] = endings[i]
                /\ (endings[i].kind = "create" /\ First.kind = "create" => endings[i].row # First.row)
             \/ /\ endings'[i].kind = First.kind /\ endings'[i].row = First.row
                /\ endings'[i].ok = TRUE /\ endings'[i].off = off
    <3>1. TRUE \in BOOLEAN
      OBVIOUS
    <3> QED BY <1>1, <2>2, <2>3, <2>5, <2>6, <3>1, TaskEndsKeeps
  <2>8. r \in Row /\ backup[r] = "creating" /\ ~Deleted(r) /\ UNCHANGED <<backup, offsite>>
    BY <1>1, <2>7 DEF bkRows
  <2>9. \A b \in Row : Deleted(b)' <=> Deleted(b)
    BY <1>1, <2>7
  <2>10. local'[r] # Missing \/ (off = "uploaded" /\ remote'[r] # Missing)
    BY <2>2, <2>4, <2>5, <2>8
  <2> HIDE DEF r
  <2>11. ArchivesLast'
    <3>1. ASSUME NEW b \in Row, backup'[b] = "gone" \/ Deleted(b)' PROVE local'[b] = Missing /\ remote'[b] = Missing
      <4>1. b # r /\ (backup[b] = "gone" \/ Deleted(b))
        BY <2>8, <2>9, <3>1
      <4> QED BY <2>1, <2>5, <4>1 DEF ArchivesLast
    <3>2. ASSUME NEW b \in Row, backup'[b] \in {"ready", "restoring"}, ~Deleted(b)' PROVE Somewhere(b, offsite[b])'
      <4>1. b # r /\ backup[b] \in {"ready", "restoring"} /\ ~Deleted(b)
        BY <2>8, <2>9, <3>2
      <4>2. Somewhere(b, offsite[b])
        BY <2>1, <4>1 DEF ArchivesLast
      <4> QED BY <2>5, <2>8, <4>1, <4>2 DEF Somewhere
    <3>3. ASSUME NEW i \in DOMAIN endings', endings'[i].kind = "create", endings'[i].ok
          PROVE  Somewhere(endings[i].row, endings[i].off)'
      <4>1. CASE i \in DOMAIN endings /\ endings'[i] = endings[i] /\ endings[i].row # r
        <5>1. Somewhere(endings[i].row, endings[i].off) /\ endings[i].row \in Row
          BY <2>1, <3>3, <4>1, RowsOfJobs DEF ArchivesLast
        <5> QED BY <2>5, <4>1, <5>1 DEF Somewhere
      <4>2. CASE endings'[i].row = r /\ endings'[i].off = off
        BY <2>10, <4>2 DEF Somewhere
      <4> QED BY <1>1, <2>7, <3>3, <4>1, <4>2 DEF r
    <3> QED BY <3>1, <3>2, <3>3 DEF ArchivesLast
  <2>12. NoneHollow'
    <3>1. ASSUME DumpsWork, NEW b \in Row PROVE local'[b] # Hollow /\ remote'[b] # Hollow
      <4>1. Missing # Hollow
        BY DEF Missing, Hollow
      <4>2. CASE b = r
        BY <2>4, <2>5, <3>1, <4>1, <4>2
      <4>3. CASE b # r
        BY <2>1, <2>5, <3>1, <4>3 DEF NoneHollow
      <4> QED BY <4>2, <4>3
    <3> QED BY <3>1 DEF NoneHollow
  <2> QED BY <2>7, <2>11, <2>12 DEF BkInv
<1> QED BY <1>2, <1>3 DEF DriverCreate

LEMMA DriverRestoreKeeps ==
  ASSUME BkInv, DriverRestore
  PROVE  BkInv'
<1>1. tasks # <<>> /\ First.kind = "restore" /\ UNCHANGED <<bkRows, restorer, due, days, asks>>
  BY DEF DriverRestore, Doing
<1>2. /\ BkTypes /\ ArchivesLast /\ NoneHollow /\ content \in 0 .. MaxContent /\ broken \in BOOLEAN /\ trouble \in Nat
      /\ local \in [Row -> Archive] /\ remote \in [Row -> Archive] /\ "none" \in Place
      /\ tasks \in Seq(Task1)
  BY DEF BkInv, BkTypes, Place
<1>3. CASE Fails
  BY <1>1, <1>3, FailsKeeps
<1>4. CASE Source = Missing /\ TaskEnds(FALSE, "none") /\ UNCHANGED bkNode
  BY <1>1, <1>2, <1>4, IdleEndKeeps DEF bkNode
<1>5. CASE /\ Source # Missing
           /\ content' = IF Source = Hollow THEN content ELSE Source
           /\ broken' = (broken /\ Source = Hollow)
           /\ local' = [local EXCEPT ![First.row] = Source]
           /\ TaskEnds(TRUE, "none")
           /\ UNCHANGED <<remote, trouble>>
  <2> DEFINE r == First.row
  <2>1. r \in Row
    BY <1>1, <1>2, FirstIs
  <2>2. Source \in Archive /\ (Source = local[r] \/ Source = remote[r])
        /\ (local[r] # Missing \/ remote[r] # Missing)
    BY <1>2, <1>5, <2>1 DEF Source, Archive
  <2>3. content' \in 0 .. MaxContent /\ broken' \in BOOLEAN /\ trouble' \in Nat
    BY <1>2, <1>5, <2>2 DEF Archive
  <2>4. local' \in [Row -> Archive] /\ remote' \in [Row -> Archive]
        /\ local'[r] = Source /\ remote' = remote /\ \A b \in Row : b # r => local'[b] = local[b]
    BY <1>2, <1>5, <2>1, <2>2
  <2>5. /\ BkTypes' /\ InOrder' /\ MadeOnce' /\ OnArchives'
        /\ \A b \in Row : Deleted(b)' <=> Deleted(b) \/ (First.kind = "delete" /\ TRUE /\ First.row = b)
        /\ \A i \in DOMAIN endings' :
             \/ i \in DOMAIN endings /\ endings'[i] = endings[i]
             \/ endings'[i].kind = First.kind
    <3>1. TRUE \in BOOLEAN
      OBVIOUS
    <3> QED BY <1>1, <1>2, <1>5, <2>3, <2>4, <3>1, TaskEndsKeeps
  <2>6. \A b \in Row : Deleted(b)' <=> Deleted(b)
    BY <1>1, <2>5
  <2>7. UNCHANGED <<backup, offsite>>
    BY <1>1 DEF bkRows
  <2> HIDE DEF r
  <2>8. \A b \in Row : local[b] # Missing => local'[b] # Missing
    BY <1>5, <2>4
  <2>9. ArchivesLast'
    <3>1. ASSUME NEW b \in Row, backup'[b] = "gone" \/ Deleted(b)' PROVE local'[b] = Missing /\ remote'[b] = Missing
      <4>1. local[b] = Missing /\ remote[b] = Missing
        BY <1>2, <2>6, <2>7, <3>1 DEF ArchivesLast
      <4>2. b # r
        BY <2>2, <4>1
      <4> QED BY <2>4, <4>1, <4>2
    <3>2. ASSUME NEW b \in Row, backup'[b] \in {"ready", "restoring"}, ~Deleted(b)' PROVE Somewhere(b, offsite[b])'
      <4>1. Somewhere(b, offsite[b])
        BY <1>2, <2>6, <2>7, <3>2 DEF ArchivesLast
      <4> QED BY <2>4, <2>7, <2>8, <4>1 DEF Somewhere
    <3>3. ASSUME NEW i \in DOMAIN endings', endings'[i].kind = "create", endings'[i].ok
          PROVE  Somewhere(endings[i].row, endings[i].off)'
      <4>1. i \in DOMAIN endings /\ endings'[i] = endings[i] /\ endings[i].row \in Row
        BY <1>1, <1>2, <2>5, <3>3, RowsOfJobs
      <4>2. Somewhere(endings[i].row, endings[i].off)
        BY <1>2, <3>3, <4>1 DEF ArchivesLast
      <4> QED BY <2>4, <2>8, <4>1, <4>2 DEF Somewhere
    <3> QED BY <3>1, <3>2, <3>3 DEF ArchivesLast
  <2>10. NoneHollow'
    BY <1>2, <2>1, <2>2, <2>4 DEF NoneHollow, r
  <2> QED BY <2>5, <2>9, <2>10 DEF BkInv
<1> QED BY <1>3, <1>4, <1>5 DEF DriverRestore

LEMMA DriverDeleteKeeps ==
  ASSUME BkInv, DriverDelete
  PROVE  BkInv'
<1>1. tasks # <<>> /\ First.kind = "delete" /\ UNCHANGED <<bkRows, restorer, due, days, asks>>
  BY DEF DriverDelete, Doing
<1>2. /\ BkTypes /\ ArchivesLast /\ NoneHollow /\ content \in 0 .. MaxContent /\ broken \in BOOLEAN /\ trouble \in Nat
      /\ local \in [Row -> Archive] /\ remote \in [Row -> Archive] /\ "none" \in Place
      /\ tasks \in Seq(Task1) /\ MadeOnce /\ OnArchives
  BY DEF BkInv, BkTypes, Place
<1>3. CASE Fails
  BY <1>1, <1>3, FailsKeeps
<1>4. CASE /\ remote' = [remote EXCEPT ![First.row] = Missing]
           /\ local' = [local EXCEPT ![First.row] = Missing]
           /\ TaskEnds(TRUE, "none")
           /\ UNCHANGED <<content, broken, trouble>>
  <2> DEFINE r == First.row
  <2>1. r \in Row /\ Missing \in Archive /\ Missing # Hollow
    BY <1>1, <1>2, FirstIs DEF Archive, Missing, Hollow
  <2>2. /\ local' \in [Row -> Archive] /\ remote' \in [Row -> Archive]
        /\ local'[r] = Missing /\ remote'[r] = Missing
        /\ \A b \in Row : b # r => local'[b] = local[b] /\ remote'[b] = remote[b]
    BY <1>2, <1>4, <2>1
  <2>3. content' \in 0 .. MaxContent /\ broken' \in BOOLEAN /\ trouble' \in Nat
    BY <1>2, <1>4
  <2>4. /\ BkTypes' /\ InOrder' /\ MadeOnce' /\ OnArchives'
        /\ First.kind \in {"restore", "delete"} => HadArchive(First.row)
        /\ \A b \in Row : Deleted(b)' <=> Deleted(b) \/ (First.kind = "delete" /\ TRUE /\ First.row = b)
        /\ \A i \in DOMAIN endings' :
             \/ i \in DOMAIN endings /\ endings'[i] = endings[i]
             \/ endings'[i].kind = First.kind
    <3>1. TRUE \in BOOLEAN
      OBVIOUS
    <3> QED BY <1>1, <1>2, <1>4, <2>2, <2>3, <3>1, TaskEndsKeeps
  <2>5. UNCHANGED <<backup, offsite>>
    BY <1>1 DEF bkRows
  <2>6. HadArchive(r) /\ \A b \in Row : Deleted(b)' <=> Deleted(b) \/ b = r
    BY <1>1, <2>4
  <2> HIDE DEF r
  <2>7. ArchivesLast'
    <3>1. ASSUME NEW b \in Row, backup'[b] = "gone" \/ Deleted(b)' PROVE local'[b] = Missing /\ remote'[b] = Missing
      <4>1. CASE b = r
        BY <2>2, <4>1
      <4>2. CASE b # r
        BY <1>2, <2>2, <2>5, <2>6, <3>1, <4>2 DEF ArchivesLast
      <4> QED BY <4>1, <4>2
    <3>2. ASSUME NEW b \in Row, backup'[b] \in {"ready", "restoring"}, ~Deleted(b)' PROVE Somewhere(b, offsite[b])'
      <4>1. b # r /\ ~Deleted(b) /\ backup[b] \in {"ready", "restoring"}
        BY <2>5, <2>6, <3>2
      <4>2. Somewhere(b, offsite[b])
        BY <1>2, <4>1 DEF ArchivesLast
      <4> QED BY <2>2, <2>5, <4>1, <4>2 DEF Somewhere
    <3>3. ASSUME NEW i \in DOMAIN endings', endings'[i].kind = "create", endings'[i].ok
          PROVE  Somewhere(endings[i].row, endings[i].off)'
      <4>1. i \in DOMAIN endings /\ endings'[i] = endings[i] /\ endings[i].row \in Row
        BY <1>1, <1>2, <2>4, <3>3, RowsOfJobs
      <4>2. Somewhere(endings[i].row, endings[i].off) /\ backup[endings[i].row] = "creating"
        BY <1>2, <3>3, <4>1 DEF ArchivesLast, MadeOnce
      <4>3. endings[i].row # r
        BY <2>6, <4>2 DEF HadArchive
      <4> QED BY <2>2, <4>1, <4>2, <4>3 DEF Somewhere
    <3> QED BY <3>1, <3>2, <3>3 DEF ArchivesLast
  <2>8. NoneHollow'
    <3>1. ASSUME DumpsWork, NEW b \in Row PROVE local'[b] # Hollow /\ remote'[b] # Hollow
      <4>1. CASE b = r
        BY <2>1, <2>2, <4>1
      <4>2. CASE b # r
        BY <1>2, <2>2, <3>1, <4>2 DEF NoneHollow
      <4> QED BY <4>1, <4>2
    <3> QED BY <3>1 DEF NoneHollow
  <2> QED BY <2>4, <2>7, <2>8 DEF BkInv
<1> QED BY <1>3, <1>4 DEF DriverDelete

LEMMA BkStep ==
  ASSUME BkInv, [BackupsNext]_bkVars
  PROVE  BkInv'
<1>1. CASE CreateBackup \/ AskRestore \/ QueueRestore \/ DeleteBackup
  BY <1>1, CustomersKeep
<1>2. CASE ScheduledRun \/ DayPasses \/ AutoUpdate
  BY <1>2, RunsKeep
<1>3. CASE FoldBackup
  BY <1>3, FoldBackupKeeps
<1>4. CASE DriverCreate
  BY <1>4, DriverCreateKeeps
<1>5. CASE DriverRestore
  BY <1>5, DriverRestoreKeeps
<1>6. CASE DriverDelete
  BY <1>6, DriverDeleteKeeps
<1>7. CASE DriverAutoUpdate
  <2>1. tasks # <<>> /\ First.kind = "autoupdate" /\ UNCHANGED <<bkRows, local, remote, trouble, restorer, due, days, asks>>
    BY <1>7 DEF DriverAutoUpdate, Doing
  <2>2. content' \in 0 .. MaxContent
    BY <1>7, BackupBounds DEF DriverAutoUpdate, BkInv, BkTypes
  <2>3. PICK breaks \in BOOLEAN : broken' = (broken \/ breaks) /\ TaskEnds(broken \/ ~breaks, "none")
    BY <1>7 DEF DriverAutoUpdate
  <2>4. broken' \in BOOLEAN /\ (broken \/ ~breaks) \in BOOLEAN /\ trouble' \in Nat
    BY <2>1, <2>3 DEF BkInv, BkTypes
  <2>5. ASSUME NEW ok \in BOOLEAN, TaskEnds(ok, "none") PROVE BkInv'
    BY <2>1, <2>2, <2>4, <2>5, IdleEndKeeps
  <2> QED BY <2>3, <2>4, <2>5
<1>8. CASE Edit \/ UNCHANGED bkVars
  <2>1. UNCHANGED <<backup, purpose, offsite, tasks, endings, broken, local, remote, restorer, due, days, asks, trouble>>
    BY <1>8 DEF Edit, bkVars, bkRows
  <2>2. content' \in 0 .. MaxContent
    BY <1>8, BackupBounds DEF Edit, bkVars, BkInv, BkTypes
  <2>3. BkTypes'
    BY <2>1, <2>2 DEF BkInv, BkTypes
  <2>4. InOrder'
    BY <2>1 DEF BkInv, InOrder, NewRow
  <2>5. MadeOnce' /\ OnArchives' /\ ArchivesLast' /\ NoneHollow'
    BY <2>1 DEF BkInv, MadeOnce, OnArchives, HadArchive, ArchivesLast, Deleted, Somewhere, NoneHollow
  <2> QED BY <2>3, <2>4, <2>5 DEF BkInv
<1> QED BY <1>1, <1>2, <1>3, <1>4, <1>5, <1>6, <1>7, <1>8 DEF BackupsNext, Driver

LEMMA BkShows ==
  ASSUME BkInv
  PROVE  GoneIsGone /\ (DumpsWork => ReadyHasArchive)
<1>1. GoneIsGone
  BY DEF GoneIsGone, BkInv, ArchivesLast
<1>2. ASSUME DumpsWork, NEW b \in Row, backup[b] = "ready", ~Ending(b)
      PROVE  local[b] >= 0 \/ (offsite[b] = "uploaded" /\ remote[b] >= 0)
  <2>1. ~Deleted(b)
    <3>1. ASSUME NEW i \in DOMAIN endings, endings[i].kind = "delete", endings[i].row = b PROVE FALSE
      <4>1. endings[i] \in Range(endings)
        BY DEF Range
      <4> QED BY <1>2, <3>1, <4>1 DEF Ending
    <3> QED BY <3>1 DEF Deleted
  <2>2. Somewhere(b, offsite[b])
    BY <1>2, <2>1 DEF BkInv, ArchivesLast
  <2>3. local[b] \in Archive \ {Hollow} /\ remote[b] \in Archive \ {Hollow}
    BY <1>2 DEF BkInv, BkTypes, NoneHollow
  <2>4. \A a \in Archive \ {Hollow} : a # Missing => a >= 0
    BY DEF Archive
  <2> QED BY <2>2, <2>3, <2>4 DEF Somewhere
<1> QED BY <1>1, <1>2 DEF ReadyHasArchive

LEMMA SitesMoveBackups ==
  ASSUME [SitesNext]_sitesVars
  PROVE  [BackupsNext]_bkVars
BY DEF SitesNext, sitesVars

\* A deleted backup leaves no archive behind, on the node or in the object storage,
\* whichever of the two fails, whoever deletes or restores it meanwhile and however
\* often the pruning comes: backupDelete, applyOutcome, runScheduledBackups.
THEOREM DeletedBackupsLeaveNothing == SitesSpec => []GoneIsGone
<1>1. SitesInit => BkInv
  BY BkInvInit DEF SitesInit
<1>2. BkInv /\ [SitesNext]_sitesVars => BkInv'
  BY BkStep, SitesMoveBackups
<1>3. BkInv => GoneIsGone
  BY BkShows
<1> QED BY <1>1, <1>2, <1>3, PTL DEF SitesSpec

\* What the panel lists as ready can be restored from somewhere, data and all, and what is
\* gone has left nothing, as long as no dump fails: uploads may fail, local copies be dropped.
THEOREM ReadyBackupsCanBeRestored ==
  ASSUME DumpsWork
  PROVE  SitesSpec => []ArchivesFollowRows
<1>1. SitesInit => BkInv
  BY BkInvInit DEF SitesInit
<1>2. BkInv /\ [SitesNext]_sitesVars => BkInv'
  BY BkStep, SitesMoveBackups
<1>3. BkInv => ArchivesFollowRows
  BY BkShows DEF ArchivesFollowRows
<1> QED BY <1>1, <1>2, <1>3, PTL DEF SitesSpec

-----------------------------------------------------------------------------
(* Neither a restore nor the pruning loses what must be kept.              *)

\* The greatest elements of a finite set of numbers.
LEMMA EnoughOfTheNewest ==
  ASSUME NEW n \in Nat, NEW R \in SUBSET Row, R \ Newest(n, R) # {}
  PROVE  Cardinality(Newest(n, R)) >= n
<1> DEFINE P == R \ Newest(n, R)
           Above(b) == {c \in R : c > b}
           F == {Above(b) : b \in P}
<1>1. IsFiniteSet(R) /\ Newest(n, R) \in SUBSET R /\ \A b \in Row : b \in Int
  <2>1. IsFiniteSet(R)
    BY RowsAreFinite
  <2>2. Newest(n, R) \in SUBSET R
    BY DEF Newest
  <2>3. \A b \in Row : b \in Int
    BY DEF Row
  <2> QED BY <2>1, <2>2, <2>3
<1>2. F \in SUBSET FiniteSubsetsOf(R) /\ F # {}
  <2>1. \A b \in P : Above(b) \in SUBSET R
    OBVIOUS
  <2>2. F \in SUBSET (SUBSET R) /\ F # {}
    BY <2>1
  <2> HIDE DEF F
  <2> QED BY <1>1, <2>2, FS_FiniteSubsetsOfFinite
<1>3. PICK u \in F : \A v \in F : v \subseteq u => v = u
  <2> HIDE DEF F
  <2> QED BY <1>2, LeastSubset
<1>4. PICK b \in P : u = Above(b)
  OBVIOUS
<1>5. \A c \in P : c > b => FALSE
  <2> SUFFICES ASSUME NEW c \in P, c > b PROVE FALSE
    OBVIOUS
  <2>1. c \in Int /\ b \in Int /\ c \in R
    BY <1>1
  <2>4. \A d \in R : d \in Int
    BY <1>1
  <2>5. c \in Above(b) /\ c \notin Above(c)
    BY <2>1
  <2>6. ASSUME NEW d \in Above(c) PROVE d \in Above(b)
    <3>1. d \in R /\ d > c /\ d \in Int
      BY <2>4
    <3> QED BY <2>1, <3>1
  <2>2. Above(c) \subseteq Above(b) /\ c \in Above(b) /\ c \notin Above(c)
    BY <2>5, <2>6
  <2>3. Above(c) \in F
    OBVIOUS
  <2> HIDE DEF F
  <2> QED BY <1>3, <1>4, <2>2, <2>3
<1>6. Above(b) \in SUBSET Newest(n, R)
  BY <1>5
<1>7. ~(Cardinality(Above(b)) < n)
  BY DEF Newest
<1>8. IsFiniteSet(Newest(n, R))
  BY <1>1, FS_Subset
<1>9. Cardinality(Above(b)) <= Cardinality(Newest(n, R)) /\ Cardinality(Above(b)) \in Nat /\ Cardinality(Newest(n, R)) \in Nat
  <2>1. ASSUME NEW a \in SUBSET Newest(n, R)
        PROVE  Cardinality(a) <= Cardinality(Newest(n, R)) /\ Cardinality(a) \in Nat /\ Cardinality(Newest(n, R)) \in Nat
    <3>1. IsFiniteSet(a) /\ Cardinality(a) <= Cardinality(Newest(n, R))
      BY <1>8, FS_Subset
    <3> QED BY <1>8, <3>1, FS_CardinalityType
  <2> QED BY <1>6, <2>1
<1> QED BY <1>7, <1>9

LEMMA PruningKeeps ==
  ASSUME BkInv, ScheduledRun, ~Hourly, ~DeletionAsked
  PROVE  Cardinality(Kept') >= KeepScheduled \/ Cardinality(Kept') >= Cardinality(Kept)
<1>0. PICK new : new = NewRow
  OBVIOUS
<1> DEFINE n == KeepScheduled - 1
           top == Newest(n, ReadyScheduled)
<1>1. due /\ InsertBackup("scheduled") /\ new \in Row /\ KeepScheduled \in Nat /\ n \in Nat
  <2>1. due
    BY DEF ScheduledRun
  <2>2. InsertBackup("scheduled") /\ new \in Row
    BY <1>0, <2>1 DEF ScheduledRun, InsertBackup
  <2>3. KeepScheduled \in Nat /\ n \in Nat
    BY BackupsBounds
  <2> QED BY <2>1, <2>2, <2>3
<1>2. BkTypes /\ InOrder /\ MadeOnce /\ OnArchives /\ tasks \in Seq(Task1) /\ purpose \in [Row -> {"manual", "scheduled", "system"}]
  BY DEF BkInv, BkTypes
<1>3. /\ backup[new] = "none" /\ backup'[new] = "creating" /\ purpose'[new] = "scheduled"
      /\ \A b \in Row : b # new => backup'[b] = backup[b] /\ purpose'[b] = purpose[b]
  BY <1>0, <1>1, <1>2, InsertTakesNext DEF InsertBackup
<1>4. PICK y : y = SetToSeq({Task("delete", b) : b \in Prunable})
  OBVIOUS
<1>5. y \in Seq(Task1) /\ \A i \in DOMAIN y : \E b \in Prunable : y[i] = Task("delete", b)
  <2> DEFINE S == {Task("delete", b) : b \in Prunable}
  <2>1. y \in Seq(Task1)
    BY <1>2, <1>4, PrunedJobs
  <2>2. IsFiniteSet(S)
    <3>1. Prunable \in SUBSET Row
      BY DEF Prunable, ReadyScheduled
    <3>2. IsFiniteSet(Prunable)
      BY <3>1, RowsAreFinite
    <3> DEFINE f == [b \in Prunable |-> Task("delete", b)]
    <3>3. f \in [Prunable -> S] /\ \A x \in S : \E b \in Prunable : f[b] = x
      OBVIOUS
    <3> HIDE DEF f, S
    <3>4. f \in Surjection(Prunable, S)
      BY <3>3 DEF Surjection
    <3> QED BY <3>2, <3>4, FS_Surjection
  <2>3. \A i \in DOMAIN y : y[i] \in S
    <3>1. y = SetToSeq(S)
      BY <1>4
    <3> HIDE DEF S
    <3> QED BY <2>2, <3>1, SetInOrder
  <2> QED BY <2>1, <2>3
<1>6. tasks' = tasks \o <<Task("create", new)>> \o y
  BY <1>0, <1>1, <1>4 DEF ScheduledRun
<1>7. \A b, c \in Row : Task("create", b) # Task("delete", c) /\ (Task("delete", b) = Task("delete", c) => b = c)
  BY DEF Task
<1>8. ASSUME NEW b \in Row, Deleting(b)' PROVE Deleting(b) \/ b \in Prunable
  <2>1. PICK i \in DOMAIN tasks' : tasks'[i] = Task("delete", b)
    BY <1>8 DEF Deleting
  <2> DEFINE x == Task("create", new)
  <2>2. x \in Task1 /\ Prunable \subseteq Row
    BY <1>1, TaskIs DEF TaskKind, Prunable, ReadyScheduled
  <2>3. tasks' = tasks \o <<x>> \o y /\ x # Task("delete", b)
    BY <1>1, <1>6, <1>7
  <2> HIDE DEF x
  <2>4. tasks \o <<x>> \in Seq(Task1)
    BY <1>2, <2>2
  <2>5. \/ i \in DOMAIN (tasks \o <<x>>) /\ tasks'[i] = (tasks \o <<x>>)[i]
        \/ \E k \in DOMAIN y : tasks'[i] = y[k]
    BY <1>5, <2>1, <2>3, <2>4, Behind
  <2>6. ASSUME NEW j \in DOMAIN (tasks \o <<x>>)
        PROVE  (j \in DOMAIN tasks /\ (tasks \o <<x>>)[j] = tasks[j]) \/ (tasks \o <<x>>)[j] = x
    BY <1>2, <2>2
  <2> QED BY <1>5, <1>7, <2>1, <2>2, <2>3, <2>5, <2>6 DEF Deleting
<1>9. \A b \in Row : purpose[b] = "scheduled" => ~Deleting(b)
  BY DEF DeletionAsked
<1>10. /\ Kept = {b \in Row : purpose[b] = "scheduled" /\ backup[b] \in {"ready", "creating"}}
       /\ new \notin Kept /\ Prunable \subseteq ReadyScheduled /\ ReadyScheduled \subseteq Kept
       /\ top \subseteq ReadyScheduled /\ Prunable = ReadyScheduled \ top
  BY <1>3, <1>9 DEF Kept, Prunable, ReadyScheduled, Newest
<1>11. ~Deleting(new)'
  <2>1. ~Deleting(new)
    <3> SUFFICES ASSUME NEW i \in DOMAIN tasks, tasks[i] = Task("delete", new) PROVE FALSE
      BY DEF Deleting
    <3>1. tasks[i].kind = "delete" /\ tasks[i].row = new
      BY DEF Task
    <3> QED BY <1>2, <1>3, <3>1 DEF OnArchives, HadArchive
  <2>2. new \notin Prunable
    BY <1>3 DEF Prunable, ReadyScheduled
  <2> QED BY <1>1, <1>8, <2>1, <2>2
<1>12. (Kept \ Prunable) \cup {new} \subseteq Kept'
  <2>1. new \in Kept'
    BY <1>1, <1>3, <1>11 DEF Kept
  <2>2. ASSUME NEW b \in Kept \ Prunable PROVE b \in Kept'
    <3>1. b \in Row /\ b # new /\ purpose[b] = "scheduled" /\ backup[b] \in {"ready", "creating"} /\ ~Deleting(b)
      BY <1>10 DEF Kept
    <3>2. ~Deleting(b)'
      BY <1>8, <2>2, <3>1
    <3> QED BY <1>3, <3>1, <3>2 DEF Kept
  <2> QED BY <2>1, <2>2
<1>13. IsFiniteSet(Kept) /\ IsFiniteSet(Kept') /\ IsFiniteSet(top) /\ ReadyScheduled \in SUBSET Row
  <2>1. Kept \in SUBSET Row /\ Kept' \in SUBSET Row /\ top \in SUBSET Row /\ ReadyScheduled \in SUBSET Row
    BY DEF Kept, Newest, ReadyScheduled
  <2> QED BY <2>1, RowsAreFinite
<1>14. CASE Prunable = {}
  <2>1. Kept \in SUBSET Kept'
    BY <1>12, <1>14
  <2> QED BY <1>13, <2>1, FS_Subset, FS_CardinalityType
<1>15. CASE Prunable # {}
  <2>1. Cardinality(top) >= n
    BY <1>1, <1>10, <1>13, <1>15, EnoughOfTheNewest
  <2>2. top \cup {new} \in SUBSET Kept' /\ new \notin top
    BY <1>10, <1>12
  <2> HIDE DEF top
  <2>3. Cardinality(top \cup {new}) = Cardinality(top) + 1 /\ Cardinality(top) \in Nat
    BY <1>13, <2>2, FS_AddElement, FS_CardinalityType
  <2>4. Cardinality(top \cup {new}) <= Cardinality(Kept')
    BY <1>13, <2>2, FS_Subset
  <2>5. Cardinality(Kept') \in Nat
    BY <1>13, FS_CardinalityType
  <2> QED BY <1>1, <2>1, <2>3, <2>4, <2>5
<1> QED BY <1>14, <1>15

\* Somebody asked for the deletion of a row that was made for safety.
Thrown(b) ==
  /\ purpose[b] = "system"
  /\ \/ \E i \in DOMAIN tasks : tasks[i].kind = "delete" /\ tasks[i].row = b
     \/ \E i \in DOMAIN endings : endings[i].kind = "delete" /\ endings[i].row = b
     \/ backup[b] = "gone"

\* What a job at place i of the queue would replace is in b when its turn comes:
\* b is made before it, or was, and nothing between them changes the site.
Covers(b, i) ==
  /\ purpose[b] = "system"
  /\ \/ /\ remote[b] = content
        /\ \A k \in DOMAIN tasks : k < i => tasks[k].kind \in {"create", "delete"}
     \/ \E j \in DOMAIN tasks :
          /\ j < i /\ tasks[j].kind = "create" /\ tasks[j].row = b
          /\ \A k \in DOMAIN tasks : j < k /\ k < i => tasks[k].kind \in {"create", "delete"}

RestoresCovered ==
  /\ \A i \in DOMAIN tasks : tasks[i].kind = "restore" => \E b \in Row : Covers(b, i)
  /\ restorer # NoRow => \E b \in Row : Covers(b, Len(tasks) + 1)

UndoInv ==
  /\ \A b \in Row : backup[b] = "none" => purpose[b] = "manual"
  /\ trouble = 0 =>
       /\ \A i \in DOMAIN endings : endings[i].kind = "delete" => endings[i].ok
       /\ (\A b \in Row : ~Thrown(b)) => RestoresCovered

LEMMA UndoInvInit == BackupsInit => UndoInv
BY DEF BackupsInit, UndoInv, RestoresCovered

\* Jobs queued behind a place leave it covered; so does what changes nothing.
LEMMA CoversQueued ==
  ASSUME tasks \in Seq(Task1), NEW t \in Seq(Task1), tasks' = tasks \o t, UNCHANGED <<content, remote>>,
         NEW b \in Row, purpose[b] = "system" => purpose'[b] = "system",
         NEW i \in Nat, Covers(b, i)
  PROVE  /\ i <= Len(tasks) + 1 => Covers(b, i)'
         /\ (\A k \in DOMAIN t : t[k].kind \in {"create", "delete"}) => Covers(b, i)'
<1>1. /\ \A k \in DOMAIN tasks' :
           \/ k \in DOMAIN tasks /\ tasks'[k] = tasks[k]
           \/ \E l \in DOMAIN t : k = Len(tasks) + l /\ tasks'[k] = t[l]
      /\ \A k \in DOMAIN tasks : k <= Len(tasks) /\ k \in Int
      /\ \A k \in DOMAIN t : k >= 1 /\ k \in Int
      /\ Len(tasks) \in Nat
  BY Behind
<1>2. \A k \in DOMAIN tasks : k \in DOMAIN tasks' /\ tasks'[k] = tasks[k]
  OBVIOUS
<1>3. ASSUME i <= Len(tasks) + 1 \/ \A k \in DOMAIN t : t[k].kind \in {"create", "delete"}
      PROVE  Covers(b, i)'
  <2>1. ASSUME NEW k \in DOMAIN tasks', k < i
        PROVE  (k \in DOMAIN tasks /\ tasks'[k] = tasks[k]) \/ tasks'[k].kind \in {"create", "delete"}
    <3>1. CASE k \in DOMAIN tasks /\ tasks'[k] = tasks[k]
      BY <3>1
    <3>2. ASSUME NEW l \in DOMAIN t, k = Len(tasks) + l, tasks'[k] = t[l]
          PROVE  tasks'[k].kind \in {"create", "delete"}
      BY <1>1, <1>3, <2>1, <3>2
    <3> QED BY <1>1, <3>1, <3>2
  <2>2. CASE remote[b] = content /\ \A k \in DOMAIN tasks : k < i => tasks[k].kind \in {"create", "delete"}
    <3>1. \A k \in DOMAIN tasks' : k < i => tasks'[k].kind \in {"create", "delete"}
      BY <2>1, <2>2
    <3> QED BY <2>2, <3>1 DEF Covers
  <2>3. ASSUME NEW j \in DOMAIN tasks, j < i, tasks[j].kind = "create", tasks[j].row = b,
               \A k \in DOMAIN tasks : j < k /\ k < i => tasks[k].kind \in {"create", "delete"}
        PROVE  Covers(b, i)'
    <3>1. \A k \in DOMAIN tasks' : j < k /\ k < i => tasks'[k].kind \in {"create", "delete"}
      BY <2>1, <2>3
    <3>2. j \in DOMAIN tasks' /\ tasks'[j].kind = "create" /\ tasks'[j].row = b
      BY <1>2, <2>3
    <3> QED BY <2>3, <3>1, <3>2 DEF Covers
  <2> QED BY <2>2, <2>3 DEF Covers
<1> QED BY <1>3

LEMMA UndoQueued ==
  ASSUME BkInv, UndoInv, NEW t \in Seq(Task1), tasks' = tasks \o t, UNCHANGED <<content, remote, trouble>>,
         \A b \in Row : purpose[b] = "system" => purpose'[b] = "system",
         \A b \in Row : backup'[b] = "none" => purpose'[b] = "manual",
         \A i \in DOMAIN endings' : \E k \in DOMAIN endings : endings'[i] = endings[k],
         trouble = 0 => \A b \in Row : Thrown(b) => Thrown(b)',
         \A i \in DOMAIN t : t[i].kind = "restore" => i = 1 /\ restorer # NoRow,
         restorer' # NoRow =>
           \/ restorer # NoRow /\ \A k \in DOMAIN t : t[k].kind \in {"create", "delete"}
           \/ \E b \in Row : purpose'[b] = "system" /\ Len(t) = 1 /\ t[1].kind = "create" /\ t[1].row = b
  PROVE  UndoInv'
<1>1. tasks \in Seq(Task1) /\ tasks' \in Seq(Task1) /\ Len(tasks') = Len(tasks) + Len(t) /\ Len(t) \in Nat /\ Len(tasks) \in Nat
  BY DEF BkInv, BkTypes
<1>2. /\ \A k \in DOMAIN tasks' :
           \/ k \in DOMAIN tasks /\ tasks'[k] = tasks[k]
           \/ \E l \in DOMAIN t : k = Len(tasks) + l /\ tasks'[k] = t[l]
      /\ \A k \in DOMAIN tasks : k <= Len(tasks) /\ k \in Nat
  BY <1>1, Behind
<1>3. ASSUME trouble' = 0, \A b \in Row : ~Thrown(b)'
      PROVE  RestoresCovered'
  <2>1. RestoresCovered
    BY <1>3 DEF UndoInv
  <2>2. ASSUME NEW i \in DOMAIN tasks', tasks'[i].kind = "restore" PROVE \E b \in Row : Covers(b, i)'
    <3>1. CASE i \in DOMAIN tasks /\ tasks'[i] = tasks[i]
      <4>1. PICK b \in Row : Covers(b, i)
        BY <2>1, <2>2, <3>1 DEF RestoresCovered
      <4>2. i \in Nat /\ i <= Len(tasks) + 1
        BY <1>1, <1>2, <3>1
      <4>3. Covers(b, i)'
        BY <1>1, <4>1, <4>2, CoversQueued
      <4> QED BY <4>3
    <3>2. ASSUME NEW l \in DOMAIN t, i = Len(tasks) + l, tasks'[i] = t[l] PROVE \E b \in Row : Covers(b, i)'
      <4>1. i = Len(tasks) + 1 /\ restorer # NoRow /\ i \in Nat
        BY <1>1, <2>2, <3>2
      <4>2. PICK b \in Row : Covers(b, i)
        BY <2>1, <4>1 DEF RestoresCovered
      <4>3. Covers(b, i)'
        BY <1>1, <4>1, <4>2, CoversQueued
      <4> QED BY <4>3
    <3> QED BY <1>2, <3>1, <3>2
  <2>3. ASSUME restorer' # NoRow, NEW i, i = Len(tasks') + 1 PROVE \E b \in Row : Covers(b, i)'
    <3>1. CASE restorer # NoRow /\ \A k \in DOMAIN t : t[k].kind \in {"create", "delete"}
      <4>1. PICK b \in Row : Covers(b, Len(tasks) + 1)
        BY <2>1, <3>1 DEF RestoresCovered
      <4>2. Covers(b, i)
        <5>1. \A k \in DOMAIN tasks : k < Len(tasks) + 1
          BY <1>1, <1>2
        <5>2. \A k \in DOMAIN tasks : k < i
          BY <1>1, <1>2, <2>3
        <5> QED BY <4>1, <5>1, <5>2 DEF Covers
      <4>3. i \in Nat /\ ~(i <= Len(tasks))
        BY <1>1, <2>3
      <4>4. Covers(b, i)'
        BY <1>1, <3>1, <4>2, <4>3, CoversQueued
      <4> QED BY <4>4
    <3>2. ASSUME NEW b \in Row, purpose'[b] = "system", Len(t) = 1, t[1].kind = "create", t[1].row = b
          PROVE  Covers(b, i)'
      <4> DEFINE j == Len(tasks) + 1
      <4>1. j \in DOMAIN tasks' /\ tasks'[j] = t[1] /\ j < i /\ i = j + 1 /\ j \in Nat
        BY <1>1, <2>3, <3>2
      <4>2. \A k \in DOMAIN tasks' : k \in Nat
        BY <1>1
      <4> HIDE DEF j
      <4>3. \A k \in DOMAIN tasks' : j < k /\ k < i => FALSE
        BY <4>1, <4>2
      <4> QED BY <3>2, <4>1, <4>3 DEF Covers
    <3> QED BY <2>3, <3>1, <3>2
  <2> QED BY <2>2, <2>3 DEF RestoresCovered
<1>4. trouble' = 0 => \A i \in DOMAIN endings' : endings'[i].kind = "delete" => endings'[i].ok
  BY DEF UndoInv
<1> QED BY <1>3, <1>4 DEF UndoInv


\* The first job is done: what it covers is in its archive.
LEMMA UndoTaken ==
  ASSUME BkInv, UndoInv, tasks # <<>>, NEW ok, NEW off, TaskEnds(ok, off),
         UNCHANGED <<bkRows, restorer>>,
         trouble' = 0 =>
           /\ trouble = 0
           /\ First.kind = "delete" => ok
           /\ First.kind = "create" => remote'[First.row] = content'
           /\ First.kind \in {"create", "delete"} =>
                content' = content /\ \A b \in Row : b # First.row => remote'[b] = remote[b]
  PROVE  UndoInv'
<1>1. /\ tasks \in Seq(Task1) /\ endings \in Seq(Ending1) /\ tasks' = Tail(tasks)
      /\ UNCHANGED <<backup, purpose, offsite, restorer>>
  BY DEF BkInv, BkTypes, TaskEnds, bkRows
<1>2. /\ tasks' \in Seq(Task1) /\ 1 \in DOMAIN tasks /\ First = tasks[1] /\ Len(tasks) = Len(tasks') + 1 /\ Len(tasks') \in Nat
      /\ \A k \in DOMAIN tasks' : k \in Nat /\ k + 1 \in DOMAIN tasks /\ tasks'[k] = tasks[k + 1]
      /\ \A k \in DOMAIN tasks : k \in Nat /\ (k # 1 => k > 1 /\ k - 1 \in DOMAIN tasks' /\ tasks'[k - 1] = tasks[k])
  BY <1>1 DEF First
<1>3. PICK e : e = [kind |-> First.kind, row |-> First.row, ok |-> ok, off |-> off]
  OBVIOUS
<1>4. endings' = Append(endings, e) /\ e.kind = First.kind /\ e.row = First.row /\ e.ok = ok
  BY <1>3 DEF TaskEnds
<1>5. DOMAIN endings' = DOMAIN endings \cup {Len(endings) + 1} /\ endings'[Len(endings) + 1] = e
      /\ \A i \in DOMAIN endings : endings'[i] = endings[i]
  BY <1>1, <1>4
<1>6. ASSUME NEW b \in Row, Thrown(b) PROVE Thrown(b)'
  <2>1. purpose'[b] = "system"
    BY <1>1, <1>6 DEF Thrown
  <2>2. ASSUME NEW i \in DOMAIN tasks, tasks[i].kind = "delete", tasks[i].row = b
        PROVE  \/ \E k \in DOMAIN tasks' : tasks'[k].kind = "delete" /\ tasks'[k].row = b
               \/ \E k \in DOMAIN endings' : endings'[k].kind = "delete" /\ endings'[k].row = b
    <3>1. CASE i = 1
      BY <1>2, <1>4, <1>5, <2>2, <3>1
    <3>2. CASE i # 1
      BY <1>2, <2>2, <3>2
    <3> QED BY <3>1, <3>2
  <2>3. ASSUME NEW i \in DOMAIN endings, endings[i].kind = "delete", endings[i].row = b
        PROVE  \E k \in DOMAIN endings' : endings'[k].kind = "delete" /\ endings'[k].row = b
    BY <1>5, <2>3
  <2> QED BY <1>1, <1>6, <2>1, <2>2, <2>3 DEF Thrown
<1>7. ASSUME trouble' = 0, \A b \in Row : ~Thrown(b)'
      PROVE  RestoresCovered'
  <2>1. RestoresCovered /\ \A b \in Row : ~Thrown(b)
    BY <1>6, <1>7 DEF UndoInv
  <2>2. ASSUME NEW b \in Row, NEW i \in Nat, NEW n \in Nat, n = i + 1, Covers(b, n), i > 0
        PROVE  Covers(b, i)'
    <3>1. CASE remote[b] = content /\ \A k \in DOMAIN tasks : k < n => tasks[k].kind \in {"create", "delete"}
      <4>1. First.kind \in {"create", "delete"}
        BY <1>2, <2>2, <3>1
      <4>2. remote'[b] = content'
        <5>1. CASE b # First.row
          BY <1>7, <3>1, <4>1, <5>1
        <5>2. CASE b = First.row /\ First.kind = "create"
          BY <1>7, <5>2
        <5>3. CASE b = First.row /\ First.kind = "delete"
          BY <1>2, <2>1, <2>2, <5>3 DEF Covers, Thrown
        <5> QED BY <4>1, <5>1, <5>2, <5>3
      <4>3. ASSUME NEW k \in DOMAIN tasks', k < i PROVE tasks'[k].kind \in {"create", "delete"}
        <5>1. k + 1 \in DOMAIN tasks /\ k + 1 < n /\ tasks'[k] = tasks[k + 1]
          BY <1>2, <2>2, <4>3
        <5> QED BY <3>1, <5>1
      <4> QED BY <1>1, <2>2, <4>2, <4>3 DEF Covers
    <3>2. ASSUME NEW j \in DOMAIN tasks, j < n, tasks[j].kind = "create", tasks[j].row = b,
                 \A k \in DOMAIN tasks : j < k /\ k < n => tasks[k].kind \in {"create", "delete"}
          PROVE  Covers(b, i)'
      <4>1. ASSUME NEW k \in DOMAIN tasks', k < i, j < k + 1 PROVE tasks'[k].kind \in {"create", "delete"}
        <5>1. k + 1 \in DOMAIN tasks /\ k + 1 < n /\ tasks'[k] = tasks[k + 1]
          BY <1>2, <2>2, <4>1
        <5> QED BY <3>2, <4>1, <5>1
      <4>2. CASE j = 1
        <5>1. remote'[b] = content'
          BY <1>2, <1>7, <3>2, <4>2
        <5>2. \A k \in DOMAIN tasks' : j < k + 1
          BY <1>2, <4>2
        <5>3. \A k \in DOMAIN tasks' : k < i => tasks'[k].kind \in {"create", "delete"}
          BY <4>1, <5>2
        <5> QED BY <1>1, <2>2, <5>1, <5>3 DEF Covers
      <4>3. CASE j # 1
        <5> DEFINE l == j - 1
        <5>1. l \in DOMAIN tasks' /\ tasks'[l] = tasks[j] /\ l < i /\ l \in Int /\ j = l + 1
          BY <1>2, <2>2, <3>2, <4>3
        <5> HIDE DEF l
        <5>2. \A k \in DOMAIN tasks' : l < k => j < k + 1
          BY <1>2, <5>1
        <5>3. \A k \in DOMAIN tasks' : l < k /\ k < i => tasks'[k].kind \in {"create", "delete"}
          BY <4>1, <5>2
        <5> QED BY <1>1, <2>2, <3>2, <5>1, <5>3 DEF Covers
      <4> QED BY <4>2, <4>3
    <3> QED BY <2>2, <3>1, <3>2 DEF Covers
  <2>3. ASSUME NEW i \in DOMAIN tasks', tasks'[i].kind = "restore" PROVE \E b \in Row : Covers(b, i)'
    <3>1. i \in Nat /\ i > 0 /\ i + 1 \in DOMAIN tasks /\ tasks[i + 1].kind = "restore" /\ i + 1 \in Nat
      BY <1>2, <2>3
    <3>2. PICK b \in Row : Covers(b, i + 1)
      BY <2>1, <3>1 DEF RestoresCovered
    <3>3. Covers(b, i)'
      BY <2>2, <3>1, <3>2
    <3> QED BY <3>3
  <2>4. ASSUME restorer' # NoRow, NEW i, i = Len(tasks') + 1 PROVE \E b \in Row : Covers(b, i)'
    <3>1. PICK b \in Row : Covers(b, Len(tasks) + 1)
      BY <1>1, <2>1, <2>4 DEF RestoresCovered
    <3>2. i \in Nat /\ i > 0 /\ Len(tasks) + 1 = i + 1 /\ Len(tasks) + 1 \in Nat
      BY <1>2, <2>4
    <3>3. Covers(b, i)'
      BY <2>2, <3>1, <3>2
    <3> QED BY <3>3
  <2> QED BY <2>3, <2>4 DEF RestoresCovered
<1>8. trouble' = 0 => \A i \in DOMAIN endings' : endings'[i].kind = "delete" => endings'[i].ok
  BY <1>4, <1>5 DEF UndoInv
<1> QED BY <1>1, <1>7, <1>8 DEF UndoInv


\* Requests and runs: what they queue, and what was asked to be deleted stays so.
LEMMA ThrownQueued ==
  ASSUME BkInv, NEW t \in Seq(Task1), tasks' = tasks \o t,
         \A i \in DOMAIN endings : \E k \in DOMAIN endings' : endings'[k] = endings[i],
         \A b \in Row : purpose[b] = "system" => purpose'[b] = "system",
         \A b \in Row : backup[b] = "gone" => backup'[b] = "gone"
  PROVE  \A b \in Row : Thrown(b) => Thrown(b)'
<1>1. tasks \in Seq(Task1)
  BY DEF BkInv, BkTypes
<1>2. \A k \in DOMAIN tasks : k \in DOMAIN tasks' /\ tasks'[k] = tasks[k]
  BY <1>1
<1> QED BY <1>2 DEF Thrown

LEMMA InsertKeepsPurposes ==
  ASSUME BkInv, UndoInv, NEW why \in {"manual", "scheduled", "system"}, InsertBackup(why)
  PROVE  /\ \A b \in Row : purpose[b] = "system" => purpose'[b] = "system"
         /\ \A b \in Row : backup'[b] = "none" => purpose'[b] = "manual"
         /\ \A b \in Row : backup[b] = "gone" => backup'[b] = "gone"
         /\ NewRow \in Row /\ purpose'[NewRow] = why
<1>1. /\ NewRow \in Row /\ backup[NewRow] = "none" /\ backup'[NewRow] = "creating"
      /\ \A b \in Row : b # NewRow => backup'[b] = backup[b]
      /\ purpose \in [Row -> {"manual", "scheduled", "system"}]
  BY InsertTakesNext DEF BkInv, BkTypes
<1>2. purpose' = [purpose EXCEPT ![NewRow] = why] /\ \A b \in Row : backup[b] = "none" => purpose[b] = "manual"
  BY DEF InsertBackup, UndoInv
<1> QED BY <1>1, <1>2

LEMMA UndoAsked ==
  ASSUME BkInv, UndoInv, NEW why \in {"manual", "scheduled", "system"}, InsertBackup(why),
         NEW t \in Seq(Task1), tasks' = tasks \o t, UNCHANGED <<content, remote, trouble>>,
         \A i \in DOMAIN endings' : \E k \in DOMAIN endings : endings'[i] = endings[k],
         trouble = 0 => \A i \in DOMAIN endings :
           (\E k \in DOMAIN endings' : endings'[k] = endings[i]) \/ endings[i].kind # "delete",
         \A i \in DOMAIN t : t[i].kind # "restore",
         restorer' # NoRow =>
           \/ restorer # NoRow /\ \A k \in DOMAIN t : t[k].kind \in {"create", "delete"}
           \/ \E b \in Row : purpose'[b] = "system" /\ Len(t) = 1 /\ t[1].kind = "create" /\ t[1].row = b
  PROVE  UndoInv'
<1>1. /\ \A b \in Row : purpose[b] = "system" => purpose'[b] = "system"
      /\ \A b \in Row : backup'[b] = "none" => purpose'[b] = "manual"
      /\ \A b \in Row : backup[b] = "gone" => backup'[b] = "gone"
  BY InsertKeepsPurposes
<1>2. \A k \in DOMAIN tasks : k \in DOMAIN tasks' /\ tasks'[k] = tasks[k]
  <2>1. tasks \in Seq(Task1)
    BY DEF BkInv, BkTypes
  <2> QED BY <2>1
<1>3. trouble = 0 => \A b \in Row : Thrown(b) => Thrown(b)'
  <2> SUFFICES ASSUME trouble = 0, NEW b \in Row, Thrown(b) PROVE Thrown(b)'
    OBVIOUS
  <2>1. ASSUME NEW i \in DOMAIN endings, endings[i].kind = "delete", endings[i].row = b
        PROVE  \E k \in DOMAIN endings' : endings'[k].kind = "delete" /\ endings'[k].row = b
    <3>1. PICK k \in DOMAIN endings' : endings'[k] = endings[i]
      BY <2>1
    <3> QED BY <2>1, <3>1
  <2> QED BY <1>1, <1>2, <2>1 DEF Thrown
<1>4. \A i \in DOMAIN t : t[i].kind = "restore" => i = 1 /\ restorer # NoRow
  OBVIOUS
<1> QED BY <1>1, <1>3, <1>4, UndoQueued

LEMMA UndoStep ==
  ASSUME BkInv, UndoInv, [BackupsNext]_bkVars
  PROVE  UndoInv'
<1>1. /\ BkTypes /\ tasks \in Seq(Task1) /\ endings \in Seq(Ending1) /\ MadeOnce /\ OnArchives
      /\ backup \in [Row -> {"none", "creating", "ready", "failed", "restoring", "gone"}]
      /\ \A b \in Row : backup[b] = "none" => purpose[b] = "manual"
  BY DEF BkInv, BkTypes, UndoInv
<1>2. ASSUME UNCHANGED endings
      PROVE  /\ \A i \in DOMAIN endings' : \E k \in DOMAIN endings : endings'[i] = endings[k]
             /\ \A i \in DOMAIN endings : \E k \in DOMAIN endings' : endings'[k] = endings[i]
  BY <1>2
\* One row more, and the job that makes its archive.
<1>3. ASSUME NEW why \in {"manual", "scheduled", "system"}, InsertBackup(why),
             tasks' = Append(tasks, Task("create", NewRow)), UNCHANGED <<content, remote, trouble>>,
             \A i \in DOMAIN endings' : \E k \in DOMAIN endings : endings'[i] = endings[k],
             trouble = 0 => \A i \in DOMAIN endings :
               (\E k \in DOMAIN endings' : endings'[k] = endings[i]) \/ endings[i].kind # "delete",
             restorer' = restorer \/ why = "system"
      PROVE  UndoInv'
  <2> DEFINE x == Task("create", NewRow)
  <2>1. NewRow \in Row /\ purpose'[NewRow] = why
    BY <1>3, InsertKeepsPurposes
  <2>2. x \in Task1 /\ x.kind = "create" /\ x.row = NewRow /\ tasks' = Append(tasks, x)
    BY <1>3, <2>1, TaskIs DEF TaskKind
  <2> HIDE DEF x
  <2>3. tasks' = tasks \o <<x>> /\ <<x>> \in Seq(Task1) /\ DOMAIN <<x>> = {1} /\ <<x>>[1] = x /\ Len(<<x>>) = 1
    BY <1>1, <2>2, OneBehind
  <2>4. PICK t : t = <<x>>
    OBVIOUS
  <2>5. t \in Seq(Task1) /\ tasks' = tasks \o t /\ DOMAIN t = {1} /\ t[1].kind = "create" /\ t[1].row = NewRow /\ Len(t) = 1
    BY <2>2, <2>3, <2>4
  <2>6. \A i \in DOMAIN t : t[i].kind # "restore" /\ t[i].kind \in {"create", "delete"}
    BY <2>5
  <2>7. restorer' # NoRow =>
          \/ restorer # NoRow /\ \A k \in DOMAIN t : t[k].kind \in {"create", "delete"}
          \/ \E b \in Row : purpose'[b] = "system" /\ Len(t) = 1 /\ t[1].kind = "create" /\ t[1].row = b
    BY <1>3, <2>1, <2>5, <2>6
  <2> QED BY <1>3, <2>5, <2>6, <2>7, UndoAsked
<1>4. CASE CreateBackup
  <2>1. /\ InsertBackup("manual") /\ tasks' = Append(tasks, Task("create", NewRow)) /\ restorer' = restorer
        /\ UNCHANGED <<content, remote, trouble>> /\ UNCHANGED endings
    BY <1>4 DEF CreateBackup, bkNode
  <2> QED BY <1>2, <1>3, <2>1
<1>5. CASE AskRestore
  <2>1. /\ InsertBackup("system") /\ tasks' = Append(tasks, Task("create", NewRow))
        /\ UNCHANGED <<content, remote, trouble>> /\ UNCHANGED endings
    BY <1>5 DEF AskRestore, bkNode
  <2> QED BY <1>2, <1>3, <2>1
\* Jobs queued for rows there are.
<1>6. ASSUME NEW t \in Seq(Task1), tasks' = tasks \o t, UNCHANGED <<content, remote, trouble, purpose>>, UNCHANGED endings,
             \A b \in Row : backup[b] = "gone" => backup'[b] = "gone",
             \A b \in Row : backup'[b] = "none" => backup[b] = "none",
             \A i \in DOMAIN t : t[i].kind = "restore" => i = 1 /\ restorer # NoRow,
             restorer' # NoRow => restorer # NoRow /\ \A k \in DOMAIN t : t[k].kind \in {"create", "delete"}
      PROVE  UndoInv'
  <2>1. /\ \A i \in DOMAIN endings' : \E k \in DOMAIN endings : endings'[i] = endings[k]
        /\ \A i \in DOMAIN endings : \E k \in DOMAIN endings' : endings'[k] = endings[i]
    BY <1>2, <1>6
  <2>2. /\ \A b \in Row : purpose[b] = "system" => purpose'[b] = "system"
        /\ \A b \in Row : backup'[b] = "none" => purpose'[b] = "manual"
    BY <1>1, <1>6
  <2>3. \A b \in Row : Thrown(b) => Thrown(b)'
    BY <1>6, <2>1, <2>2, ThrownQueued
  <2> QED BY <1>6, <2>1, <2>2, <2>3, UndoQueued
<1>7. CASE QueueRestore
  <2>1. restorer # NoRow /\ restorer' = NoRow /\ UNCHANGED <<content, remote, trouble, purpose>> /\ UNCHANGED endings /\ restorer \in Row
    BY <1>1, <1>7 DEF QueueRestore, bkNode, BkTypes
  <2>2. CASE backup[restorer] = "gone"
    <3>1. UNCHANGED <<backup, tasks>>
      BY <1>7, <2>2 DEF QueueRestore
    <3>2. PICK t : t = <<>>
      OBVIOUS
    <3>3. t \in Seq(Task1) /\ tasks' = tasks \o t /\ DOMAIN t = {}
      BY <1>1, <3>1, <3>2
    <3>4. /\ \A b \in Row : backup[b] = "gone" => backup'[b] = "gone"
          /\ \A b \in Row : backup'[b] = "none" => backup[b] = "none"
          /\ \A i \in DOMAIN t : t[i].kind = "restore" => i = 1 /\ restorer # NoRow
      BY <3>1, <3>3
    <3> QED BY <1>6, <2>1, <3>3, <3>4
  <2>3. CASE backup[restorer] # "gone"
    <3> DEFINE x == Task("restore", restorer)
    <3>1. x \in Task1 /\ x.kind = "restore" /\ tasks' = Append(tasks, x)
      BY <1>7, <2>1, <2>3, TaskIs DEF TaskKind, QueueRestore
    <3>2. backup' = [backup EXCEPT ![restorer] = "restoring"]
      BY <1>7, <2>3 DEF QueueRestore
    <3> HIDE DEF x
    <3>3. PICK t : t = <<x>>
      OBVIOUS
    <3>4. t \in Seq(Task1) /\ tasks' = tasks \o t /\ DOMAIN t = {1}
      BY <1>1, <3>1, <3>3, OneBehind
    <3>5. /\ \A b \in Row : backup[b] = "gone" => backup'[b] = "gone"
          /\ \A b \in Row : backup'[b] = "none" => backup[b] = "none"
          /\ \A i \in DOMAIN t : t[i].kind = "restore" => i = 1 /\ restorer # NoRow
      BY <1>1, <2>1, <2>3, <3>2, <3>4
    <3> QED BY <1>6, <2>1, <3>4, <3>5
  <2> QED BY <2>2, <2>3
<1>8. CASE DeleteBackup
  <2>1. PICK b \in Row : tasks' = Append(tasks, Task("delete", b)) /\ UNCHANGED <<bkRows, endings, bkNode, restorer>>
    BY <1>8 DEF DeleteBackup
  <2> DEFINE x == Task("delete", b)
  <2>2. x \in Task1 /\ x.kind = "delete" /\ tasks' = Append(tasks, x)
    BY <2>1, TaskIs DEF TaskKind
  <2> HIDE DEF x
  <2>3. PICK t : t = <<x>>
    OBVIOUS
  <2>4. t \in Seq(Task1) /\ tasks' = tasks \o t /\ DOMAIN t = {1} /\ t[1].kind = "delete"
    <3>1. t \in Seq(Task1) /\ tasks' = tasks \o t /\ DOMAIN t = {1} /\ t[1] = x
      BY <1>1, <2>2, <2>3, OneBehind
    <3> QED BY <2>2, <3>1
  <2>5. /\ UNCHANGED <<content, remote, trouble, purpose>> /\ UNCHANGED endings /\ backup' = backup /\ restorer' = restorer
        /\ \A i \in DOMAIN t : t[i].kind = "delete"
    BY <2>1, <2>4 DEF bkRows, bkNode
  <2>6. /\ \A c \in Row : backup[c] = "gone" => backup'[c] = "gone"
        /\ \A c \in Row : backup'[c] = "none" => backup[c] = "none"
        /\ \A i \in DOMAIN t : t[i].kind = "restore" => i = 1 /\ restorer # NoRow
        /\ restorer' # NoRow => restorer # NoRow /\ \A k \in DOMAIN t : t[k].kind \in {"create", "delete"}
    BY <2>5
  <2> QED BY <1>6, <2>4, <2>5, <2>6
<1>9. CASE ScheduledRun
  <2>1. PICK y : y = SetToSeq({Task("delete", b) : b \in Prunable})
    OBVIOUS
  <2>2. y \in Seq(Task1) /\ \A i \in DOMAIN y : y[i].kind = "delete"
    BY <1>1, <2>1, PrunedJobs
  <2>3. /\ UNCHANGED <<content, remote, trouble>> /\ UNCHANGED endings /\ restorer' = restorer
        /\ tasks' = tasks \o (IF due THEN <<Task("create", NewRow)>> ELSE <<>>) \o y
    BY <1>9, <2>1 DEF ScheduledRun, bkNode
  <2>4. CASE due
    <3> DEFINE x == Task("create", NewRow)
    <3>1. InsertBackup("scheduled") /\ NewRow \in Row
      BY <1>9, <2>4 DEF ScheduledRun, InsertBackup
    <3>2. x \in Task1 /\ x.kind = "create" /\ tasks' = tasks \o <<x>> \o y
      BY <2>3, <2>4, <3>1, TaskIs DEF TaskKind
    <3> HIDE DEF x
    <3>3. PICK t : t = <<x>> \o y
      OBVIOUS
    <3>4. tasks' = tasks \o t /\ t \in Seq(Task1)
      BY <1>1, <2>2, <3>2, <3>3
    <3>5. \A i \in DOMAIN t : t[i] = x \/ \E k \in DOMAIN y : t[i] = y[k]
      <4>1. <<x>> \in Seq(Task1) /\ \A i \in DOMAIN <<x>> : <<x>>[i] = x
        BY <3>2
      <4> QED BY <2>2, <3>3, <4>1, Behind
    <3>6. \A i \in DOMAIN t : t[i].kind \in {"create", "delete"} /\ t[i].kind # "restore"
      BY <2>2, <3>2, <3>5
    <3>7. /\ \A i \in DOMAIN endings' : \E k \in DOMAIN endings : endings'[i] = endings[k]
          /\ \A i \in DOMAIN endings : \E k \in DOMAIN endings' : endings'[k] = endings[i]
      BY <1>2, <2>3
    <3>8. restorer' # NoRow => restorer # NoRow /\ \A k \in DOMAIN t : t[k].kind \in {"create", "delete"}
      BY <2>3, <3>6
    <3> QED BY <2>3, <3>1, <3>4, <3>6, <3>7, <3>8, UndoAsked
  <2>5. CASE ~due
    <3>1. UNCHANGED <<backup, purpose, offsite>>
      BY <1>9, <2>5 DEF ScheduledRun, bkRows
    <3>2. tasks' = tasks \o y
      <4>1. tasks' = tasks \o <<>> \o y
        BY <2>3, <2>5
      <4> QED BY <1>1, <4>1, OneBehind
    <3>3. /\ \A b \in Row : backup[b] = "gone" => backup'[b] = "gone"
          /\ \A b \in Row : backup'[b] = "none" => backup[b] = "none"
          /\ \A i \in DOMAIN y : y[i].kind = "restore" => i = 1 /\ restorer # NoRow
          /\ restorer' # NoRow => restorer # NoRow /\ \A k \in DOMAIN y : y[k].kind \in {"create", "delete"}
      BY <2>2, <2>3, <3>1
    <3> QED BY <1>6, <2>2, <2>3, <3>1, <3>2, <3>3
  <2> QED BY <1>1, <2>4, <2>5 DEF BkTypes
<1>10. CASE AutoUpdate
  <2> DEFINE x == Task("create", NewRow)
             z == Task("autoupdate", NewRow)
  <2>1. /\ InsertBackup("system") /\ tasks' = tasks \o <<x, z>> /\ NewRow \in Row /\ restorer' = NoRow
        /\ UNCHANGED <<content, remote, trouble>> /\ UNCHANGED endings
    BY <1>10 DEF AutoUpdate, InsertBackup, bkNode
  <2>2. x \in Task1 /\ x.kind = "create" /\ z \in Task1 /\ z.kind = "autoupdate"
    BY <2>1, TaskIs DEF TaskKind
  <2> HIDE DEF x, z
  <2>3. PICK t : t = <<x, z>>
    OBVIOUS
  <2>4. t \in Seq(Task1) /\ DOMAIN t = {1, 2} /\ t[1] = x /\ t[2] = z /\ tasks' = tasks \o t
    BY <2>1, <2>2, <2>3
  <2>5. \A i \in DOMAIN t : t[i].kind # "restore"
    BY <2>2, <2>4
  <2>6. /\ \A i \in DOMAIN endings' : \E k \in DOMAIN endings : endings'[i] = endings[k]
        /\ \A i \in DOMAIN endings : \E k \in DOMAIN endings' : endings'[k] = endings[i]
    BY <1>2, <2>1
  <2> QED BY <2>1, <2>4, <2>5, <2>6, UndoAsked
<1>11. CASE FoldBackup
  <2> DEFINE e == Head(endings)
  <2>1. /\ endings # <<>> /\ endings' = Tail(endings) /\ UNCHANGED <<content, remote, trouble>>
    BY <1>11 DEF FoldBackup, bkNode
  <2>2. /\ e \in Ending1 /\ 1 \in DOMAIN endings /\ e = endings[1]
        /\ \A i \in DOMAIN endings' : i + 1 \in DOMAIN endings /\ endings'[i] = endings[i + 1]
        /\ \A k \in DOMAIN endings : k # 1 => k - 1 \in DOMAIN endings' /\ endings'[k - 1] = endings[k]
    BY <1>1, <2>1, InFront
  <2>3. e.kind \in TaskKind /\ e.row \in Row /\ e.ok \in BOOLEAN
    BY <2>2 DEF Ending1
  <2>4. \A i \in DOMAIN endings' : \E k \in DOMAIN endings : endings'[i] = endings[k]
    BY <2>2
  <2>5. ASSUME NEW i \in DOMAIN endings
        PROVE  (\E k \in DOMAIN endings' : endings'[k] = endings[i]) \/ (i = 1 /\ endings[i] = e)
    BY <2>2
  <2> HIDE DEF e
  <2>6. CASE TakesBack(e)
    <3>1. e.kind = "autoupdate" /\ InsertBackup("system") /\ tasks' = Append(tasks, Task("create", NewRow))
      BY <1>11, <2>6 DEF FoldBackup, TakesBack, e
    <3>2. \A i \in DOMAIN endings : (\E k \in DOMAIN endings' : endings'[k] = endings[i]) \/ endings[i].kind # "delete"
      BY <2>5, <3>1
    <3> QED BY <1>3, <2>1, <2>4, <3>1, <3>2
  <2>7. CASE ~TakesBack(e)
    <3>1. backup' = [backup EXCEPT ![e.row] = FoldedBackup(e, @)] /\ UNCHANGED <<tasks, restorer, purpose>>
      BY <1>11, <2>7 DEF FoldBackup, e
    <3>2. /\ backup'[e.row] = FoldedBackup(e, backup[e.row]) /\ \A b \in Row : b # e.row => backup'[b] = backup[b]
          /\ backup[e.row] \in {"none", "creating", "ready", "failed", "restoring", "gone"}
      BY <1>1, <2>3, <3>1
    <3>3. e.kind = "create" => backup[e.row] = "creating"
      BY <1>1, <2>2 DEF MadeOnce
    <3>4. e.kind \in {"create", "restore", "delete", "autoupdate"}
      BY <2>3 DEF TaskKind
    <3>5. /\ backup[e.row] = "gone" => backup'[e.row] = "gone"
          /\ backup'[e.row] = "none" => backup[e.row] = "none"
          /\ e.kind = "delete" /\ e.ok => backup'[e.row] = "gone"
      <4>1. CASE e.kind = "create"
        BY <3>2, <3>3, <4>1 DEF FoldedBackup
      <4>2. CASE e.kind = "restore"
        BY <3>2, <4>2 DEF FoldedBackup
      <4>3. CASE e.kind = "delete"
        BY <3>2, <4>3 DEF FoldedBackup
      <4>4. CASE e.kind = "autoupdate"
        BY <3>2, <4>4 DEF FoldedBackup
      <4> QED BY <3>4, <4>1, <4>2, <4>3, <4>4
    <3>6. /\ \A b \in Row : backup[b] = "gone" => backup'[b] = "gone"
          /\ \A b \in Row : purpose[b] = "system" => purpose'[b] = "system"
          /\ \A b \in Row : backup'[b] = "none" => purpose'[b] = "manual"
      BY <1>1, <3>1, <3>2, <3>5
    <3>7. ASSUME trouble = 0, NEW b \in Row, Thrown(b) PROVE Thrown(b)'
      <4>1. ASSUME NEW i \in DOMAIN endings, endings[i].kind = "delete", endings[i].row = b
            PROVE  (\E k \in DOMAIN endings' : endings'[k].kind = "delete" /\ endings'[k].row = b) \/ backup'[b] = "gone"
        <5>1. CASE \E k \in DOMAIN endings' : endings'[k] = endings[i]
          BY <4>1, <5>1
        <5>2. CASE i = 1 /\ endings[i] = e
          <6>1. e.kind = "delete" /\ e.ok /\ e.row = b
            BY <3>7, <4>1, <5>2 DEF UndoInv
          <6> QED BY <3>5, <6>1
        <5> QED BY <2>5, <5>1, <5>2
      <4> QED BY <3>1, <3>6, <3>7, <4>1 DEF Thrown
    <3>8. PICK t : t = <<>>
      OBVIOUS
    <3>9. t \in Seq(Task1) /\ tasks' = tasks \o t /\ DOMAIN t = {}
      BY <1>1, <3>1, <3>8
    <3>10. /\ \A i \in DOMAIN t : t[i].kind = "restore" => i = 1 /\ restorer # NoRow
           /\ restorer' # NoRow => restorer # NoRow /\ \A k \in DOMAIN t : t[k].kind \in {"create", "delete"}
      BY <3>1, <3>9
    <3> QED BY <2>1, <2>4, <3>6, <3>7, <3>9, <3>10, UndoQueued
  <2> QED BY <2>6, <2>7
\* The node.
<1>12. ASSUME tasks # <<>>, Fails, UNCHANGED <<bkRows, restorer>> PROVE UndoInv'
  <2>2. trouble \in Nat
    BY <1>1 DEF BkTypes
  <2>3. TaskEnds(FALSE, "none") /\ trouble' = trouble + 1
    BY <1>12 DEF Fails
  <2>1. ~(trouble' = 0)
    BY <2>2, <2>3
  <2> QED BY <1>12, <2>1, <2>3, UndoTaken
<1>13. CASE DriverCreate
  <2>1. tasks # <<>> /\ First.kind = "create" /\ UNCHANGED <<bkRows, restorer>>
    BY <1>13 DEF DriverCreate, Doing
  <2>2. ASSUME NEW uploaded \in BOOLEAN, NEW dumped \in BOOLEAN,
               trouble' = trouble + Cardinality({FALSE} \cap {uploaded, dumped}),
               remote' = [remote EXCEPT ![First.row] = IF uploaded THEN Archived(dumped) ELSE Missing],
               TaskEnds(TRUE, IF uploaded THEN "uploaded" ELSE "failed"),
               UNCHANGED content
        PROVE  UndoInv'
    <3>1. First.row \in Row /\ remote \in [Row -> Archive] /\ trouble \in Nat
      BY <1>1, <2>1, FirstIs DEF BkTypes
    <3>2. trouble' = 0 => trouble = 0 /\ uploaded /\ dumped
      <4>1. CASE uploaded /\ dumped
        <5>1. {FALSE} \cap {uploaded, dumped} = {}
          BY <4>1
        <5>2. Cardinality({FALSE} \cap {uploaded, dumped}) = 0
          BY <5>1, FS_EmptySet
        <5> QED BY <2>2, <3>1, <4>1, <5>2
      <4>2. CASE ~uploaded \/ ~dumped
        <5>1. {FALSE} \cap {uploaded, dumped} = {FALSE}
          BY <4>2
        <5>2. Cardinality({FALSE} \cap {uploaded, dumped}) = 1
          BY <5>1, FS_Singleton
        <5> QED BY <2>2, <3>1, <5>2
      <4> QED BY <4>1, <4>2
    <3>3. trouble' = 0 => remote'[First.row] = content'
      BY <2>2, <3>1, <3>2 DEF Archived
    <3>4. \A b \in Row : b # First.row => remote'[b] = remote[b]
      BY <2>2, <3>1
    <3> DEFINE off == IF uploaded THEN "uploaded" ELSE "failed"
    <3>5. TaskEnds(TRUE, off)
      BY <2>2
    <3> HIDE DEF off
    <3>6. trouble' = 0 =>
           /\ trouble = 0
           /\ First.kind = "delete" => TRUE
           /\ First.kind = "create" => remote'[First.row] = content'
           /\ First.kind \in {"create", "delete"} =>
                content' = content /\ \A b \in Row : b # First.row => remote'[b] = remote[b]
      BY <2>2, <3>2, <3>3, <3>4
    <3> QED BY <2>1, <3>5, <3>6, UndoTaken
  <2> QED BY <1>12, <1>13, <2>1, <2>2 DEF DriverCreate
<1>14. CASE DriverRestore
  <2>1. tasks # <<>> /\ First.kind = "restore" /\ UNCHANGED <<bkRows, restorer>>
    BY <1>14 DEF DriverRestore, Doing
  <2>2. ASSUME NEW ok \in BOOLEAN, TaskEnds(ok, "none"), UNCHANGED trouble PROVE UndoInv'
    <3>1. trouble' = 0 => trouble = 0
      BY <2>2
    <3> QED BY <2>1, <2>2, <3>1, UndoTaken
  <2> QED BY <1>12, <1>14, <2>1, <2>2 DEF DriverRestore, bkNode
<1>15. CASE DriverDelete
  <2>1. tasks # <<>> /\ First.kind = "delete" /\ UNCHANGED <<bkRows, restorer>>
    BY <1>15 DEF DriverDelete, Doing
  <2>2. ASSUME remote' = [remote EXCEPT ![First.row] = Missing], TaskEnds(TRUE, "none"), UNCHANGED <<content, trouble>>
        PROVE  UndoInv'
    <3>1. remote \in [Row -> Archive]
      BY <1>1 DEF BkTypes
    <3>2. \A b \in Row : b # First.row => remote'[b] = remote[b]
      BY <2>2, <3>1
    <3>3. trouble' = 0 =>
           /\ trouble = 0
           /\ First.kind = "delete" => TRUE
           /\ First.kind = "create" => remote'[First.row] = content'
           /\ First.kind \in {"create", "delete"} =>
                content' = content /\ \A b \in Row : b # First.row => remote'[b] = remote[b]
      BY <2>1, <2>2, <3>2
    <3> QED BY <2>1, <2>2, <3>3, UndoTaken
  <2> QED BY <1>12, <1>15, <2>1, <2>2 DEF DriverDelete
<1>16. CASE DriverAutoUpdate
  <2>1. tasks # <<>> /\ First.kind = "autoupdate" /\ UNCHANGED <<bkRows, restorer>> /\ UNCHANGED trouble
    BY <1>16 DEF DriverAutoUpdate, Doing
  <2>2. PICK breaks \in BOOLEAN : TaskEnds(broken \/ ~breaks, "none")
    BY <1>16 DEF DriverAutoUpdate
  <2>3. trouble' = 0 => trouble = 0
    BY <2>1
  <2>4. ASSUME NEW ok, TaskEnds(ok, "none") PROVE UndoInv'
    BY <2>1, <2>3, <2>4, UndoTaken
  <2> QED BY <2>2, <2>4
<1>17. CASE DayPasses \/ UNCHANGED bkVars
  <2>1. UNCHANGED <<backup, purpose, tasks, endings, content, remote, restorer, trouble>>
    BY <1>17 DEF DayPasses, bkVars, bkRows, bkNode
  <2> QED BY <2>1 DEF UndoInv, RestoresCovered, Covers, Thrown
<1>18. CASE Edit
  <2>1. tasks = <<>> /\ restorer = NoRow /\ UNCHANGED <<backup, purpose, tasks, endings, restorer, trouble>>
    BY <1>18 DEF Edit, bkRows
  <2> QED BY <2>1 DEF UndoInv, RestoresCovered, Thrown
<1> QED BY <1>4, <1>5, <1>7, <1>8, <1>9, <1>10, <1>11, <1>13, <1>14, <1>15, <1>16, <1>17, <1>18 DEF BackupsNext, Driver

LEMMA RestoresUndo ==
  ASSUME BkInv, UndoInv, Doing("restore"), trouble = 0, ~SafetyThrownAway
  PROVE  \E b \in Row : purpose[b] = "system" /\ content \in {local[b], remote[b]}
<1>1. tasks \in Seq(Task1) /\ endings \in Seq(Ending1) /\ (\A i \in DOMAIN tasks : tasks[i] \in Task1)
  <2>1. tasks \in Seq(Task1) /\ endings \in Seq(Ending1)
    BY DEF BkInv, BkTypes
  <2> QED BY <2>1, InSeq
<1>2. ASSUME NEW b \in Row PROVE ~Thrown(b)
  <2>1. ASSUME NEW i \in DOMAIN tasks, tasks[i].kind = "delete", tasks[i].row = b PROVE Deleting(b)
    <3>1. tasks[i] = Task("delete", b)
      BY <1>1, <2>1 DEF Task, Task1
    <3> QED BY <3>1 DEF Deleting
  <2>2. ASSUME NEW i \in DOMAIN endings, endings[i].kind = "delete", endings[i].row = b PROVE Ending(b)
    <3>1. endings[i] \in Range(endings)
      BY DEF Range
    <3> QED BY <2>2, <3>1 DEF Ending
  <2> QED BY <2>1, <2>2 DEF Thrown, SafetyThrownAway
<1>3. 1 \in DOMAIN tasks /\ tasks[1].kind = "restore" /\ \A k \in DOMAIN tasks : ~(k < 1)
  BY <1>1 DEF Doing, First
<1>4. PICK b \in Row : Covers(b, 1)
  BY <1>2, <1>3 DEF UndoInv, RestoresCovered
<1> QED BY <1>3, <1>4 DEF Covers

\* Neither a restore nor the pruning loses what must be kept, as long as the run comes once
\* a day: what a restore replaces is in the safety backup that was queued before it, and a
\* run leaves as many daily backups as the setting says, or as there were.
THEOREM NoBackupIsLost ==
  ASSUME ~Hourly
  PROVE  SitesSpec => NothingIsLost
<1>1. SitesInit => BkInv /\ UndoInv
  BY BkInvInit, UndoInvInit DEF SitesInit
<1>2. BkInv /\ UndoInv /\ [SitesNext]_sitesVars => (BkInv /\ UndoInv)'
  BY BkStep, UndoStep, SitesMoveBackups
<1>3. BkInv /\ UndoInv =>
        (Doing("restore") /\ content' # content /\ trouble = 0 /\ ~SafetyThrownAway =>
           \E b \in Row : purpose[b] = "system" /\ content \in {local[b], remote[b]})
  BY RestoresUndo
<1>4. BkInv /\ UndoInv =>
        (ScheduledRun /\ ~DeletionAsked =>
           Cardinality(Kept') >= KeepScheduled \/ Cardinality(Kept') >= Cardinality(Kept))
  BY PruningKeeps
<1>5. SitesSpec => [](BkInv /\ UndoInv)
  BY <1>1, <1>2, PTL DEF SitesSpec
<1>6. SitesSpec => RestoreIsUndoable
  BY <1>3, <1>5, PTL DEF RestoreIsUndoable
<1>7. SitesSpec => KeptAsConfigured
  BY <1>4, <1>5, PTL DEF KeptAsConfigured
<1> QED BY <1>6, <1>7 DEF NothingIsLost

-----------------------------------------------------------------------------
(* Previews, while one request is served at a time and nobody is hasty.    *)

Orderly == ~Hasty /\ \A g, h \in Hook : g = h

PreStatus == {"none", "creating", "running", "error", "deleting", "deleted"}
Blank     == [status : {"none"}]
Inhabited == [status : PreStatus \ {"none"}, branch : Branch]
Post      == [branch : Branch, deleted : BOOLEAN]
Do        == {"create", "deploy", "delete"}
Result    == [do : Do, ok : BOOLEAN]
Plan      == [do : {"nothing"}] \cup [do : {"create"}, branch : Branch] \cup [do : {"deploy"}, preview : Preview]
               \cup [do : {"remove"}, what : SUBSET Preview]

PreTypes ==
  /\ tip \in [Branch -> 0 .. MaxPushes]
  /\ posts \in Seq(Post)
  /\ hook \in [Hook -> Plan]
  /\ enabled \in BOOLEAN
  /\ preview \in [Preview -> Blank \cup Inhabited]
  /\ serves \in [Preview -> 0 .. MaxPushes]
  /\ queued \in [Preview -> Seq(Do)]
  /\ results \in [Preview -> Seq(Result)]
  /\ pushes \in 0 .. MaxPushes /\ switches \in Nat /\ unbuilt \in Nat

St(p) == preview[p].status
Br(p) == preview[p].branch
Stands(p) == St(p) \notin {"none", "deleted"}

RowsInOrder == \A p \in Preview : St(p) # "none" <=> p < NewPreview

OneEach ==
  /\ \A p, q \in Preview : Stands(p) /\ Stands(q) /\ Br(p) = Br(q) => p = q
  /\ Cardinality(Previews) <= MaxPreviews

\* A branch is reported once at a time, as what it is now.
Reports ==
  /\ \A i, k \in DOMAIN posts : posts[i].branch = posts[k].branch => i = k
  /\ \A i \in DOMAIN posts : posts[i].deleted <=> tip[posts[i].branch] = NoCommit

\* The deletion of a preview is its last job.
LastJob ==
  \A p \in Preview :
    /\ \A i \in DOMAIN queued[p] : queued[p][i] = "delete" => i = Len(queued[p])
    /\ Len(results[p]) <= 1
    /\ \A i \in DOMAIN results[p] : results[p][i].do = "delete" => queued[p] = <<>>

HasJob(p, do) == (\E i \in DOMAIN queued[p] : queued[p][i] = do) \/ \E i \in DOMAIN results[p] : results[p][i].do = do

\* The job that makes a preview is its first, and a job to deploy one has what it takes.
Builds ==
  /\ \A p \in Preview : \A i \in DOMAIN queued[p] :
       /\ queued[p][i] = "create" => i = 1 /\ results[p] = <<>> /\ serves[p] = NoCommit
       /\ queued[p][i] = "deploy" => tip[Br(p)] # NoCommit
  /\ \A h \in Hook : hook[h].do = "deploy" => tip[Br(hook[h].preview)] # NoCommit
  /\ \A p \in Preview : \A i \in DOMAIN results[p] :
       results[p][i].do = "delete" => IF results[p][i].ok THEN serves[p] = NoCommit ELSE unbuilt > 0

Rows ==
  \A p \in Preview :
    /\ ~Stands(p) => queued[p] = <<>> /\ results[p] = <<>> /\ serves[p] = NoCommit
    /\ St(p) = "creating" => HasJob(p, "create")
    /\ St(p) = "deleting" => HasJob(p, "delete")

Decided ==
  \A h \in Hook :
    /\ hook[h].do = "create" => /\ \A p \in Preview : Stands(p) => Br(p) # hook[h].branch
                                /\ Cardinality(Previews) < MaxPreviews
    /\ hook[h].do = "deploy" => Stands(hook[h].preview) /\ ~HasJob(hook[h].preview, "delete")
    /\ hook[h].do = "remove" => /\ hook[h].what # {}
                                /\ \A p \in hook[h].what : Stands(p) /\ ~HasJob(p, "delete")

Removing(p) == \E h \in Hook : hook[h].do = "remove" /\ p \in hook[h].what
Going(p) == HasJob(p, "delete") \/ Removing(p)

\* What goes is not reported, unless previews are off; then all go.
Leave ==
  /\ enabled => \A p \in Preview : Stands(p) /\ Going(p) => ~Reported(Br(p))
  /\ ~enabled /\ unbuilt = 0 => \A p \in Preview : Stands(p) => Going(p)
  /\ ~enabled => \A h \in Hook : hook[h].do \notin {"create", "deploy"}

\* What is neither going nor to be built shows its branch, or is reported.
Fresh ==
  unbuilt = 0 =>
    \A p \in Preview :
      Stands(p) /\ ~Going(p) /\ (\A h \in Hook : ~(hook[h].do = "deploy" /\ hook[h].preview = p))
                /\ (\A i \in DOMAIN queued[p] : queued[p][i] \notin {"create", "deploy"})
                /\ serves[p] # tip[Br(p)] =>
        Reported(Br(p)) /\ queued[p] = <<>> /\ results[p] = <<>>

PreInv == PreTypes /\ RowsInOrder /\ OneEach /\ Reports /\ LastJob /\ Builds /\ Rows /\ Decided /\ Leave /\ Fresh

LEMMA PreBounds == MaxRows \in Nat /\ MaxPushes \in Nat /\ MaxPreviews \in Nat
BY PreviewsBounds

LEMMA PreviewsAreFinite ==
  /\ \A S : S \in SUBSET Preview => IsFiniteSet(S) /\ Cardinality(S) \in Nat
  /\ NewPreview \in Nat
<1>1. IsFiniteSet(Preview)
  BY PreBounds, FS_Interval DEF Preview
<1>2. \A S : S \in SUBSET Preview => IsFiniteSet(S) /\ Cardinality(S) \in Nat
  BY <1>1, FS_Subset, FS_CardinalityType
<1>3. {p \in Preview : preview[p].status # "none"} \in SUBSET Preview
  OBVIOUS
<1> QED BY <1>2, <1>3 DEF NewPreview

LEMMA LowestIsIn ==
  ASSUME NEW S \in SUBSET Preview, S # {}
  PROVE  Min(S) \in S
<1>1. S \in SUBSET Nat
  BY DEF Preview
<1>2. PICK x \in S : \A y \in S : ~(<<y, x>> \in OpToRel(<, Nat))
  BY <1>1, NatLessThanWellFounded, WFMin
<1>3. ASSUME NEW y \in S, y < x PROVE FALSE
  <2>1. <<y, x>> \in OpToRel(<, Nat)
    BY <1>1, <1>3 DEF OpToRel
  <2> QED BY <1>2, <2>1
<1>4. \A y \in S : x =< y
  BY <1>1, <1>3
<1> QED BY <1>4 DEF Min

LEMMA RowStands ==
  ASSUME PreTypes, NEW p \in Preview, St(p) # "none"
  PROVE  preview[p] \in Inhabited /\ Br(p) \in Branch
<1>1. preview[p] \in Blank \cup Inhabited
  BY DEF PreTypes
<1> QED BY <1>1 DEF Blank, Inhabited, St, Br

LEMMA NewStatus ==
  ASSUME NEW r \in Inhabited, NEW s \in PreStatus \ {"none"}, NEW n, n = [r EXCEPT !.status = s]
  PROVE  n \in Inhabited /\ n.status = s /\ n.branch = r.branch
BY DEF Inhabited

LEMMA HookIs ==
  ASSUME PreTypes, NEW h \in Hook
  PROVE  /\ hook[h].do \in {"nothing", "create", "deploy", "remove"}
         /\ hook[h].do = "nothing" <=> hook[h] = NoRequest
         /\ hook[h].do = "create" => hook[h].branch \in Branch
         /\ hook[h].do = "deploy" => hook[h].preview \in Preview
         /\ hook[h].do = "remove" => hook[h].what \in SUBSET Preview
<1>1. hook[h] \in Plan
  BY DEF PreTypes
<1> QED BY <1>1 DEF Plan, NoRequest

LEMMA JobsAre ==
  ASSUME PreTypes, NEW p \in Preview
  PROVE  /\ queued[p] \in Seq(Do) /\ results[p] \in Seq(Result)
         /\ \A i \in DOMAIN queued[p] : queued[p][i] \in Do
         /\ \A i \in DOMAIN results[p] : results[p][i] \in Result /\ results[p][i].do \in Do /\ results[p][i].ok \in BOOLEAN
<1>1. queued[p] \in Seq(Do) /\ results[p] \in Seq(Result)
  BY DEF PreTypes
<1>2. (\A i \in DOMAIN queued[p] : queued[p][i] \in Do) /\ \A i \in DOMAIN results[p] : results[p][i] \in Result
  BY <1>1, InSeq
<1> QED BY <1>1, <1>2 DEF Result

LEMMA PostsAre ==
  ASSUME PreTypes
  PROVE  \A i \in DOMAIN posts : posts[i] \in Post /\ posts[i].branch \in Branch /\ posts[i].deleted \in BOOLEAN
<1>1. posts \in Seq(Post)
  BY DEF PreTypes
<1>2. \A i \in DOMAIN posts : posts[i] \in Post
  BY <1>1, InSeq
<1> QED BY <1>2 DEF Post

\* Rows that are neither inserted nor come to life again.
LEMMA NoneComes ==
  ASSUME RowsInOrder, OneEach,
         \A p \in Preview : preview'[p].status # "none" <=> St(p) # "none",
         \A p \in Preview : preview'[p].status \notin {"none", "deleted"} => Stands(p) /\ preview'[p].branch = Br(p)
  PROVE  RowsInOrder' /\ OneEach'
<1>1. {p \in Preview : preview'[p].status # "none"} = {p \in Preview : preview[p].status # "none"}
  BY DEF St
<1>2. NewPreview' = NewPreview
  BY <1>1 DEF NewPreview
<1>3. RowsInOrder'
  BY <1>2 DEF RowsInOrder, St
<1>4. Previews \in SUBSET Preview /\ Previews' \in SUBSET Previews
  BY DEF Previews, Stands, St
<1>5. IsFiniteSet(Previews) /\ Cardinality(Previews) \in Nat
  BY <1>4, PreviewsAreFinite
<1>6. \A S : S \in SUBSET Previews => IsFiniteSet(S) /\ Cardinality(S) <= Cardinality(Previews)
  BY <1>5, FS_Subset
<1>7. Previews' \in SUBSET Preview
  BY <1>4
<1>8. Cardinality(Previews') \in Nat
  BY <1>7, PreviewsAreFinite
<1>9. Cardinality(Previews') <= MaxPreviews
  BY <1>4, <1>5, <1>6, <1>8, PreBounds DEF OneEach
<1> QED BY <1>3, <1>9 DEF OneEach, Stands, St, Br

LEMMA OneMoreRow ==
  ASSUME RowsInOrder, NewPreview \in Preview, St(NewPreview) = "none", preview'[NewPreview].status # "none",
         \A p \in Preview : p # NewPreview => preview'[p] = preview[p]
  PROVE  RowsInOrder'
<1> DEFINE n == NewPreview
           S == {p \in Preview : preview[p].status # "none"}
           T == {p \in Preview : preview'[p].status # "none"}
<1>1. T = S \cup {n} /\ n \notin S /\ S \in SUBSET Preview
  BY DEF St
<1>2. n = Cardinality(S) + 1 /\ NewPreview' = Cardinality(T) + 1
  BY DEF NewPreview
<1>3. n \in Nat
  BY PreviewsAreFinite
<1> HIDE DEF S, T, n
<1>4. IsFiniteSet(S) /\ Cardinality(S) \in Nat
  BY <1>1, PreviewsAreFinite
<1>5. Cardinality(T) = Cardinality(S) + 1
  <2>1. ASSUME NEW U, U = S \cup {n} PROVE Cardinality(U) = Cardinality(S) + 1
    BY <1>1, <1>4, <2>1, FS_AddElement
  <2> QED BY <1>1, <2>1
<1>6. NewPreview' = n + 1
  BY <1>2, <1>4, <1>5
<1>7. ASSUME NEW p \in Preview PROVE preview'[p].status # "none" <=> p < n + 1
  <2>1. p \in Int /\ (St(p) # "none" <=> p < n)
    BY DEF Preview, RowsInOrder, n
  <2>2. CASE p = n
    BY <1>3, <2>2 DEF n
  <2>3. CASE p # n
    BY <1>3, <2>1, <2>3 DEF St, n
  <2> QED BY <2>2, <2>3
<1> QED BY <1>6, <1>7 DEF RowsInOrder, St

LEMMA PreInvInit == PreviewsInit => PreInv
<1> SUFFICES ASSUME PreviewsInit PROVE PreInv
  OBVIOUS
<1>1. /\ tip = [b \in Branch |-> NoCommit] /\ posts = <<>> /\ hook = [h \in Hook |-> NoRequest] /\ enabled = TRUE
      /\ preview = [p \in Preview |-> [status |-> "none"]] /\ serves = [p \in Preview |-> NoCommit]
      /\ queued = [p \in Preview |-> <<>>] /\ results = [p \in Preview |-> <<>>]
      /\ pushes = 0 /\ switches = 0 /\ unbuilt = 0
  BY DEF PreviewsInit
<1>2. PreTypes
  <2>1. 0 \in 0 .. MaxPushes
    BY PreBounds
  <2>2. tip \in [Branch -> 0 .. MaxPushes] /\ serves \in [Preview -> 0 .. MaxPushes]
    BY <1>1, <2>1 DEF NoCommit
  <2>3. hook \in [Hook -> Plan] /\ preview \in [Preview -> Blank \cup Inhabited]
    BY <1>1 DEF Plan, NoRequest, Blank
  <2>4. posts \in Seq(Post) /\ queued \in [Preview -> Seq(Do)] /\ results \in [Preview -> Seq(Result)]
    <3>1. \A S : <<>> \in Seq(S)
      OBVIOUS
    <3> QED BY <1>1, <3>1
  <2> QED BY <1>1, <2>1, <2>2, <2>3, <2>4 DEF PreTypes
<1>3. \A p \in Preview : St(p) = "none" /\ ~Stands(p)
  BY <1>1 DEF St, Stands
<1>4. NewPreview = 1
  <2>1. {p \in Preview : preview[p].status # "none"} = {}
    BY <1>3 DEF St
  <2>2. Cardinality({p \in Preview : preview[p].status # "none"}) = 0
    BY <2>1, FS_EmptySet
  <2> QED BY <2>2 DEF NewPreview
<1>5. RowsInOrder
  BY <1>3, <1>4 DEF RowsInOrder, Preview
<1>6. OneEach
  <2>1. Previews = {}
    BY <1>3 DEF Previews, St
  <2>2. Cardinality(Previews) = 0
    BY <2>1, FS_EmptySet
  <2> QED BY <1>3, <2>2, PreBounds DEF OneEach
<1>7. \A p \in Preview : queued[p] = <<>> /\ results[p] = <<>> /\ serves[p] = NoCommit
  BY <1>1
<1>8. \A h \in Hook : hook[h].do = "nothing"
  BY <1>1 DEF NoRequest
<1>9. Reports /\ LastJob /\ Builds
  BY <1>1, <1>7, <1>8 DEF Reports, LastJob, Builds
<1>10. Rows /\ Decided /\ Leave /\ Fresh
  BY <1>1, <1>3, <1>7, <1>8 DEF Rows, Decided, Leave, Fresh, St
<1> QED BY <1>2, <1>5, <1>6, <1>9, <1>10 DEF PreInv

\* A branch is changed while nobody works on its preview.
LEMMA ChangeBranchKeeps ==
  ASSUME PreInv, Orderly, NEW b \in Branch, ChangeBranch(b)
  PROVE  PreInv'
<1> USE DEF PreInv
<1>1. PICK gone \in BOOLEAN :
        /\ gone => tip[b] # NoCommit
        /\ tip' = [tip EXCEPT ![b] = IF gone THEN NoCommit ELSE pushes']
        /\ posts' = Append(posts, [branch |-> b, deleted |-> gone])
  BY DEF ChangeBranch
<1>2. /\ pushes < MaxPushes /\ pushes' = pushes + 1 /\ ~Reported(b)
      /\ \A p \in PreviewsOf(b) : ~Busy(p)
      /\ UNCHANGED <<hook, enabled, preview, serves, queued, results, unbuilt, switches>>
  BY DEF ChangeBranch, Orderly, preNode
<1>3. pushes' \in 1 .. MaxPushes /\ pushes' # NoCommit
  BY <1>2, PreBounds DEF PreTypes, NoCommit
<1>4. /\ tip' \in [Branch -> 0 .. MaxPushes]
      /\ \A c \in Branch : c # b => tip'[c] = tip[c]
      /\ tip'[b] = NoCommit <=> gone
  <2> DEFINE c == IF gone THEN NoCommit ELSE pushes'
  <2>1. c \in 0 .. MaxPushes /\ (c = NoCommit <=> gone)
    BY <1>3, PreBounds DEF NoCommit
  <2>2. tip \in [Branch -> 0 .. MaxPushes] /\ tip' = [tip EXCEPT ![b] = c]
    BY <1>1 DEF PreTypes
  <2> HIDE DEF c
  <2> QED BY <2>1, <2>2
<1>5. /\ posts \in Seq(Post) /\ posts' \in Seq(Post) /\ DOMAIN posts' = DOMAIN posts \cup {Len(posts) + 1}
      /\ Len(posts) + 1 \notin DOMAIN posts /\ \A i \in DOMAIN posts : posts'[i] = posts[i]
      /\ posts'[Len(posts) + 1].branch = b /\ posts'[Len(posts) + 1].deleted = gone
  <2>1. [branch |-> b, deleted |-> gone] \in Post /\ posts \in Seq(Post)
    BY DEF Post, PreTypes
  <2> QED BY <1>1, <2>1, AtTheEnd
<1>6. PreTypes'
  BY <1>2, <1>3, <1>4, <1>5 DEF PreTypes
<1>7. \A c \in Branch : (\E i \in DOMAIN posts' : posts'[i].branch = c) <=> (c = b \/ Reported(c))
  BY <1>5 DEF Reported
<1>8. \A p \in Preview : Stands(p) /\ Br(p) = b =>
        /\ queued[p] = <<>> /\ results[p] = <<>> /\ ~Going(p)
        /\ \A h \in Hook : ~(hook[h].do = "deploy" /\ hook[h].preview = p)
  <2> SUFFICES ASSUME NEW p \in Preview, Stands(p), Br(p) = b
               PROVE  /\ queued[p] = <<>> /\ results[p] = <<>> /\ ~Going(p)
                      /\ \A h \in Hook : hook[h].do # "deploy"
    OBVIOUS
  <2>1. p \in PreviewsOf(b)
    BY DEF PreviewsOf, Previews, Stands, St, Br
  <2>2. queued[p] = <<>> /\ results[p] = <<>> /\ \A h \in Hook : hook[h] = NoRequest
    BY <1>2, <2>1 DEF Busy
  <2>3. \A h \in Hook : hook[h].do = "nothing"
    BY <2>2 DEF NoRequest
  <2> QED BY <2>2, <2>3 DEF Going, HasJob, Removing
<1>9. RowsInOrder' /\ OneEach'
  BY <1>2, NoneComes DEF St, Stands, Br
<1>10. Reports'
  <2>1. \A i \in DOMAIN posts : posts[i].branch \in Branch /\ posts[i].branch # b
    BY <1>2, PostsAre DEF Reported
  <2> QED BY <1>4, <1>5, <2>1 DEF Reports
<1>11. LastJob' /\ Rows' /\ Decided'
  <2>1. LastJob'
    BY <1>2 DEF LastJob
  <2>2. Rows'
    BY <1>2 DEF Rows, HasJob, Stands, St
  <2>3. Previews' = Previews
    BY <1>2 DEF Previews
  <2>4. Decided'
    BY <1>2, <2>3 DEF Decided, HasJob, Stands, St, Br
  <2> QED BY <2>1, <2>2, <2>4
<1>12. Builds'
  <2>1. ASSUME NEW p \in Preview, NEW i \in DOMAIN queued[p], queued[p][i] = "deploy"
        PROVE  tip'[Br(p)] # NoCommit
    <3>1. Stands(p) /\ queued[p] # <<>>
      <4>1. queued[p] # <<>>
        OBVIOUS
      <4> QED BY <4>1 DEF Rows
    <3>2. Br(p) \in Branch /\ Br(p) # b
      BY <1>8, <3>1, RowStands DEF Stands
    <3> QED BY <1>4, <2>1, <3>2 DEF Builds
  <2>2. ASSUME NEW h \in Hook, hook[h].do = "deploy"
        PROVE  tip'[Br(hook[h].preview)] # NoCommit
    <3>1. hook[h].preview \in Preview /\ Stands(hook[h].preview)
      BY <2>2, HookIs DEF Decided
    <3>2. Br(hook[h].preview) \in Branch /\ Br(hook[h].preview) # b
      BY <1>8, <2>2, <3>1, RowStands DEF Stands
    <3> QED BY <1>4, <2>2, <3>2 DEF Builds
  <2> QED BY <1>2, <2>1, <2>2 DEF Builds, Br
<1>13. Leave'
  <2>1. ASSUME enabled, NEW p \in Preview, Stands(p), Going(p)
        PROVE  ~\E i \in DOMAIN posts' : posts'[i].branch = Br(p)
    <3>1. Br(p) \in Branch /\ Br(p) # b /\ ~Reported(Br(p))
      BY <1>8, <2>1, RowStands DEF Leave, Stands
    <3> QED BY <1>7, <3>1
  <2> QED BY <1>2, <2>1 DEF Leave, Reported, Going, Removing, HasJob, Stands, St, Br
<1>14. Fresh'
  <2> SUFFICES ASSUME unbuilt = 0, NEW p \in Preview, Stands(p), ~Going(p),
                      \A h \in Hook : ~(hook[h].do = "deploy" /\ hook[h].preview = p),
                      \A i \in DOMAIN queued[p] : queued[p][i] \notin {"create", "deploy"},
                      serves[p] # tip'[Br(p)]
               PROVE  (\E i \in DOMAIN posts' : posts'[i].branch = Br(p)) /\ queued[p] = <<>> /\ results[p] = <<>>
    BY <1>2 DEF Fresh, Reported, Going, Removing, HasJob, Stands, St, Br
  <2>1. Br(p) \in Branch
    BY RowStands DEF Stands
  <2>2. CASE Br(p) = b
    BY <1>7, <1>8, <2>1, <2>2
  <2>3. CASE Br(p) # b
    BY <1>4, <1>7, <2>1, <2>3 DEF Fresh
  <2> QED BY <2>2, <2>3
<1> QED BY <1>6, <1>9, <1>10, <1>11, <1>12, <1>13, <1>14

\* What a request decides of the branch that was reported first.
LEMMA HandlePushKeeps ==
  ASSUME PreInv, Orderly, NEW h \in Hook, HandlePush(h)
  PROVE  PreInv'
<1> USE DEF PreInv
<1> DEFINE b == posts[1].branch
           d == posts[1].deleted
<1>1. /\ posts \in Seq(Post) /\ posts # <<>> /\ posts' = Tail(posts)
      /\ hook[h] = NoRequest /\ hook' = [hook EXCEPT ![h] = Decision(Head(posts).branch, Head(posts).deleted)]
      /\ UNCHANGED <<tip, enabled, preview, serves, queued, results, unbuilt, pushes, switches>>
  BY DEF HandlePush, preNode, PreTypes
<1>2. /\ posts' \in Seq(Post) /\ 1 \in DOMAIN posts /\ Head(posts) = posts[1]
      /\ \A i \in DOMAIN posts' : i + 1 \in DOMAIN posts /\ posts'[i] = posts[i + 1] /\ i + 1 # 1 /\ i \in Int
      /\ \A k \in DOMAIN posts : k # 1 => k - 1 \in DOMAIN posts' /\ posts'[k - 1] = posts[k]
  BY <1>1, InFront
<1>3. b \in Branch /\ d \in BOOLEAN /\ Reported(b) /\ (d <=> tip[b] = NoCommit)
  BY <1>2, PostsAre DEF Reports, Reported
<1>4. \A c \in Branch : (\E i \in DOMAIN posts' : posts'[i].branch = c) <=> (Reported(c) /\ c # b)
  BY <1>2 DEF Reported, Reports
<1>5. \A g \in Hook : hook[g].do = "nothing" /\ g = h
  BY <1>1 DEF Orderly, NoRequest
<1>6. /\ hook \in [Hook -> Plan] /\ hook' = [hook EXCEPT ![h] = Decision(b, d)] /\ hook'[h] = Decision(b, d)
  BY <1>1, <1>2 DEF PreTypes
<1>7. RowsInOrder' /\ OneEach'
  BY <1>1, NoneComes DEF St, Stands, Br
<1>8. Reports'
  <2>1. \A i \in DOMAIN posts' : \E k \in DOMAIN posts : k = i + 1 /\ posts'[i] = posts[k] /\ i \in Int
    BY <1>2
  <2> QED BY <1>1, <2>1 DEF Reports
<1>9. LastJob' /\ Rows'
  BY <1>1 DEF LastJob, Rows, HasJob, Stands, St
<1>10. Previews' = Previews /\ Previews \in SUBSET Preview
  BY <1>1 DEF Previews
<1> DEFINE mine == PreviewsOf(b)
           p1 == Min(mine)
<1>11. \A p \in Preview : p \in mine <=> (Stands(p) /\ Br(p) = b)
  BY DEF PreviewsOf, Previews, Stands, St, Br
<1>12. mine # {} => p1 \in mine /\ mine = {p1} /\ p1 \in Preview /\ Stands(p1) /\ Br(p1) = b
  <2> SUFFICES ASSUME mine # {} PROVE p1 \in mine /\ mine = {p1} /\ p1 \in Preview /\ Stands(p1) /\ Br(p1) = b
    OBVIOUS
  <2>1. mine \in SUBSET Preview
    BY DEF PreviewsOf, Previews
  <2>2. p1 \in mine /\ p1 \in Preview
    <3> HIDE DEF mine
    <3> QED BY <2>1, LowestIsIn
  <2>3. \A p \in mine : p = p1
    <3> HIDE DEF p1
    <3> QED BY <1>11, <2>1, <2>2 DEF OneEach
  <2> HIDE DEF mine, p1
  <2> QED BY <1>11, <2>1, <2>2, <2>3
<1>13. \/ hook'[h] = NoRequest
       \/ enabled /\ d /\ mine # {} /\ hook'[h] = [do |-> "remove", what |-> {p1}]
       \/ enabled /\ ~d /\ mine # {} /\ hook'[h] = [do |-> "deploy", preview |-> p1]
       \/ enabled /\ mine = {} /\ Cardinality(Previews) < MaxPreviews /\ hook'[h] = [do |-> "create", branch |-> b]
  <2> HIDE DEF b, d, mine, p1
  <2> QED BY <1>6 DEF Decision, mine, p1
<1>14. \/ enabled /\ d /\ mine # {} /\ hook'[h] = [do |-> "remove", what |-> {p1}]
       \/ enabled /\ ~d /\ mine # {} /\ (hook'[h] = [do |-> "deploy", preview |-> p1] \/ St(p1) \notin {"running", "error"})
       \/ mine = {}
       \/ ~enabled
  <2> HIDE DEF b, d, mine, p1
  <2> QED BY <1>6, <1>3 DEF Decision, mine, p1, St
<1> HIDE DEF b, d, mine, p1
<1>15. PreTypes'
  <2>1. hook'[h] \in Plan
    <3>1. CASE hook'[h] = NoRequest
      BY <3>1 DEF Plan, NoRequest
    <3>2. CASE mine # {} /\ hook'[h] = [do |-> "remove", what |-> {p1}]
      BY <1>12, <3>2 DEF Plan
    <3>3. CASE mine # {} /\ hook'[h] = [do |-> "deploy", preview |-> p1]
      BY <1>12, <3>3 DEF Plan
    <3>4. CASE hook'[h] = [do |-> "create", branch |-> b]
      BY <1>3, <3>4 DEF Plan
    <3> QED BY <1>13, <3>1, <3>2, <3>3, <3>4
  <2>2. hook' \in [Hook -> Plan]
    BY <1>6, <2>1
  <2> QED BY <1>1, <1>2, <2>2 DEF PreTypes
<1>16. \A p \in Preview : Stands(p) /\ Br(p) = b /\ enabled => ~HasJob(p, "delete")
  BY <1>3 DEF Leave, Going
<1>17. Decided'
  <2>1. hook'[h].do = "create" => /\ \A p \in Preview : Stands(p) => Br(p) # hook'[h].branch
                                  /\ Cardinality(Previews) < MaxPreviews
    BY <1>11, <1>13 DEF NoRequest
  <2>2. hook'[h].do = "deploy" => Stands(hook'[h].preview) /\ ~HasJob(hook'[h].preview, "delete")
    BY <1>12, <1>13, <1>16 DEF NoRequest
  <2>3. hook'[h].do = "remove" => hook'[h].what # {} /\ \A p \in hook'[h].what : Stands(p) /\ ~HasJob(p, "delete")
    BY <1>12, <1>13, <1>16 DEF NoRequest
  <2>4. \A g \in Hook : g = h
    BY <1>5
  <2>5. (hook[h].do = "create" => /\ \A p \in Preview : Stands(p) => Br(p) # hook[h].branch
                                 /\ Cardinality(Previews) < MaxPreviews)'
    BY <1>1, <1>10, <2>1 DEF Stands, St, Br
  <2>6. (hook[h].do = "deploy" => Stands(hook[h].preview) /\ ~HasJob(hook[h].preview, "delete"))'
    BY <1>1, <2>2 DEF Stands, St, HasJob
  <2>7. (hook[h].do = "remove" => hook[h].what # {} /\ \A p \in hook[h].what : Stands(p) /\ ~HasJob(p, "delete"))'
    BY <1>1, <2>3 DEF Stands, St, HasJob
  <2> QED BY <2>4, <2>5, <2>6, <2>7 DEF Decided
<1>18. Builds'
  <2>1. hook'[h].do = "deploy" => tip[Br(hook'[h].preview)] # NoCommit
    BY <1>3, <1>12, <1>13 DEF NoRequest
  <2> QED BY <1>1, <1>5, <2>1 DEF Builds, Br
<1>19. ASSUME NEW p \in Preview
       PROVE  (\E g \in Hook : hook'[g].do = "remove" /\ p \in hook'[g].what) <=> (enabled /\ d /\ mine # {} /\ p = p1)
  <2>1. (hook'[h].do = "remove" /\ p \in hook'[h].what) <=> (enabled /\ d /\ mine # {} /\ p = p1)
    BY <1>13, <1>14 DEF NoRequest
  <2> QED BY <1>5, <2>1
<1>20. Leave'
  <2>1. ASSUME enabled, NEW p \in Preview, Stands(p), HasJob(p, "delete") \/ (d /\ mine # {} /\ p = p1)
        PROVE  ~\E i \in DOMAIN posts' : posts'[i].branch = Br(p)
    <3>1. Br(p) \in Branch
      BY <2>1, RowStands DEF Stands
    <3>2. CASE HasJob(p, "delete")
      BY <1>4, <2>1, <3>1, <3>2 DEF Leave, Going
    <3>3. CASE mine # {} /\ p = p1
      BY <1>4, <1>12, <3>1, <3>3
    <3> QED BY <2>1, <3>2, <3>3
  <2>2. ASSUME ~enabled, unbuilt = 0, NEW p \in Preview, Stands(p) PROVE HasJob(p, "delete")
    BY <1>5, <2>2 DEF Leave, Going, Removing
  <2>3. ~enabled => hook'[h].do \notin {"create", "deploy"}
    BY <1>13 DEF NoRequest
  <2> QED BY <1>1, <1>5, <1>19, <2>1, <2>2, <2>3 DEF Leave, Reported, Going, Removing, HasJob, Stands, St, Br
<1>21. Fresh'
  <2> SUFFICES ASSUME unbuilt = 0, NEW p \in Preview, Stands(p), ~HasJob(p, "delete"),
                      ~(enabled /\ d /\ mine # {} /\ p = p1),
                      ~(hook'[h].do = "deploy" /\ hook'[h].preview = p),
                      \A i \in DOMAIN queued[p] : queued[p][i] \notin {"create", "deploy"},
                      serves[p] # tip[Br(p)]
               PROVE  (\E i \in DOMAIN posts' : posts'[i].branch = Br(p)) /\ queued[p] = <<>> /\ results[p] = <<>>
    BY <1>1, <1>19 DEF Fresh, Reported, Going, Removing, HasJob, Stands, St, Br
  <2>1. Br(p) \in Branch
    BY RowStands DEF Stands
  <2>2. Reported(Br(p)) /\ queued[p] = <<>> /\ results[p] = <<>>
    <3>1. ~Going(p)
      BY <1>5 DEF Going, Removing
    <3>2. \A g \in Hook : ~(hook[g].do = "deploy" /\ hook[g].preview = p)
      BY <1>5
    <3> QED BY <3>1, <3>2 DEF Fresh
  <2>3. enabled
    BY <1>5 DEF Leave, Going, Removing
  <2>4. CASE Br(p) # b
    BY <1>4, <2>1, <2>2, <2>4
  <2>5. CASE Br(p) = b
    <3>1. mine # {} /\ p = p1
      BY <1>11, <1>12, <2>5
    <3>2. ~d /\ St(p) \notin {"running", "error"}
      BY <1>14, <2>3, <3>1
    <3>3. St(p) \in PreStatus
      BY RowStands DEF Stands, Inhabited, St
    <3>4. St(p) \in {"creating", "deleting"}
      BY <3>2, <3>3 DEF Stands, PreStatus
    <3>5. HasJob(p, "create") \/ HasJob(p, "delete")
      BY <3>4 DEF Rows
    <3> QED BY <2>2, <3>5 DEF HasJob
  <2> QED BY <2>4, <2>5
<1> QED BY <1>7, <1>8, <1>9, <1>15, <1>17, <1>18, <1>20, <1>21

\* The row and the job of a preview, for a branch that has none.
LEMMA CreatePreviewKeeps ==
  ASSUME PreInv, Orderly, NEW h \in Hook, CreatePreview(h)
  PROVE  PreInv'
<1> USE DEF PreInv
<1> DEFINE n == NewPreview
           b == hook[h].branch
<1>1. /\ hook[h].do = "create" /\ n \in Preview
      /\ preview' = [preview EXCEPT ![n] = [status |-> "creating", branch |-> b]]
      /\ queued' = [queued EXCEPT ![n] = <<"create">>]
      /\ hook' = [hook EXCEPT ![h] = NoRequest]
      /\ UNCHANGED <<tip, posts, pushes, enabled, serves, results, switches, unbuilt>>
  BY DEF CreatePreview, preGit
<1>2. n \in Nat /\ MaxRows \in Nat /\ b \in Branch
  BY <1>1, PreviewsAreFinite, PreBounds, HookIs
<1> HIDE DEF n
<1>3. St(n) = "none" /\ ~Stands(n) /\ queued[n] = <<>> /\ results[n] = <<>> /\ serves[n] = NoCommit
  <2>1. St(n) = "none"
    BY <1>1, <1>2 DEF RowsInOrder, n
  <2> QED BY <1>1, <2>1 DEF Rows, Stands
<1>4. /\ preview' \in [Preview -> Blank \cup Inhabited]
      /\ preview'[n].status = "creating" /\ preview'[n].branch = b
      /\ \A p \in Preview : p # n => preview'[p] = preview[p] /\ queued'[p] = queued[p]
      /\ queued'[n] = <<"create">> /\ queued' \in [Preview -> Seq(Do)]
  <2>1. [status |-> "creating", branch |-> b] \in Inhabited
    BY <1>2 DEF Inhabited, PreStatus
  <2>2. <<"create">> \in Seq(Do)
    BY DEF Do
  <2> QED BY <1>1, <2>1, <2>2 DEF PreTypes
<1>5. \A g \in Hook : hook'[g] = NoRequest /\ hook'[g].do = "nothing" /\ hook[g].do = "create" /\ g = h
  BY <1>1 DEF Orderly, PreTypes, NoRequest
<1>6. PreTypes'
  <2>1. NoRequest \in Plan
    BY DEF NoRequest, Plan
  <2>2. hook' \in [Hook -> Plan]
    BY <1>1, <2>1 DEF PreTypes
  <2> QED BY <1>1, <1>4, <2>2 DEF PreTypes
<1>7. DOMAIN queued'[n] = {1} /\ Len(queued'[n]) = 1 /\ queued'[n][1] = "create"
  BY <1>4
<1>8. RowsInOrder'
  BY <1>1, <1>3, <1>4, OneMoreRow DEF n
<1>9. OneEach'
  <2>1. Previews' = Previews \cup {n} /\ n \notin Previews /\ Previews \in SUBSET Preview
    BY <1>1, <1>3, <1>4 DEF Previews, St
  <2>2. IsFiniteSet(Previews) /\ Cardinality(Previews) \in Nat
    BY <2>1, PreviewsAreFinite
  <2>3. Cardinality(Previews') = Cardinality(Previews) + 1
    <3>1. ASSUME NEW U, U = Previews \cup {n} PROVE Cardinality(U) = Cardinality(Previews) + 1
      BY <2>1, <2>2, <3>1, FS_AddElement
    <3> QED BY <2>1, <3>1
  <2>4. Cardinality(Previews) < MaxPreviews
    BY <1>1 DEF Decided
  <2>5. Cardinality(Previews') <= MaxPreviews
    BY <2>2, <2>3, <2>4, PreBounds
  <2>6. \A p \in Preview : Stands(p) => Br(p) # b
    BY <1>1 DEF Decided
  <2>7. ASSUME NEW p \in Preview, NEW q \in Preview, preview'[p].status \notin {"none", "deleted"},
               preview'[q].status \notin {"none", "deleted"}, preview'[p].branch = preview'[q].branch
        PROVE  p = q
    <3>1. CASE p # n /\ q # n
      BY <1>4, <2>7, <3>1 DEF OneEach, Stands, St, Br
    <3>2. CASE p = n /\ q # n
      BY <1>4, <2>6, <2>7, <3>2 DEF Stands, St, Br
    <3>3. CASE p # n /\ q = n
      BY <1>4, <2>6, <2>7, <3>3 DEF Stands, St, Br
    <3> QED BY <3>1, <3>2, <3>3
  <2> QED BY <2>5, <2>7 DEF OneEach, Stands, St, Br
<1>10. Reports'
  BY <1>1 DEF Reports
<1>11. LastJob'
  BY <1>1, <1>3, <1>4, <1>7 DEF LastJob
<1>12. Builds'
  BY <1>1, <1>3, <1>4, <1>5, <1>7 DEF Builds, Br
<1>13. Rows'
  BY <1>1, <1>4, <1>7 DEF Rows, HasJob, Stands, St
<1>14. Decided'
  BY <1>5 DEF Decided
<1>15. \A p \in Preview : p # n => (Going(p) <=> HasJob(p, "delete"))
  BY <1>5 DEF Going, Removing
<1>16. enabled
  BY <1>1 DEF Leave
<1>17. Leave'
  <2>1. ~\E i \in DOMAIN queued'[n] : queued'[n][i] = "delete"
    BY <1>7
  <2> QED BY <1>1, <1>3, <1>4, <1>5, <1>15, <1>16, <2>1 DEF Leave, Reported, Going, Removing, HasJob, Stands, St, Br
<1>18. Fresh'
  <2> SUFFICES ASSUME unbuilt = 0, NEW p \in Preview, p # n, Stands(p), ~HasJob(p, "delete"),
                      \A i \in DOMAIN queued[p] : queued[p][i] \notin {"create", "deploy"},
                      serves[p] # tip[Br(p)]
               PROVE  Reported(Br(p)) /\ queued[p] = <<>> /\ results[p] = <<>>
    BY <1>1, <1>4, <1>5, <1>7 DEF Fresh, Reported, Going, Removing, HasJob, Stands, St, Br
  <2> QED BY <1>5, <1>15 DEF Fresh
<1> QED BY <1>6, <1>8, <1>9, <1>10, <1>11, <1>12, <1>13, <1>14, <1>17, <1>18

\* One more job of a preview that has none to delete it.
LEMMA OneMoreJob ==
  ASSUME PreInv, NEW p \in Preview, NEW do \in Do, ~HasJob(p, "delete"),
         queued' = [queued EXCEPT ![p] = Append(@, do)], UNCHANGED results
  PROVE  /\ queued' \in [Preview -> Seq(Do)]
         /\ \A q \in Preview : q # p => queued'[q] = queued[q]
         /\ DOMAIN queued'[p] = DOMAIN queued[p] \cup {Len(queued'[p])} /\ Len(queued'[p]) = Len(queued[p]) + 1
         /\ \A i \in DOMAIN queued[p] : queued'[p][i] = queued[p][i] /\ i # Len(queued'[p])
         /\ queued'[p][Len(queued'[p])] = do
         /\ LastJob'
<1>1. queued \in [Preview -> Seq(Do)] /\ queued[p] \in Seq(Do) /\ queued'[p] = Append(queued[p], do)
  BY DEF PreInv, PreTypes
<1>2. /\ Append(queued[p], do) \in Seq(Do)
      /\ DOMAIN Append(queued[p], do) = DOMAIN queued[p] \cup {Len(queued[p]) + 1} /\ Len(queued[p]) + 1 \notin DOMAIN queued[p]
      /\ \A i \in DOMAIN queued[p] : Append(queued[p], do)[i] = queued[p][i]
      /\ Append(queued[p], do)[Len(queued[p]) + 1] = do
  BY <1>1, AtTheEnd
<1>3. Len(Append(queued[p], do)) = Len(queued[p]) + 1
  BY <1>1
<1>4. queued' \in [Preview -> Seq(Do)] /\ \A q \in Preview : q # p => queued'[q] = queued[q]
  BY <1>1, <1>2
<1>5. LastJob'
  <2>1. ASSUME NEW i \in DOMAIN queued'[p], queued'[p][i] = "delete" PROVE i = Len(queued'[p])
    BY <1>1, <1>2, <1>3, <2>1 DEF HasJob
  <2>2. \A i \in DOMAIN results[p] : results[p][i].do # "delete"
    BY DEF HasJob
  <2> QED BY <1>4, <2>1, <2>2 DEF PreInv, LastJob
<1> QED BY <1>1, <1>2, <1>3, <1>4, <1>5

LEMMA DeployPreviewKeeps ==
  ASSUME PreInv, Orderly, NEW h \in Hook, DeployPreview(h)
  PROVE  PreInv'
<1> USE DEF PreInv
<1> DEFINE p == hook[h].preview
<1>1. hook[h].do = "deploy" /\ p \in Preview /\ Stands(p) /\ ~HasJob(p, "delete") /\ tip[Br(p)] # NoCommit
  BY HookIs DEF DeployPreview, Decided, Builds
<1>2. /\ queued' = [queued EXCEPT ![p] = Append(@, "deploy")] /\ hook' = [hook EXCEPT ![h] = NoRequest]
      /\ UNCHANGED <<tip, posts, pushes, enabled, preview, serves, results, switches, unbuilt>>
  BY <1>1 DEF DeployPreview, preGit, Stands, St
<1> HIDE DEF p
<1>3. /\ queued' \in [Preview -> Seq(Do)]
      /\ \A q \in Preview : q # p => queued'[q] = queued[q]
      /\ DOMAIN queued'[p] = DOMAIN queued[p] \cup {Len(queued'[p])} /\ Len(queued'[p]) = Len(queued[p]) + 1
      /\ \A i \in DOMAIN queued[p] : queued'[p][i] = queued[p][i] /\ i # Len(queued'[p])
      /\ queued'[p][Len(queued'[p])] = "deploy"
      /\ LastJob'
  <2>1. "deploy" \in Do
    BY DEF Do
  <2> QED BY <1>1, <1>2, <2>1, OneMoreJob
<1>4. \A g \in Hook : hook'[g] = NoRequest /\ hook'[g].do = "nothing" /\ hook[g].do = "deploy" /\ g = h /\ hook[g].preview = p
  BY <1>1, <1>2 DEF Orderly, PreTypes, NoRequest, p
<1>5. PreTypes'
  <2>1. NoRequest \in Plan
    BY DEF NoRequest, Plan
  <2>2. hook' \in [Hook -> Plan]
    BY <1>2, <2>1 DEF PreTypes
  <2> QED BY <1>2, <1>3, <2>2 DEF PreTypes
<1>6. RowsInOrder' /\ OneEach'
  BY <1>2, NoneComes DEF St, Stands, Br
<1>7. Reports'
  BY <1>2 DEF Reports
<1>8. \A q \in Preview, do \in {"create", "delete"} :
        ((\E i \in DOMAIN queued'[q] : queued'[q][i] = do) \/ \E i \in DOMAIN results'[q] : results'[q][i].do = do) <=> HasJob(q, do)
  BY <1>2, <1>3 DEF HasJob
<1>9. Builds'
  <2>1. ASSUME NEW i \in DOMAIN queued'[p], queued'[p][i] = "create" PROVE i \in DOMAIN queued[p]
    BY <1>3, <2>1
  <2> QED BY <1>1, <1>2, <1>3, <1>4, <2>1 DEF Builds, Br
<1>10. Rows'
  BY <1>1, <1>2, <1>3, <1>8 DEF Rows, HasJob, Stands, St
<1>11. Decided'
  BY <1>4 DEF Decided
<1>12. \A q \in Preview : Going(q) <=> HasJob(q, "delete")
  BY <1>4 DEF Going, Removing
<1>13. enabled
  BY <1>1 DEF Leave
<1>14. Leave'
  BY <1>2, <1>4, <1>8, <1>12, <1>13 DEF Leave, Reported, Going, Removing, HasJob, Stands, St, Br
<1>15. Fresh'
  <2> SUFFICES ASSUME unbuilt = 0, NEW q \in Preview, q # p, Stands(q), ~HasJob(q, "delete"),
                      \A i \in DOMAIN queued[q] : queued[q][i] \notin {"create", "deploy"},
                      serves[q] # tip[Br(q)]
               PROVE  Reported(Br(q)) /\ queued[q] = <<>> /\ results[q] = <<>>
    <3>1. ~\A i \in DOMAIN queued'[p] : queued'[p][i] \notin {"create", "deploy"}
      BY <1>3
    <3> QED BY <1>2, <1>3, <1>4, <1>8, <3>1 DEF Fresh, Reported, Going, Removing, HasJob, Stands, St, Br
  <2> QED BY <1>4, <1>12 DEF Fresh
<1> QED BY <1>3, <1>5, <1>6, <1>7, <1>9, <1>10, <1>11, <1>14, <1>15

\* The next of the previews that go.
LEMMA RemovePreviewKeeps ==
  ASSUME PreInv, Orderly, NEW h \in Hook, RemovePreview(h)
  PROVE  PreInv'
<1> USE DEF PreInv
<1> DEFINE p == Min(hook[h].what)
           rest == hook[h].what \ {p}
<1>1. /\ hook[h].do = "remove" /\ hook[h].what \in SUBSET Preview /\ hook[h].what # {}
      /\ \A q \in hook[h].what : Stands(q) /\ ~HasJob(q, "delete")
  BY HookIs DEF RemovePreview, Decided
<1>2. p \in hook[h].what /\ p \in Preview
  BY <1>1, LowestIsIn
<1>3. /\ preview' = [preview EXCEPT ![p].status = "deleting"]
      /\ queued' = [queued EXCEPT ![p] = Append(@, "delete")]
      /\ hook' = [hook EXCEPT ![h] = IF rest # {} THEN [hook[h] EXCEPT !.what = rest] ELSE NoRequest]
      /\ UNCHANGED <<tip, posts, pushes, enabled, serves, results, switches, unbuilt>>
  BY <1>1, <1>2 DEF RemovePreview, preGit, Stands, St
<1> HIDE DEF p
<1>4. Stands(p) /\ ~HasJob(p, "delete")
  BY <1>1, <1>2
<1>5. /\ queued' \in [Preview -> Seq(Do)]
      /\ \A q \in Preview : q # p => queued'[q] = queued[q]
      /\ DOMAIN queued'[p] = DOMAIN queued[p] \cup {Len(queued'[p])} /\ Len(queued'[p]) = Len(queued[p]) + 1
      /\ \A i \in DOMAIN queued[p] : queued'[p][i] = queued[p][i] /\ i # Len(queued'[p])
      /\ queued'[p][Len(queued'[p])] = "delete"
      /\ LastJob'
  <2>1. "delete" \in Do
    BY DEF Do
  <2> QED BY <1>2, <1>3, <1>4, <2>1, OneMoreJob
<1>6. /\ preview' \in [Preview -> Blank \cup Inhabited]
      /\ preview'[p].status = "deleting" /\ preview'[p].branch = Br(p)
      /\ \A q \in Preview : q # p => preview'[q] = preview[q]
      /\ \A q \in Preview : preview'[q].branch = Br(q)
  <2>1. preview[p] \in Inhabited
    BY <1>2, <1>4, RowStands DEF Stands
  <2>2. ASSUME NEW r \in Inhabited, r = preview[p] PROVE preview' = [preview EXCEPT ![p] = [r EXCEPT !.status = "deleting"]]
    BY <1>3, <2>2
  <2>3. ASSUME NEW r \in Inhabited, r = preview[p], NEW n, n = [r EXCEPT !.status = "deleting"]
        PROVE  n \in Inhabited /\ n.status = "deleting" /\ n.branch = r.branch /\ preview' = [preview EXCEPT ![p] = n]
    <3>1. "deleting" \in PreStatus \ {"none"}
      BY DEF PreStatus
    <3>2. n \in Inhabited /\ n.status = "deleting" /\ n.branch = r.branch
      BY <2>3, <3>1, NewStatus
    <3> QED BY <2>2, <2>3, <3>2
  <2>4. PICK n \in Inhabited : n.status = "deleting" /\ n.branch = Br(p) /\ preview' = [preview EXCEPT ![p] = n]
    BY <2>1, <2>3 DEF Br
  <2>5. preview \in [Preview -> Blank \cup Inhabited]
    BY DEF PreTypes
  <2>6. preview' \in [Preview -> Blank \cup Inhabited] /\ preview'[p] = n /\ \A q \in Preview : q # p => preview'[q] = preview[q]
    BY <1>2, <2>4, <2>5
  <2> QED BY <2>4, <2>6 DEF Br
<1>7. \A g \in Hook : g = h
  BY DEF Orderly
<1>8. /\ hook' \in [Hook -> Plan]
      /\ rest = {} => hook'[h] = NoRequest
      /\ rest # {} => hook'[h].do = "remove" /\ hook'[h].what = rest
  <2>1. hook[h] \in [do : {"remove"}, what : SUBSET Preview] /\ hook \in [Hook -> Plan]
    BY <1>1 DEF PreTypes, Plan
  <2>2. ASSUME NEW r, r = hook[h], NEW n, n = [r EXCEPT !.what = rest]
        PROVE  n \in Plan /\ n.do = "remove" /\ n.what = rest
    BY <1>1, <2>1, <2>2 DEF Plan
  <2>3. NoRequest \in Plan
    BY DEF NoRequest, Plan
  <2>4. CASE rest = {}
    <3>1. hook' = [hook EXCEPT ![h] = NoRequest]
      BY <1>3, <2>4
    <3> QED BY <2>1, <2>3, <2>4, <3>1
  <2>5. CASE rest # {}
    <3>1. PICK n \in Plan : n.do = "remove" /\ n.what = rest /\ hook' = [hook EXCEPT ![h] = n]
      BY <1>3, <2>2, <2>5
    <3> QED BY <2>1, <2>5, <3>1
  <2> QED BY <2>4, <2>5
<1>9. PreTypes'
  BY <1>3, <1>5, <1>6, <1>8 DEF PreTypes
<1>10. RowsInOrder' /\ OneEach'
  <2>1. \A q \in Preview : preview'[q].status # "none" <=> St(q) # "none"
    BY <1>4, <1>6 DEF St, Stands
  <2>2. \A q \in Preview : preview'[q].status \notin {"none", "deleted"} => Stands(q) /\ preview'[q].branch = Br(q)
    BY <1>4, <1>6 DEF St, Stands
  <2> QED BY <2>1, <2>2, NoneComes
<1>11. Reports'
  BY <1>3 DEF Reports
<1>12. \A q \in Preview :
         /\ ((\E i \in DOMAIN queued'[q] : queued'[q][i] = "create") \/ \E i \in DOMAIN results'[q] : results'[q][i].do = "create") <=> HasJob(q, "create")
         /\ ((\E i \in DOMAIN queued'[q] : queued'[q][i] = "delete") \/ \E i \in DOMAIN results'[q] : results'[q][i].do = "delete")
              <=> (HasJob(q, "delete") \/ q = p)
  BY <1>3, <1>5 DEF HasJob
<1>13. hook'[h].do \notin {"create", "deploy"} /\ hook[h].do \notin {"create", "deploy"}
  BY <1>1, <1>8 DEF NoRequest
<1>14. \A q \in Preview : (hook'[h].do = "remove" /\ q \in hook'[h].what) <=> (q \in hook[h].what /\ q # p)
  BY <1>8 DEF NoRequest
<1>15. Builds'
  <2>1. ASSUME NEW i \in DOMAIN queued'[p], queued'[p][i] \in {"create", "deploy"} PROVE i \in DOMAIN queued[p]
    BY <1>5, <2>1
  <2> QED BY <1>3, <1>5, <1>6, <1>7, <1>13, <2>1 DEF Builds, Br
<1>16. Rows'
  <2> SUFFICES ASSUME NEW q \in Preview
               PROVE  /\ preview'[q].status \in {"none", "deleted"} => queued'[q] = <<>> /\ results[q] = <<>> /\ serves[q] = NoCommit
                      /\ preview'[q].status = "creating" => HasJob(q, "create")
                      /\ preview'[q].status = "deleting" => HasJob(q, "delete") \/ q = p
    BY <1>3, <1>12 DEF Rows, HasJob, Stands, St
  <2>1. CASE q = p
    BY <1>6, <2>1
  <2>2. CASE q # p
    BY <1>5, <1>6, <2>2 DEF Rows, Stands, St
  <2> QED BY <2>1, <2>2
<1>17. \A q \in Preview : (preview'[q].status \notin {"none", "deleted"}) <=> Stands(q)
  BY <1>4, <1>6 DEF Stands, St
<1>18. Decided'
  <2>1. ASSUME hook'[h].do = "remove"
        PROVE  hook'[h].what # {} /\ \A q \in hook'[h].what : q \in Preview /\ Stands(q) /\ ~HasJob(q, "delete") /\ q # p
    BY <1>1, <1>8, <1>14, <2>1 DEF NoRequest
  <2>2. ASSUME hook'[h].do = "remove", NEW q \in hook'[h].what
        PROVE  /\ preview'[q].status \notin {"none", "deleted"}
               /\ ~(\E i \in DOMAIN queued'[q] : queued'[q][i] = "delete") /\ ~\E i \in DOMAIN results'[q] : results'[q][i].do = "delete"
    BY <1>12, <1>17, <2>1, <2>2
  <2> QED BY <1>7, <1>13, <2>1, <2>2 DEF Decided, HasJob, Stands, St
<1>19. \A q \in Preview : Going(q) <=> (HasJob(q, "delete") \/ q \in hook[h].what)
  BY <1>1, <1>7 DEF Going, Removing
<1>20. \A q \in Preview :
         /\ HasJob(q, "delete")' \/ (hook'[h].do = "remove" /\ q \in hook'[h].what) <=> Going(q)
         /\ Going(q)' <=> Going(q)
  <2>1. \A q \in Preview : (HasJob(q, "delete") \/ q = p \/ (hook'[h].do = "remove" /\ q \in hook'[h].what)) <=> Going(q)
    BY <1>2, <1>14, <1>19
  <2>2. \A q \in Preview : HasJob(q, "delete")' <=> HasJob(q, "delete") \/ q = p
    BY <1>12 DEF HasJob
  <2>3. \A q \in Preview : Removing(q)' <=> (hook'[h].do = "remove" /\ q \in hook'[h].what)
    BY <1>7 DEF Removing
  <2> QED BY <2>1, <2>2, <2>3 DEF Going
<1>21. Leave'
  BY <1>3, <1>6, <1>7, <1>13, <1>17, <1>20 DEF Leave, Reported, Stands, St, Br
<1>22. Fresh'
  <2> SUFFICES ASSUME unbuilt = 0, NEW q \in Preview, Stands(q), ~Going(q),
                      \A i \in DOMAIN queued'[q] : queued'[q][i] \notin {"create", "deploy"},
                      serves[q] # tip[Br(q)]
               PROVE  Reported(Br(q)) /\ queued'[q] = <<>> /\ results[q] = <<>>
    BY <1>3, <1>6, <1>17, <1>20 DEF Fresh, Reported, Stands, St, Br
  <2>1. q # p
    BY <1>2, <1>19
  <2>2. queued'[q] = queued[q]
    BY <1>5, <2>1
  <2>3. \A g \in Hook : ~(hook[g].do = "deploy" /\ hook[g].preview = q)
    BY <1>7, <1>13
  <2> QED BY <2>2, <2>3 DEF Fresh
<1> QED BY <1>5, <1>9, <1>10, <1>11, <1>15, <1>16, <1>18, <1>21, <1>22

\* Switched on or off while no preview is being deleted.
LEMMA SetPreviewsKeeps ==
  ASSUME PreInv, Orderly, NEW h \in Hook, SetPreviews(h)
  PROVE  PreInv'
<1> USE DEF PreInv
<1>1. /\ hook[h] = NoRequest /\ enabled' = ~enabled /\ switches' = switches + 1
      /\ hook' = [hook EXCEPT ![h] = IF enabled /\ Previews # {} THEN [do |-> "remove", what |-> Previews] ELSE NoRequest]
      /\ UNCHANGED <<tip, posts, pushes, preview, serves, queued, results, unbuilt>>
  BY DEF SetPreviews, SwitchedOff, preGit, preNode
<1>2. \A g \in Hook : g = h /\ hook[g].do = "nothing"
  BY <1>1 DEF Orderly, NoRequest
<1>3. \A p \in Preview : ~HasJob(p, "delete")
  <2> SUFFICES ASSUME NEW p \in Preview PROVE ~HasJob(p, "delete")
    OBVIOUS
  <2>1. ~("delete" \in Range(queued[p])) /\ ~\E o \in Range(results[p]) : o.do = "delete"
    BY DEF SetPreviews, Orderly, Leaving
  <2> QED BY <2>1 DEF HasJob, Range
<1>4. \A p \in Preview : ~Going(p)
  BY <1>2, <1>3 DEF Going, Removing
<1>5. Previews \in SUBSET Preview /\ Previews' = Previews /\ \A p \in Preview : p \in Previews <=> Stands(p)
  BY <1>1 DEF Previews, Stands, St
<1>6. \/ enabled /\ Previews # {} /\ hook'[h] = [do |-> "remove", what |-> Previews]
      \/ (~enabled \/ Previews = {}) /\ hook'[h] = NoRequest
  BY <1>1 DEF PreTypes
<1>7. PreTypes'
  <2>1. hook'[h] \in Plan
    BY <1>5, <1>6 DEF Plan, NoRequest
  <2>2. hook' \in [Hook -> Plan]
    BY <1>1, <2>1 DEF PreTypes
  <2> QED BY <1>1, <2>2 DEF PreTypes
<1>8. RowsInOrder' /\ OneEach'
  BY <1>1, NoneComes DEF St, Stands, Br
<1>9. Reports' /\ LastJob' /\ Rows'
  BY <1>1 DEF Reports, LastJob, Rows, HasJob, Stands, St
<1>10. hook'[h].do \notin {"create", "deploy"}
  BY <1>6 DEF NoRequest
<1>11. Builds'
  BY <1>1, <1>2, <1>10 DEF Builds, Br
<1>12. hook'[h].do = "remove" => enabled /\ hook'[h].what = Previews /\ Previews # {}
  BY <1>6 DEF NoRequest
<1>13. Decided'
  BY <1>1, <1>2, <1>3, <1>5, <1>10, <1>12 DEF Decided, HasJob, Stands, St
<1>14. \A p \in Preview : (HasJob(p, "delete")' <=> FALSE) /\ (Removing(p)' <=> (enabled /\ p \in Previews))
  <2>1. \A p \in Preview : HasJob(p, "delete")' <=> FALSE
    BY <1>1, <1>3 DEF HasJob
  <2>2. \A p \in Preview : Removing(p)' <=> (hook'[h].do = "remove" /\ p \in hook'[h].what)
    BY <1>2 DEF Removing
  <2>3. \A p \in Preview : (hook'[h].do = "remove" /\ p \in hook'[h].what) <=> (enabled /\ p \in Previews)
    BY <1>6 DEF NoRequest
  <2> QED BY <2>1, <2>2, <2>3
<1>15. \A p \in Preview : Going(p)' <=> (enabled /\ Stands(p))
  BY <1>5, <1>14 DEF Going
<1>16. ~enabled /\ unbuilt = 0 => \A p \in Preview : ~Stands(p)
  BY <1>4 DEF Leave
<1>17. enabled \in BOOLEAN
  BY DEF PreTypes
<1>18. Leave'
  BY <1>1, <1>2, <1>10, <1>15, <1>17 DEF Leave, Stands, St
<1>19. Fresh'
  <2> SUFFICES ASSUME unbuilt = 0, NEW p \in Preview, Stands(p), ~enabled PROVE FALSE
    BY <1>1, <1>15, <1>17 DEF Fresh, Stands, St
  <2> QED BY <1>16
<1> QED BY <1>7, <1>8, <1>9, <1>11, <1>13, <1>18, <1>19

LEMMA OnlyOne ==
  ASSUME NEW S, NEW s \in Seq(S), s # <<>>, Len(s) <= 1
  PROVE  Head(s) = s[1] /\ DOMAIN s = {1} /\ Tail(s) = <<>>
<1>1. Len(s) \in Nat /\ Len(s) # 0
  OBVIOUS
<1>2. Len(s) = 1
  BY <1>1
<1>3. DOMAIN s = {1} /\ Head(s) = s[1]
  BY <1>2
<1>4. Tail(s) \in Seq(S) /\ Len(Tail(s)) = 0
  BY <1>1, <1>2
<1> QED BY <1>3, <1>4

\* The outcome of a preview's job.
LEMMA FoldPreviewKeeps ==
  ASSUME PreInv, Orderly, NEW p \in Preview, FoldPreview(p)
  PROVE  PreInv'
<1> USE DEF PreInv
<1> DEFINE o == Head(results[p])
           s == PreviewStatus(St(p), o.do, o.ok)
<1>1. /\ results[p] # <<>> /\ results' = [results EXCEPT ![p] = Tail(@)]
      /\ UNCHANGED <<tip, posts, pushes, hook, enabled, serves, queued, switches, unbuilt>>
  BY DEF FoldPreview, preGit
<1>2. Stands(p)
  BY <1>1 DEF Rows
<1>3. o = results[p][1] /\ o.do \in Do /\ o.ok \in BOOLEAN /\ DOMAIN results[p] = {1} /\ Tail(results[p]) = <<>> /\ results[p] \in Seq(Result)
  <2>1. results[p] \in Seq(Result) /\ Len(results[p]) <= 1
    BY JobsAre DEF LastJob
  <2>2. o = results[p][1] /\ DOMAIN results[p] = {1} /\ Tail(results[p]) = <<>>
    BY <1>1, <2>1, OnlyOne
  <2> QED BY <2>1, <2>2, JobsAre
<1>4. /\ s \in {"creating", "running", "error", "deleting", "deleted"}
      /\ s = "deleted" <=> o.do = "delete" /\ o.ok
      /\ s = "creating" => St(p) = "creating" /\ o.do = "deploy"
      /\ s = "deleting" => St(p) = "deleting" /\ o.do = "deploy"
  <2>1. St(p) \in {"creating", "running", "error", "deleting"}
    BY <1>2, RowStands DEF Stands, Inhabited, PreStatus, St
  <2> QED BY <1>3, <2>1 DEF PreviewStatus, Do
<1> HIDE DEF o
<1>5. /\ preview' \in [Preview -> Blank \cup Inhabited]
      /\ preview'[p].status = s /\ preview'[p].branch = Br(p)
      /\ \A q \in Preview : q # p => preview'[q] = preview[q]
      /\ \A q \in Preview : preview'[q].branch = Br(q)
  <2>1. preview[p] \in Inhabited
    BY <1>2, RowStands DEF Stands
  <2>2. preview' = [preview EXCEPT ![p].status = PreviewStatus(@, o.do, o.ok)]
    BY DEF FoldPreview, o
  <2>3. ASSUME NEW r \in Inhabited, r = preview[p] PROVE preview' = [preview EXCEPT ![p] = [r EXCEPT !.status = s]]
    BY <2>2, <2>3 DEF St
  <2> HIDE DEF s
  <2>4. ASSUME NEW r \in Inhabited, r = preview[p], NEW n, n = [r EXCEPT !.status = s]
        PROVE  n \in Inhabited /\ n.status = s /\ n.branch = r.branch /\ preview' = [preview EXCEPT ![p] = n]
    <3>1. s \in PreStatus \ {"none"}
      BY <1>4 DEF PreStatus
    <3>2. n \in Inhabited /\ n.status = s /\ n.branch = r.branch
      BY <2>4, <3>1, NewStatus
    <3> QED BY <2>3, <2>4, <3>2
  <2>5. PICK n \in Inhabited : n.status = s /\ n.branch = Br(p) /\ preview' = [preview EXCEPT ![p] = n]
    BY <2>1, <2>4 DEF Br
  <2>6. preview \in [Preview -> Blank \cup Inhabited]
    BY DEF PreTypes
  <2>7. preview' \in [Preview -> Blank \cup Inhabited] /\ preview'[p] = n /\ \A q \in Preview : q # p => preview'[q] = preview[q]
    BY <2>5, <2>6
  <2> QED BY <2>5, <2>7 DEF Br
<1> HIDE DEF s
<1>6. results' \in [Preview -> Seq(Result)] /\ results'[p] = <<>> /\ \A q \in Preview : q # p => results'[q] = results[q]
  <2>1. <<>> \in Seq(Result)
    OBVIOUS
  <2> QED BY <1>1, <1>3, <2>1 DEF PreTypes
<1>7. PreTypes'
  BY <1>1, <1>5, <1>6 DEF PreTypes
<1>8. RowsInOrder' /\ OneEach'
  <2>1. \A q \in Preview : preview'[q].status # "none" <=> St(q) # "none"
    BY <1>2, <1>4, <1>5 DEF St, Stands
  <2>2. \A q \in Preview : preview'[q].status \notin {"none", "deleted"} => Stands(q) /\ preview'[q].branch = Br(q)
    BY <1>2, <1>5 DEF St, Stands
  <2> QED BY <2>1, <2>2, NoneComes
<1>9. Reports'
  BY <1>1 DEF Reports
<1>10. DOMAIN results'[p] = {} /\ Len(results'[p]) = 0
  BY <1>6
<1>11. LastJob'
  BY <1>1, <1>6, <1>10 DEF LastJob
<1>12. Builds'
  <2>1. ASSUME NEW q \in Preview, NEW i \in DOMAIN queued[q]
        PROVE  /\ queued[q][i] = "create" => i = 1 /\ results'[q] = <<>> /\ serves[q] = NoCommit
               /\ queued[q][i] = "deploy" => tip[Br(q)] # NoCommit
    BY <1>6 DEF Builds
  <2>2. ASSUME NEW q \in Preview, NEW i \in DOMAIN results'[q], results'[q][i].do = "delete"
        PROVE  IF results'[q][i].ok THEN serves[q] = NoCommit ELSE unbuilt > 0
    <3>1. q # p /\ results'[q] = results[q]
      BY <1>6, <1>10
    <3> QED BY <2>2, <3>1 DEF Builds
  <2>3. ASSUME NEW g \in Hook, hook[g].do = "deploy" PROVE tip[preview'[hook[g].preview].branch] # NoCommit
    BY <1>5, <2>3, HookIs DEF Builds
  <2> QED BY <1>1, <1>5, <2>1, <2>2, <2>3 DEF Builds, Br
<1>13. \A q \in Preview : q # p => (HasJob(q, "delete")' <=> HasJob(q, "delete")) /\ (HasJob(q, "create")' <=> HasJob(q, "create"))
  BY <1>1, <1>6 DEF HasJob
<1>14. /\ HasJob(p, "delete")' <=> \E i \in DOMAIN queued[p] : queued[p][i] = "delete"
       /\ HasJob(p, "create")' <=> \E i \in DOMAIN queued[p] : queued[p][i] = "create"
  BY <1>1, <1>10 DEF HasJob
<1>15. o.do = "delete" => queued[p] = <<>> /\ (IF o.ok THEN serves[p] = NoCommit ELSE unbuilt > 0)
  BY <1>3 DEF LastJob, Builds
<1>16. HasJob(p, "delete") <=> (HasJob(p, "delete")' \/ o.do = "delete")
  BY <1>3, <1>14 DEF HasJob
<1>17. Rows'
  <2> SUFFICES ASSUME NEW q \in Preview
               PROVE  /\ preview'[q].status \in {"none", "deleted"} => queued[q] = <<>> /\ results'[q] = <<>> /\ serves[q] = NoCommit
                      /\ preview'[q].status = "creating" => HasJob(q, "create")'
                      /\ preview'[q].status = "deleting" => HasJob(q, "delete")'
    BY <1>1 DEF Rows, Stands, St, HasJob
  <2>1. CASE q # p
    BY <1>5, <1>6, <1>13, <2>1 DEF Rows, Stands, St
  <2>2. CASE q = p
    <3>1. s = "deleted" => queued[p] = <<>> /\ serves[p] = NoCommit
      BY <1>4, <1>15
    <3>2. s = "creating" => FALSE
      <4>1. ASSUME s = "creating" PROVE FALSE
        <5>1. HasJob(p, "create") /\ o.do = "deploy"
          BY <1>4, <4>1 DEF Rows
        <5>2. PICK i \in DOMAIN queued[p] : queued[p][i] = "create"
          BY <1>3, <5>1 DEF HasJob
        <5> QED BY <1>1, <5>2 DEF Builds
      <4> QED BY <4>1
    <3>3. s = "deleting" => HasJob(p, "delete")'
      BY <1>4, <1>16 DEF Rows
    <3> QED BY <1>4, <1>5, <1>6, <2>2, <3>1, <3>2, <3>3
  <2> QED BY <2>1, <2>2
<1>18. \A q \in Preview : (preview'[q].status \notin {"none", "deleted"}) <=> (Stands(q) /\ ~(q = p /\ o.do = "delete" /\ o.ok))
  BY <1>2, <1>4, <1>5 DEF Stands, St
<1>19. Decided'
  <2>1. Previews' \in SUBSET Previews /\ Previews \in SUBSET Preview
    BY <1>18 DEF Previews, Stands, St
  <2>2. Cardinality(Previews') <= Cardinality(Previews) /\ Cardinality(Previews) \in Nat /\ Cardinality(Previews') \in Nat
    <3>1. IsFiniteSet(Previews) /\ Cardinality(Previews) \in Nat
      BY <2>1, PreviewsAreFinite
    <3>2. \A S : S \in SUBSET Previews => Cardinality(S) <= Cardinality(Previews)
      BY <3>1, FS_Subset
    <3>3. Previews' \in SUBSET Preview
      BY <2>1
    <3> QED BY <2>1, <3>1, <3>2, <3>3, PreviewsAreFinite
  <2>3. \A q \in Preview : Stands(q) /\ ~HasJob(q, "delete") =>
          preview'[q].status \notin {"none", "deleted"} /\ (HasJob(q, "delete")' <=> FALSE)
    BY <1>13, <1>16, <1>18
  <2>4. \A g \in Hook :
          /\ hook[g].do = "create" => /\ \A q \in Preview : preview'[q].status \notin {"none", "deleted"} => preview'[q].branch # hook[g].branch
                                      /\ Cardinality(Previews') < MaxPreviews
          /\ hook[g].do = "deploy" => hook[g].preview \in Preview /\ Stands(hook[g].preview) /\ ~HasJob(hook[g].preview, "delete")
          /\ hook[g].do = "remove" => hook[g].what # {} /\ \A q \in hook[g].what : q \in Preview /\ Stands(q) /\ ~HasJob(q, "delete")
    BY <1>5, <1>18, <2>2, HookIs, PreBounds DEF Decided
  <2>5. \A g \in Hook :
          /\ hook[g].do = "deploy" => /\ preview'[hook[g].preview].status \notin {"none", "deleted"}
                                      /\ HasJob(hook[g].preview, "delete")' <=> FALSE
          /\ hook[g].do = "remove" => \A q \in hook[g].what : preview'[q].status \notin {"none", "deleted"} /\ (HasJob(q, "delete")' <=> FALSE)
    BY <1>1, <2>3, <2>4 DEF HasJob
  <2> QED BY <1>1, <2>4, <2>5 DEF Decided, HasJob, Stands, St, Br
<1>20. \A q \in Preview : Removing(q)' <=> Removing(q)
  BY <1>1 DEF Removing
<1>21. \A q \in Preview : (preview'[q].status \notin {"none", "deleted"}) /\ unbuilt = 0 => (Going(q)' <=> Going(q))
  <2>1. unbuilt = 0 /\ o.do = "delete" => o.ok
    BY <1>3, <1>15
  <2> QED BY <1>13, <1>16, <1>18, <1>20, <2>1 DEF Going
<1>22. \A q \in Preview : Going(q)' => Going(q)
  BY <1>13, <1>16, <1>20 DEF Going
<1>23. Leave'
  BY <1>1, <1>5, <1>18, <1>21, <1>22 DEF Leave, Reported, Stands, St, Br
<1>24. Fresh'
  <2> SUFFICES ASSUME unbuilt = 0, NEW q \in Preview, preview'[q].status \notin {"none", "deleted"}, Stands(q), ~Going(q),
                      \A g \in Hook : ~(hook[g].do = "deploy" /\ hook[g].preview = q),
                      \A i \in DOMAIN queued[q] : queued[q][i] \notin {"create", "deploy"},
                      serves[q] # tip[Br(q)]
               PROVE  Reported(Br(q)) /\ queued[q] = <<>> /\ results'[q] = <<>>
    BY <1>1, <1>5, <1>18, <1>21 DEF Fresh, Reported, Stands, St, Br
  <2> QED BY <1>1, <1>6 DEF Fresh
<1> QED BY <1>7, <1>8, <1>9, <1>11, <1>12, <1>17, <1>19, <1>23, <1>24

\* A job of a preview on the node.
LEMMA RunPreviewKeeps ==
  ASSUME PreInv, Orderly, NEW p \in Preview, RunPreview(p)
  PROVE  PreInv'
<1> USE DEF PreInv
<1> DEFINE do == Head(queued[p])
           new == IF do = "delete" THEN NoCommit ELSE tip[preview[p].branch]
<1>1. PICK ok \in BOOLEAN :
        /\ ok => do = "delete" \/ new # NoCommit
        /\ unbuilt' = unbuilt + (IF ok \/ (do # "delete" /\ new = NoCommit) THEN 0 ELSE 1)
        /\ serves' = IF ok THEN [serves EXCEPT ![p] = new] ELSE serves
        /\ results' = [results EXCEPT ![p] = <<[do |-> do, ok |-> ok]>>]
  BY DEF RunPreview
<1>2. /\ queued[p] # <<>> /\ results[p] = <<>> /\ queued' = [queued EXCEPT ![p] = Tail(@)]
      /\ UNCHANGED <<tip, posts, pushes, hook, enabled, preview, switches>>
  BY DEF RunPreview, preGit
<1>3. Stands(p) /\ Br(p) \in Branch
  <2>1. Stands(p)
    BY <1>2 DEF Rows
  <2> QED BY <2>1, RowStands DEF Stands
<1>4. /\ queued[p] \in Seq(Do) /\ Tail(queued[p]) \in Seq(Do) /\ do \in Do /\ 1 \in DOMAIN queued[p] /\ do = queued[p][1]
      /\ \A i \in DOMAIN Tail(queued[p]) : i + 1 \in DOMAIN queued[p] /\ Tail(queued[p])[i] = queued[p][i + 1] /\ i + 1 # 1 /\ i \in Int
      /\ \A k \in DOMAIN queued[p] : k # 1 => k - 1 \in DOMAIN Tail(queued[p]) /\ Tail(queued[p])[k - 1] = queued[p][k]
  <2>1. queued[p] \in Seq(Do)
    BY JobsAre
  <2> QED BY <1>2, <2>1, InFront
<1>5. Len(Tail(queued[p])) = Len(queued[p]) - 1 /\ Len(queued[p]) \in Nat
  BY <1>2, <1>4
<1>6. new \in 0 .. MaxPushes /\ new = (IF do = "delete" THEN NoCommit ELSE tip[Br(p)])
  BY <1>3, PreBounds DEF PreTypes, Br, NoCommit
<1> HIDE DEF do, new
<1>7. /\ queued' \in [Preview -> Seq(Do)] /\ queued'[p] = Tail(queued[p])
      /\ \A q \in Preview : q # p => queued'[q] = queued[q]
  BY <1>2, <1>4 DEF PreTypes
<1>8. /\ results' \in [Preview -> Seq(Result)] /\ results'[p] = <<[do |-> do, ok |-> ok]>>
      /\ \A q \in Preview : q # p => results'[q] = results[q]
  <2>1. <<[do |-> do, ok |-> ok]>> \in Seq(Result)
    BY <1>4 DEF Result
  <2> QED BY <1>1, <2>1 DEF PreTypes
<1>9. DOMAIN results'[p] = {1} /\ Len(results'[p]) = 1 /\ results'[p][1].do = do /\ results'[p][1].ok = ok /\ results'[p] # <<>>
  BY <1>8
<1>10. /\ serves' \in [Preview -> 0 .. MaxPushes]
       /\ \A q \in Preview : q # p => serves'[q] = serves[q]
       /\ ok => serves'[p] = new
       /\ ~ok => serves'[p] = serves[p]
  <2>1. CASE ok
    BY <1>1, <1>6, <2>1 DEF PreTypes
  <2>2. CASE ~ok
    BY <1>1, <2>2 DEF PreTypes
  <2> QED BY <2>1, <2>2
<1>11. /\ unbuilt' \in Nat /\ unbuilt \in Nat
       /\ unbuilt' = 0 => unbuilt = 0 /\ (ok \/ (do # "delete" /\ new = NoCommit))
       /\ unbuilt > 0 => unbuilt' > 0
  <2>1. unbuilt \in Nat
    BY DEF PreTypes
  <2>2. CASE ok \/ (do # "delete" /\ new = NoCommit)
    <3>1. unbuilt' = unbuilt + 0
      BY <1>1, <2>2
    <3> QED BY <2>1, <2>2, <3>1
  <2>3. CASE ~(ok \/ (do # "delete" /\ new = NoCommit))
    <3>1. unbuilt' = unbuilt + 1
      BY <1>1, <2>3
    <3> QED BY <2>1, <3>1
  <2> QED BY <2>2, <2>3
<1>12. PreTypes'
  BY <1>2, <1>7, <1>8, <1>10, <1>11 DEF PreTypes
<1>13. RowsInOrder' /\ OneEach'
  BY <1>2, NoneComes DEF St, Stands, Br
<1>14. Reports'
  BY <1>2 DEF Reports
<1>15. LastJob'
  <2> SUFFICES ASSUME NEW q \in Preview
               PROVE  /\ \A i \in DOMAIN queued'[q] : queued'[q][i] = "delete" => i = Len(queued'[q])
                      /\ Len(results'[q]) <= 1
                      /\ \A i \in DOMAIN results'[q] : results'[q][i].do = "delete" => queued'[q] = <<>>
    BY DEF LastJob
  <2>1. CASE q # p
    BY <1>7, <1>8, <2>1 DEF LastJob
  <2>2. CASE q = p
    <3>1. ASSUME NEW i \in DOMAIN queued'[p], queued'[p][i] = "delete" PROVE i = Len(queued'[p])
      <4>1. i + 1 \in DOMAIN queued[p] /\ queued[p][i + 1] = "delete" /\ i \in Int
        BY <1>4, <1>7, <3>1
      <4>2. i + 1 = Len(queued[p])
        BY <4>1 DEF LastJob
      <4> QED BY <1>5, <1>7, <4>1, <4>2
    <3>2. do = "delete" => queued'[p] = <<>>
      <4>1. ASSUME do = "delete" PROVE Len(queued[p]) = 1
        BY <1>4, <4>1 DEF LastJob
      <4>2. ASSUME Len(queued[p]) = 1 PROVE Tail(queued[p]) = <<>>
        BY <1>4, <1>5, <4>2
      <4> QED BY <1>7, <4>1, <4>2
    <3>3. \A i \in DOMAIN results'[p] : results'[p][i].do = "delete" => queued'[p] = <<>>
      BY <1>9, <3>2
    <3>4. Len(results'[p]) <= 1
      BY <1>9
    <3> QED BY <2>2, <3>1, <3>3, <3>4
  <2> QED BY <2>1, <2>2
<1>16. \A i \in DOMAIN queued'[p] : queued'[p][i] # "create"
  <2> SUFFICES ASSUME NEW i \in DOMAIN queued'[p], queued'[p][i] = "create" PROVE FALSE
    OBVIOUS
  <2>1. i + 1 \in DOMAIN queued[p] /\ queued[p][i + 1] = "create" /\ i + 1 # 1
    BY <1>4, <1>7
  <2> QED BY <2>1 DEF Builds
<1>17. do = "deploy" => tip[Br(p)] # NoCommit
  BY <1>4 DEF Builds
<1>18. do = "create" => serves[p] = NoCommit
  BY <1>4 DEF Builds
<1>19. Builds'
  <2>1. ASSUME NEW q \in Preview, NEW i \in DOMAIN queued'[q]
        PROVE  /\ queued'[q][i] = "create" => i = 1 /\ results'[q] = <<>> /\ serves'[q] = NoCommit
               /\ queued'[q][i] = "deploy" => tip[Br(q)] # NoCommit
    <3>1. CASE q # p
      <4>1. i \in DOMAIN queued[q] /\ queued'[q][i] = queued[q][i] /\ results'[q] = results[q] /\ serves'[q] = serves[q]
        BY <1>7, <1>8, <1>10, <2>1, <3>1
      <4> QED BY <4>1 DEF Builds
    <3>2. CASE q = p
      <4>1. queued'[q][i] = queued[p][i + 1] /\ i + 1 \in DOMAIN queued[p]
        BY <1>4, <1>7, <2>1, <3>2
      <4>2. queued'[q][i] # "create"
        BY <1>16, <2>1, <3>2
      <4>3. queued'[q][i] = "deploy" => tip[Br(q)] # NoCommit
        BY <3>2, <4>1 DEF Builds
      <4> QED BY <4>2, <4>3
    <3> QED BY <3>1, <3>2
  <2>2. ASSUME NEW q \in Preview, NEW i \in DOMAIN results'[q], results'[q][i].do = "delete"
        PROVE  IF results'[q][i].ok THEN serves'[q] = NoCommit ELSE unbuilt' > 0
    <3>1. CASE q # p
      <4>1. results'[q] = results[q] /\ serves'[q] = serves[q]
        BY <1>8, <1>10, <3>1
      <4>2. IF results[q][i].ok THEN serves[q] = NoCommit ELSE unbuilt > 0
        BY <2>2, <4>1 DEF Builds
      <4> QED BY <1>11, <4>1, <4>2
    <3>2. CASE q = p
      <4>1. do = "delete" /\ results'[q][i].ok = ok
        BY <1>9, <2>2, <3>2
      <4>2. CASE ok
        BY <1>6, <1>10, <3>2, <4>1, <4>2
      <4>3. CASE ~ok
        <5>1. unbuilt' # 0
          BY <1>11, <4>1, <4>3
        <5> QED BY <1>11, <4>1, <4>3, <5>1
      <4> QED BY <4>2, <4>3
    <3> QED BY <3>1, <3>2
  <2>3. ASSUME NEW g \in Hook, hook[g].do = "deploy" PROVE tip[Br(hook[g].preview)] # NoCommit
    BY <2>3 DEF Builds
  <2> QED BY <1>2, <2>1, <2>2, <2>3 DEF Builds, Br
<1>20. ASSUME NEW q \in Preview, NEW x \in Do
       PROVE  ((\E i \in DOMAIN queued'[q] : queued'[q][i] = x) \/ \E i \in DOMAIN results'[q] : results'[q][i].do = x) <=> HasJob(q, x)
  <2>1. CASE q # p
    BY <1>7, <1>8, <2>1 DEF HasJob
  <2>2. CASE q = p
    <3>1. (\E i \in DOMAIN results'[q] : results'[q][i].do = x) <=> x = do
      BY <1>9, <2>2
    <3>2. HasJob(p, x) <=> \E i \in DOMAIN queued[p] : queued[p][i] = x
      BY <1>2 DEF HasJob
    <3>3. ASSUME NEW i \in DOMAIN queued[p], queued[p][i] = x PROVE x = do \/ \E k \in DOMAIN queued'[p] : queued'[p][k] = x
      <4>1. i = 1 => x = do
        BY <1>4, <3>3
      <4>2. i # 1 => i - 1 \in DOMAIN queued'[p] /\ queued'[p][i - 1] = x
        BY <1>4, <1>7, <3>3
      <4> QED BY <4>1, <4>2
    <3>4. ASSUME NEW i \in DOMAIN queued'[p], queued'[p][i] = x PROVE \E k \in DOMAIN queued[p] : queued[p][k] = x
      BY <1>4, <1>7, <3>4
    <3>5. x = do => \E k \in DOMAIN queued[p] : queued[p][k] = x
      BY <1>4
    <3> QED BY <2>2, <3>1, <3>2, <3>3, <3>4, <3>5
  <2> QED BY <2>1, <2>2
<1>21. \A q \in Preview, x \in {"create", "delete"} : HasJob(q, x)' <=> HasJob(q, x)
  <2>1. {"create", "delete"} \subseteq Do
    BY DEF Do
  <2>2. ASSUME NEW q \in Preview, NEW x \in Do PROVE HasJob(q, x)' <=> HasJob(q, x)
    BY <1>20 DEF HasJob
  <2> QED BY <2>1, <2>2
<1>22. Rows'
  <2> SUFFICES ASSUME NEW q \in Preview
               PROVE  /\ ~Stands(q) => queued'[q] = <<>> /\ results'[q] = <<>> /\ serves'[q] = NoCommit
                      /\ St(q) = "creating" => HasJob(q, "create")'
                      /\ St(q) = "deleting" => HasJob(q, "delete")'
    BY <1>2 DEF Rows, Stands, St, HasJob
  <2>1. ~Stands(q) => queued'[q] = <<>> /\ results'[q] = <<>> /\ serves'[q] = NoCommit
    BY <1>3, <1>7, <1>8, <1>10 DEF Rows
  <2> QED BY <1>21, <2>1 DEF Rows
<1>23. \A q \in Preview : Removing(q)' <=> Removing(q)
  BY <1>2 DEF Removing
<1>24. \A q \in Preview : Going(q)' <=> Going(q)
  BY <1>21, <1>23 DEF Going
<1>25. Previews' = Previews
  BY <1>2 DEF Previews
<1>26. Decided'
  <2> DEFINE NoDelete(q) == ~(\E i \in DOMAIN queued'[q] : queued'[q][i] = "delete") /\ ~\E i \in DOMAIN results'[q] : results'[q][i].do = "delete"
  <2>1. \A q \in Preview : ~HasJob(q, "delete") => NoDelete(q)
    BY <1>20 DEF Do
  <2>2. \A g \in Hook :
          /\ hook[g].do = "deploy" => hook[g].preview \in Preview /\ ~HasJob(hook[g].preview, "delete")
          /\ hook[g].do = "remove" => \A q \in hook[g].what : q \in Preview /\ ~HasJob(q, "delete")
    BY HookIs DEF Decided
  <2>3. \A g \in Hook :
          /\ hook[g].do = "deploy" => NoDelete(hook[g].preview)
          /\ hook[g].do = "remove" => \A q \in hook[g].what : NoDelete(q)
    <3> HIDE DEF NoDelete
    <3> QED BY <2>1, <2>2
  <2> QED BY <1>2, <1>25, <2>3 DEF Decided, HasJob, Stands, St, Br
<1>27. Leave'
  BY <1>2, <1>11, <1>24 DEF Leave, Reported, Stands, St, Br
<1>28. Fresh'
  <2> SUFFICES ASSUME unbuilt' = 0, NEW q \in Preview, Stands(q), ~Going(q),
                      \A g \in Hook : ~(hook[g].do = "deploy" /\ hook[g].preview = q),
                      \A i \in DOMAIN queued'[q] : queued'[q][i] \notin {"create", "deploy"},
                      serves'[q] # tip[Br(q)]
               PROVE  Reported(Br(q)) /\ queued'[q] = <<>> /\ results'[q] = <<>>
    BY <1>2, <1>24 DEF Fresh, Reported, Stands, St, Br
  <2>1. unbuilt = 0 /\ (ok \/ (do # "delete" /\ new = NoCommit))
    BY <1>11
  <2>2. CASE q # p
    BY <1>7, <1>8, <1>10, <2>1, <2>2 DEF Fresh
  <2>3. CASE q = p
    <3>1. do # "delete"
      <4>1. ASSUME do = "delete" PROVE HasJob(p, "delete")
        BY <1>4, <4>1 DEF HasJob
      <4> QED BY <2>3, <4>1 DEF Going
    <3>2. new = tip[Br(p)]
      BY <1>6, <3>1
    <3>3. ~ok /\ tip[Br(p)] = NoCommit
      BY <1>10, <2>1, <2>3, <3>2
    <3>4. do = "create"
      BY <1>4, <1>17, <3>1, <3>3 DEF Do
    <3> QED BY <1>10, <1>18, <2>3, <3>3, <3>4
  <2> QED BY <2>2, <2>3
<1> QED BY <1>12, <1>13, <1>14, <1>15, <1>19, <1>22, <1>26, <1>27, <1>28

LEMMA PreStep ==
  ASSUME PreInv, Orderly, [PreviewsNext]_preVars
  PROVE  PreInv'
<1>1. ASSUME NEW b \in Branch, ChangeBranch(b) PROVE PreInv'
  BY <1>1, ChangeBranchKeeps
<1>2. ASSUME NEW h \in Hook, HandlePush(h) \/ CreatePreview(h) \/ DeployPreview(h) \/ RemovePreview(h) \/ SetPreviews(h)
      PROVE  PreInv'
  BY <1>2, HandlePushKeeps, CreatePreviewKeeps, DeployPreviewKeeps, RemovePreviewKeeps, SetPreviewsKeeps
<1>3. ASSUME NEW p \in Preview, FoldPreview(p) \/ RunPreview(p) PROVE PreInv'
  BY <1>3, FoldPreviewKeeps, RunPreviewKeeps
<1>4. CASE UNCHANGED preVars
  <2>1. UNCHANGED <<tip, posts, hook, enabled, preview, serves, queued, results, pushes, switches, unbuilt>>
    BY <1>4 DEF preVars
  <2>2. PreTypes' /\ RowsInOrder' /\ OneEach' /\ Reports' /\ LastJob' /\ Builds'
    BY <2>1 DEF PreInv, PreTypes, RowsInOrder, OneEach, Reports, LastJob, Builds, St, Stands, Br, Previews, NewPreview
  <2>3. Rows' /\ Decided' /\ Leave' /\ Fresh'
    BY <2>1 DEF PreInv, Rows, Decided, Leave, Fresh, St, Stands, Br, Previews, HasJob, Going, Removing, Reported
  <2> QED BY <2>2, <2>3 DEF PreInv
<1> QED BY <1>1, <1>2, <1>3, <1>4 DEF PreviewsNext

LEMMA PreShows ==
  ASSUME PreInv
  PROVE  PreviewsRight
<1> USE DEF PreInv
<1>1. \A p \in Preview : p \in Previews <=> Stands(p)
  BY DEF Previews, Stands, St
<1>2. ASSUME Calm, NEW p \in Preview, Stands(p)
      PROVE  /\ ~Going(p) /\ queued[p] = <<>> /\ results[p] = <<>> /\ ~Reported(Br(p))
             /\ \A h \in Hook : ~(hook[h].do = "deploy" /\ hook[h].preview = p)
  <2>1. posts = <<>> /\ queued[p] = <<>> /\ results[p] = <<>> /\ \A h \in Hook : hook[h] = NoRequest
    BY <1>2 DEF Calm, Busy
  <2>2. \A h \in Hook : hook[h].do = "nothing"
    BY <2>1 DEF NoRequest
  <2> QED BY <2>1, <2>2 DEF Going, HasJob, Removing, Reported
<1>3. PreviewsAreFresh
  <2> SUFFICES ASSUME Calm, unbuilt = 0, NEW p \in Previews, preview[p].status = "running"
               PROVE  serves[p] = tip[preview[p].branch]
    BY DEF PreviewsAreFresh
  <2>1. p \in Preview /\ Stands(p)
    BY <1>1 DEF Previews
  <2> QED BY <1>2, <2>1 DEF Fresh, Br
<1>4. NothingUnseen
  <2>1. ASSUME Calm, unbuilt = 0, ~enabled PROVE Previews = {}
    <3> SUFFICES ASSUME NEW p \in Previews PROVE FALSE
      OBVIOUS
    <3>1. p \in Preview /\ Stands(p)
      BY <1>1 DEF Previews
    <3> QED BY <1>2, <2>1, <3>1 DEF Leave
  <2>2. \A p \in Preview : preview[p].status = "deleted" => serves[p] = NoCommit
    BY DEF Rows, Stands, St
  <2> QED BY <2>1, <2>2 DEF NothingUnseen
<1>5. PreviewsBounded
  <2>1. ASSUME NEW b \in Branch PROVE Cardinality(PreviewsOf(b)) <= 1
    <3> DEFINE S == PreviewsOf(b)
    <3>1. \A p, q \in S : p = q
      BY <1>1 DEF PreviewsOf, Previews, OneEach, Br
    <3> HIDE DEF S
    <3>2. CASE S = {}
      BY <3>2, FS_EmptySet DEF S
    <3>3. CASE S # {}
      <4>1. PICK p \in S : S = {p}
        BY <3>1, <3>3
      <4>2. Cardinality({p}) = 1
        BY FS_Singleton
      <4> QED BY <4>1, <4>2 DEF S
    <3> QED BY <3>2, <3>3
  <2> QED BY <2>1 DEF PreviewsBounded, OneEach
<1> QED BY <1>3, <1>4, <1>5 DEF PreviewsRight

-----------------------------------------------------------------------------
(* The parts together.                                                     *)

LEMMA SitesMovePreviews ==
  ASSUME [SitesNext]_sitesVars
  PROVE  [PreviewsNext]_preVars
BY DEF SitesNext, sitesVars

LEMMA SitesMoveWorkloads ==
  ASSUME [SitesNext]_sitesVars
  PROVE  [WorkloadsNext]_wlVars
BY DEF SitesNext, sitesVars

\* A branch has one preview at the most and an app no more than it may; when nothing is
\* left to do a preview shows the newest commit of its branch, and nothing runs unseen:
\* handlePush, setPreviews and applyOutcome, while one request is served at a time.
THEOREM PreviewsFollowTheirBranches ==
  ASSUME Orderly
  PROVE  SitesSpec => []PreviewsRight
<1>1. SitesInit => PreInv
  BY PreInvInit DEF SitesInit
<1>2. PreInv /\ [SitesNext]_sitesVars => PreInv'
  BY PreStep, SitesMovePreviews
<1>3. PreInv => PreviewsRight
  BY PreShows
<1> QED BY <1>1, <1>2, <1>3, PTL DEF SitesSpec

\* What an app's releases and previews serve is what was built last, the good builds one
\* can roll back to are there, and archives live and die with their rows: the three parts
\* together, each under what it needs.
THEOREM SitesAreRight ==
  ASSUME Patient, DumpsWork, Orderly
  PROVE  SitesSpec => []SitesRight
<1> DEFINE Inv == DepInv /\ PatInv /\ BkInv /\ PreInv
<1>1. SitesInit => Inv
  BY DepInvInit, PatInvInit, BkInvInit, PreInvInit DEF SitesInit
<1>2. Inv /\ [SitesNext]_sitesVars => Inv'
  BY DepStep, PatStep, BkStep, PreStep, SitesMoveDeployments, SitesMoveBackups, SitesMovePreviews
<1>3. Inv => SitesRight
  BY PatShows, BkShows, PreShows DEF SitesRight, ArchivesFollowRows
<1> QED BY <1>1, <1>2, <1>3, PTL DEF SitesSpec

-----------------------------------------------------------------------------
(* Types, whatever is asked at the same time.                              *)

\* Jobs and decisions are about rows there are.
Known ==
  /\ \A p \in Preview : St(p) = "none" => queued[p] = <<>> /\ results[p] = <<>>
  /\ \A h \in Hook :
       /\ hook[h].do = "deploy" => St(hook[h].preview) # "none"
       /\ hook[h].do = "remove" => hook[h].what # {} /\ \A p \in hook[h].what : St(p) # "none"

PreKinds == PreTypes /\ RowsInOrder /\ Known

\* A request that goes on to plan x.
LEMMA HookTurns ==
  ASSUME PreKinds, NEW h \in Hook, NEW x \in Plan, hook' = [hook EXCEPT ![h] = x],
         x.do = "deploy" => preview'[x.preview].status # "none",
         x.do = "remove" => x.what # {} /\ \A p \in x.what : preview'[p].status # "none",
         \A p \in Preview : St(p) # "none" => preview'[p].status # "none"
  PROVE  /\ hook' \in [Hook -> Plan]
         /\ \A g \in Hook :
              /\ hook'[g].do = "deploy" => preview'[hook'[g].preview].status # "none"
              /\ hook'[g].do = "remove" => hook'[g].what # {} /\ \A p \in hook'[g].what : preview'[p].status # "none"
<1>1. hook \in [Hook -> Plan]
  BY DEF PreKinds, PreTypes
<1>2. hook'[h] = x /\ \A g \in Hook : g # h => hook'[g] = hook[g]
  BY <1>1
<1>3. ASSUME NEW g \in Hook, g # h
      PROVE  /\ hook'[g].do = "deploy" => preview'[hook'[g].preview].status # "none"
             /\ hook'[g].do = "remove" => hook'[g].what # {} /\ \A p \in hook'[g].what : preview'[p].status # "none"
  <2>1. hook'[g] = hook[g]
    BY <1>2, <1>3
  <2>2. /\ hook[g].do = "deploy" => hook[g].preview \in Preview /\ St(hook[g].preview) # "none"
        /\ hook[g].do = "remove" => hook[g].what # {} /\ \A p \in hook[g].what : p \in Preview /\ St(p) # "none"
    BY HookIs DEF PreKinds, Known
  <2> QED BY <2>1, <2>2
<1> QED BY <1>1, <1>2, <1>3

LEMMA KindsStep ==
  ASSUME PreKinds, [PreviewsNext]_preVars
  PROVE  PreKinds'
<1> USE DEF PreKinds
<1>0. NoRequest \in Plan /\ NoRequest.do = "nothing"
  BY DEF Plan, NoRequest
<1>1. ASSUME NEW b \in Branch, ChangeBranch(b) PROVE PreKinds'
  <2>1. PICK gone \in BOOLEAN :
          /\ tip' = [tip EXCEPT ![b] = IF gone THEN NoCommit ELSE pushes']
          /\ posts' = Append(posts, [branch |-> b, deleted |-> gone])
    BY <1>1 DEF ChangeBranch
  <2>2. /\ pushes < MaxPushes /\ pushes' = pushes + 1
        /\ UNCHANGED <<hook, enabled, preview, serves, queued, results, unbuilt, switches>>
    BY <1>1 DEF ChangeBranch, preNode
  <2>3. pushes' \in 0 .. MaxPushes /\ NoCommit \in 0 .. MaxPushes
    BY <2>2, PreBounds DEF PreTypes, NoCommit
  <2>4. tip' \in [Branch -> 0 .. MaxPushes]
    BY <2>1, <2>3 DEF PreTypes
  <2>5. posts' \in Seq(Post)
    <3>1. [branch |-> b, deleted |-> gone] \in Post /\ posts \in Seq(Post)
      BY DEF Post, PreTypes
    <3> QED BY <2>1, <3>1, AtTheEnd
  <2>6. PreTypes'
    BY <2>2, <2>3, <2>4, <2>5 DEF PreTypes
  <2>7. RowsInOrder' /\ Known'
    BY <2>2 DEF RowsInOrder, NewPreview, Known, St
  <2> QED BY <2>6, <2>7
<1>2. ASSUME NEW h \in Hook, HandlePush(h) PROVE PreKinds'
  <2> DEFINE x == Decision(Head(posts).branch, Head(posts).deleted)
  <2>1. /\ posts \in Seq(Post) /\ posts # <<>> /\ posts' = Tail(posts) /\ hook' = [hook EXCEPT ![h] = x]
        /\ UNCHANGED <<tip, enabled, preview, serves, queued, results, unbuilt, pushes, switches>>
    BY <1>2 DEF HandlePush, preNode, PreTypes
  <2>2. posts' \in Seq(Post) /\ Head(posts) \in Post
    BY <2>1, InFront
  <2>3. /\ x \in Plan
        /\ x.do = "deploy" => preview[x.preview].status # "none"
        /\ x.do = "remove" => x.what # {} /\ \A p \in x.what : preview[p].status # "none"
    <3> DEFINE b == Head(posts).branch
               d == Head(posts).deleted
               mine == PreviewsOf(b)
               p1 == Min(mine)
    <3>1. b \in Branch /\ d \in BOOLEAN
      BY <2>2 DEF Post
    <3>2. mine \in SUBSET Preview /\ \A p \in mine : preview[p].status # "none"
      BY DEF PreviewsOf, Previews
    <3> HIDE DEF b, d, mine
    <3>3. mine # {} => p1 \in mine /\ p1 \in Preview
      BY <3>2, LowestIsIn
    <3> HIDE DEF p1
    <3>4. \/ x = NoRequest
          \/ mine # {} /\ x = [do |-> "remove", what |-> {p1}]
          \/ mine # {} /\ x = [do |-> "deploy", preview |-> p1]
          \/ x = [do |-> "create", branch |-> b]
      BY DEF Decision, mine, p1, b, d
    <3> HIDE DEF x
    <3>5. CASE x = NoRequest
      BY <1>0, <3>5
    <3>6. CASE mine # {} /\ x = [do |-> "remove", what |-> {p1}]
      BY <3>2, <3>3, <3>6 DEF Plan
    <3>7. CASE mine # {} /\ x = [do |-> "deploy", preview |-> p1]
      BY <3>2, <3>3, <3>7 DEF Plan
    <3>8. CASE x = [do |-> "create", branch |-> b]
      BY <3>1, <3>8 DEF Plan
    <3> QED BY <3>4, <3>5, <3>6, <3>7, <3>8
  <2> HIDE DEF x
  <2>4. /\ hook' \in [Hook -> Plan]
        /\ \A g \in Hook :
             /\ hook'[g].do = "deploy" => preview'[hook'[g].preview].status # "none"
             /\ hook'[g].do = "remove" => hook'[g].what # {} /\ \A p \in hook'[g].what : preview'[p].status # "none"
    <3>1. \A p \in Preview : St(p) # "none" => preview'[p].status # "none"
      BY <2>1 DEF St
    <3>2. /\ x.do = "deploy" => preview'[x.preview].status # "none"
          /\ x.do = "remove" => x.what # {} /\ \A p \in x.what : preview'[p].status # "none"
      BY <2>1, <2>3
    <3> QED BY <2>1, <2>3, <3>1, <3>2, HookTurns
  <2>5. RowsInOrder' /\ PreTypes'
    BY <2>1, <2>2, <2>4 DEF RowsInOrder, NewPreview, PreTypes, St
  <2> QED BY <2>1, <2>4, <2>5 DEF Known, St
<1>3. ASSUME NEW h \in Hook, CreatePreview(h) PROVE PreKinds'
  <2> DEFINE n == NewPreview
  <2>1. /\ hook[h].do = "create" /\ n \in Preview /\ hook[h].branch \in Branch
        /\ preview' = [preview EXCEPT ![n] = [status |-> "creating", branch |-> hook[h].branch]]
        /\ queued' = [queued EXCEPT ![n] = <<"create">>]
        /\ hook' = [hook EXCEPT ![h] = NoRequest]
        /\ UNCHANGED <<tip, posts, pushes, enabled, serves, results, switches, unbuilt>>
    BY <1>3, HookIs DEF CreatePreview, preGit
  <2>2. n \in Nat /\ MaxRows \in Nat
    BY PreviewsAreFinite, PreBounds
  <2> HIDE DEF n
  <2>3. St(n) = "none"
    BY <2>1, <2>2 DEF RowsInOrder, n
  <2>4. /\ preview' \in [Preview -> Blank \cup Inhabited]
        /\ preview'[n].status = "creating"
        /\ \A p \in Preview : p # n => preview'[p] = preview[p] /\ queued'[p] = queued[p]
        /\ queued' \in [Preview -> Seq(Do)]
    <3>1. [status |-> "creating", branch |-> hook[h].branch] \in Inhabited
      BY <2>1 DEF Inhabited, PreStatus
    <3>2. <<"create">> \in Seq(Do)
      BY DEF Do
    <3> QED BY <2>1, <3>1, <3>2 DEF PreTypes
  <2>5. \A p \in Preview : St(p) # "none" => preview'[p].status # "none"
    BY <2>4 DEF St
  <2>6. /\ hook' \in [Hook -> Plan]
        /\ \A g \in Hook :
             /\ hook'[g].do = "deploy" => preview'[hook'[g].preview].status # "none"
             /\ hook'[g].do = "remove" => hook'[g].what # {} /\ \A p \in hook'[g].what : preview'[p].status # "none"
    BY <1>0, <2>1, <2>5, HookTurns
  <2>7. PreTypes'
    BY <2>1, <2>4, <2>6 DEF PreTypes
  <2>8. RowsInOrder'
    BY <2>1, <2>3, <2>4, OneMoreRow DEF n
  <2>9. \A p \in Preview : preview'[p].status = "none" => queued'[p] = <<>> /\ results'[p] = <<>>
    BY <2>1, <2>4 DEF Known, St
  <2> QED BY <2>6, <2>7, <2>8, <2>9 DEF Known, St
<1>4. ASSUME NEW h \in Hook, DeployPreview(h) PROVE PreKinds'
  <2> DEFINE p == hook[h].preview
  <2>1. hook[h].do = "deploy" /\ p \in Preview /\ St(p) # "none"
    BY <1>4, HookIs DEF DeployPreview, Known
  <2>2. /\ queued' = queued \/ queued' = [queued EXCEPT ![p] = Append(@, "deploy")]
        /\ hook' = [hook EXCEPT ![h] = NoRequest]
        /\ UNCHANGED <<tip, posts, pushes, enabled, preview, serves, results, switches, unbuilt>>
    BY <1>4 DEF DeployPreview, preGit
  <2> HIDE DEF p
  <2>3. queued' \in [Preview -> Seq(Do)] /\ \A q \in Preview : q # p => queued'[q] = queued[q]
    <3>1. queued[p] \in Seq(Do) /\ "deploy" \in Do
      BY <2>1 DEF PreTypes, Do
    <3>2. Append(queued[p], "deploy") \in Seq(Do)
      BY <3>1, AtTheEnd
    <3> QED BY <2>1, <2>2, <3>2 DEF PreTypes
  <2>4. \A q \in Preview : St(q) # "none" => preview'[q].status # "none"
    BY <2>2 DEF St
  <2>5. /\ hook' \in [Hook -> Plan]
        /\ \A g \in Hook :
             /\ hook'[g].do = "deploy" => preview'[hook'[g].preview].status # "none"
             /\ hook'[g].do = "remove" => hook'[g].what # {} /\ \A q \in hook'[g].what : preview'[q].status # "none"
    BY <1>0, <2>2, <2>4, HookTurns
  <2>6. PreTypes'
    BY <2>2, <2>3, <2>5 DEF PreTypes
  <2>7. RowsInOrder'
    BY <2>2 DEF RowsInOrder, NewPreview, St
  <2>8. \A q \in Preview : preview'[q].status = "none" => queued'[q] = <<>> /\ results'[q] = <<>>
    BY <2>1, <2>2, <2>3 DEF Known, St
  <2> QED BY <2>5, <2>6, <2>7, <2>8 DEF Known, St
<1>5. ASSUME NEW h \in Hook, RemovePreview(h) PROVE PreKinds'
  <2> DEFINE p == Min(hook[h].what)
             rest == hook[h].what \ {p}
  <2>1. /\ hook[h].do = "remove" /\ hook[h].what \in SUBSET Preview /\ hook[h].what # {}
        /\ \A q \in hook[h].what : St(q) # "none"
    BY <1>5, HookIs DEF RemovePreview, Known
  <2>2. p \in hook[h].what /\ p \in Preview /\ St(p) # "none"
    BY <2>1, LowestIsIn
  <2> DEFINE there == preview[p].status # "deleted"
  <2>3. /\ preview' = (IF there THEN [preview EXCEPT ![p].status = "deleting"] ELSE preview)
        /\ queued' = (IF there THEN [queued EXCEPT ![p] = Append(@, "delete")] ELSE queued)
        /\ hook' = [hook EXCEPT ![h] = IF there /\ rest # {} THEN [hook[h] EXCEPT !.what = rest] ELSE NoRequest]
        /\ UNCHANGED <<tip, posts, pushes, enabled, serves, results, switches, unbuilt>>
    BY <1>5 DEF RemovePreview, preGit
  <2> HIDE DEF p
  <2>4. /\ preview' \in [Preview -> Blank \cup Inhabited]
        /\ preview'[p].status # "none" /\ \A q \in Preview : q # p => preview'[q] = preview[q]
    <3>1. preview[p] \in Inhabited /\ preview \in [Preview -> Blank \cup Inhabited]
      BY <2>2, RowStands DEF PreTypes
    <3>2. ASSUME NEW r \in Inhabited, r = preview[p], NEW n, n = [r EXCEPT !.status = "deleting"], there
          PROVE  n \in Inhabited /\ n.status = "deleting" /\ preview' = [preview EXCEPT ![p] = n]
      <4>1. "deleting" \in PreStatus \ {"none"}
        BY DEF PreStatus
      <4>2. n \in Inhabited /\ n.status = "deleting"
        BY <3>2, <4>1, NewStatus
      <4>3. preview' = [preview EXCEPT ![p] = [r EXCEPT !.status = "deleting"]]
        BY <2>3, <3>2
      <4> QED BY <3>2, <4>2, <4>3
    <3>3. CASE there
      <4>1. PICK n \in Inhabited : n.status = "deleting" /\ preview' = [preview EXCEPT ![p] = n]
        BY <3>1, <3>2, <3>3
      <4> QED BY <2>2, <3>1, <4>1
    <3>4. CASE ~there
      BY <2>2, <2>3, <3>1, <3>4 DEF St
    <3> QED BY <3>3, <3>4
  <2>5. queued' \in [Preview -> Seq(Do)] /\ \A q \in Preview : q # p => queued'[q] = queued[q]
    <3>1. queued[p] \in Seq(Do) /\ "delete" \in Do
      BY <2>2 DEF PreTypes, Do
    <3>2. Append(queued[p], "delete") \in Seq(Do)
      BY <3>1, AtTheEnd
    <3>3. queued' = queued \/ queued' = [queued EXCEPT ![p] = Append(queued[p], "delete")]
      BY <2>3
    <3> HIDE DEF there
    <3> QED BY <2>2, <3>2, <3>3 DEF PreTypes
  <2>6. \A q \in Preview : preview'[q].status # "none" <=> St(q) # "none"
    BY <2>2, <2>4 DEF St
  <2>7. /\ hook' \in [Hook -> Plan]
        /\ \A g \in Hook :
             /\ hook'[g].do = "deploy" => preview'[hook'[g].preview].status # "none"
             /\ hook'[g].do = "remove" => hook'[g].what # {} /\ \A q \in hook'[g].what : preview'[q].status # "none"
    <3>1. hook[h] \in [do : {"remove"}, what : SUBSET Preview] /\ hook \in [Hook -> Plan]
      BY <2>1 DEF PreTypes, Plan
    <3>2. ASSUME NEW r, r = hook[h], NEW n, n = [r EXCEPT !.what = rest]
          PROVE  n \in Plan /\ n.do = "remove" /\ n.what = rest
      BY <2>1, <3>1, <3>2 DEF Plan
    <3>3. CASE there /\ rest # {}
      <4>1. PICK n \in Plan : n.do = "remove" /\ n.what = rest /\ hook' = [hook EXCEPT ![h] = n]
        BY <2>3, <3>2, <3>3
      <4>2. \A q \in rest : preview'[q].status # "none"
        BY <2>1, <2>6
      <4>3. \A q \in Preview : St(q) # "none" => preview'[q].status # "none"
        BY <2>6
      <4> HIDE DEF rest, there
      <4> QED BY <3>3, <4>1, <4>2, <4>3, HookTurns
    <3>4. CASE ~(there /\ rest # {})
      <4>1. hook' = [hook EXCEPT ![h] = NoRequest]
        BY <2>3, <3>4
      <4> HIDE DEF rest, there
      <4> QED BY <1>0, <2>6, <4>1, HookTurns
    <3> QED BY <3>3, <3>4
  <2>8. PreTypes'
    BY <2>3, <2>4, <2>5, <2>7 DEF PreTypes
  <2>9. RowsInOrder'
    <3>1. {q \in Preview : preview'[q].status # "none"} = {q \in Preview : preview[q].status # "none"}
      BY <2>6 DEF St
    <3>2. NewPreview' = NewPreview
      BY <3>1 DEF NewPreview
    <3> QED BY <2>6, <3>2 DEF RowsInOrder, St
  <2>10. \A q \in Preview : preview'[q].status = "none" => queued'[q] = <<>> /\ results'[q] = <<>>
    BY <2>2, <2>3, <2>4, <2>5 DEF Known, St
  <2> QED BY <2>7, <2>8, <2>9, <2>10 DEF Known, St
<1>6. ASSUME NEW h \in Hook, SetPreviews(h) PROVE PreKinds'
  <2> DEFINE x == IF enabled /\ Previews # {} THEN [do |-> "remove", what |-> Previews] ELSE NoRequest
  <2>1. /\ enabled' = ~enabled /\ switches' = switches + 1 /\ hook' = [hook EXCEPT ![h] = x]
        /\ UNCHANGED <<tip, posts, pushes, preview, serves, queued, results, unbuilt>>
    BY <1>6 DEF SetPreviews, SwitchedOff, preGit, preNode
  <2>2. Previews \in SUBSET Preview /\ \A p \in Previews : preview[p].status # "none"
    BY DEF Previews
  <2>3. x \in Plan /\ x.do # "deploy" /\ (x.do = "remove" => x.what # {} /\ \A p \in x.what : preview'[p].status # "none")
    <3>1. CASE enabled /\ Previews # {}
      BY <2>1, <2>2, <3>1 DEF Plan
    <3>2. CASE ~(enabled /\ Previews # {})
      BY <1>0, <3>2
    <3> QED BY <3>1, <3>2
  <2>4. \A p \in Preview : St(p) # "none" => preview'[p].status # "none"
    BY <2>1 DEF St
  <2> HIDE DEF x
  <2>5. /\ hook' \in [Hook -> Plan]
        /\ \A g \in Hook :
             /\ hook'[g].do = "deploy" => preview'[hook'[g].preview].status # "none"
             /\ hook'[g].do = "remove" => hook'[g].what # {} /\ \A p \in hook'[g].what : preview'[p].status # "none"
    BY <2>1, <2>3, <2>4, HookTurns
  <2>6. PreTypes'
    BY <2>1, <2>5 DEF PreTypes
  <2> QED BY <2>1, <2>5, <2>6 DEF RowsInOrder, NewPreview, Known, St
<1>7. ASSUME NEW p \in Preview, FoldPreview(p) PROVE PreKinds'
  <2> DEFINE s == PreviewStatus(St(p), Head(results[p]).do, Head(results[p]).ok)
  <2>1. /\ results[p] # <<>> /\ results' = [results EXCEPT ![p] = Tail(@)]
        /\ preview' = [preview EXCEPT ![p].status = PreviewStatus(@, Head(results[p]).do, Head(results[p]).ok)]
        /\ UNCHANGED <<tip, posts, pushes, hook, enabled, serves, queued, switches, unbuilt>>
    BY <1>7 DEF FoldPreview, preGit
  <2>2. St(p) # "none" /\ preview[p] \in Inhabited /\ St(p) \in PreStatus \ {"none"}
    <3>1. St(p) # "none"
      BY <2>1 DEF Known
    <3> QED BY <3>1, RowStands DEF Inhabited, St
  <2>3. Head(results[p]).do \in Do /\ Head(results[p]).ok \in BOOLEAN /\ Tail(results[p]) \in Seq(Result)
    <3>1. results[p] \in Seq(Result)
      BY JobsAre
    <3>2. Head(results[p]) \in Result /\ Tail(results[p]) \in Seq(Result)
      BY <2>1, <3>1, InFront
    <3> QED BY <3>2 DEF Result
  <2>4. s \in PreStatus \ {"none"}
    BY <2>2, <2>3 DEF PreviewStatus, PreStatus, Do
  <2>5. ASSUME NEW r \in Inhabited, r = preview[p], NEW n, n = [r EXCEPT !.status = s]
        PROVE  n \in Inhabited /\ n.status = s /\ preview' = [preview EXCEPT ![p] = n]
    <3>1. preview' = [preview EXCEPT ![p] = [r EXCEPT !.status = s]]
      BY <2>1, <2>5 DEF St
    <3> HIDE DEF s
    <3>2. n \in Inhabited /\ n.status = s
      BY <2>4, <2>5, NewStatus
    <3> QED BY <2>5, <3>1, <3>2
  <2> HIDE DEF s
  <2>6. PICK n \in Inhabited : n.status = s /\ preview' = [preview EXCEPT ![p] = n]
    BY <2>2, <2>5
  <2>7. /\ preview' \in [Preview -> Blank \cup Inhabited] /\ preview'[p].status # "none"
        /\ \A q \in Preview : q # p => preview'[q] = preview[q]
    BY <2>4, <2>6 DEF PreTypes
  <2>8. results' \in [Preview -> Seq(Result)] /\ \A q \in Preview : q # p => results'[q] = results[q]
    BY <2>1, <2>3 DEF PreTypes
  <2>9. \A q \in Preview : preview'[q].status # "none" <=> St(q) # "none"
    BY <2>2, <2>7 DEF St
  <2>10. PreTypes'
    BY <2>1, <2>7, <2>8 DEF PreTypes
  <2>11. RowsInOrder'
    <3>1. {q \in Preview : preview'[q].status # "none"} = {q \in Preview : preview[q].status # "none"}
      BY <2>9 DEF St
    <3>2. NewPreview' = NewPreview
      BY <3>1 DEF NewPreview
    <3> QED BY <2>9, <3>2 DEF RowsInOrder, St
  <2>12. \A q \in Preview : preview'[q].status = "none" => queued'[q] = <<>> /\ results'[q] = <<>>
    BY <2>1, <2>7, <2>8 DEF Known, St
  <2>13. \A g \in Hook :
           /\ hook'[g].do = "deploy" => preview'[hook'[g].preview].status # "none"
           /\ hook'[g].do = "remove" => hook'[g].what # {} /\ \A q \in hook'[g].what : preview'[q].status # "none"
    <3>1. \A g \in Hook :
            /\ hook[g].do = "deploy" => hook[g].preview \in Preview /\ St(hook[g].preview) # "none"
            /\ hook[g].do = "remove" => hook[g].what # {} /\ \A q \in hook[g].what : q \in Preview /\ St(q) # "none"
      BY HookIs DEF Known
    <3> QED BY <2>1, <2>9, <3>1
  <2> QED BY <2>10, <2>11, <2>12, <2>13 DEF Known, St
<1>8. ASSUME NEW p \in Preview, RunPreview(p) PROVE PreKinds'
  <2> DEFINE do == Head(queued[p])
             new == IF do = "delete" THEN NoCommit ELSE tip[preview[p].branch]
  <2>1. PICK ok \in BOOLEAN :
          /\ unbuilt' = unbuilt + (IF ok \/ (do # "delete" /\ new = NoCommit) THEN 0 ELSE 1)
          /\ serves' = IF ok THEN [serves EXCEPT ![p] = new] ELSE serves
          /\ results' = [results EXCEPT ![p] = <<[do |-> do, ok |-> ok]>>]
    BY <1>8 DEF RunPreview
  <2>2. /\ queued[p] # <<>> /\ queued' = [queued EXCEPT ![p] = Tail(@)]
        /\ UNCHANGED <<tip, posts, pushes, hook, enabled, preview, switches>>
    BY <1>8 DEF RunPreview, preGit
  <2>3. St(p) # "none" /\ preview[p].branch \in Branch
    <3>1. St(p) # "none"
      BY <2>2 DEF Known
    <3> QED BY <3>1, RowStands DEF Br
  <2>4. do \in Do /\ Tail(queued[p]) \in Seq(Do)
    <3>1. queued[p] \in Seq(Do)
      BY JobsAre
    <3> QED BY <2>2, <3>1, InFront
  <2>5. new \in 0 .. MaxPushes
    BY <2>3, PreBounds DEF PreTypes, NoCommit
  <2> HIDE DEF do, new
  <2>6. results' \in [Preview -> Seq(Result)] /\ \A q \in Preview : q # p => results'[q] = results[q]
    <3>1. <<[do |-> do, ok |-> ok]>> \in Seq(Result)
      BY <2>4 DEF Result
    <3> QED BY <2>1, <3>1 DEF PreTypes
  <2>7. queued' \in [Preview -> Seq(Do)] /\ \A q \in Preview : q # p => queued'[q] = queued[q]
    BY <2>2, <2>4 DEF PreTypes
  <2>8. serves' \in [Preview -> 0 .. MaxPushes]
    BY <2>1, <2>5 DEF PreTypes
  <2>9. unbuilt' \in Nat
    <3>1. (IF ok \/ (do # "delete" /\ new = NoCommit) THEN 0 ELSE 1) \in Nat
      OBVIOUS
    <3> QED BY <2>1, <3>1 DEF PreTypes
  <2>10. PreTypes'
    BY <2>2, <2>6, <2>7, <2>8, <2>9 DEF PreTypes
  <2>11. RowsInOrder' /\ Known'
    BY <2>2, <2>3, <2>6, <2>7 DEF RowsInOrder, NewPreview, Known, St
  <2> QED BY <2>10, <2>11
<1>9. CASE UNCHANGED preVars
  BY <1>9 DEF preVars, PreTypes, RowsInOrder, NewPreview, Known, St
<1> QED BY <1>1, <1>2, <1>3, <1>4, <1>5, <1>6, <1>7, <1>8, <1>9 DEF PreviewsNext

LEMMA KindsInit == PreviewsInit => PreKinds
<1> SUFFICES ASSUME PreviewsInit PROVE PreKinds
  OBVIOUS
<1>1. PreTypes /\ RowsInOrder
  BY PreInvInit DEF PreInv
<1>2. Known
  BY DEF PreviewsInit, NoRequest, Known
<1> QED BY <1>1, <1>2 DEF PreKinds

LEMMA PreviewsHaveTypes == PreTypes => PreviewsTypeOK
<1> SUFFICES ASSUME PreTypes, NEW p \in Preview
             PROVE  preview[p].status \in {"none", "creating", "running", "error", "deleting", "deleted"}
  BY DEF PreTypes, PreviewsTypeOK
<1>1. preview[p] \in Blank \cup Inhabited
  BY DEF PreTypes
<1>2. CASE preview[p] \in Blank
  BY <1>2 DEF Blank
<1>3. CASE preview[p] \in Inhabited
  BY <1>3 DEF Inhabited, PreStatus
<1> QED BY <1>1, <1>2, <1>3

\* Rows, jobs, archives, releases and containers are what their columns and queues
\* allow, whatever people and deliveries ask at the same time and whatever fails: the
\* writes of the panel's handlers and of the agent's.
THEOREM SitesTyped == SitesSpec => []SitesTypeOK
<1> DEFINE Inv == WlTypes /\ Aimed /\ DepInv /\ BkInv /\ PreKinds
<1>1. SitesInit => Inv
  BY TypesInit, DepInvInit, BkInvInit, KindsInit DEF SitesInit
<1>2. Inv /\ [SitesNext]_sitesVars => Inv'
  <2> SUFFICES ASSUME Inv, [SitesNext]_sitesVars PROVE Inv'
    OBVIOUS
  <2>1. WlTypes' /\ Aimed'
    BY TypesStep, SitesMoveWorkloads
  <2>2. DepInv' /\ BkInv'
    BY DepStep, BkStep, SitesMoveDeployments, SitesMoveBackups
  <2>3. PreKinds'
    BY KindsStep, SitesMovePreviews
  <2> QED BY <2>1, <2>2, <2>3
<1>3. Inv => SitesTypeOK
  <2> SUFFICES ASSUME Inv PROVE SitesTypeOK
    OBVIOUS
  <2>1. DeploymentsTypeOK
    BY DEF DepInv, DepTypes, DeploymentsTypeOK
  <2>2. BackupsTypeOK
    BY DEF BkInv, BkTypes, Place, Archive, BackupsTypeOK
  <2>3. PreviewsTypeOK
    BY PreviewsHaveTypes DEF PreKinds
  <2> QED BY <2>1, <2>2, <2>3, TypesShow DEF SitesTypeOK
<1> QED BY <1>1, <1>2, <1>3, PTL DEF SitesSpec
==============================================================================
