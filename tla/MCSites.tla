------------------------------ MODULE MCSites ------------------------------
(* The parts of a site's life for TLC.  They share no variable: one of     *)
(* them moves in each behaviour, the others stay as they began.            *)
EXTENDS Workloads, Deployments, Backups, Previews

VARIABLE part

sitesVars == <<wlVars, depVars, bkVars, preVars, part>>

SitesInit ==
  /\ part \in {"workloads", "deployments", "backups", "previews"}
  /\ WorkloadsInit /\ DeploymentsInit /\ BackupsInit /\ PreviewsInit

SitesNext ==
  /\ UNCHANGED part
  /\ \/ part = "workloads"   /\ WorkloadsNext   /\ UNCHANGED <<depVars, bkVars, preVars>>
     \/ part = "deployments" /\ DeploymentsNext /\ UNCHANGED <<wlVars, bkVars, preVars>>
     \/ part = "backups"     /\ BackupsNext     /\ UNCHANGED <<wlVars, depVars, preVars>>
     \/ part = "previews"    /\ PreviewsNext    /\ UNCHANGED <<wlVars, depVars, bkVars>>

\* Nothing that is fair is enabled in a part that stays as it began.
SitesSpec ==
  /\ SitesInit /\ [][SitesNext]_sitesVars
  /\ WorkloadsFairness /\ DeploymentsFairness /\ BackupsFairness

\* Every part's rows, jobs and containers are what their columns allow.
SitesTypeOK == WorkloadsTypeOK /\ DeploymentsTypeOK /\ BackupsTypeOK /\ PreviewsTypeOK

\* What an app's releases and previews serve is what was built last, the good builds
\* that can be rolled back to are there, and archives follow their rows.
SitesRight == GoodBuildsServe /\ PreviewsRight /\ ArchivesFollowRows

\* Nothing hangs: what is being created, deleted, deployed, backed up or
\* restored gets an end, and a site that an update broke is repaired.
SitesEnd == Settles /\ DeploymentEnds /\ BrokenIsRepaired /\ BackupSettles
=============================================================================
