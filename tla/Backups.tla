------------------------------ MODULE Backups ------------------------------
(***************************************************************************)
(* The backups of one site: the rows of the backups table, the archives on *)
(* the node and in the object storage, the jobs that make, restore and     *)
(* delete them, the daily run that makes and prunes them, and automatic    *)
(* updates with their way back.  What a site contains is a number that     *)
(* every change raises.  Jobs are executed one at a time, in order.        *)
(***************************************************************************)
EXTENDS Integers, Sequences, FiniteSetsExt, SequencesExt

CONSTANTS
  MaxBackups,     \* bound: rows ever inserted
  MaxContent,     \* bound: changes of the site
  MaxDays,        \* bound: days that pass
  MaxTrouble,     \* bound: jobs that fail
  MaxAsked,       \* bound: requests of customers and automatic updates
  KeepScheduled,  \* the setting keepScheduled
  KeepLocal,      \* the setting keepLocal of the object storage
  Hourly,         \* the run comes more often than once a day
  DumpsWork       \* the dump of the site's database does not fail

ASSUME BackupsBounds ==
  /\ {MaxBackups, MaxContent, MaxDays, MaxTrouble, MaxAsked} \subseteq Nat
  /\ KeepScheduled \in 1 .. 90
  /\ {KeepLocal, Hourly, DumpsWork} \subseteq BOOLEAN

VARIABLES
  backup,      \* status of each row: none, creating, ready, failed, restoring, gone
  purpose,     \* manual, scheduled or system
  offsite,     \* the column offsite
  tasks,       \* the queued and running jobs of the site, in order
  endings,     \* finished jobs that are not folded in yet, in their order
  content,     \* what the site contains
  broken,      \* the site does not answer after an update
  local,       \* the archives on the node: what each contains, or Missing
  remote,      \* the archives in the object storage
  restorer,    \* the backup a restore request found ready, or no row
  due,         \* a day has passed since the last scheduled backup was made
  days, asks, trouble

bkVars == <<backup, purpose, offsite, tasks, endings, content, broken, local, remote,
            restorer, due, days, asks, trouble>>
bkRows == <<backup, purpose, offsite>>
bkNode == <<content, broken, local, remote, trouble>>

Row     == 1 .. MaxBackups
NoRow   == 0
Missing == -1
Hollow  == -2     \* an archive without the data of the site

BackupsTypeOK ==
  /\ backup \in [Row -> {"none", "creating", "ready", "failed", "restoring", "gone"}]
  /\ purpose \in [Row -> {"manual", "scheduled", "system"}]
  /\ offsite \in [Row -> {"none", "pending", "uploaded", "failed"}]
  /\ content \in 0 .. MaxContent
  /\ {local, remote} \subseteq [Row -> {Missing, Hollow} \cup 0 .. MaxContent]
  /\ restorer \in Row \cup {NoRow}
  /\ {broken, due} \subseteq BOOLEAN

BackupsInit ==
  /\ backup = [b \in Row |-> "none"]
  /\ purpose = [b \in Row |-> "manual"]
  /\ offsite = [b \in Row |-> "none"]
  /\ tasks = <<>> /\ endings = <<>>
  /\ content = 0 /\ broken = FALSE
  /\ local = [b \in Row |-> Missing] /\ remote = [b \in Row |-> Missing]
  /\ restorer = NoRow
  /\ due = TRUE /\ days = 0 /\ asks = 0 /\ trouble = 0

-----------------------------------------------------------------------------
(* The control plane.                                                      *)

NewRow == Cardinality({b \in Row : backup[b] # "none"}) + 1
Task(kind, b) == [kind |-> kind, row |-> b]

\* createBackup, for the object storage as well.
InsertBackup(why) ==
  /\ NewRow \in Row
  /\ backup' = [backup EXCEPT ![NewRow] = "creating"]
  /\ purpose' = [purpose EXCEPT ![NewRow] = why]
  /\ offsite' = [offsite EXCEPT ![NewRow] = "pending"]

\* Bounds: so many requests, which leave a row for the safety backup of an
\* update that may have to be taken back.
Updating == \E t \in Range(tasks \o endings) : t.kind = "autoupdate"
Room == Updating => NewRow < MaxBackups
Asks == Room /\ asks < MaxAsked /\ asks' = asks + 1

CreateBackup ==
  /\ Asks
  /\ InsertBackup("manual")
  /\ tasks' = Append(tasks, Task("create", NewRow))
  /\ UNCHANGED <<endings, bkNode, restorer, due, days>>

\* restoreBackup, up to the safety backup.
AskRestore ==
  \E b \in Row :
    /\ Asks
    /\ restorer = NoRow
    /\ backup[b] = "ready"
    /\ InsertBackup("system")
    /\ tasks' = Append(tasks, Task("create", NewRow))
    /\ restorer' = b
    /\ UNCHANGED <<endings, bkNode, due, days>>

\* Mutant: the restore is queued before its safety backup.
QueueRestoreFirst ==
  /\ restorer # NoRow
  /\ IF backup[restorer] = "gone" THEN UNCHANGED <<backup, tasks>>
     ELSE /\ backup' = [backup EXCEPT ![restorer] = "restoring"]
          /\ tasks' = <<Task("restore", restorer)>> \o tasks
  /\ restorer' = NoRow
  /\ UNCHANGED <<purpose, offsite, endings, bkNode, due, days, asks>>

\* The rest of it; a row deleted meanwhile makes the insert of the job fail.
QueueRestore ==
  /\ restorer # NoRow
  /\ IF backup[restorer] = "gone" THEN UNCHANGED <<backup, tasks>>
     ELSE /\ backup' = [backup EXCEPT ![restorer] = "restoring"]
          /\ tasks' = Append(tasks, Task("restore", restorer))
  /\ restorer' = NoRow
  /\ UNCHANGED <<purpose, offsite, endings, bkNode, due, days, asks>>

DeleteBackup ==
  \E b \in Row :
    /\ Asks
    /\ backup[b] = "ready"
    /\ tasks' = Append(tasks, Task("delete", b))
    /\ UNCHANGED <<bkRows, endings, bkNode, restorer, due, days>>

\* runScheduledBackups: what to prune is read before the new one is made.
ReadyScheduled == {b \in Row : purpose[b] = "scheduled" /\ backup[b] = "ready"}
Newest(n, rows) == {b \in rows : Cardinality({c \in rows : c > b}) < n}
Prunable == ReadyScheduled \ Newest(KeepScheduled - 1, ReadyScheduled)

ScheduledRun ==
  /\ Room
  /\ Hourly \/ due
  /\ due \/ Prunable # {}
  /\ IF due THEN InsertBackup("scheduled") ELSE UNCHANGED bkRows
  /\ tasks' = tasks \o (IF due THEN <<Task("create", NewRow)>> ELSE <<>>)
                    \o SetToSeq({Task("delete", b) : b \in Prunable})
  /\ due' = FALSE
  /\ UNCHANGED <<endings, bkNode, restorer, days, asks>>

DayPasses ==
  /\ ~due
  /\ days < MaxDays
  /\ days' = days + 1
  /\ due' = TRUE
  /\ UNCHANGED <<bkRows, tasks, endings, bkNode, restorer, asks>>

\* runWpAutoUpdates, for one site; not between the statements of a restore.
AutoUpdate ==
  /\ Asks
  /\ restorer = NoRow /\ ~Updating
  /\ NewRow < MaxBackups
  /\ InsertBackup("system")
  /\ content < MaxContent
  /\ tasks' = tasks \o <<Task("create", NewRow), Task("autoupdate", NewRow)>>
  /\ UNCHANGED <<endings, bkNode, restorer, due, days>>

\* applyOutcome, its part about backups.
FoldedBackup(e, was) ==
  CASE e.kind = "create"     -> IF e.ok THEN "ready" ELSE "failed"
    [] e.kind = "restore"    -> IF was = "gone" THEN "gone" ELSE "ready"
    [] e.kind = "delete"     -> IF was = "gone" \/ e.ok THEN "gone" ELSE "ready"
    [] e.kind = "autoupdate" -> was

\* Mutant: a broken update is left as it is.
TakesBackNever(e) == FALSE

\* A site that the update broke gets its backup back, by a restore of its own;
\* what keeps that from being queued is passed over.
TakesBack(e) == e.kind = "autoupdate" /\ ~e.ok /\ backup[e.row] = "ready"

FoldBackup ==
  /\ endings # <<>>
  /\ endings' = Tail(endings)
  /\ LET e == Head(endings)
     IN IF TakesBack(e)
        THEN /\ restorer = NoRow
             /\ InsertBackup("system")
             /\ tasks' = Append(tasks, Task("create", NewRow))
             /\ restorer' = e.row
        ELSE /\ backup' = [backup EXCEPT ![e.row] = FoldedBackup(e, @)]
             /\ offsite' = IF e.kind = "create" THEN [offsite EXCEPT ![e.row] = e.off] ELSE offsite
             /\ UNCHANGED <<tasks, restorer, purpose>>
  /\ UNCHANGED <<bkNode, due, days, asks>>

-----------------------------------------------------------------------------
(* The node.                                                               *)

First == Head(tasks)
TaskEnds(ok, off) ==
  /\ tasks' = Tail(tasks)
  /\ endings' = Append(endings, [kind |-> First.kind, row |-> First.row, ok |-> ok, off |-> off])
Doing(kind) == tasks # <<>> /\ First.kind = kind
Fails ==
  /\ trouble < MaxTrouble
  /\ trouble' = trouble + 1
  /\ TaskEnds(FALSE, "none")
  /\ UNCHANGED <<content, broken, local, remote>>

LeftHere(archive, uploaded) == IF uploaded /\ ~KeepLocal THEN Missing ELSE archive

\* backupCreate: a failed upload is reported, and the local archive stays.  The
\* dump is piped into gzip, whose status is all that counts: one that fails
\* makes an archive without data, and a success.
Archived(dumped) == IF dumped THEN content ELSE Hollow

DriverCreate ==
  /\ Doing("create")
  /\ \/ \E uploaded, dumped \in BOOLEAN :
          /\ DumpsWork => dumped
          /\ trouble' = trouble + Cardinality({FALSE} \cap {uploaded, dumped})
          /\ trouble' <= MaxTrouble
          /\ local' = [local EXCEPT ![First.row] = LeftHere(Archived(dumped), uploaded)]
          /\ remote' = [remote EXCEPT ![First.row] = IF uploaded THEN Archived(dumped) ELSE Missing]
          /\ TaskEnds(TRUE, IF uploaded THEN "uploaded" ELSE "failed")
          /\ UNCHANGED <<content, broken>>
     \/ Fails
  /\ UNCHANGED <<bkRows, restorer, due, days, asks>>

\* backupRestore: without a local archive the remote one is downloaded, and
\* stays; a download that fails leaves nothing.
Source == IF local[First.row] # Missing THEN local[First.row]
          ELSE IF offsite[First.row] = "uploaded" THEN remote[First.row] ELSE Missing

DriverRestore ==
  /\ Doing("restore")
  /\ \/ /\ Source # Missing
        /\ content' = IF Source = Hollow THEN content ELSE Source
        /\ broken' = (broken /\ Source = Hollow)
        /\ local' = [local EXCEPT ![First.row] = Source]
        /\ TaskEnds(TRUE, "none")
        /\ UNCHANGED <<remote, trouble>>
     \/ /\ Source = Missing
        /\ TaskEnds(FALSE, "none")
        /\ UNCHANGED bkNode
     \/ Fails
  /\ UNCHANGED <<bkRows, restorer, due, days, asks>>

\* backupDelete: the remote copy first, so that a failure can be repeated.
DriverDelete ==
  /\ Doing("delete")
  /\ \/ /\ remote' = [remote EXCEPT ![First.row] = Missing]
        /\ local' = [local EXCEPT ![First.row] = Missing]
        /\ TaskEnds(TRUE, "none")
        /\ UNCHANGED <<content, broken, trouble>>
     \/ Fails
  /\ UNCHANGED <<bkRows, restorer, due, days, asks>>

\* wp.autoupdate: it fails only when the update broke what worked before.
DriverAutoUpdate ==
  /\ Doing("autoupdate")
  /\ content < MaxContent
  /\ content' = content + 1
  /\ \E breaks \in BOOLEAN :
       /\ broken' = (broken \/ breaks)
       /\ TaskEnds(broken \/ ~breaks, "none")
  /\ UNCHANGED <<bkRows, local, remote, trouble, restorer, due, days, asks>>

\* Visitors and editors, while no job is in progress or being queued.
Edit ==
  /\ tasks = <<>> /\ restorer = NoRow
  /\ content < MaxContent
  /\ content' = content + 1
  /\ UNCHANGED <<bkRows, tasks, endings, broken, local, remote, restorer, due, days, asks, trouble>>

\* Bound: the node is one job ahead of the outcomes at the most.
Driver == Len(endings) < 2 /\ (DriverCreate \/ DriverRestore \/ DriverDelete \/ DriverAutoUpdate)

BackupsNext ==
  \/ CreateBackup \/ AskRestore \/ QueueRestore \/ DeleteBackup
  \/ ScheduledRun \/ DayPasses \/ AutoUpdate
  \/ FoldBackup \/ Driver \/ Edit

\* The node does its jobs, the server folds them in and ends its requests.
BackupsFairness == WF_bkVars(Driver) /\ WF_bkVars(FoldBackup) /\ WF_bkVars(QueueRestore)

BackupsSpec == BackupsInit /\ [][BackupsNext]_bkVars /\ BackupsFairness

-----------------------------------------------------------------------------
(* Properties.                                                             *)

Deleting(b) == \E i \in DOMAIN tasks : tasks[i] = Task("delete", b)
Ending(b)   == \E e \in Range(endings) : e.row = b /\ e.kind = "delete"

\* What the panel lists as ready can be restored, data and all, from somewhere,
\* unless its deletion is under way; also when the upload failed or no local
\* copy stays.
ReadyHasArchive ==
  \A b \in Row : backup[b] = "ready" /\ ~Deleting(b) /\ ~Ending(b) =>
    local[b] >= 0 \/ (offsite[b] = "uploaded" /\ remote[b] >= 0)

\* Somebody asked for the deletion of a backup that was made for safety.
SafetyThrownAway == \E b \in Row : purpose[b] = "system" /\ (Deleting(b) \/ Ending(b) \/ backup[b] = "gone")

\* A restore can be undone: what it replaces is in the safety backup made
\* before it, as long as no job fails and nobody deletes that one.
RestoreIsUndoable ==
  [][Doing("restore") /\ content' # content /\ trouble = 0 /\ ~SafetyThrownAway =>
       \E b \in Row : purpose[b] = "system" /\ content \in {local[b], remote[b]}]_bkVars

\* A deleted backup leaves no archive behind, here or there.
GoneIsGone ==
  \A b \in Row : backup[b] = "gone" => local[b] = Missing /\ remote[b] = Missing

\* Both together: a row and its archives live and die together.
ArchivesFollowRows == ReadyHasArchive /\ GoneIsGone

\* "Daily backups kept per service": a run that finds no deletion under way never
\* leaves fewer than the setting says, or than there were, with those being made.
Kept == {b \in Row : purpose[b] = "scheduled" /\ backup[b] \in {"ready", "creating"} /\ ~Deleting(b)}
DeletionAsked == \E b \in Row : purpose[b] = "scheduled" /\ (Deleting(b) \/ Ending(b))
KeptAsConfigured ==
  [][ScheduledRun /\ ~DeletionAsked =>
       Cardinality(Kept') >= KeepScheduled \/ Cardinality(Kept') >= Cardinality(Kept)]_bkVars

\* Both together: neither a restore nor the pruning loses what must be kept.
NothingIsLost == RestoreIsUndoable /\ KeptAsConfigured

\* A site that an update broke gets its content back, as long as no job fails
\* and nobody deletes the backup made for it.
BrokenIsRepaired ==
  broken ~> \/ ~broken
            \/ trouble > 0
            \/ SafetyThrownAway

\* A backup does not stay in restoring or creating.
BackupSettles == \A b \in Row : backup[b] \in {"creating", "restoring"} ~> backup[b] \notin {"creating", "restoring"}
=============================================================================
