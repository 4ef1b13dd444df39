----------------------------- MODULE Migrations ------------------------------
(***************************************************************************)
(* A WordPress site that is brought in over the one there is, and links    *)
(* that sign its customer in once.                                         *)
(*                                                                         *)
(* The import replaces files, tables, the prefix of the tables and the     *)
(* addresses in them one after the other, and may stop after each.  The    *)
(* jobs of the site are done in the order they were queued, as             *)
(* SerialExecution promises; a request is a sequence of statements.        *)
(***************************************************************************)
EXTENDS Naturals, Sequences, FiniteSets

CONSTANTS
  Mover,     \* requests in progress: forms, and pages that wait for a link
  MaxMoveJobs,  \* bound: jobs
  MaxUpsets, \* bound: jobs that fail
  Hurried    \* forms are sent while another is at work, and safety backups fail

ASSUME MigrationsBounds ==
  /\ {MaxMoveJobs, MaxUpsets} \subseteq Nat
  /\ Hurried \in BOOLEAN

VARIABLES
  site,    \* whose files, tables, prefix and addresses the site has
  rows,    \* the jobs of the site, as they were queued: kind, status, result
  archived, \* archived[k]: the site job k put into a backup that is ready
  stage,   \* how far the import that runs has come
  mover,   \* what each request is doing
  handed,  \* handed[k]: times the link of job k was given to a page
  upsets

moveVars == <<site, rows, archived, stage, mover, handed, upsets>>

Part == {"files", "tables", "prefix", "addresses"}
Own == [p \in Part |-> "own"]
Theirs == [p \in Part |-> "theirs"]
Whole == {Own, Theirs}
Stages == <<"fetch", "files", "reset", "tables", "prefix", "addresses">>
NoMover == [pc |-> "none", job |-> 0, link |-> FALSE]
Jobs == DOMAIN rows
Open == {k \in Jobs : rows[k].status \in {"queued", "running"}}
Turn(k) == k \in Open /\ \A j \in Open : k <= j
Enqueued(kind) == Append(rows, [kind |-> kind, status |-> "queued", link |-> FALSE])

MigrationsTypeOK ==
  /\ site \in [Part -> {"own", "theirs", "none"}]
  /\ Len(rows) <= MaxMoveJobs /\ stage \in 0 .. Len(Stages)
  /\ DOMAIN archived \subseteq Jobs /\ DOMAIN handed = 1 .. MaxMoveJobs
  /\ \A m \in Mover : mover[m].pc \in {"none", "checked", "saved", "read"}

MigrationsInit ==
  /\ site = Own /\ rows = <<>> /\ archived = <<>> /\ stage = 0
  /\ mover = [m \in Mover |-> NoMover]
  /\ handed = [k \in 1 .. MaxMoveJobs |-> 0] /\ upsets = 0

-----------------------------------------------------------------------------
(* startMigration and restoreBackup.                                       *)

\* No import is queued or runs.
AskMove(m) ==
  /\ mover[m].pc = "none"
  /\ Hurried \/ \A n \in Mover : mover[n].pc \in {"none", "read"}
  /\ \A k \in Open : rows[k].kind # "migrate"
  /\ Len(rows) + 1 < MaxMoveJobs
  /\ mover' = [mover EXCEPT ![m].pc = "checked"]
  /\ UNCHANGED <<site, rows, archived, stage, handed, upsets>>

\* createBackup, whose outcome nobody waits for.
SafetyFirst(m) ==
  /\ mover[m].pc = "checked" /\ Len(rows) < MaxMoveJobs
  /\ rows' = Enqueued("backup")
  /\ mover' = [mover EXCEPT ![m].pc = "saved"]
  /\ UNCHANGED <<site, archived, stage, handed, upsets>>

QueueMove(m) ==
  /\ mover[m].pc = "saved" /\ Len(rows) < MaxMoveJobs
  /\ rows' = Enqueued("migrate")
  /\ mover' = [mover EXCEPT ![m] = NoMover]
  /\ UNCHANGED <<site, archived, stage, handed, upsets>>

-----------------------------------------------------------------------------
(* The node.                                                               *)

JobEnds(k, status) == rows' = [rows EXCEPT ![k].status = status, ![k].link = rows[k].kind = "login" /\ status = "succeeded"]
Fails(k) == upsets < MaxUpsets /\ upsets' = upsets + 1 /\ JobEnds(k, "failed")

StartMoveJob(k) ==
  /\ Turn(k) /\ rows[k].status = "queued"
  /\ rows' = [rows EXCEPT ![k].status = "running"]
  /\ stage' = IF rows[k].kind = "migrate" THEN 1 ELSE 0
  /\ UNCHANGED <<site, archived, mover, handed, upsets>>

\* The archive holds the site as it is at this moment.
BackupEnds(k) ==
  /\ rows[k].status = "running" /\ rows[k].kind = "backup"
  /\ \/ /\ JobEnds(k, "succeeded")
        /\ archived' = [j \in DOMAIN archived \cup {k} |-> IF j = k THEN site ELSE archived[j]]
        /\ UNCHANGED upsets
     \/ Hurried /\ Fails(k) /\ UNCHANGED archived
  /\ UNCHANGED <<site, stage, mover, handed>>

\* migrate: fetch everything, replace the files but wp-config.php, empty the database,
\* import the dump, set the prefix, replace the old address.
ImportStep(k) ==
  /\ rows[k].status = "running" /\ rows[k].kind = "migrate" /\ stage < Len(Stages)
  /\ site' = CASE Stages[stage] = "fetch" -> site
               [] Stages[stage] = "reset" -> [site EXCEPT !["tables"] = "none"]
               [] Stages[stage] = "tables" -> [site EXCEPT !["tables"] = "theirs", !["addresses"] = "none"]
               [] OTHER -> [site EXCEPT ![Stages[stage]] = "theirs"]
  /\ stage' = stage + 1
  /\ UNCHANGED <<rows, archived, mover, handed, upsets>>

ImportEnds(k) ==
  /\ rows[k].status = "running" /\ rows[k].kind = "migrate" /\ stage = Len(Stages)
  /\ site' = [site EXCEPT !["addresses"] = "theirs"]
  /\ JobEnds(k, "succeeded") /\ stage' = 0
  /\ UNCHANGED <<archived, mover, handed, upsets>>

ImportStops(k) ==
  /\ rows[k].status = "running" /\ rows[k].kind = "migrate"
  /\ Fails(k) /\ stage' = 0
  /\ UNCHANGED <<site, archived, mover, handed>>

-----------------------------------------------------------------------------
(* Links that sign in.                                                     *)

RequestWpLogin ==
  /\ Len(rows) < MaxMoveJobs
  /\ rows' = Enqueued("login")
  /\ UNCHANGED <<site, archived, stage, mover, handed, upsets>>

LoginEnds(k) ==
  /\ rows[k].status = "running" /\ rows[k].kind = "login"
  /\ \/ JobEnds(k, "succeeded") /\ UNCHANGED upsets
     \/ Fails(k)
  /\ UNCHANGED <<site, archived, stage, mover, handed>>

\* takeWpLoginUrl: the page reads the row of a job that succeeded ...
ReadLink(m, k) ==
  /\ mover[m].pc = "none"
  /\ k \in Jobs /\ rows[k].kind = "login" /\ rows[k].status = "succeeded"
  /\ mover' = [mover EXCEPT ![m] = [pc |-> "read", job |-> k, link |-> rows[k].link]]
  /\ UNCHANGED <<site, rows, archived, stage, handed, upsets>>

\* ... and erases the link, if it is there still; only then is it shown.
Erases(k) == rows[k].link
TakeLink(m) ==
  /\ mover[m].pc = "read"
  /\ LET k == mover[m].job
     IN /\ rows' = [rows EXCEPT ![k].link = FALSE]
        /\ handed' = IF Erases(k) /\ mover[m].link THEN [handed EXCEPT ![k] = @ + 1] ELSE handed
  /\ mover' = [mover EXCEPT ![m] = NoMover]
  /\ UNCHANGED <<site, archived, stage, upsets>>

MigrationsNext ==
  \/ RequestWpLogin
  \/ \E m \in Mover : AskMove(m) \/ SafetyFirst(m) \/ QueueMove(m) \/ TakeLink(m)
  \/ \E m \in Mover : \E k \in Jobs : ReadLink(m, k)
  \/ \E k \in Jobs : \/ StartMoveJob(k) \/ BackupEnds(k) \/ LoginEnds(k)
                     \/ ImportStep(k) \/ ImportEnds(k) \/ ImportStops(k)

-----------------------------------------------------------------------------
\* However far an import came before it stopped, and whatever was imported over what,
\* the customer's own site is where it was or whole in a backup that is ready; so is
\* what the import found (startMigration takes one first, the queue keeps the order).
NothingImportedOver ==
  /\ site # Own => \E k \in DOMAIN archived : archived[k] = Own
  /\ \A k \in Open : rows[k].kind = "migrate" =>
       \E j \in Jobs : j < k /\ rows[j].kind = "backup"
                    /\ \A i \in j + 1 .. k - 1 : rows[i].kind = "login"

\* One import is under way at a time, and after one that succeeded, until the next
\* begins, the site is theirs in every part (startMigration, DockerDriver.migrate).
ImportedWhole ==
  /\ Cardinality({k \in Open : rows[k].kind = "migrate"}) <= 1
  /\ \A k \in Jobs : /\ rows[k].kind = "migrate" /\ rows[k].status = "succeeded"
                     /\ \A j \in Jobs : j > k /\ rows[j].kind = "migrate" => rows[j].status = "queued"
                     => site = Theirs

\* A link that signs in is given to one page, however many ask (takeWpLoginUrl).
LinkGivenOnce == \A k \in Jobs : handed[k] <= 1

MigrationRight == NothingImportedOver /\ ImportedWhole /\ LinkGivenOnce
=============================================================================
