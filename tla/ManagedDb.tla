----------------------------- MODULE ManagedDb -----------------------------
(***************************************************************************)
(* One managed database: the version and the password in its row, what the *)
(* node runs over which data volume, and the jobs that give it a new       *)
(* password, load a dump or move it to a newer version.  Jobs are executed *)
(* one at a time, in order, with the specification they were queued with.  *)
(***************************************************************************)
EXTENDS Integers, Sequences, FiniteSetsExt, SequencesExt

CONSTANTS
  Engine,       \* the kinds of database there may be: mysql, postgres, redis
  Clerk,        \* requests of customers in progress
  MaxVersion,   \* DB_VERSIONS has the versions 1 .. MaxVersion
  MaxDbAsked,   \* bound: requests
  MaxWritten,   \* bound: rows the customer's applications insert
  MaxDbFailed,  \* bound: jobs that fail
  Crossing      \* other requests are made while a new password is on its way, and the
                \* other way round

ASSUME ManagedDbBounds ==
  /\ Engine \subseteq {"mysql", "postgres", "redis"}
  /\ {MaxVersion, MaxDbAsked, MaxWritten, MaxDbFailed} \subseteq Nat
  /\ MaxVersion > 0
  /\ Crossing \in BOOLEAN

VARIABLES
  engine,     \* config.engine
  version,    \* config.version
  shown,      \* secrets.dbPassword: what the panel shows, as the number of the password
  clerk,      \* the request each clerk has half done
  dbTasks,    \* the jobs of the database, queued and running, in order
  dbEndings,  \* reported jobs that are not folded in yet
  server,     \* the version the container runs, or Down
  volume,     \* the data volume: the version that wrote it, the user's password, the data
  safety,     \* the backups made before imports and upgrades: status and contents
  owed,       \* what was in the database when somebody asked for an import or an upgrade,
              \* unless another one was under way
  written, dbAsked, dbFailed

dbRow  == <<engine, version, shown>>
dbNode == <<server, volume, safety>>
dbVars == <<dbRow, clerk, dbTasks, dbEndings, dbNode, owed, written, dbAsked, dbFailed>>

Down  == 0
Empty == [version |-> Down, password |-> 0, rows |-> {}]
AtRest == [do |-> "idle"]

ManagedDbTypeOK ==
  /\ version \in 1 .. MaxVersion
  /\ shown \in 0 .. MaxDbAsked
  /\ server \in {Down} \cup 1 .. MaxVersion
  /\ volume \in [version : {Down} \cup 1 .. MaxVersion, password : 0 .. MaxDbAsked, rows : SUBSET (1 .. MaxWritten)]
  /\ \A b \in Range(safety) : b.status \in {"creating", "ready", "failed"} /\ b.rows \subseteq 1 .. MaxWritten
  /\ owed \subseteq 1 .. written

\* A database that was created in any of the versions on offer.
ManagedDbInit ==
  /\ engine \in Engine
  /\ version \in IF engine = "redis" THEN {1} ELSE 1 .. MaxVersion
  /\ shown = 0
  /\ clerk = [c \in Clerk |-> AtRest]
  /\ dbTasks = <<>> /\ dbEndings = <<>>
  /\ server = version
  /\ volume = [version |-> version, password |-> 0, rows |-> {}]
  /\ safety = <<>>
  /\ owed = {} /\ written = 0 /\ dbAsked = 0 /\ dbFailed = 0

-----------------------------------------------------------------------------
(* The control plane.                                                      *)

\* buildSpec: what a job is told is read when it is queued.
DbJob(do) == [do |-> do, version |-> version, password |-> shown, new |-> 0, row |-> 0]

\* A new password is on its way: asked for, in the queue or not folded in yet.
Rotating == \E j \in Range(dbTasks \o dbEndings) : j.do = "rotate"

Asking(c) ==
  /\ clerk[c] = AtRest
  /\ Crossing \/ ~Rotating
  /\ dbAsked < MaxDbAsked
  /\ dbAsked' = dbAsked + 1

\* applyWorkload: another size, for instance.
Resize(c) ==
  /\ Asking(c)
  /\ dbTasks' = Append(dbTasks, DbJob("update"))
  /\ UNCHANGED <<dbRow, clerk, dbEndings, dbNode, owed, written, dbFailed>>

\* rotateDbPassword: Redis reads its password at start, so the row gets it at
\* once; the other two are told in a job.
Rotate(c) ==
  /\ Asking(c)
  /\ Crossing \/ \A d \in Clerk : clerk[d] = AtRest
  /\ IF engine = "redis"
     THEN /\ shown' = dbAsked'
          /\ clerk' = [clerk EXCEPT ![c] = [do |-> "apply"]]
          /\ UNCHANGED dbTasks
     ELSE /\ dbTasks' = Append(dbTasks, [DbJob("rotate") EXCEPT !.new = dbAsked'])
          /\ UNCHANGED <<shown, clerk>>
  /\ UNCHANGED <<engine, version, dbEndings, dbNode, owed, written, dbFailed>>

\* createBackup, before an import or an upgrade.
SafetyBackup ==
  /\ safety' = Append(safety, [status |-> "creating", rows |-> {}])
  /\ dbTasks' = Append(dbTasks, [DbJob("backup") EXCEPT !.row = Len(safety')])

\* Somebody's dump is about to be loaded over what is there.
Replacing ==
  \/ \E j \in Range(dbTasks) : j.do \in {"import", "move"}
  \/ \E c \in Clerk : clerk[c].do \in {"import", "upgrade", "move"}

\* importDbDump and upgradeDbVersion, up to their safety backup.
BeginImport(c) ==
  /\ Asking(c)
  /\ engine # "redis"
  /\ SafetyBackup
  /\ clerk' = [clerk EXCEPT ![c] = [do |-> "import"]]
  /\ owed' = owed \cup (IF Replacing THEN {} ELSE volume.rows)
  /\ UNCHANGED <<dbRow, dbEndings, server, volume, written, dbFailed>>

Newer(v) == v > version
BeginUpgrade(c) ==
  \E v \in 1 .. MaxVersion :
    /\ Asking(c)
    /\ engine # "redis"
    /\ Newer(v)
    /\ SafetyBackup
    /\ clerk' = [clerk EXCEPT ![c] = [do |-> "upgrade", to |-> v]]
    /\ owed' = owed \cup (IF Replacing THEN {} ELSE volume.rows)
    /\ UNCHANGED <<dbRow, dbEndings, server, volume, written, dbFailed>>

\* upgradeDbVersion writes the version before there is a job for it.
WriteVersion(c) ==
  /\ clerk[c].do = "upgrade"
  /\ version' = clerk[c].to
  /\ clerk' = [clerk EXCEPT ![c] = [do |-> "move"]]
  /\ UNCHANGED <<engine, shown, dbTasks, dbEndings, dbNode, owed, written, dbAsked, dbFailed>>

\* The job of each request, the last thing it does.
QueueDbJob(c) ==
  \E do \in {"apply", "import", "move"} :
    /\ clerk[c].do = do
    /\ dbTasks' = Append(dbTasks, DbJob(IF do = "apply" THEN "update" ELSE do))
    /\ clerk' = [clerk EXCEPT ![c] = AtRest]
    /\ UNCHANGED <<dbRow, dbEndings, dbNode, owed, written, dbAsked, dbFailed>>

\* Mutant: the panel shows the new password although the node refused it.
NowShownAlways(e) == e.do = "rotate"

\* applyOutcome: the panel shows the new password when the node has it.
NowShown(e) == e.do = "rotate" /\ e.ok

FoldDb ==
  /\ dbEndings # <<>>
  /\ dbEndings' = Tail(dbEndings)
  /\ LET e == Head(dbEndings)
     IN /\ shown' = IF NowShown(e) THEN e.new ELSE shown
        /\ safety' = IF e.do = "backup"
                     THEN [safety EXCEPT ![e.row].status = IF e.ok THEN "ready" ELSE "failed"]
                     ELSE safety
  /\ UNCHANGED <<engine, version, clerk, dbTasks, server, volume, owed, written, dbAsked, dbFailed>>

-----------------------------------------------------------------------------
(* The node.                                                               *)

Now == Head(dbTasks)
Does(do) == dbTasks # <<>> /\ Now.do = do
DbEnds(ok) ==
  /\ dbTasks' = Tail(dbTasks)
  /\ dbEndings' = Append(dbEndings, [do |-> Now.do, new |-> Now.new, row |-> Now.row, ok |-> ok])
  /\ dbFailed' = dbFailed
DbFails ==
  /\ dbFailed < MaxDbFailed
  /\ dbTasks' = Tail(dbTasks)
  /\ dbEndings' = Append(dbEndings, [do |-> Now.do, new |-> Now.new, row |-> Now.row, ok |-> FALSE])
  /\ dbFailed' = dbFailed + 1

\* PostgreSQL serves the data of its own version only, MariaDB older ones too.
Serving == server # Down /\ (server = volume.version \/ (engine = "mysql" /\ server > volume.version))

\* The clients run inside the container, where PostgreSQL asks for no password.
Reaches == Serving /\ (engine = "mysql" => Now.password = volume.password)

\* A volume that is made anew gets the user with the password it is started with.
Initialised == [version |-> Now.version, password |-> Now.password, rows |-> {}]

\* runDatabase: the container goes first; its start is not waited for.
DriverUpdate ==
  /\ Does("update")
  /\ \/ /\ server' = Now.version
        /\ volume' = IF volume = Empty THEN Initialised
                     ELSE IF engine = "redis" THEN [volume EXCEPT !.password = Now.password]
                     ELSE IF engine = "mysql" THEN [volume EXCEPT !.version = IF @ < Now.version THEN Now.version ELSE @]
                     ELSE volume
        /\ DbEnds(TRUE)
     \/ /\ DbFails
        /\ server' \in {server, Down}
        /\ UNCHANGED volume
  /\ UNCHANGED safety

\* dbAdmin, rotate.
DriverRotate ==
  /\ Does("rotate")
  /\ \/ Reaches /\ volume' = [volume EXCEPT !.password = Now.new] /\ DbEnds(TRUE)
     \/ ~Reaches /\ DbEnds(FALSE) /\ UNCHANGED volume
     \/ DbFails /\ UNCHANGED volume
  /\ UNCHANGED <<server, safety>>

\* backupCreate: the dump is piped into gzip, whose status is all that counts,
\* so that a dump that fails is an archive without data and a success.
DriverBackup ==
  /\ Does("backup")
  /\ \/ /\ safety' = [safety EXCEPT ![Now.row].rows = IF Reaches THEN volume.rows ELSE {}]
        /\ DbEnds(TRUE)
     \/ DbFails /\ UNCHANGED safety
  /\ UNCHANGED <<server, volume>>

\* dbAdmin, import: the dump may replace what is there, also half of it.
DriverImport ==
  /\ Does("import")
  /\ \/ /\ Reaches
        /\ volume' \in {volume, [volume EXCEPT !.rows = {}]}
        /\ DbEnds(TRUE) \/ DbFails
     \/ ~Reaches /\ DbEnds(FALSE) /\ UNCHANGED volume
  /\ UNCHANGED <<server, safety>>

\* dbAdmin, upgrade: dump, new volume, load.  The dump is not kept.
DriverMove ==
  /\ Does("move")
  /\ \/ /\ Reaches
        /\ server' = Now.version
        /\ volume' = [Initialised EXCEPT !.rows = volume.rows]
        /\ DbEnds(TRUE)
     \/ ~Reaches /\ DbEnds(FALSE) /\ UNCHANGED <<server, volume>>
     \/ /\ Reaches /\ DbFails
        /\ \/ server' = Down /\ volume' = Empty
           \/ server' = Now.version /\ volume' = Initialised
           \/ UNCHANGED <<server, volume>>
  /\ UNCHANGED safety

\* Bound: the node is one job ahead of the outcomes at the most.
DbDriver ==
  /\ Len(dbEndings) < 2
  /\ DriverUpdate \/ DriverRotate \/ DriverBackup \/ DriverImport \/ DriverMove
  /\ UNCHANGED <<dbRow, clerk, owed, written, dbAsked>>

\* The customer's applications insert rows.
Insert ==
  /\ Serving
  /\ written < MaxWritten
  /\ written' = written + 1
  /\ volume' = [volume EXCEPT !.rows = @ \cup {written'}]
  /\ UNCHANGED <<dbRow, clerk, dbTasks, dbEndings, server, safety, owed, dbAsked, dbFailed>>

ManagedDbNext ==
  \/ \E c \in Clerk : Resize(c) \/ Rotate(c) \/ BeginImport(c) \/ BeginUpgrade(c) \/ WriteVersion(c) \/ QueueDbJob(c)
  \/ FoldDb \/ DbDriver \/ Insert

ManagedDbSpec == ManagedDbInit /\ [][ManagedDbNext]_dbVars

-----------------------------------------------------------------------------
(* Properties.                                                             *)

AllDone == dbTasks = <<>> /\ dbEndings = <<>> /\ \A c \in Clerk : clerk[c] = AtRest

\* "only when that worked does the panel start showing (and using) the new
\* one": once everything is done, the password the panel shows is the one the
\* database asks for, whatever failed; Redis needs its restart for that.
ShownPasswordWorks ==
  AllDone /\ volume # Empty /\ (engine = "redis" => dbFailed = 0) => shown = volume.password

\* While no upgrade failed, what runs is what the row says, over data it reads.
VersionServes ==
  AllDone /\ dbFailed = 0 => server = version /\ Serving

\* What was there when an import or an upgrade was asked for is in the database
\* or in a backup made before it, unless that very backup failed.
AskedDataKept ==
  (\A b \in Range(safety) : b.status # "failed") /\ (\A e \in Range(dbEndings) : e.do = "backup" => e.ok) =>
    owed \subseteq volume.rows \cup UNION {b.rows : b \in Range(safety)}

\* The three together: neither the credentials nor the data of a managed
\* database are lost by administering it.
DatabaseRight == ShownPasswordWorks /\ VersionServes /\ AskedDataKept
=============================================================================
