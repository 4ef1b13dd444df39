# AsterPanel in TLA+

A verification development for AsterPanel, a managed-hosting platform: a control
plane (a Next.js application over PostgreSQL) and one agent per node that
executes signed jobs with Docker. This directory holds TLA+ modules of its core
logic, TLC configurations that check them on small instances, proofs that the
TLA+ proof system checks for every value of the constants, and `PROJECT.json`,
which ties every definition to the lines it models, every property to a mutant
of the code that breaks it, and lists what is hard to test in this code.

Paths below are relative to the repository. `engine.ts` is
`src/platform/engine.ts`, `docker.ts` and `agent.ts` are in `agent/src/`,
`billing.ts` and the other small files in `src/lib/`.

1. The system
2. The modules, and the code they stand for
3. The runs
4. The proofs
5. What the checks found
6. What is not modelled

## 1. The system

### Parts, their state and their operations

| Part | State | Operations | Hard because |
|---|---|---|---|
| **Job queue** `engine.ts` (`enqueue`, `syncDns`, `claimJobs`, `reportJob`), routes `api/agent/v1/poll` and `jobs/[id]` | rows of `jobs`: status, workload, order of creation, start | insert; cancel queued syncs; claim (sweep, read, lock, update); report | requests overlap, answers get lost, processes restart, rows time out while work goes on |
| **Node agent** `agent.ts`, `main.ts` | in memory: jobs running, ids seen, minute of the last scheduled jobs | poll, check an envelope, execute, report with retries, start scheduled jobs | concurrent executions; everything is forgotten at a restart |
| **Workload lifecycle** `engine.ts` (`createWorkload` … `deleteWorkload`, `applyOutcome`) | rows of `workloads`; containers on the node | create, copy, start, stop, suspend, resume, change, delete, bring a site in; fold a job's outcome in | each operation checks, writes and enqueues in separate statements; outcomes arrive later and are computed from old reads |
| **Site settings** `engine.ts` (`updateWorkloadConfig`, domains, groups, SFTP, staging) | a JSON configuration, `domains`, `env_groups` | read, change and write back whole; queue an update with the full specification | two requests read the same configuration; jobs carry what was read earlier |
| **Deployments, previews** `engine.ts` (`deployWorkload`, `rollbackDeployment`, `handlePush`), `docker.ts` (`deploy`, `release`, `keepImage`) | rows of `deployments`; images and containers | build, health check, swap, prune, roll back; copies for branches | a crash between two Docker commands; decisions taken when a job is queued |
| **Backups** `engine.ts` (`createBackup`, `restoreBackup`, `deleteBackup`, `runScheduledBackups`, `runWpAutoUpdates`) | rows of `backups`; archives here and in the object storage | create, restore after a safety backup, delete, prune, update and take back | independent deciders about one archive |
| **Managed databases** `engine.ts` (`rotateDbPassword`, `importDbDump`, `upgradeDbVersion`), `docker.ts` (`dbAdmin`, `runDatabase`) | version and password in the row, data volumes on the node | new password, load a dump, move to a newer version | the row follows the node only when the job worked |
| **Invoices, payments, credit** `billing.ts` | `invoices`, `invoice_items`, `transactions`, `companies.creditBalance`, `credit_ledger` | issue, `recordPayment`, `applyCredit`, credit note, cancel, `requestCancellation`, late fees, `fulfilInvoice` | repeated webhooks, overlapping cron runs, checks before transactions, effects after the commit |
| **Automatic charges** `payment-methods.ts`, gateways, webhooks | `chargeAttempts`, `lastChargeAt`, `chargePendingRef`, saved cards; payment intents at Stripe | select, charge with an idempotency key, remember a debit, refused debit; save, choose, remove a card | an answer may be lost or late; money moves elsewhere |
| **Subscriptions** `billing.ts` (`runAutomation`, `lifecycle`, plan changes) and the provisioning modules | `services`: status, due dates, what was invoiced | activate, renew, suspend, resume, terminate, change plan | the cron's lists against payments and customers; months of different lengths |
| **Domains** `domains.ts`, registrar modules | `domain_names`; the registry | order, register, transfer, renew, change, synchronise | a registry's answer may be lost; each name has a service of its own |
| **DNS hosting** `engine.ts`, `client/dns/actions.ts`, `cloud.ts` | zones, records, snapshots; the data set on every node | change records, restore, push the whole set to all nodes | queued pushes are cancelled by newer ones; nodes join and leave |
| **Cloud capacity** `cloud.ts`, `ip-pools.ts` | `nodes`, `ip_leases`; machines at a provider | create for an order, for the reserve or by hand, lease an address, retire | creating takes minutes and two systems; decisions on counts |
| **Address pools** `ip-pools.ts`, `ipxo.ts` | `ip_pools`, `ip_leases`, `ip_blocks`; a marketplace | create a pool, book, release; order and follow blocks | check before insert; a cart shared by all orders |
| **Monitoring** `uptime.ts`, `node-health.ts` | `uptime_checks`, open problems of nodes | probe, open and close incidents, tell staff once | two calls of the cron read the same rows |
| **Quotes, cart, coupons** `quotes.ts`, `cart.ts`, `billing.ts` (`placeLines`, `nextInvoiceNumber`) | `quotes`, `cart_items`, `coupons`, `counters` | accept, check out, number without gaps | double clicks; a transaction that rolls back |
| **Electronic invoicing** `sdi.ts`, `modules/sdi` | status and id at the exchange | send, ask what became of it | the answer to a send may be lost |
| **Tickets, webhooks** `tickets.ts`, `webhooks.ts` | tickets and messages; endpoints and their failures | reply by panel or mail; deliver events | inserts and updates of two writers |
| **Import** `import.ts` | the customers, services, domains it writes | run a bundle, repeat it | it may stop halfway |
| **Teams** `team.ts`, `roles.ts` | `company_members` | invite, accept, change, remove, leave, hand over | two statements without a transaction |
| **Settings, keys** `settings.ts`, `platform/agent-auth.ts` | rows of `settings`; token hashes of nodes | make the key, connect a server, rotate tokens | a group is read, merged and written whole |

### How they interact

* A change of a workload becomes a row in `jobs`. The agent of its node polls
  (`claimJobs`), executes, and reports (`reportJob`), which folds the outcome
  into workload, backup or deployment (`applyOutcome`). The only calls go from
  the agent to the control plane; they time out after 30 s at the agent, and go
  on at the server. What every other module uses of this is what
  `SerialExecution` promises: the jobs of one workload are done one at a time,
  in the order they were queued.
* A paid invoice calls `fulfilInvoice`, which activates, upgrades or renews
  services through the provisioning modules, and those call the workload
  lifecycle or a registrar. The cron (`api/cron`) issues renewals, adds late
  fees, charges cards, suspends and terminates; nothing prevents two of its runs
  from overlapping. Gateways report payments through webhooks, at least once.
* An order that finds no room waits for a server (`pickNode`, `autoscaleNode`);
  a server that comes online becomes a name server and gets the zones.
* Everything shared is in PostgreSQL at its default isolation (READ
  COMMITTED): a statement sees what was committed when it began; `SELECT … FOR
  UPDATE` waits for a lock and then sees the row as the other left it. (The
  embedded database of small installations has one connection. It serialises
  transactions, not handlers.)

### What makes each part correct

* Queue and agent: jobs of one workload exclude each other and keep their
  order; a job is executed once at the most and ends; a row says what happened.
* Workloads: a suspended workload stays down, what runs on the node is what the
  row says once its jobs are done, and copies follow their site.
* Settings: the node has what the customer asked for last, of every field; a
  site has one primary name; ports and groups are not shared by accident.
* Deployments: whatever fails, something that answered its health check serves;
  what is offered for a rollback can be rolled back to.
* Backups: what is ready exists, data and all; nothing is restored, imported or
  updated without a backup of what it replaces.
* Money: every amount counts once, paid means covered, paid means fulfilled,
  credit is neither overspent nor lost, nobody is charged twice.
* Subscriptions: a service is invoiced once per period; who paid is neither
  suspended nor terminated; periods meet and use is paid for.
* Domains: what is sold, billed and shown as active is what the registry has.
* DNS: the last changes can be undone; every server answers from the current
  data.
* Capacity and addresses: no machine costs money unseen, no address is given
  twice, the reserve survives and comes back.
* Everything that tells somebody something: once, when it begins, and once when
  it ends.

## 2. The modules, and the code they stand for

| Kind | Modules |
|---|---|
| one component each | `JobQueue`, `Workloads`, `Settings`, `Deployments`, `Previews`, `Backups`, `Migrations`, `ManagedDb`, `Crons`, `Billing`, `Subscriptions`, `Terms`, `Cards`, `Domains`, `Dns`, `Capacity`, `LeasedBlocks`, `AddressBook`, `Monitoring`, `Shop`, `Fiscal`, `Tickets`, `Webhooks`, `Imports`, `Teams`, `Keys` |
| an abstract specification | `SerialExecution` |
| an inductive invariant TLC checks and the proofs use | `JobQueueInvariant` |
| compositions for TLC | `MCJobQueue`, `MCBilling`, `MCSites`, `MCPanel`, `MCCompany`, `MCOffice` |
| proofs | `BillingProofs`, `CompanyProofs`, `JobQueueProofs`, `OfficeProofs`, `PanelProofs`, `SitesProofs`, `WorkloadsProofs` |

Every module is written in the same way. One action is one statement that
another request may observe: a handler is split where the code awaits the
database or a remote call, and what a transaction holds under a row lock is one
step. A request in progress is a record with a program counter and what it has
read; slots for such requests are a constant (`Handler`, `Hand`, `Desk`,
`Caller`, …), so that with one slot requests come one after another, and with
two they interleave. Bounds are constants marked `bound:` and appear only in
guards of actions that begin something; nothing that has begun is ever stopped
by one. Payloads, names and contents are model values or small numbers.

Some constants are Boolean and say how the environment behaves. Their name says
what they allow, and the runs set them to the value under which the code keeps
its promise; section 5 tells what happens under the other. They were introduced
where a property turned out to fail, so each marks an assumption the code makes
and does not enforce.

Where an answer that gets lost, a process that ends or deliveries that cross break
a promise, they are not switched off: a *history* variable counts them (it is read
by no guard and stands for nothing in the code), and the property says how far the
promise is broken by each and that nothing else breaks it. These are `gone` and
`stuck` in `Capacity`, `unnamed` in `Fiscal`, `torn` in `Imports`, `astray` and
`anew` in `Crons`, `crossed` in `Webhooks`.

| Flag | In | What it allows |
|---|---|---|
| `Lossy` | `JobQueue`, `Billing` | calls fail, answers get lost (on in `jq_faults`, `jq_live`, `bill_fees`) |
| `Overlap` | `JobQueue` | a call the agent has given up is still served when it calls again (on in `jq_live`, `jq_overlap`) |
| `Overrun` | `JobQueue` | an execution outlasts its job's time to live of 30 minutes |
| `Rash` | `Workloads` | requests the panel does not offer in a workload's state |
| `Impatient` | `Deployments` | a build is queued before the last one was folded in |
| `Hasty` | `Previews`, `Capacity` | a branch changes while its preview is worked on; orders reach a server that is being retired |
| `Rushed` | `Capacity` | staff creates a server while a creation still holds an address staff gave back |
| `Hourly`, `KeepLocal`, `DumpsWork` | `Backups` | the daily run comes more often; local copies stay beside the object storage; the dump of a database works |
| `Crossing` | `ManagedDb` | requests while a new password is on its way |
| `Plain` | `Settings` | only sites without SFTP are copied, and no site is deleted while a deletion of it or of its copies is queued |
| `Eager` | `Subscriptions` | staff activates what is not paid |
| `GuardsExpiry` | `Domains` | the registrar refuses a renewal that names another expiry date |
| `Apart` | `Dns` | no customer puts a CNAME where the panel puts addresses |
| `Together`, `TalkOver`, `Abreast`, `Belated`, `Crowded`, `Newborn`, `Hurried`, `Rival` | `Teams`, `Tickets`, `Cards`, `Cards`, `Monitoring`, `Keys`, `Migrations`, `LeasedBlocks` | requests of that part overlap, in the way the module's comment says |
| `Alone` | `AddressBook` | pools are created one at a time |
| `Owing` | `Terms` | a renewal is paid ahead, or a plan changed while one is unpaid |
| `Early`, `Side` | `Imports` | a customer signs in while a run is at their rows; two runs at once |
| `Late`, `Shared` | `Shop` | a request fails after its commit; two people use one cart |

In the tables below the left column names what is in the code and the right one
the definitions that stand for it; the lines are in `PROJECT.json` under `map`.
*External* is what the code calls and does not contain.

### JobQueue, SerialExecution

The rows of one node's jobs, the control plane's handlers of the agent's HTTP
calls, and the agent. Rows are numbered in the order of `createdAt`; the
workload of each is arbitrary and fixed in `Init`. `Cancel` waits for rows a
claim has locked. `LockQueued` is the `FOR UPDATE`, `Take` the loop, the update
and the commit. An envelope is refused when it has expired or was seen. Two
kinds of crash: `ServerCrash` (open transactions roll back, calls fail) and
`AgentCrash` (the memory of the agent is gone).

`SerialExecution` is what the queue promises its callers: jobs are submitted,
begun and ended, one of a workload at a time, in order.

Abstracted: logs, progress reports (they append to a log), payloads and
signatures (an envelope is genuine; the key it is signed with is in `Keys`),
results other than success or failure, and the effect of `applyOutcome` on other
tables, of which the model counts the calls. The envelope's `expiresAt` is
computed a moment before the row's `startedAt`; the model lets both pass at
once, which needs the clocks of node and control plane to agree.

| Code | Definitions |
|---|---|
| `schema.ts`: jobs | `table`, `Init` |
| `schema.ts`: JobStatus | `JobStatus` |
| `agent.ts`: Agent.running | `AgentRunning` |
| `engine.ts`: enqueue | `Enqueue` |
| `engine.ts`: syncDns | `Cancel` |
| `engine.ts`: claimJobs | `Locked`, `Sweep`, `ReadBusy`, `Older`, `Oldest`, `LockQueued`, `Eligible`, `Choice`, `Take`, `AnswerPoll`, `PollStep` |
| `engine.ts`: JOB_TTL_MS | `Expire` |
| `engine.ts`: reportJob | `ReadReported`, `WriteStatus`, `ApplyOutcome`, `ReportStep` |
| `route.ts`: POST | `AnswerReport`, `RouteLimit`, `StartPoll` |
| `agent.ts`: Agent.execute | `Forget`, `Finish`, `Allowance`, `MaySend`, `SendReport`, `GiveUp`, `AgentStep` |
| *External*: the control plane process | `ServerCrash` |
| `agent.ts`: Agent.tick | `Spare`, `NextInInbox`, `Accept`, `Refuse` |
| `agent.ts`: httpTransport | `AbandonPoll`, `LoseReport`, `AbandonReport` |
| `agent.ts`: Agent.reject | `Genuine` |
| `main.ts`: main | `AgentCrash`, `AgentRestart` |
| `agent.ts`: Agent.run | `Next` |

| Code | Definitions |
|---|---|
| `engine.ts`: claimJobs | `Begin`, `Ready` |
| `engine.ts`: reportJob | `End` |
| `engine.ts`: enqueue | `Submit` |

### Workloads

The life of sites and their copies: the requests of customers, staff and billing
that change a row and queue jobs, the containers on the node, and `applyOutcome`,
which folds the end of a job back into the row. A request loads the row, may
count copies, writes a status and enqueues, in this order and in separate
statements; a suspension or a deletion then goes on to every copy. A job may
fail after it has changed the containers (`MayLeave`). Promised: `NodeFollowsRow`
(`SuspendedStaysDown`, `RowTellsNode`, `CopiesFollow`), `SuccessKeepsSuspension`,
`Settles`.

| Code | Definitions |
|---|---|
| `schema.ts`: workloads | `RowStatus`, `WorkloadsInit` |
| `agent.ts`: execute | `JobKind` |
| `engine.ts`: powerWorkload, applyWorkload, suspendWorkload, unsuspendWorkload, deleteWorkload | `JobOf` |
| `engine.ts`: suspendWorkload, unsuspendWorkload, deleteWorkload | `Writes` |
| `engine.ts`: stagingOf | `CopiesOf` |
| `engine.ts`: createWorkload | `CreateWorkload` |
| `engine.ts`: deleteWorkload | `Request` |
| `engine.ts`: load | `Refused` |
| `engine.ts`: powerWorkload, suspendWorkload, unsuspendWorkload, deleteWorkload | `Load` |
| `engine.ts`: createStaging | `CountCopies`, `InsertCopy` |
| `engine.ts`: setStatus | `SetStatus` |
| `engine.ts`: suspendWorkload | `GoesOnTo` |
| `engine.ts`: enqueue | `Enqueue` |
| `engine.ts`: claimJobs | `Start` |
| `docker.ts`: DockerDriver: create, update, start, stop, remove, clone | `Effect` |
| `docker.ts`: DockerDriver.release | `CanSucceed` |
| `docker.ts`: DockerDriver.remove | `MayLeave` |
| `engine.ts`: reportJob | `Report` |
| `engine.ts`: applyOutcome | `Folded`, `FoldRead`, `Fold` |

### Settings

The configuration of the sites of a node, written back whole with every change;
host names, of which one is the primary; variable groups shared by a company's
sites; SFTP ports; staging copies and pushing one to the live site. Each change
queues an update with the complete specification, built from what is read then.
A setting stands for any field of the configuration. Promised: `SettingsRight`
(`SettingsServed`, `OnePrimary`, `GroupsStay`, `PortsApart`).

| Code | Definitions |
|---|---|
| `schema.ts`: workloads | `Sited` |
| `schema.ts`: WorkloadConfig | `Fresh` |
| `platform-actions.ts`: saveProtection | `Blank` |
| `engine.ts`: buildSpec | `SpecOf`, `First` |
| `engine.ts`: createWorkload | `SettingsInit` |
| `engine.ts`: savePhpSettings | `SaveConfig` |
| `engine.ts`: setAutoUpdate | `SaveQuietly` |
| `engine.ts`: attachEnvGroups | `AttachEnvGroups` |
| `engine.ts`: setSftp | `SetSftp`, `LowestPort`, `AllocatePort` |
| `engine.ts`: saveRedirects | `Patched` |
| `engine.ts`: updateWorkloadConfig | `WriteConfig` |
| `engine.ts`: addDomain | `AddDomain` |
| `engine.ts`: removeDomain | `RemoveDomain`, `HandsOn`, `NextPrimary` |
| `engine.ts`: setPrimaryDomain | `SetPrimaryDomain` |
| `engine.ts`: saveEnvGroup | `SaveEnvGroup`, `UsersOfGroup`, `NextErrand` |
| `engine.ts`: usersOfGroup | `UsersOf` |
| `engine.ts`: deleteEnvGroup | `DeleteEnvGroup`, `DropGroup` |
| `engine.ts`: stagingOf | `TwinsOf` |
| `engine.ts`: createStaging | `CreateStaging`, `InsertStaging` |
| `engine.ts`: pushStagingToLive | `PushStaging` |
| `engine.ts`: deleteWorkload | `DeleteSite`, `Condemned` |
| `engine.ts`: load | `BuildSpec` |
| `engine.ts`: applyWorkload | `QueueJob` |
| `docker.ts`: syncSftp | `PortTaken` |
| `docker.ts`: update | `UpdateJob` |
| `docker.ts`: clone | `CloneJob` |
| `docker.ts`: remove | `DeleteJob` |
| `platform-actions.ts`: addRedirect | `Applies` |
| `platform-actions.ts`: saveSettings | `OpensForm` |

### Deployments, Previews

`Deployments` has the rows, the images, the tag `current` and the two containers
of a release, command by command, and an agent that may end between any two of
them: Docker keeps what it holds, the job is lost. An image is named after its
deployment. Promised: `GoodBuildsServe` (`SickNeverServes`, `OfferedIsKept`,
`ImagesBounded`, `ServesLive`), `NoDowntime`, `DeploymentEnds`.

`Previews` has what `handlePush` makes of pushes and deletions of branches, and
the switch that turns previews off. A build takes what its branch has when it is
done. Promised: `PreviewsRight` (`PreviewsAreFresh`, `NothingUnseen`,
`PreviewsBounded`).

| Code | Definitions |
|---|---|
| `schema.ts`: deployments | `DeploymentsInit` |
| `engine.ts`: newDeployment | `NewDeployment` |
| `engine.ts`: rollbackCandidates | `Candidates` |
| `engine.ts`: deployWorkload | `KeepImages`, `Deploy` |
| `engine.ts`: createWorkload | `CreateApp` |
| `engine.ts`: rollbackDeployment | `Rollback` |
| `engine.ts`: applyWorkload | `Update` |
| `engine.ts`: applyOutcome | `Outcome`, `FoldDeployment` |
| `agent.ts`: execute | `JobEnds`, `Begin` |
| `docker.ts`: DockerDriver.deploy | `Build` |
| `docker.ts`: DockerDriver.release | `RunBeside`, `Answers`, `NeverAnswers`, `RemoveOld`, `Rename` |
| `docker.ts`: DockerDriver.waitHealthy | `Healthy` |
| `docker.ts`: DockerDriver.keepImage | `KeepImage` |
| `engine.ts`: claimJobs | `AgentEnds` |

| Code | Definitions |
|---|---|
| `engine.ts`: parsePush | `ChangeBranch` |
| `schema.ts`: workloads | `PreviewsInit` |
| `engine.ts`: stagingOf | `Previews` |
| `engine.ts`: previewsOf | `PreviewsOf` |
| `engine.ts`: handlePush | `Decision`, `HandlePush`, `CreatePreview` |
| `engine.ts`: deployWorkload | `DeployPreview` |
| `engine.ts`: deleteWorkload | `RemovePreview` |
| `engine.ts`: setPreviews | `SwitchedOff`, `SetPreviews` |
| `engine.ts`: applyOutcome | `PreviewStatus`, `FoldPreview` |
| `docker.ts`: DockerDriver.deploy | `RunPreview` |

### Backups, Migrations

`Backups`: what a site contains is a number that every change raises, an archive
is the number it was made at, a hollow one has none. Promised:
`ArchivesFollowRows` (`ReadyHasArchive`, `GoneIsGone`), `NothingIsLost`
(`RestoreIsUndoable`, `KeptAsConfigured`), `BrokenIsRepaired`, `BackupSettles`.

`Migrations`: an import replaces files, tables, the prefix of the tables and the
addresses in them one after the other and may stop after each; a safety backup
is queued before it. Promised: `MigrationRight` (`NothingImportedOver`,
`ImportedWhole`, `LinkGivenOnce`).

| Code | Definitions |
|---|---|
| `schema.ts`: backups | `BackupsInit` |
| `engine.ts`: createBackup | `InsertBackup`, `CreateBackup` |
| `engine.ts`: restoreBackup | `AskRestore`, `QueueRestore` |
| `engine.ts`: deleteBackup | `DeleteBackup` |
| `engine.ts`: runScheduledBackups | `ReadyScheduled`, `Newest`, `Prunable`, `ScheduledRun` |
| `engine.ts`: runWpAutoUpdates | `AutoUpdate` |
| `engine.ts`: applyOutcome | `FoldedBackup`, `TakesBack`, `FoldBackup` |
| `docker.ts`: DockerDriver.backupCreate | `Archived`, `LeftHere`, `DriverCreate` |
| `docker.ts`: DockerDriver.backupRestore | `Source`, `DriverRestore` |
| `docker.ts`: DockerDriver.backupDelete | `DriverDelete` |
| `docker.ts`: DockerDriver.tool, siteHealth | `DriverAutoUpdate` |

| Code | Definitions |
|---|---|
| `schema.ts`: jobs | `MigrationsInit` |
| `engine.ts`: startMigration | `AskMove`, `QueueMove` |
| `engine.ts`: createBackup | `SafetyFirst` |
| `engine.ts`: claimJobs | `Turn` |
| `engine.ts`: applyOutcome | `BackupEnds` |
| `docker.ts`: DockerDriver.migrate | `Stages`, `ImportStep`, `ImportEnds`, `ImportStops` |
| `engine.ts`: requestWpLogin | `RequestWpLogin` |
| `engine.ts`: takeWpLoginUrl | `ReadLink`, `Erases`, `TakeLink` |

### ManagedDb

One managed database of any kind: what the row says, what the node runs over
which data volume, and jobs that carry the specification they were queued with.
Promised: `DatabaseRight` (`ShownPasswordWorks`, `VersionServes`, `AskedDataKept`).

| Code | Definitions |
|---|---|
| `engine.ts`: createWorkload | `ManagedDbInit` |
| `engine.ts`: buildSpec | `DbJob` |
| `engine.ts`: reportJob | `Rotating` |
| `platform-actions.ts`: dbAdmin | `Asking` |
| `engine.ts`: applyWorkload | `Resize` |
| `engine.ts`: rotateDbPassword | `Rotate` |
| `engine.ts`: createBackup | `SafetyBackup` |
| `engine.ts`: importDbDump | `BeginImport` |
| `engine.ts`: upgradeDbVersion | `Newer`, `BeginUpgrade`, `WriteVersion` |
| `engine.ts`: importDbDump, upgradeDbVersion | `QueueDbJob` |
| `engine.ts`: applyOutcome | `NowShown`, `FoldDb` |
| *External*: PostgreSQL and MariaDB | `Serving` |
| `docker.ts`: DockerDriver.waitForDatabase, dbAdmin | `Reaches` |
| `docker.ts`: DockerDriver.runDatabase | `Initialised`, `DriverUpdate` |
| `docker.ts`: DockerDriver.dbAdmin | `DriverRotate`, `DriverImport`, `DriverMove` |
| `docker.ts`: DockerDriver.backupCreate | `DriverBackup` |
| *External*: the customer's applications | `Insert` |

### Crons

The list of scheduled jobs a customer saves, the file the agent keeps of it, and
the minutes in which it starts what is due. Which minutes an expression names is
arbitrary. The agent restarts and gives clients up at any time (`AgentRestarts`,
`GivesUp`); the comment at `docker.ts:616` says a job is not started on top of
itself, and `NeverTwice` says how often it is: once more for each job the agent
lost sight of (`astray`), and in the same minute for each time it came back in it
(`anew`). Promised: `CronsRight` (`NeverTwice`, `StoppedIsQuiet`,
`ListReachesNode`).

| Code | Definitions |
|---|---|
| `agent.ts`: lastCronMinute | `CronsInit` |
| `engine.ts`: applyWorkload | `Orders` |
| `engine.ts`: saveCrons | `SaveCrons` |
| `engine.ts`: powerWorkload | `Power` |
| `agent.ts`: dispatch | `Takes`, `RunRestart` |
| `docker.ts`: runDueCrons | `Cleared`, `DueTasks`, `CronTick`, `TaskEnds`, `GivesUp` |
| `docker.ts`: saveCrons | `RunUpdate` |
| `docker.ts`: start | `RunStart` |
| `docker.ts`: stop | `RunStop` |
| `agent.ts`: cronTick | `ClockAt`, `AgentRestarts` |
| `agent.ts`: run | `MinutePasses` |

### Billing

The money of one company: invoices, transactions, prepaid credit, late fees,
cancellations, automatic charges and their retries. `recordPayment` is one step
(`AddTransaction`), for its transaction locks the invoice; `applyCredit`,
`fulfilInvoice`, `requestCancellation` and `chargeInvoice` are split at every
await. Stripe answers an idempotency key it knows with what it answered the call
that created the intent (`reply`), and it is that answer the charger goes by.

Two variables are history, read by no action: `crossed`, the services whose line
left an invoice while somebody else held a copy of it, and `unseen`, the invoices
that got the late fee while a request to cancel had read the other lines. With
them `AsksForLines` says how far a total may be off the sum of its lines, in every
interleaving, and that it is exact where neither happened.

Abstracted: every line costs `Price`; tax (a function of the subtotal), coupons,
invoices with a total of zero, invoices already sent to the tax authority and
reminders are left out. The two reads of `invoiceDue` are one. `FulfilLine`
counts what is granted; what a service does with it is in `Subscriptions`.
`DaysPass` lets days go by between two attempts of a charge only when no request
is in progress and the webhooks of captured payments have been delivered: three
to five days are much longer than either. Promised: `MoneyMatches`, `AsksForLines`,
`OnceOnly`, `CreditRight`, `PaidIsFulfilled`, `ChargesRight` (`TotalIsLines`,
`ChargedOnce`).

| Code | Definitions |
|---|---|
| `schema.ts`: InvoiceStatus | `InvoiceStatus` |
| *External*: payment intents and checkout sessions at the gateway | `GateState` |
| `schema.ts`: invoices | `Init` |
| `billing.ts`: invoiceDue | `Due` |
| `billing.ts`: placeLines | `Issue` |
| `billing.ts`: recordPayment | `BecomesPaid`, `AddTransaction`, `RecordReference` |
| `route.ts`: POST | `Deliver` |
| `actions.ts`: addPayment | `AddPayment` |
| `billing.ts`: fulfilInvoice | `FulfilStart`, `FulfilLine`, `FulfilStep` |
| `billing.ts`: issueCreditNote | `CreditNote` |
| `actions.ts`: cancelInvoice | `CancelInvoice` |
| `billing.ts`: applyCredit | `CreditGoesOn`, `CreditReturns`, `CreditDue`, `CreditBalance`, `CreditSpend`, `CreditRecord`, `CreditStep` |
| `actions.ts`: payInvoice | `PayHosted` |
| *External*: the gateway takes the money | `Capture` |
| `billing.ts`: runAutomation | `GrowLate`, `FeeSelect`, `Claims`, `FeeAdd`, `FeeStep`, `Next` |
| `billing.ts`: requestCancellation | `HasRead`, `CopyHeld`, `LeaveSelect`, `LeaveCheck`, `LeaveRead`, `LeaveWrite`, `LeaveStep` |
| `payment-methods.ts`: chargeInvoice | `GoesOn`, `Returns`, `ChargeRead`, `ChargeDue`, `ChargeCount`, `Keyed`, `ChargeCall`, `ChargeAnswer`, `ChargeLost`, `ChargeStep` |
| `payment-methods.ts`: runAutoCharges | `ChargeSelect`, `DaysPass` |
| *External*: the bank refuses a debit | `Refuse` |
| `payment-methods.ts`: debitFailed | `DebitFailed` |
| *External*: the control plane process | `Crash` |

### Subscriptions, Terms

`Subscriptions`: services from the order to the end, beside the daily run, which
reads its lists first and works through them statement by statement. An invoice
is unpaid, paid or cancelled. Promised: `BilledAsAgreed` (`OverdueOnly`,
`RenewalOnce`, `LeavingNotInvoiced`, `OneUpgrade`, `ActiveIsDue`, `OneSite`),
`StaffHoldStays`, `LeavingEnds`.

`Terms`: the days periods end on and the price of a change of plan in the middle
of one. A day is a month counted from January of a leap year and a day of it;
`Date`'s arithmetic, which lets a day that a month does not have roll into the
next, is modelled by what it does. Promised: `TermsRight` (`PeriodsMeet`,
`UseIsPaid`).

| Code | Definitions |
|---|---|
| `billing.ts`: runAutomation | `Rest`, `Invoice`, `Follows`, `NextPhase`, `Stays`, `EndsLeft`, `Selected`, `List`, `Issue` |
| `billing.ts`: OVERDUE | `OVERDUE` |
| `schema.ts`: services | `SubscriptionsInit` |
| `billing.ts`: placeLines | `Order` |
| `billing.ts`: recordPayment | `Pay` |
| `actions.ts`: cancelInvoice | `Void` |
| `actions.ts`: serviceCommand | `Command` |
| `billing.ts`: requestCancellation | `Leave`, `LeaveLines` |
| `billing.ts`: undoCancellation | `Undo`, `StillBilled`, `UndoBilled` |
| `billing.ts`: changePlan | `MaySwitch`, `SwitchPlan` |
| `actions.ts`: switchPlan | `Switch` |
| `billing.ts`: fulfilInvoice | `NextItem`, `Lifts`, `LineEffect`, `FulfilLine` |
| `format.ts`: addCycle | `AddCycle` |
| `platform.ts`: create | `Creates` |
| `platform.ts`: platform | `Call` |
| `billing.ts`: lifecycle | `CallFails`, `After`, `Write` |
| `route.ts`: handle | `StartRun` |

| Code | Definitions |
|---|---|
| `format.ts`: addCycle | `AddCycle` |
| *External*: Date.setUTCMonth, Date.UTC | `Rolled` |
| *External*: Date | `DaysIn` |
| `billing.ts`: remainingFraction | `Remaining`, `PeriodTaken` |
| `billing.ts`: fulfilInvoice | `TermsInit`, `Renew` |
| `billing.ts`: runAutomation | `IssueRenewal` |
| `billing.ts`: changePlan | `ChangePlan`, `RoundShare` |

### Cards

The rows of `payment_methods`, which of them renewals are charged on, and what
Stripe keeps of each. A payment may be reported several times, also at once.
Promised: `CardsRight` (`OneDefault`, `BothForget`).

| Code | Definitions |
|---|---|
| `schema.ts`: paymentMethods | `CardRow` |
| `index.ts`: stripe.start | `Checkout` |
| `payment-methods.ts`: rememberStripeCard | `Remember`, `SaveCard`, `HasDefault` |
| `payment-methods.ts`: setDefaultPaymentMethod | `FindCard`, `ChooseCard` |
| `payment-methods.ts`: removePaymentMethod | `RemoveCard`, `DetachCard`, `DeleteCard`, `Oldest`, `SeekNext`, `NameNext` |

### Domains

Names between the rows, the services that bill them and a registry behind a
registrar whose answers may be lost. A caller is a request, a payment or the cron
at work on one name. Years stand for dates, 0 for a date that is null. Promised:
`SoldIsRegistered` (`RowTellsRegistry`, `RegisteredIsKnown`, `SoldOnce`,
`PaidIsRegistered`), `SettingsConverge`, `TransferBecomesActive`.

| Code | Definitions |
|---|---|
| `schema.ts`: domainNames | `DomainsInit` |
| `schema.ts`: DomainStatus | `NameStatus` |
| `domains.ts`: prepareDomains | `Orderable`, `Prepare`, `Attach` |
| `domains.ts`: orderDomains | `Place` |
| `domain.ts`: create, renew | `PayOrder` |
| `domains.ts`: provisionDomain | `Done`, `Written`, `ProvisionWrite`, `Finish` |
| `domains.ts`: byService, provisionDomain | `ProvisionRead` |
| `centralnic.ts`: register, transfer, renew | `Grants` |
| `openprovider.ts`: register, transfer, renew, setNameservers, setLock | `Granted` |
| `openprovider.ts`: login, call | `AtRegistrar` |
| `domains.ts`: byService | `Renewable` |
| `domains.ts`: renewDomain | `RenewName` |
| `domains.ts`: manageable | `Change` |
| `domains.ts`: setDomainNameservers, setDomainLock, setDomainPrivacy, updateDomainContact | `ChangeWrite` |
| `domains.ts`: syncDueDomains | `Watched`, `StartSync` |
| `internetbs.ts`: info | `InfoOf` |
| `domains.ts`: syncDomain | `SyncRead`, `Synced`, `SyncWrite` |
| *External*: the registry | `TransferEnds` |
| *External*: the registry and the calendar | `NextYear` |

### Dns

One zone, changed by the customer and by the panel, and the name servers, each of
which gets the whole data set with a job; queued syncs are cancelled by newer
ones. Promised: `DnsRight` (`ChangesUndoable`, `NamesApart`, `ServersCurrent`),
`NamesAnswered`.

| Code | Definitions |
|---|---|
| `engine.ts`: cleanDnsRecord | `Types` |
| `schema.ts`: dnsRecords | `Entry` |
| `engine.ts`: syncDns | `Current`, `ReadZones`, `CancelSync`, `Queued`, `QueueSync` |
| `schema.ts`: dnsZones | `DnsInit` |
| `engine.ts`: createZone | `CreateZone` |
| `actions.ts`: deleteZone | `DeleteZone` |
| `platform-actions.ts`: saveDnsSettings | `SaveDnsSettings` |
| `platform-actions.ts`: syncDnsNow | `SyncDnsNow` |
| `actions.ts`: addRecord | `Clashes`, `AddRecords` |
| `engine.ts`: addDnsRecords | `Fits`, `Fitting`, `ChangeRecords` |
| `actions.ts`: deleteRecord | `DeleteRecord` |
| `engine.ts`: restoreZoneSnapshot | `RestoreZoneSnapshot` |
| `cloud.ts`: publishNodeDns | `PublishNodeDns` |
| `engine.ts`: snapshotZone | `SnapshotZone`, `KeptSnaps`, `TrimSnapshots` |
| `docker.ts`: dnsSync | `SyncStart`, `SyncEnd` |
| `platform-actions.ts`: saveNode | `ToggleNode` |

### Capacity, LeasedBlocks, AddressBook

`Capacity`: servers created for orders, for the reserve and by hand, and their
retirement. The hourly run counts the free places once and retires one server after
the other: `ReserveSurvives` says each retirement leaves the reserve but for the
places that went otherwise since (`gone`) and those of the servers it destroyed
before whose rows it could not delete (`stuck`). `LeasedBlocks`: blocks ordered through the account's cart on a
marketplace, followed by the cron, and the pool made of one. `AddressBook`: pools
over blocks and bookings from them, decided by a unique index. Promised:
`PlacesRight` (`CapacityRight`: `MachinesKnown`, `AddressOnce`, `ServersBounded`,
`SitesHaveMachines`; `BlocksRight`: `BuysWhatWasAsked`, `EndedIsIdle`),
`ReserveSurvives`, `ReserveReturns`, `BookRight` (`PoolsApart`, `LeasesInside`,
`SeesWhatIsTaken`).

| Code | Definitions |
|---|---|
| `schema.ts`: ipLeases | `CapacityInit` |
| `cloud.ts`: capacity | `Rows`, `Usable`, `FreePlaces` |
| `cloud.ts`: createCloudNode | `NewNode`, `InsertNode`, `MachineStarts`, `RecordNode`, `UndoNode`, `Creates` |
| `engine.ts`: pickNode | `HasRoom`, `Pick`, `Gets` |
| `engine.ts`: createWorkload | `PlaceSite` |
| `engine.ts`: applyOutcome | `RemoveSite` |
| `cloud.ts`: autoscaleNode | `MyTurn`, `Leave`, `Autoscale` |
| `ip-pools.ts`: leaseAddress | `ClaimAddress`, `ReserveAddress`, `BookAddress` |
| *External*: the cloud provider | `Attachable` |
| `ip-pools.ts`: unlease | `Unlease` |
| `engine.ts`: heartbeat | `ComesOnline` |
| `cloud.ts`: maintainCapacity | `IdleNow`, `KeepStart`, `HoursPass`, `Sparable`, `Undisturbed`, `Short`, `KeepReserve` |
| `cloud.ts`: destroyCloudServer | `Retire` |
| `platform-actions.ts`: createCloudServer | `ByHand` |
| `ip-pools.ts`: releaseAddress | `Settled`, `ReleaseAddress`, `DeleteLease` |

| Code | Definitions |
|---|---|
| `schema.ts`: ipBlocks | `LeasedBlocksInit` |
| `ipxo.ts`: call | `Throws` |
| `ipxo.ts`: requestLoa | `AskFor`, `NoteLoa` |
| `ipxo.ts`: buy | `AddItem`, `HoldsOneItem`, `LookAtCart` |
| *External*: the marketplace | `InBasket`, `LeaseEnds` |
| `ipxo.ts`: orderBlock | `PayCart` |
| `route.ts`: handle | `StartSync` |
| `ipxo.ts`: syncIpxoBlocks | `Fetch`, `UpsertBlocks`, `CompareBlocks`, `EndBlocks` |
| `ipxo.ts`: blockToPool | `CheckBlock`, `LinkPool` |
| `ip-pools.ts`: createIpPool | `CreatePool` |
| `ip-pools.ts`: deleteIpPool | `DeletePool` |

| Code | Definitions |
|---|---|
| `schema.ts`: ipPools | `AddressBookInit` |
| `ipam.ts`: parseCidr | `Blocks`, `Skip`, `Handed` |
| `ipam.ts`: cidrContains | `Covers` |
| `ip-pools.ts`: createIpPool | `Clash`, `CheckClash`, `InsertPool` |
| `ip-pools.ts`: assignAddress | `AskAddress`, `ReadTaken`, `Bookable`, `TakeAddress`, `TryAgain` |
| `ipam.ts`: nextFreeAddress | `Unheld` |
| `ip-pools.ts`: releaseAddress | `FreeAddress` |
| `ip-pools.ts`: deleteIpPool | `RemovePool` |

### Monitoring, Webhooks

`Monitoring`: probes of a site and problems of servers; the notices sent are
counted, an odd one opens and an even one closes. `Webhooks`: deliveries that
take their time, as many at once as there are, and the counter of failures each
writes from what it read before its call (`crossed`). Promised: `NoticesRight`
(`IncidentsPaired`, `AlertsPaired`), `SwitchedOffInTime`.

| Code | Definitions |
|---|---|
| `schema.ts`: uptimeChecks | `MonitoringInit` |
| `uptime.ts`: runUptimeChecks | `SiteStops`, `Probe`, `Newest`, `BothFailed`, `Opens`, `Record` |
| `engine.ts`: heartbeat | `Heartbeat` |
| `engine.ts`: nodeIsOnline | `FallsSilent` |
| `node-health.ts`: checkNodes | `SwitchMachine`, `ReadServers`, `Tell` |
| `route.ts`: handle | `StartWatch` |
| `node-health.ts`: nodeProblems | `NodeProblems` |

| Code | Definitions |
|---|---|
| `webhooks.ts`: createWebhook | `WebhooksInit` |
| `webhooks.ts`: deliver | `Starts`, `Deliver`, `Failures`, `NoteResult` |
| `webhooks.ts`: emitEvent | `EmitEvent` |
| `webhooks.ts`: testWebhook | `TestWebhook` |
| `webhooks.ts`: deleteWebhook | `DeleteWebhook` |

### Shop, Fiscal

`Shop`: quotes, carts and discount codes on their way to one invoice each.
`Fiscal`: electronic invoices, and two kinds of intermediaries: one takes the
file, with the other the document is created first and sent with a second call.
Any answer may be lost and the process may end between two writes; `unnamed` has
the copies the exchange got whose name never reached the row, and `SentOnce` counts
the others.
Promised: `ShopRight` (`NumbersGapless`, `QuoteOnce`, `CodeCounted`,
`NothingVanishes`), `QuoteDecided`, `FiscalRight` (`SentOnce`, `OutcomeTrue`),
`OutcomeSeen`.

| Code | Definitions |
|---|---|
| `schema.ts`: cartItems | `Cart` |
| `schema.ts`: counters | `Years` |
| `schema.ts`: quotes | `ShopInit` |
| `billing.ts`: nextInvoiceNumber | `NextNumber`, `CounterUndone`, `NewYear` |
| `billing.ts`: placeLines | `Issue`, `RollBack`, `Claimable`, `PlaceLines` |
| `quotes.ts`: createQuote | `CreateQuote` |
| `quotes.ts`: acceptQuote | `Expires`, `Open`, `AcceptQuote`, `LinkQuote`, `ReopenQuote` |
| `quotes.ts`: closeQuote | `CloseQuote` |
| `billing.ts`: createCustomInvoice | `IssueQuote` |
| `cart.ts`: add | `AddRead`, `AddInsert` |
| `cart.ts`: removeFromCart | `RemoveItem` |
| `billing.ts`: usableCoupon | `CodeUsable` |
| `cart.ts`: checkoutCart | `CheckoutRead`, `Emptied`, `EmptyCart`, `ShopSteps` |
| `actions.ts`: accept | `ShopNext` |

| Code | Definitions |
|---|---|
| `sdi.ts`: active | `FiscalInit` |
| `sdi.ts`: sendToSdi | `Sendable`, `SendLoad`, `SendMark`, `SendName`, `SendFail`, `SendEnds` |
| `fattureincloud.ts`: fattureincloud.send | `SendDraft` |
| `aruba.ts`: aruba.send | `SendCall` |
| `fattureincloud.ts`: fattureincloud.status | `Parts` |
| `types.ts`: normalizeSdiStatus | `NormalizeSdiStatus` |
| `sdi.ts`: refreshSdiStatus | `Ask`, `Told` |
| *External*: the tax authority's exchange | `Decide` |
| `actions.ts`: sendInvoiceToSdi | `FiscalNext` |

### Imports, Teams, Tickets, Keys

`Imports`: `runImport` looks each row up before it inserts it, and ends anywhere
(`torn` counts the runs that did between the two rows of a domain). `Teams`: members,
invitations and the handing over of a company; a row deleted and inserted again
is another row. `Tickets`: the messages of both sides and the status that says
whose turn it is. `Keys`: the token of a server, of which the row has a hash, and
the key jobs are signed with, in one row of settings with the token for
statistics. Promised: `ImportRight` (`NothingTwice`, `RepeatCompletes`),
`TeamRight` (`OneOwner`, `LinksDie`), `NobodyOverheard`, `KeysRight`
(`JobsVerify`, `CanConnect`, `ScrapeKept`).

| Code | Definitions |
|---|---|
| `schema.ts`: users | `ImportsInit` |
| `import.ts`: runImport | `RowDone`, `StartImport`, `Finds`, `Skips`, `LookAtCustomer`, `InsertUser`, `ReadCatalogue`, `LookAtContract`, `InsertService`, `StartNames`, `LookAtName`, `InsertName`, `EndImport` |
| `roles.ts`: createCompany | `InsertCompany` |
| `import.ts`: productFor | `InsertProduct` |
| *External*: the process of the panel | `StopsHalfway` |
| `roles.ts`: listAccounts | `SignsIn` |

| Code | Definitions |
|---|---|
| `roles.ts`: GRANTS | `Role` |
| `schema.ts`: companyMembers | `Row` |
| `roles.ts`: createCompany | `OwnerRow`, `TeamsInit` |
| `roles.ts`: roleCan | `Manages` |
| `team.ts`: inviteMember | `InviteLook`, `InviteWrite` |
| `team.ts`: findInvite, acceptInvite | `AcceptLook` |
| `team.ts`: acceptInvite | `AcceptWrite` |
| `team.ts`: findInvite | `InviteExpires` |
| `actions.ts`: memberOf | `MemberOf` |
| `actions.ts`: changeRole | `ChangeRole` |
| `actions.ts`: setMemberSites | `SetMemberSites` |
| `actions.ts`: removeMember | `RemoveMember` |
| `actions.ts`: leaveTeam | `LeaveTeam` |
| `actions.ts`: transferOwnership | `TransferPick`, `TransferSelect`, `TransferDemote`, `TransferPromote` |

| Code | Definitions |
|---|---|
| `schema.ts`: ticketMessages | `Side` |
| `schema.ts`: TicketStatus, tickets | `TicketStatus` |
| `actions.ts`: openTicket | `OpenTicket` |
| `tickets.ts`: handleInboundMail | `OpenByMail`, `ReplyByMail` |
| `actions.ts`: replyTicket | `Says`, `ReplyTicket`, `UpdateTicket`, `NotFiled` |
| `actions.ts`: staffReply | `StaffReply` |
| `actions.ts`: closeTicket | `CloseTicket` |
| `actions.ts`: setTicketStatus | `SetTicketStatus` |

| Code | Definitions |
|---|---|
| `settings.ts`: settingsSchemas.platform | `KeysInit` |
| `platform-actions.ts`: createNode | `NewToken` |
| `platform-actions.ts`: installInstructions | `Shows` |
| `engine.ts`: signingKeys | `ReadKeys` |
| `settings.ts`: updateSettings | `ReadGroup`, `Merged`, `WriteKeys` |
| `platform-actions.ts`: rotateMetricsToken | `ReadScrape`, `ScrapePatch`, `RotateMetrics` |
| `agent-auth.ts`: authenticateAgent | `LetIn` |
| `agent.ts`: Agent.reject | `Verifies` |

## 3. The runs

Twelve runs; each property of a passing run has a mutant in `PROJECT.json`, a
change of one modelled definition like a bug in that code, under which the same
run reports the property violated.

The modules of section 2 that do not act on each other are composed in four MC
modules: `MCSites` (Workloads, Deployments, Backups, Previews), `MCPanel`
(Subscriptions, Domains, Dns), `MCCompany` (Billing, Settings, Teams, Tickets,
Cards, ManagedDb, Monitoring, AddressBook, Terms, Migrations, Keys) and `MCOffice`
(Capacity, Shop, Fiscal, Webhooks, LeasedBlocks, Imports, Crons). The parts of a
composition share no variable: a variable `part`, chosen at the start, says which
of them moves, and the others stay as they began. So the states of a composition
are the sum of its parts' states and not their product, and a property of a part
is checked in the behaviours in which that part moves. Where parts do meet in the
code, the meeting is inside a module: jobs fold into rows in each of them, and
`Subscriptions` calls what `Workloads` implements.

### Queue

| Run | Instance | Shows |
|---|---|---|
| `jq_faults` | 2 jobs, a workload and the superseding one, lossy calls, a crash of agent or server; one request of each kind at a time; 2 delivery attempts (1.1 M states) | the inductive invariant `IInv`, `OneRunning`, `OneExecuting`, `StartedOnce`, `OutcomeOnce`, `FifoStart`, `HonestSuccess`, `SettledStays`, and that the queue implements `SerialExecution` |
| `jq_live` | 2 jobs, two overlapping polls, room for one job at the agent, lossy calls, a crash (0.55 M states) | `CapacityKept`, `NoLateStart`, `EveryJobEnds` |
| `jq_overlap` *violation* | two overlapping polls | `OneRunning` fails: `claimJobs` reads the busy workloads before it waits for the row locks |

Two jobs suffice for exclusion, order and progress, which are statements about
pairs of jobs and about one; with the theorems of section 4 the bound on jobs is
only a bound on the runs. `MaxAttempts` is 2 (1 in the liveness run) instead of
5: a second attempt is what a duplicated report needs. `Batch` is the number of
jobs. One crash puts a restart between any two steps; a second one would
interrupt the recovery from the first, which consists of ordinary steps.

### Money

| Run | Instance | Shows |
|---|---|---|
| `bill_fees` | 1 invoice, 2 services of which one leaves, 2 overlapping fee runs, a charge whose answer may be lost, credit 1, 2 payments by hand, a crash (0.84 M states) | `MoneyMatches`, `AsksForLines` |
| `bill_live` | 2 invoices, one checkout, credit for one and a half, 2 payments by hand, fair, no crash (0.14 M states) | `TypeOK`, `OnceOnly`, `CreditRight`, `PaidIsFulfilled` |
| `company`, part Billing | 1 invoice, 2 services of which one leaves, one run of charges with up to 3 intents, a checkout, up to 3 attempts | `ChargesRight` |

One invoice has everything that can happen to an invoice; two are needed where
they compete for the credit. Three intents allow a refused debit, its retry and
a forgotten one. Two services let a cancellation leave a line behind. The price
of 2, the fee of 1 and a credit that covers part of an invoice make partial,
exact and excessive payments differ.

### Sites

`sites` (0.10 M states) checks `SitesTypeOK`, `NodeFollowsRow`,
`SuccessKeepsSuspension`, `SitesRight`, `NoDowntime`, `NothingIsLost` and
`SitesEnd`.

| Part | Bounds | Why they are enough |
|---|---|---|
| Workloads | 1 site, 1 copy, 1 handler, 3 requests after the creations, 1 failed job | suspend, resume and delete with a failure between any two; larger instances (2 copies and 4 requests; 6 requests and 2 failures) were searched once, and the theorem has no bound |
| Deployments | 5 rows, `ROLLBACK_DEPTH` 2, the third build never answers, 1 changed setting, 1 death of the agent | more builds than are kept, a refused one in the middle, and a death between any two Docker commands of any of them |
| Backups | 3 rows, 2 to be kept, 2 days, 2 requests, 1 change of content, 1 failure | one row more than is kept, so that pruning meets restoring |
| Previews | 2 branches, 1 preview allowed, 2 rows, 4 pushes, 2 moves of the switch, 1 failure | a branch that waits for room, one that is created anew after its deletion |

`backup_hollow` *violation*: with `DumpsWork = FALSE` `ReadyHasArchive` fails: a
dump that fails leaves a hollow archive that counts as ready. `backup_hourly`
*violation*: with `Hourly = TRUE`, as `docker-compose.yml` runs it, `KeptAsConfigured`
fails: a run that makes no backup prunes as if it had made one.

### What customers subscribe to

`panel` (0.15 M states) checks `PanelTypeOK`, `BilledAsAgreed`, `StaffHoldStays`,
`SoldIsRegistered`, `DnsRight` and `PanelEnds`.

| Part | Bounds | Why they are enough |
|---|---|---|
| Subscriptions | 1 service, 1 request beside 1 run of the cron, days 1 to 4 with a cycle of 1 day, 3 invoices, 2 wishes, 1 failing call | a cycle as short as the delays makes every date meet every other; the run reads its lists before the request, between its statements and after it |
| Domains | 1 name, 1 caller, 2 orders, 4 years, 1 lost answer, 1 end of the process, 1 changed setting | an order after a failed one, a renewal whose answer is lost and repeated; the theorem has no bound |
| Dns | 1 name server, 1 request at a time, 3 edits, 1 snapshot kept, 1 failed sync, 1 switch of the node | more edits than snapshots; a sync cancelled, failed or under way when the next is queued |

### Accounts

`company` (0.62 M states) checks `CompanyTypeOK`, `ChargesRight`, `CompanyRight`
and `UpkeepRight`. Everything promised in it says what never happens, so it has
no fairness. `again` *violation*: with two rows for copies that may be deleted
again `RoomForTwins` fails: the slug of a new copy is that of a deleted one.

| Part | Bounds |
|---|---|
| Settings | 2 sites and 1 app on a node, 1 copy, 1 host name, 1 group, 1 desk, 3 forms, 1 failed update: each form meets an update of the one before |
| Teams | 3 people, 2 rows beside the owner's, 2 invitations; somebody is handed the company, somebody else leaves |
| Tickets | 2 writers one after another, 3 messages, 1 attachment that cannot be stored |
| Cards | 3 cards, 2 tellers (reports of one payment overlap), 3 saves, 1 cut: the third card is who becomes the default when the first is removed |
| ManagedDb | 3 engines, 2 versions, 3 requests, 1 insert, 1 failed job |
| Monitoring | 1 server, 1 kind of trouble, 2 slots one after the other, 4 calls of the cron, 3 changes: an incident that opens and closes and opens |
| AddressBook | 4 addresses, blocks of 1 and 4, 2 pools, 2 bookers, 2 attempts (5 in the code): two bookers run into each other once |
| Terms | months of 1 and 3 from January or December of a leap year, the 30th and 31st; 3 plans; 2 renewals, 2 moves: every February there is |
| Migrations | 2 requests, 4 jobs, 1 upset: two imports with their safety backups |
| Keys | 2 servers, 2 administrators, 3 requests: the key, a token and the token for statistics |

### Office

`office` (0.36 M states, two minutes) checks `OfficeTypeOK`, `PlacesRight`, `OfficeRight`,
`ReserveSurvives` and `OfficeEnd`.

| Part | Bounds |
|---|---|
| Capacity | 3 servers, of which automatic mode may have 2 at a time, 2 places each and 2 kept free, 1 address, 2 orders, 2 sites placed and 1 deleted, 1 answer lost or 1 creation by hand: an order meets a server that is being created, the run retires two servers one after the other and cannot delete the row of the first |
| Shop | 2 members of different companies, 1 use of the code, 2 issues, 1 rolled back: the last use is taken, lost and taken again |
| Fiscal | 1 invoice at the intermediary that makes the document itself (a second of the other kind was searched once by itself), staff and the cron, 3 sends, 1 refused, any answer lost: three copies, two of them without a name |
| Webhooks | `MAX_FAILURES` 2, 5 deliveries, 2 at once: two cross, one arrives by itself, two fail |
| LeasedBlocks | 1 block, 2 slots one after the other, 3 orders, 1 end of the lease, 2 missed calls |
| Imports | 2 customers, 2 services, 2 names, 3 runs, 2 of which stop |
| Crons | 1 task, 3 minutes, 2 changes, 2 jobs waiting, 2 lapses of the agent (2 tasks and 4 changes were searched once by themselves) |

### Fairness

Liveness assumes that what is being served goes on and that time passes; nobody
is ever bound to ask, to lose a message, to fail or to crash.

* `JobQueue`: handlers that are being served end, a running agent goes on
  polling, executing and reporting, and time passes. `Agent.run` is a loop that
  survives every exception, and drivers' commands have timeouts. `RestartSpec`
  adds that a dead agent is started again, by systemd or by Docker's restart
  policy. (Without it nobody sweeps the jobs of a dead agent: only its own polls
  do.)
* `Billing`: requests that are being served end, and a gateway repeats a webhook
  until it is answered. Runs of the cron are under no fairness, and no customer
  has to pay.
* `Workloads`, `Deployments`, `Backups`: requests end, the agent works off its
  queue and outcomes are folded in. A report needs a free handler in `Workloads`,
  which requests take again and again, so the agent's work is strongly fair there;
  so is the cron in `Domains` and `Fiscal`, which passes over a name or an invoice
  somebody else is at.
* `Subscriptions`, `Domains`, `Dns`, `Capacity`, `Fiscal`: in addition the daily
  or hourly run takes place (`StartRun`, `Cron`, `KeepStart`, `Ask`), which
  `api/cron` is called for; days pass; the registry ends a transfer, the exchange
  decides.

Deadlock is not checked in runs whose parts come to rest when their bounds are
used up; nothing waits for another in them, and what must not stay half done is
what the liveness properties say.

## 4. The proofs

TLC looks at a small instance; `tlapm` proves the theorems below for every value
of the constants. Apart from what the column *Needs* says they use only the named
assumptions on constants in the modules (bounds are numbers, flags are Boolean,
names differ), which TLC evaluates in every run. The conditions are the flags of
section 2 and "one request at a time"; none is there for the sake of a proof:
for each, TLC shows a behaviour in which the property fails without it
(sections 3 and 5).

Throughout, a property is not inductive as it stands, and the proof has three
facts: the initial states satisfy an invariant `XInv`, every step keeps it (a
lemma per action, or per part where few actions disturb it), and it implies the
property. Each `XInv` was checked by TLC before it was proved, on instances at
least as large as the runs'. A composition's parts share no variable, so a step
of `SitesSpec` or `PanelSpec` is a step of a part or leaves it alone, and the
theorems are stated of the composed specification where a run checks them there.

### JobQueueProofs

| Theorem | States | Needs | |
|---|---|---|---|
| `Typing` | `[]TypeOK` |  | Every variable keeps its type, whatever fails. |
| `Invariance` | `[]IInv` |  | The inductive invariant: who may hold a job at which moment. |
| `Fifo` | `[]FifoStart` |  | Jobs of one workload are handed out in order, whatever overlaps or gets lost. |
| `AtMostOnce` | `[]StartedOnce` |  | No job is executed twice, across crashes and repeated calls. |
| `Honest` | `[]HonestSuccess` |  | A succeeded row stands for one successful execution. |
| `Exclusive` | `[]OneRunning` | `~Overlap` | Without overlapping polls, no two jobs of one workload are ever running. |
| `ExclusiveExecution` | `[]OneExecuting` | `~Overlap`, `~Overrun` | Without overlapping polls and overlong executions, no two jobs of one workload execute together. |
| `AppliedOnce` | `[]OutcomeOnce` | `~Overlap` | Without overlapping reports, an outcome is applied once at the most. |
| `TimelyStart` | `NoLateStart` |  | An execution only begins while the row is running. |
| `RoomForJobs` | `[]CapacityKept` |  | A node never has more jobs running than it may, however polls overlap. |
| `Settled` | `SettledStays` |  | Finished jobs never run again; what succeeded or was cancelled never changes. |
| `Refinement` | `ImplementsSerial` | `~Overlap` | Without overlapping polls the queue implements serial execution per workload. |

`IInv` in `JobQueueInvariant` (which `jq_faults` checks) says what the code
relies on without saying so:

* `Inserted`: the rows that exist are those before `next`.
* `LockInv`: a claim in progress holds queued rows only, every older queued row
  with them, and no two claims hold rows at once. Order follows: `Take` marks a
  prefix of each workload's queued rows, its first.
* `DispatchInv`: a job handed out is in exactly one place: in a response, in
  the inbox, in execution, or reported; whoever has not expired is still
  running in the table; nothing that was never claimed is anywhere. A job starts
  once because it reaches the inbox once, and in time because an envelope
  outlived by its row is refused.
* `ResultInv`: success is the outcome of an execution.
* `RoomInv`: what the agent executes, has received and may still be sent fits.
* `PollInv`, without overlapping polls: a claim's busy set covers the running
  rows until it commits, so `Take` never adds a second one.
* `ReportInv`, without overlapping reports: an outcome not yet applied waits for
  the one handler that saw the row running.

The refinement maps "queued" to waiting, "running" to active and every terminal
status to over, and shows that each step submits a job, begins the jobs of a
claim, ends some, or stutters. A late report that overwrites a sweep's "failed"
is such a stutter.

### BillingProofs

| Theorem | States | Needs | |
|---|---|---|---|
| `BillingTyped` | `[]TypeOK` |  | Every column and every request in progress keeps its type, whatever overlaps, crashes or gets lost. |
| `SettledOnce` | `[]OnceOnly` |  | However often gateways report a payment and whoever else pays: a line is fulfilled once at the most, an invoice reversed once at the most, and nothing brings a reversed one back. |
| `FeesAndDepartures` | `[]AsksForLines` |  | Any number of overlapping runs of late fees and of cancellations leave an invoice asking for its lines and one fee, for more only by lines that left while somebody held a copy of it, for less only by a fee that came while somebody did. |
| `Covered` | `[]PaidIsCovered` | `Leaving = {}` | While no service is being cancelled, an invoice that counts as paid or refunded is covered by its transactions. |
| `CountsOnce` | `[]CountedOnce` |  | Every amount on an invoice came in once: as a captured payment, as credit or by hand. |
| `MoneyIsRight` | `[]MoneyMatches` | `Leaving = {}` | Both: while no service is being cancelled, what an invoice counts is what came in, and covers what is paid. |
| `CreditBalances` | `[]CreditAddsUp` |  | Whatever overlaps or crashes, the balance is the credit less the movements of the ledger, which never exceed it. |
| `CreditComes` | `[]CreditArrives` | `MaxCrashes = 0` | Without crashes, credit that left the balance is on the invoice. |
| `CreditIsRight` | `[]CreditRight` | `MaxCrashes = 0` | Both, without crashes: what leaves the balance was there, and arrives. |
| `TotalsAddUp` | `[]TotalIsLines` | `Leaving = {} \/ (Run = {} /\ \A s`, `t \in Leaving : s = t)` | With customers leaving one at a time and no late fee meanwhile, or late fees and nobody leaving: what an invoice asks for is the sum of its lines, wherever the process ends. |
| `ChargesOnce` | `[]ChargedOnce` | `Run = {}`, `~Lossy`, `MaxCrashes = 0`, `\A s`, `t \in Leaving : s = t`, `\A c`, `d \in Charger : c = d` | With one run of the automatic charges at a time that hears every answer, and no late fee in between: whatever the customer, staff, the bank and webhooks do meanwhile, the money of an invoice is taken once, counting debits on their way. |
| `ChargesAreRight` | `[]ChargesRight` | `Run = {}`, `~Lossy`, `MaxCrashes = 0`, `\A s`, `t \in Leaving : s = t`, `\A c`, `d \in Charger : c = d` | Both, of the invoices a company has: charged once, and asking for the sum of their lines while services leave them. |

`Typed` adds to the types what requests in progress aim at. `Settling` orders the
life of an invoice (a line that is fulfilled belongs to an invoice that was paid).
`Kept`: what is paid stays covered, which a service that leaves breaks
(`billing.ts:584`). The sums of money are sums over finite sets of transactions,
requests and ledger rows. The library has no induction that the provers can use,
so `SumStep`, `SumAdds` and the like are proved from a least counterexample
(`LeastSubset`): the smallest set for which the sum is wrong loses one element. `Balanced` and
`Moved` follow one amount of credit from the balance through the request that
carries it (`OnItsWay`) to the invoice; `Counted` follows a payment from its
capture through the webhooks and returns that report it to the one transaction
with its reference.

`Asked` is what an invoice asks for: its total, what a run of late fees selected and
what a cancellation read (`AskedFits`, `SelectedFits`, `ReadFits`) each lie between
the lines that are there and those plus the lines that `crossed`. It holds in every
interleaving (`FeesAndDepartures`); where nothing crosses (`Calm`, which `Undisturbed`
implies) the bounds meet (`TotalsAddUp`). `OneCharge` is
why an invoice is charged once: at an invoice the charger read as open no money was
taken (`ChargerKnows`), and money that was taken is remembered as the debit on its
way, as a transaction, or by the charger that waits for the answer; once it is
recorded, it settles the invoice, for what it asks for never rises in between
(`TakenKnown`). A late fee, a lost answer, a crash or a second run of the charges
breaks one of these, and each is excluded by an assumption of `ChargesOnce`.

### WorkloadsProofs

| Theorem | States | Needs | |
|---|---|---|---|
| `NodeRunsWhatRowsSay` | `[]NodeFollowsRow` | `Single`, `~Rash` | For any number of sites, copies, requests and failed jobs: while requests and reports come one after another and people ask what the panel offers, a suspended site comes to rest down, the rows tell what the node runs, and without failures copies go down with their site. |
| `SuspensionOutlivesSuccess` | `SuccessKeepsSuspension` | `Single`, `~Rash` | Under the same assumptions no job that succeeds ends a suspension, save a deletion. |
| `WorkloadsTyped` | `[]WorkloadsTypeOK` |  | Rows, jobs, containers and handlers keep their types, whatever people ask and however many requests and reports are served at once. |

`Single` says that there is one handler. `WlInv` has ten parts. The ones that
matter: what a request saw of its workload still holds when it goes on
(`HandlersHold`, the part two handlers break); once a deletion is queued only
stops and deletions follow (`Order`); a suspended site that is up has its stop in
the queue and nothing behind it (`StopComes`); between two jobs the row tells what
the node has, or a job is on its way (`RowIsTrue`); copies halt and leave with
their site (`CopiesHalt`, `Leaves`). `WorkloadsTyped` needs none of this: a
handler is at work for workloads there are (`Aimed`).

### SitesProofs

| Theorem | States | Needs | |
|---|---|---|---|
| `SitesTyped` | `[]SitesTypeOK` |  | Sites, releases, backups and previews keep their types, whatever is asked at the same time and whatever fails. |
| `AppsSwitchWithoutDowntime` | `NoDowntime` |  | For any number of builds, rollbacks and updates, good, bad or asked for at once: as long as nobody ends the agent, an app that serves a release goes on serving one, the old or the new. |
| `OnlyBuildsThatAnswerServe` | `[](SickNeverServes /\ ImagesBounded)` |  | However they are asked for and cut short: no build that does not answer ever becomes the current one of an app, and a node keeps no more builds than one can go back to. |
| `GoodBuildsCanComeBack` | `[]GoodBuildsServe` | `Patient` | When customers wait for a release to end, and a build that answered once answers again: the app serves what its row says, and the builds one can roll back to have their images. |
| `DeletedBackupsLeaveNothing` | `[]GoneIsGone` |  | For any number of backups, requests, days and failed jobs: a deleted backup has no archive left, on the node or in the object storage. |
| `ReadyBackupsCanBeRestored` | `[]ArchivesFollowRows` | `DumpsWork` | As long as databases can be dumped: a backup that is ready has an archive with data somewhere, and a deleted one has none. |
| `NoBackupIsLost` | `NothingIsLost` | `~Hourly` | For any number of backups, restores and jobs cut short, while the scheduled run comes once a day: a restore leaves what it replaces in a system backup nobody asked to delete, and a run that prunes keeps as many daily backups as the setting says, or as there were. |
| `PreviewsFollowTheirBranches` | `[]PreviewsRight` | `Orderly` | For any number of branches, pushes, switches and builds that fail, while one request is served at a time: a branch has one preview at the most, an app no more than allowed, and when nothing is left to do a preview shows the newest commit of its branch and nothing runs unseen. |
| `SitesAreRight` | `[]SitesRight` | `Patient`, `DumpsWork`, `Orderly` | The three parts together: releases, archives and previews, each under what it needs. |

`Patient` is `~Impatient` and `Moody = {}`: a build is asked for when the last one
has been folded in, and one that answered once answers again. `Orderly` is
`~Hasty` and one request about previews at a time.

* Releases. `DepInv`: the phase belongs to the first job; what is connected
  answered its health check, and only what is connected replaces the old
  container; what a job keeps leaves room for its own image. That images stay
  bounded needs that of any numbers at most *k* have fewer than *k* greater ones
  (`NewestAreFew`). `PatInv` adds for patient customers what the queue holds
  (`QueueInv`) and that the node has the images of the newest live builds
  (`NodeInv`), which is what a rollback takes.
* Backups. `BkInv`: an archive is made once, by the job of its row, in the order
  of the rows (`MadeOnce`, `InOrder`); no job about an archive comes after the
  one that removed it (`OnArchives`, `ArchivesLast`); a ready row has an archive
  with data on one of the two sides (`NoneHollow`, as long as dumps work).
  `UndoInv` adds for a restore that waits what makes it undoable: while nothing
  went wrong and nobody asked to delete a safety backup, what the site holds when
  the restore takes its turn is already in a system backup, or the job that will
  make that one is further ahead in the queue (`RestoresCovered`). That pruning
  keeps enough needs that of a finite set of which some element has *n* greater
  ones, the newest *n* really are *n* (`EnoughOfTheNewest`), by the smallest of
  the sets of greater elements; with `Hourly` a run that comes when no new backup is
  due still leaves room for one, so the theorem assumes one run a day.
* Previews. `PreInv`: rows are numbered without gaps; a branch has one preview
  (`OneEach`); the last report about a branch says what it is (`Reports`), the
  last job of a preview is the right one for it (`LastJob`, `Builds`); what a
  request decided still holds when it acts (`Decided`, the part a second request
  breaks); whatever is left has a report, a job or a request that will remove it
  (`Leave`), and whatever stands and has none shows the newest commit (`Fresh`).

### PanelProofs

| Theorem | States | Needs | |
|---|---|---|---|
| `ZonesAreServed` | `[]DnsRight` | `OneEditor`, `Apart` | For any zone, records, name servers and failed syncs: while requests about the zone come one after another and nobody puts a CNAME where the panel puts addresses, the last changes can be undone, no name clashes with another, and a server whose sync succeeded answers from the current zone. |
| `NamesAreRegistered` | `[]SoldIsRegistered` | `OneCaller` | For any number of names, orders and years, whatever answers are lost and whenever a process ends: while the panel is at one name at a time, what is sold, billed and shown as active is what the registry has. |
| `StaffHoldsAreKept` | `StaffHoldStays` |  | For any number of services, invoices, requests and runs at once: a service that staff suspended is not taken over by the cron nor lifted by a payment; only a request of staff about it ends that, unless the service changed while a run or a request had it on its list. |
| `AgreementIsKept` | `[]BilledAsAgreed` | `OneAtATime`, `~Eager` | For any number of services, invoices and sites, while one request and one run of the cron are at work at a time and staff activates nothing before it is paid: a service is held for overdue payment only after its due date, no period is billed twice, who leaves is not billed again, one upgrade at most waits to be paid, and what is in use has a due date and one workload. |

`OneEditor` and `OneCaller` are one request about a zone, and one caller about a
name, at a time. `DnsInv`: a request finds the zone it read (`Plans`); a zone and
its snapshots hold no clash (`Records`); the *k*-th change back is no further down
than the *k*-th snapshot, save snapshots nothing followed (`WayBack`); a node no
request is yet to come to has the current data last in its queue, or serves it
(`Answers`). `DomInv` says of each place of a caller what it knows of registry,
row and order (`CallKnown`), and of rows and orders nobody is at that they tell
what the registry has, or what a lost answer left to find out (`RowKnown`,
`OrderKnown`).

`HoldInv` is about the services customers subscribe to. It needs nothing but a
finite set of services, and holds for any number of requests and runs at once:
the list each of them works through fits what it is doing and the invoice or
selection it came from (`ShapeOf`), and what it means to do to a service that
nobody changed meanwhile is right for it (`ClaimOf`: a suspension by a run is
of an active service, one that a payment lifts is for overdue payment).

`BilledInv` adds what is billed, while one request and one run are at work at a
time (`OneAtATime`; they still interleave with each other) and staff activates
nothing unpaid (`~Eager`). A workload is that of its service's row, or of the
activation that will write it there (`SitesKnown`); an upgrade still to be paid
is the one its service waits for (`UpgradeKnown`). Of each service nobody changed
behind a list's back (`Agreed`): dates an actor read are still those of the row
(`Fresh`); a workload that went has someone about to write that the service ended
(`GoneEnds`); a hold for overdue payment is past the due date, or someone is
lifting it (`HeldRight`); a renewal of a service that leaves has a request about
to take it off (`Released`); and a renewal is of a period before the due date, or
of the next one while it is marked as billed and is unpaid or being worked through
(`BilledOnce`). The hypotheses are needed: two requests order two upgrades or
activate twice, two runs bill one period twice, and an activation before payment
leaves an active service without a due date.

### CompanyProofs

| Theorem | States | Needs | |
|---|---|---|---|
| `ToldOncePerChange` | `[]NoticesRight` | `~Crowded` | For any number of machines and problems: while checks and probes come one after the other, every incident and every problem is told once at its beginning and once at its end. |
| `BookTyped` | `[]AddressBookTypeOK` | `Alone` | Pools, leases and bookings keep their types, and a booking is tried so many times. |
| `BookIsRight` | `[]BookRight` | `Alone` | For every space, every set of block sizes and any number of requests: when pools are created one at a time, no address lies in two of them, every lease lies in a pool that stands and is neither its network nor its broadcast address, and a booking that must try again sees what was taken. |
| `TeamsTyped` | `[]TeamsTypeOK` | `~Together` | Members, invitations and requests of a team keep their types, for any number of people. |
| `CompanyHasOneOwner` | `[]TeamRight` | `~Together` | For any number of people, invitations and requests: while requests come one after another, a company has one owner, who has joined and is kept from nothing, and nobody who joined has a link left. |
| `CardsTyped` | `[]CardsTypeOK` |  | Saved cards and the requests about them keep their types, whatever overlaps, is cut short or comes late. |
| `OneCardIsCharged` | `[]CardsRight` | `~Abreast`, `~Belated` | For any number of cards and requests: while only reports of one payment overlap and none comes after its card was removed, one card is the default as long as there are any, and every card with a row can be charged. |
| `SettingsAreServed` | `[](SettingsTypeOK /\ SettingsRight)` | `OneDesk`, `Plain` | For any number of sites, host names, groups and requests, one request at a time, no copied SFTP port and one deletion of a site at a time: once nothing is under way the node runs what was asked for last, of every setting, group and host name; a site has one primary host name, a group in use stays, and no two sites have one port. |
| `TicketsHeard` | `[](TicketsTypeOK /\ NobodyOverheard)` | `~TalkOver` | For any number of replies by panel and by email that do not overlap: once nobody is writing, the status of a ticket says who wrote last or what somebody set after that, so that no message is shown as answered before it was. |
| `CompanyIsRight` | `[]CompanyRight` | `OneDesk`, `Plain`, `~Together`, `~Abreast`, `~Belated`, `~TalkOver` | Settings, team, cards and tickets of a company together, each under what it needs. |
| `KeysAgree` | `[]KeysRight` | `~Newborn` | For any number of servers and requests that do not overlap while there is no key yet: every agent that is let in takes the jobs it is given, every server can be connected again, and the token for statistics given out last is the one that is taken. |

Settings (`SetInv`): what the request at work read is still so (`Knows`); its
errands are of different sites and none is for a site that is going (`Errands`); the
configuration is what was asked for (`Right`); behind a deletion only updates wait,
and they find nothing (`Doom`); and unless an update is still on its way, the last
job of a site carries what the site should be, each copy finding the port as the job
before leaves it (`Delivered`), so that an empty queue means the node has it. No
counter or bound of the requests appears in it. Tickets: nobody else writes between
a message and its status. `CompanyIsRight` puts these parts and the two below
together, each under its own flag.

Teams: a request's reads hold until it writes (`ReadsHold`), a person has one seat
(`OneSeat`). Cards: requests are serial, and a default is chosen whenever the last
one went (`Chosen`). Monitoring: of the two newest checks, the one a call read is
still the newest (`ReadIsCurrent`), so that notices alternate. Address book: the
spaces a request compared are those there are (`Compared`); an address is free in
the unique index when a lease is inserted (`NoClash`). Keys: the hash in the row
is that of the newest token (`Drawn`), the key every job is signed with is one
(`SameKey`), and a token that was not shown yet is written by nobody else
(`NothingShown`).

### OfficeProofs

| Theorem | States | Needs | |
|---|---|---|---|
| `EndpointSwitchedOff` | `[]SwitchedOffInTime` |  | For any number of deliveries, however many are under way at once: when none is, and one that crossed no other has arrived since the last that crossed, an endpoint is on exactly when fewer than the limit failed in a row. |
| `ServersAreKnown` | `[](MachinesKnown /\ ServersBounded /\ SitesHaveMachines)` | `~Hasty` | For any number of servers, sites, orders, regions and things done by hand, while orders keep off a server that is being retired: no machine at the provider is unseen, the panel creates no more servers by itself than it may, and a site that was placed has a machine. |
| `PlacesAreRight` | `[]PlacesRight` | `~Hasty`, `~Rushed`, `~Rival` | The same while staff waits for a creation that claimed the address being given back, and with one order of a block at a time: every address is at one server, was leased for it and comes back; a checkout at the marketplace buys what was asked for, once; and the pool of a block whose lease ended hands out nothing by itself. |
| `ReserveIsKept` | `ReserveSurvives` | `~Hasty` | For any number of servers, places and orders, while orders keep off a server that is being retired: the hourly run takes the places below the reserve by no more than what went since it counted them and the servers it destroyed before whose rows it could not delete; with none of either, never. |
| `FiledOnce` | `[]FiscalRight` | `~Overlap` | For any number of invoices, calls, lost answers and processes that end, while one request is at an invoice: of the copies the exchange has and did not refuse, the panel knows the name of one at the most, so each copy more takes a name that got lost; and a row that shows an outcome shows that of the copy it names. |
| `LeasesFollowTheMarket` | `[]BlocksRight` | `~Rival` | For any number of blocks, orders and leases that end, one request at a time. |
| `ImportsRepeat` | `[]ImportRight` | `~Early`, `~Side`, `Contract \cap Name = {}` | For any customers, services and domains and runs that end anywhere, one at a time: a run can be repeated and gives nobody a second company and no service a second row, but for one more row of a domain for each run that ended between its two. |
| `CronsOnce` | `[]CronsRight` |  | For any number of tasks, lists, minutes and restarts of the agent: a task starts once a minute, and once more only when the agent came back in that minute; it runs beside itself only as often as the agent lost sight of it; a stopped app runs none, and once the queue is empty the file is the list saved last. |
| `OfficeIsRight` | `[]OfficeRight` | `~Late`, `~Shared`, `~Overlap`, `~Early`, `~Side`, `Contract \cap Name = {}` | What was agreed with customers and what is owed to the exchange, endpoints, imports and scheduled jobs, together, with lost answers, runs that end anywhere, deliveries that cross and an agent that restarts at any time; one request at a time where a part needs it. |

* Capacity. `CapInv` follows who is at which server: at most the first in the
  line creates in automatic mode, which is why one that found room below the limit
  still finds it when it inserts its row (`LineKnown`, `Roles`); what is being made
  is nobody else's (`DeedsKnown`). `Leased` adds the addresses: what a machine
  answers from is leased to it; a creation has the lease of the address it is about to
  use, or staff gave that address back meanwhile, and then the provider refuses it;
  one that is being booked is reserved and has no row. What `FreePlaces` adds up over
  servers needs the sums of `Sums` to say what one retired server takes from it:
  what the run counted is at most what is free, what went and what it could not
  delete, taken together.
* Shop. Each line of a cart or quote is in one place: still there, held by a
  request, or on one invoice (`AllSomewhere`, `Apart`, `CartsKnown`); the numbers of
  a year are those below its counter (`Numbered`); the uses of a code are the
  invoices with it (`CodeKnown`).
* Fiscal. Of the copies the exchange has, all but the one the row names and the last
  were refused or lost their name; the row shows what it said of the one it names, and
  those after it lost theirs (`RowsKnow`); whoever is about to hand one over knows that
  the one the row names was refused (`HandsKnow`).
* Blocks. One request is at work (`OneSits`); what it ordered is last in the
  marketplace's cart, and alone there when it is paid (`CartKnown`); a pool that no row
  knows of is being linked by it (`PoolsKnown`).
* Imports. What a run is done with is there, first customers, then services, then
  domains (`RunKnows`); what it is about to insert is still missing
  (`StillMissing`). A name that is not there has no more services than runs were torn
  at it, and one more while somebody is about to insert it (`NameMissing`, `NameHeld`).
* Crons. The last list in the queue is the one that is wanted, and when none is,
  the file is (`ListOnItsWay`). What runs of a task is what the agent knows of and
  what it lost sight of.
* Webhooks. While nothing crossed, the counter is that of the failures since the last
  success (`CountIsKnown`); of several under way none is alone (`AloneIsAlone`).

### Sums

A module of lemmas: sums over finite sets, which `BillingProofs` needs for money and
`OfficeProofs` for places.

### What only TLC checks

* Liveness (`SitesEnd`, `PanelEnds`, `OfficeEnd`, `EveryJobEnds`,
  `PaidIsFulfilled`): the prover has no rules for fairness and `ENABLED`.
* `Terms`, and with it the conjunction `UpkeepRight`: `DaysBefore` is a recursive
  function over the days of a calendar, and what a recursion computes for every
  argument needs an induction the provers cannot use. The run goes through every
  combination of months that differ in length instead.
* Of `UpkeepRight` the databases and the migrations, too: only its parts
  `NoticesRight`, `BookRight` and `KeysRight` are proved, above.
* The type invariants of the compositions other than `SitesTypeOK`, as whole
  properties; most of their conjuncts are part of the inductive invariants above.

## 5. What the checks found

### With a run

Four runs expect a violation; each shows code that does not do what a comment or
the documentation next to it says. `PROJECT.json` quotes them under `findings`.

| Run | Property | Where | What happens |
|---|---|---|---|
| `backup_hollow` | `ReadyHasArchive` | `src/agent/src/docker.ts:1270` | The dump of a site's database fails while its backup is made: the backup is listed as ready and holds no data. |
| `backup_hourly` | `KeptAsConfigured` | `src/src/platform/engine.ts:1293` | The run of the scheduled backups comes once an hour: the one after a daily backup prunes one more than it replaces. |
| `again` | `RoomForTwins` | `src/src/platform/engine.ts:462` | A staging copy is made, deleted and made again: the deleted row still has the slug the new one would get, and the site never gets another copy. |
| `jq_overlap` | `OneRunning` | `src/src/platform/engine.ts:1313` | A poll that timed out at the agent and is still running at the control plane lets two jobs of one workload run. |

### Behind a flag

While a property failed under a flag or with a second request, the runs have the
value under which it holds. What happens otherwise, as TLC showed it:

* **Queue.** An execution that outlasts its job's 30 minutes runs beside the next
  job of its workload (`Overrun`; an import may take 6 hours). A late report
  overwrites the sweep's failure (`engine.ts:1382`). Nobody sweeps the jobs of an
  agent that never polls again.
* **Workloads.** With two handlers, or requests the panel does not offer (`Rash`), an
  outcome computed from an earlier read takes a suspension back (`engine.ts:1441`),
  a changed setting starts a suspended site (302), and a deletion does not last
  (212, 296).
* **Settings.** Two forms at once lose the update of one of them (`engine.ts:302`,
  368, 765, 1172). A copy of a site with SFTP takes its port and secrets (478). Of
  two queued deletions of one site, a second that fails brings the deleted row back
  as `error` (1468), which is why `Plain` asks for one at a time.
* **Deployments.** The first build is never kept for a rollback (`docker.ts:467`).
  A build that answers only sometimes (`Moody`) is refused when it is rolled back
  to, and the app stays down (762).
* **Previews.** With two requests at once, or a push while one is served (`Hasty`),
  a branch has two previews, or one that nobody removes (`engine.ts:544`, 573).
* **Backups.** A customer who deletes a scheduled backup while the daily run prunes
  leaves fewer than the setting says.
* **Databases.** With requests while a new password is on its way (`Crossing`) the
  row shows one that does not work (`engine.ts:1268`, 1270).
* **Crons.** Stopping an app removes its scheduled jobs from the node
  (`docker.ts:523`), starting it does not write them back (508); the simulated
  driver keeps them. A restart in the middle of a task, and a client that is given
  up, run it beside itself (616, against the comment there; counted by `NeverTwice`).
* **Billing.** A crash after the commit of a payment leaves a paid invoice that
  nobody fulfils (`billing.ts:241`), one between the two transactions of
  `applyCredit` loses credit (421). A lost answer to a debit charges again
  (`payment-methods.ts:105`), and so do two overlapping runs, whose attempts have
  keys of their own. A cancellation beside a payment or a late fee reverses what
  was paid or counts a line twice (`billing.ts:584`, 588, 765).
* **Terms.** The unpaid renewal keeps the price it was issued with when the plan
  changes, and of periods paid ahead a change of plan reckons with one (`Owing`,
  `billing.ts:308`, 364).
* **Cards.** Two saved at once are both, or neither, the default
  (`payment-methods.ts:39`, 51, 66; `Abreast`); a report that arrives after its card
  was removed brings it back (29, 58; `Belated`). Without a default nothing is
  charged, and nobody is told.
* **Domains.** With two callers at one name it is ordered and paid twice
  (`domains.ts:226`).
* **DNS.** Two editors save one over the other, and the snapshot is of neither
  (`engine.ts:1142`, 1075, `dns/actions.ts:48`); a customer's CNAME where the panel
  puts addresses stops the zone (`Apart`, `cloud.ts:141`).
* **Capacity.** A lost answer to the creation leaves a machine nobody knows of; a
  server that is being retired is picked (`Hasty`, `cloud.ts:203`). Staff gives a free
  address back while a creation claims its row; the row is deleted all the same
  (`ipam.ts:129`), a server created by hand then reserves the same address again, and
  the first machine starts with it too (`gcp.ts:72`; `Rushed`). When the row of a
  destroyed server cannot be deleted the run does not lower its count (`cloud.ts:202`),
  and the next retirement of the same run goes below the reserve, against the comment at
  199 (counted by `ReserveSurvives`; two servers in the run's loop, one of them with a
  deleted site).
* **Addresses.** Pools created at once overlap (`Alone`, `ip-pools.ts:37`). An item
  that stays in the marketplace's cart stops every later order (`ipxo.ts:113`,
  although line 102 says otherwise), and two orders at once buy each other's
  (`Rival`).
* **Monitoring, webhooks.** The daily and the five-minute call open an incident
  twice or never close it (`Crowded`, `uptime.ts:29`, `node-health.ts:28`);
  deliveries at once miscount failures until one arrives by itself
  (`webhooks.ts:91`; counted by `SwitchedOffInTime`).
* **Shop.** A failure after the invoice was issued leaves quote or cart to be
  ordered again (`Late`, `quotes.ts:50`, `cart.ts:97`); an item put into a shared
  cart meanwhile vanishes (`Shared`, 98); a crash between a quote's two steps leaves
  it accepted without an invoice (`quotes.ts:38`).
* **Electronic invoices.** When the answer of the intermediary is lost, the row says
  error and the invoice can be handed over again (`sdi.ts:42`), although the comment
  at `sdi.ts:35` says staff then sees "sent" and line 26 promises one copy; `SentOnce`
  allows one copy more for each name that got lost, and no other. The
  second of two calls is refused without a trace (`fattureincloud.ts:47`), and a
  slow answer overwrites a resend (57, 31).
* **Imports.** A run that ends between a domain's service and its row imports the
  service once more (`import.ts:137`), although the comment at 17 says a run can be
  repeated; `NothingTwice` allows one row for each such run, and no other. Two runs
  at once import everything twice (`Side`).
* **Teams.** `transferOwnership` reads without a lock: a company ends with two owners
  or none (`Together`, `team/actions.ts:70`); an invitation refreshed beside its
  acceptance leaves a link that works (`team.ts:17`).
* **Tickets.** Of two replies that cross, the status of the other side is written
  last (`TalkOver`); a message whose attachment fails is in the ticket and nobody is
  told (`client/actions.ts:104`).
* **Keys.** Two requests that find no signing key each make one, and the agents that
  got the first refuse every job (`Newborn`, `engine.ts:56`,
  `platform-actions.ts:303`).
* **Migrations.** An import asked for before the last one was folded in has no
  safety backup of what that one brought (`Hurried`, `engine.ts:655`).

### From reading only

`runWpScans` and `runWpAutoUpdates` write back a configuration read when their
loop began (`engine.ts:706`, 873). `cron.ts:35` takes `*/n` for a
restriction of the day, where cron, which the comment at 37 follows, does not. A referral's commission is lost
with a crash (`billing.ts:247`). The work folder of an import, with a copy of the
site in it, stays when the agent dies (`docker.ts:1030`).

## 6. What is not modelled

The map covers about one line in seven of the implementation. The rest is mostly
not behaviour of the kind these modules are about:

* what is shown: pages and forms of the three panels, the public website and its
  content blocks, e-mail texts, translations, reports, PDFs and exports;
* what is checked in one place and changes nothing else: validation of forms,
  permissions of roles, rate limits, sessions, passwords, passkeys and one-time
  codes, encryption and signatures (a signed envelope is one that is accepted);
* formats: archives, database dumps, build packs, host names and paths, XML of
  invoices, the queries sent to gateways, registrars, clouds and marketplaces (a
  call succeeds, is refused, or its answer is lost);
* tax and currency (a function of an invoice's lines), referrals, reminders, and
  the counters that reports are drawn from;
* the schema's migrations and the installer.

Some state is modelled in parts that do not meet. Jobs that the sweep fails are in
`JobQueue`, which has no workloads: a workload whose job is swept stays creating or
deleting, and no run has both. `Subscriptions` calls a provisioning module that
answers or fails; what the platform's own module does is in `Workloads`. One
company, one zone, one managed database, one app and one address space stand for
all, because the code never relates two of a kind; where it does (names, servers,
invoices of one credit, sites sharing a group), there are several.
