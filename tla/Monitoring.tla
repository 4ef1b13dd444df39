----------------------------- MODULE Monitoring -----------------------------
(***************************************************************************)
(* What the frequent cron watches: it probes a site from outside, tells    *)
(* its customer when an incident begins and ends, and then tells staff of  *)
(* each problem of a server once, and once more when it is gone.           *)
(*                                                                         *)
(* The notices sent are counted: an odd one opens, an even one closes.     *)
(***************************************************************************)
EXTENDS Naturals

CONSTANTS
  Machine,     \* servers
  Trouble,     \* what an agent may report: "disk", "memory"
  Watch,       \* calls of the cron that are served at a time
  MaxWatches,  \* bound: calls of the cron
  MaxChanges,  \* bound: times a server changes
  Crowded      \* one call may start while another is at work

ASSUME MonitoringBounds ==
  /\ MaxWatches \in Nat /\ MaxChanges \in Nat
  /\ Crowded \in BOOLEAN
  /\ Machine # {} /\ "offline" \notin Trouble

VARIABLES
  checks,   \* uptime_checks: at (the call that made it) and ok
  watched,  \* the site is running, so it is probed
  incident, \* notices of the site: how many "down", how many "up"
  host,     \* host[m]: seen, stats (what its agent reported), disabled, alerts
  notice,   \* notice[m][k]: how many "k", how many "k: back to normal"
  watch,    \* what each call is doing
  watches, changes

monVars == <<checks, watched, incident, host, notice, watch, watches, changes>>

Problem == Trouble \cup {"offline"}
Unstarted == [pc |-> "rest"]
NoNotice == [opened |-> 0, closed |-> 0]
Count == [opened : Nat, closed : Nat]

\* Calls, rows and notices are what the code can write.
MonitoringTypeOK ==
  /\ checks \subseteq [at : 1 .. MaxWatches, ok : BOOLEAN]
  /\ watched \in BOOLEAN
  /\ incident \in Count
  /\ host \in [Machine -> [seen : {"never", "lately", "long ago"}, stats : SUBSET Trouble,
                              disabled : BOOLEAN, alerts : SUBSET Problem]]
  /\ notice \in [Machine -> [Problem -> Count]]
  /\ watches \in 0 .. MaxWatches

MonitoringInit ==
  /\ checks = {}
  /\ watched = TRUE
  /\ incident = NoNotice
  /\ host = [m \in Machine |-> [seen |-> "never", stats |-> {}, disabled |-> FALSE, alerts |-> {}]]
  /\ notice = [m \in Machine |-> [k \in Problem |-> NoNotice]]
  /\ watch = [w \in Watch |-> Unstarted]
  /\ watches = 0 /\ changes = 0

-----------------------------------------------------------------------------
(* Sites and servers.                                                      *)

\* The site is stopped or suspended, or runs again.
SiteStops ==
  /\ changes < MaxChanges
  /\ changes' = changes + 1
  /\ watched' = ~watched
  /\ UNCHANGED <<checks, incident, host, notice, watch, watches>>

Changes(m, row) ==
  /\ changes < MaxChanges
  /\ changes' = changes + 1
  /\ host' = [host EXCEPT ![m] = row]
  /\ UNCHANGED <<checks, watched, incident, notice, watch, watches>>

Heartbeat(m) == \E s \in SUBSET Trouble : Changes(m, [host[m] EXCEPT !.seen = "lately", !.stats = s])
FallsSilent(m) == host[m].seen = "lately" /\ Changes(m, [host[m] EXCEPT !.seen = "long ago"])
SwitchMachine(m) == Changes(m, [host[m] EXCEPT !.disabled = ~@])

-----------------------------------------------------------------------------
(* One call of the cron: first the site, then the servers.                 *)

\* The workloads are read: the site is probed, or there is nothing to probe.
StartWatch(w) ==
  /\ watch[w] = Unstarted
  /\ watches < MaxWatches
  /\ Crowded \/ \A v \in Watch : watch[v] = Unstarted
  /\ watches' = watches + 1
  /\ watch' = [watch EXCEPT ![w] = IF watched THEN [pc |-> "probe", at |-> watches'] ELSE [pc |-> "servers"]]
  /\ UNCHANGED <<checks, watched, incident, host, notice, changes>>

\* The two newest checks, and whether there are two and both of them failed.
Newest == {c \in checks : \A d, e \in checks : d.at > c.at /\ e.at > c.at => d = e}
BothFailed(two) == (\A c \in two : ~c.ok) /\ \E c, d \in two : c # d

\* The answer of the site, and the checks before it.
Probe(w) ==
  /\ watch[w].pc = "probe"
  /\ \E up \in BOOLEAN :
       watch' = [watch EXCEPT ![w] = [pc |-> "record", at |-> @.at, ok |-> up, previous |-> Newest]]
  /\ UNCHANGED <<checks, watched, incident, host, notice, watches, changes>>

LatestFailed(two) == \E c \in two : ~c.ok /\ \A d \in two : d.at <= c.at

Opens(two) == LatestFailed(two) /\ ~BothFailed(two)

\* The check is inserted; a second failure opens an incident, a success closes it.
Record(w) ==
  /\ watch[w].pc = "record"
  /\ checks' = checks \cup {[at |-> watch[w].at, ok |-> watch[w].ok]}
  /\ incident' =
       CASE ~watch[w].ok /\ Opens(watch[w].previous)    -> [incident EXCEPT !.opened = @ + 1]
         [] watch[w].ok /\ BothFailed(watch[w].previous) -> [incident EXCEPT !.closed = @ + 1]
         [] OTHER                                        -> incident
  /\ watch' = [watch EXCEPT ![w] = [pc |-> "servers"]]
  /\ UNCHANGED <<watched, host, notice, watches, changes>>

\* nodeProblems: a server that is silent has one problem, whatever it reported.
NodeProblems(row) == CASE row.seen = "never"    -> {}
                       [] row.seen = "long ago" -> {"offline"}
                       [] row.seen = "lately"   -> row.stats

\* checkNodes: the rows of all servers that are not disabled are read at once.
ReadServers(w) ==
  /\ watch[w].pc = "servers"
  /\ watch' = [watch EXCEPT ![w] =
       [pc |-> "tell", left |-> {m \in Machine : ~host[m].disabled}, rows |-> host]]
  /\ UNCHANGED <<checks, watched, incident, host, notice, watches, changes>>

\* Then staff is told, server by server, of what the row of then does not say.
Tell(w, m) ==
  /\ watch[w].pc = "tell" /\ m \in watch[w].left
  /\ LET now == NodeProblems(watch[w].rows[m])
         old == watch[w].rows[m].alerts
     IN /\ notice' = [notice EXCEPT ![m] = [k \in Problem |->
                        [opened |-> @[k].opened + (IF k \in now \ old THEN 1 ELSE 0),
                         closed |-> @[k].closed + (IF k \in old \ now THEN 1 ELSE 0)]]]
        /\ host' = IF now # old THEN [host EXCEPT ![m].alerts = now] ELSE host
  /\ watch' = [watch EXCEPT ![w].left = @ \ {m}]
  /\ UNCHANGED <<checks, watched, incident, watches, changes>>

EndWatch(w) ==
  /\ watch[w].pc = "tell" /\ watch[w].left = {}
  /\ watch' = [watch EXCEPT ![w] = Unstarted]
  /\ UNCHANGED <<checks, watched, incident, host, notice, watches, changes>>

MonitoringNext ==
  \/ SiteStops
  \/ \E m \in Machine : Heartbeat(m) \/ FallsSilent(m) \/ SwitchMachine(m)
  \/ \E w \in Watch : StartWatch(w) \/ Probe(w) \/ Record(w) \/ ReadServers(w) \/ EndWatch(w)
  \/ \E w \in Watch, m \in Machine : Tell(w, m)

MonitoringSpec == MonitoringInit /\ [][MonitoringNext]_monVars

-----------------------------------------------------------------------------
(* Properties.                                                             *)

\* "Two failures in a row make an incident; the first success afterwards closes
\* it": the customer has been told of an open incident exactly when the two
\* newest checks failed, and of each beginning and each end once.
IncidentsPaired ==
  incident.opened = incident.closed + (IF BothFailed(Newest) THEN 1 ELSE 0)

\* "each new problem once, and once more when it is gone": what staff was told
\* last of every problem of a server is what the server's row says.
AlertsPaired ==
  \A m \in Machine, k \in Problem :
    notice[m][k].opened = notice[m][k].closed + (IF k \in host[m].alerts THEN 1 ELSE 0)

NoticesRight == IncidentsPaired /\ AlertsPaired
=============================================================================
