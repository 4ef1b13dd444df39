------------------------------ MODULE Settings ------------------------------
(***************************************************************************)
(* The settings of the sites of one node: a configuration, written back    *)
(* whole with every change, host names, variable groups the sites of a     *)
(* company share, and the SFTP port.  Each change queues an update that    *)
(* carries the complete specification, and the node makes the site anew.   *)
(*                                                                         *)
(* A request is a sequence of statements; with more than one Desk they     *)
(* interleave.  The jobs of a site are done one after the other, as        *)
(* SerialExecution promises.                                               *)
(***************************************************************************)
EXTENDS Naturals, Sequences, FiniteSetsExt, SequencesExt

CONSTANTS
  Wp, App,       \* live WordPress sites and applications
  Twin,          \* rows for staging copies
  Host,          \* host names of customers
  Group,         \* variable groups
  Desk,          \* requests in progress
  MaxTwins,      \* MAX_STAGING
  MaxForms,      \* bound: requests
  MaxBroken,     \* bound: updates that fail
  Plain,         \* only sites without SFTP are copied; none is deleted while its deletion is queued
  Sys, Nil      \* the generated host name; nothing

ASSUME SettingsBounds ==
  /\ {MaxTwins, MaxForms, MaxBroken} \subseteq Nat
  /\ Plain \in BOOLEAN
  /\ Wp \cap App = {} /\ (Wp \cup App) \cap Twin = {}
  /\ IsFiniteSet(Wp \cup App \cup Twin) /\ Nil \notin Wp \cup App \cup Twin

VARIABLES
  life,      \* workloads.status, as far as it matters here
  cfg,       \* workloads.config: own settings, groups, SFTP
  slug,      \* the slug of a copy: its site and a number
  at,        \* domains: the site a host name belongs to
  primary,   \* domains.isPrimary
  shared,      \* the version of a group, 0 when there is none
  desk,      \* what each request is doing
  queued,      \* queued[w]: queued jobs of a site, oldest first
  runs,      \* runs[w]: the specification the containers were made from
  opens,     \* opens[w]: the port its SFTP container publishes, or 0
  fine,      \* the sites whose last update succeeded
  wish,      \* history: what was last asked for each part of a configuration
  refused,   \* history: copies the unique slug refused
  forms, broken

setVars == <<life, cfg, slug, at, primary, shared, desk, queued, runs, opens, fine, wish, refused, forms, broken>>
setNode == <<runs, opens, fine, broken>>
setRows == <<life, slug, at, primary, shared, refused>>
setConf == <<cfg, wish>>

Sited    == Wp \cup App \cup Twin
Fresh    == [own |-> 0, groups |-> {}, on |-> FALSE, port |-> 0]
Blank    == [n |-> 0, gs |-> {}, on |-> FALSE]
Away     == [pc |-> "away", op |-> "none", w |-> Nil, mine |-> Fresh, val |-> Blank, left |-> <<>>, spec |-> Nil]
Stands   == {w \in Sited : life[w] \notin {"none", "deleted"}}
Live     == {w \in Sited : life[w] = "live"}
TwinsOf(w) == {c \in Twin \cap Stands : slug[c].of = w}
\* A deletion is in the queue.
Condemned(w) == \E k \in DOMAIN queued[w] : queued[w][k].kind = "delete"

Sits(d, pc)  == desk[d].pc = pc
Moves(d, pc) == desk' = [desk EXCEPT ![d].pc = pc]
Closes(d)    == desk' = [desk EXCEPT ![d] = Away]
\* The request goes on to build and queue jobs for these sites.
Applies(d, ws, kind) ==
  desk' = [desk EXCEPT ![d] = IF ws = {} THEN Away
             ELSE [@ EXCEPT !.pc = "build", !.left = [k \in 1 .. Cardinality(ws) |-> [w |-> SetToSeq(ws)[k], kind |-> kind]]]]
OpensForm(d, op, w, val, pc) ==
  /\ Sits(d, "away") /\ forms < MaxForms /\ forms' = forms + 1
  /\ desk' = [desk EXCEPT ![d] = [Away EXCEPT !.pc = pc, !.op = op, !.w = w, !.mine = IF w = Nil THEN Fresh ELSE cfg[w], !.val = val]]
  /\ UNCHANGED <<setRows, setConf, queued, setNode>>

\* buildSpec: the primary host name comes first, else the oldest.
First(w) == IF primary[w] = {} \/ Sys \in primary[w] THEN Sys ELSE CHOOSE h \in primary[w] : TRUE
SpecOf(w) == [own |-> cfg[w].own, on |-> cfg[w].on, port |-> IF cfg[w].on THEN cfg[w].port ELSE 0,
              shared |-> [g \in cfg[w].groups |-> shared[g]],
              hosts |-> {h \in Host : at[h] = w}, first |-> First(w)]

SettingsTypeOK ==
  /\ life \in [Sited -> {"none", "live", "error", "deleting", "deleted"}]
  /\ \A w \in Sited : cfg[w].groups \subseteq Group /\ cfg[w].own \in 0 .. MaxForms /\ primary[w] \subseteq Host \cup {Sys}
  /\ at \in [Host -> Sited \cup {Nil}]
  /\ shared \in [Group -> 0 .. MaxForms]
  /\ \A w \in Sited : \A k \in DOMAIN queued[w] : queued[w][k].kind \in {"update", "clone", "push", "delete"}
  /\ fine \subseteq Sited

SettingsInit ==
  /\ life = [w \in Sited |-> IF w \in Twin THEN "none" ELSE "live"]
  /\ cfg = [w \in Sited |-> Fresh]
  /\ slug = [c \in Twin |-> [of |-> Nil, n |-> 0]]
  /\ at = [h \in Host |-> Nil]
  /\ primary = [w \in Sited |-> {Sys}]
  /\ shared = [g \in Group |-> 0]
  /\ desk = [d \in Desk |-> Away]
  /\ queued = [w \in Sited |-> <<>>]
  /\ runs = [w \in Sited |-> IF w \in Twin THEN Nil ELSE [own |-> 0, on |-> FALSE, port |-> 0, shared |-> <<>>, hosts |-> {}, first |-> Sys]]
  /\ opens = [w \in Sited |-> 0]
  /\ fine = Sited
  /\ wish = cfg
  /\ refused = {} /\ forms = 0 /\ broken = 0

-----------------------------------------------------------------------------
(* The configuration.                                                      *)

\* Nobody changes a site whose deletion was asked for; Workloads has what comes
\* of that.  load, then updateWorkloadConfig with a patch: PHP, redirects, denied
\* addresses, cache, bots, scale, crons, keys, source, and the like.
SaveConfig(d, w) == w \in Live /\ OpensForm(d, "own", w, [Blank EXCEPT !.n = forms + 1], "write")

\* What reaches no container: the mode of automatic updates, previews, scans.
SaveQuietly(d, w) == w \in Live /\ OpensForm(d, "quiet", w, Blank, "write")

AttachEnvGroups(d, w) ==
  /\ w \in App \cap Live
  /\ \E gs \in SUBSET {g \in Group : shared[g] > 0} : OpensForm(d, "groups", w, [Blank EXCEPT !.gs = gs], "write")

SetSftp(d, w) ==
  /\ w \in (Wp \cup Twin) \cap Live
  /\ \E on \in BOOLEAN : OpensForm(d, "sftp", w, [Blank EXCEPT !.on = on], IF on /\ cfg[w].port = 0 THEN "ports" ELSE "write")

\* The lowest port no site of the node has, whether it is switched on or not.
LowestPort(d) == Min({p \in 1 .. Cardinality(Sited) : \A v \in Stands : cfg[v].port # p})

AllocatePort(d) ==
  /\ Sits(d, "ports")
  /\ desk' = [desk EXCEPT ![d].pc = "write", ![d].mine.port = LowestPort(d)]
  /\ UNCHANGED <<setRows, setConf, queued, forms, setNode>>

\* The configuration that was read is written whole, with the change.
Patched(d) ==
  LET mine == desk[d].mine
      val  == desk[d].val
  IN CASE desk[d].op = "own"    -> [mine EXCEPT !.own = val.n]
       [] desk[d].op = "groups" -> [mine EXCEPT !.groups = val.gs]
       [] desk[d].op = "sftp"   -> [mine EXCEPT !.on = val.on]
       [] OTHER                 -> mine
WishOf(d, w) ==
  CASE desk[d].op = "own"    -> [wish[w] EXCEPT !.own = desk[d].val.n]
    [] desk[d].op = "groups" -> [wish[w] EXCEPT !.groups = desk[d].val.gs]
    [] desk[d].op = "sftp"   -> [wish[w] EXCEPT !.on = desk[d].val.on]
    [] OTHER                 -> wish[w]

WriteConfig(d) ==
  LET w == desk[d].w
  IN /\ Sits(d, "write")
     /\ cfg' = [cfg EXCEPT ![w] = Patched(d)]
     /\ wish' = [wish EXCEPT ![w] = WishOf(d, w)]
     /\ Applies(d, IF desk[d].op = "quiet" THEN {} ELSE {w}, "update")
     /\ UNCHANGED <<setRows, queued, forms, setNode>>

-----------------------------------------------------------------------------
(* Host names and groups.                                                  *)

\* A host name that is taken is refused by the index.
AddDomain(d, w, h) ==
  /\ w \in Live /\ at[h] = Nil
  /\ Sits(d, "away") /\ forms < MaxForms /\ forms' = forms + 1
  /\ at' = [at EXCEPT ![h] = w]
  /\ Applies(d, {w}, "update")
  /\ UNCHANGED <<life, slug, primary, shared, refused, setConf, queued, setNode>>

\* The row is deleted; what was primary hands that on in a later statement.
RemoveDomain(d, w, h) ==
  /\ w \in Live /\ at[h] = w
  /\ Sits(d, "away") /\ forms < MaxForms /\ forms' = forms + 1
  /\ at' = [at EXCEPT ![h] = Nil]
  /\ primary' = [primary EXCEPT ![w] = @ \ {h}]
  /\ IF h \in primary[w] THEN desk' = [desk EXCEPT ![d] = [Away EXCEPT !.pc = "next", !.w = w]]
                         ELSE Applies(d, {w}, "update")
  /\ UNCHANGED <<life, slug, shared, refused, setConf, queued, setNode>>

\* Mutant: the others stay what they are.
HandsNothing(w) == primary[w]
HandsOn(w) == primary[w] \cup {Sys}

NextPrimary(d) ==
  LET w == desk[d].w
  IN /\ Sits(d, "next")
     /\ primary' = [primary EXCEPT ![w] = HandsOn(w)]
     /\ Applies(d, {w}, "update")
     /\ UNCHANGED <<life, slug, at, shared, refused, setConf, queued, forms, setNode>>

SetPrimaryDomain(d, w, h) ==
  /\ w \in Live /\ h \in {Sys} \cup {x \in Host : at[x] = w}
  /\ Sits(d, "away") /\ forms < MaxForms /\ forms' = forms + 1
  /\ primary' = [primary EXCEPT ![w] = {h}]
  /\ Applies(d, {w}, "update")
  /\ UNCHANGED <<life, slug, at, shared, refused, setConf, queued, setNode>>

SaveEnvGroup(d, g) ==
  /\ Sits(d, "away") /\ forms < MaxForms /\ forms' = forms + 1
  /\ shared' = [shared EXCEPT ![g] = @ + 1]
  /\ desk' = [desk EXCEPT ![d] = [Away EXCEPT !.pc = "users", !.val.gs = {g}]]
  /\ UNCHANGED <<life, slug, at, primary, refused, setConf, queued, setNode>>

UsersOf(gs) == {w \in Stands : cfg[w].groups \cap gs # {}}

\* Every site that uses the group is applied anew.
UsersOfGroup(d) ==
  /\ Sits(d, "users")
  /\ Applies(d, UsersOf(desk[d].val.gs), "update")
  /\ UNCHANGED <<setRows, setConf, queued, forms, setNode>>

\* Looked for users first, deleted then.
DeleteEnvGroup(d, g) == shared[g] > 0 /\ UsersOf({g}) = {} /\ OpensForm(d, "drop", Nil, [Blank EXCEPT !.gs = {g}], "drop")
DropGroup(d) ==
  /\ Sits(d, "drop")
  /\ shared' = [g \in Group |-> IF g \in desk[d].val.gs THEN 0 ELSE shared[g]]
  /\ Closes(d)
  /\ UNCHANGED <<life, slug, at, primary, refused, setConf, queued, forms, setNode>>

-----------------------------------------------------------------------------
(* Copies.                                                                 *)

\* createStaging: the copies that stand are counted,
CreateStaging(d, w) ==
  /\ w \in Wp \cap Live
  /\ Plain => ~cfg[w].on /\ cfg[w].port = 0
  /\ Cardinality(TwinsOf(w)) < MaxTwins
  /\ OpensForm(d, "stage", w, [Blank EXCEPT !.n = Cardinality(TwinsOf(w)) + 1], "insert")

\* and the row takes the whole configuration of the site.  A deleted copy
\* keeps its row, and its slug.
InsertStaging(d) ==
  LET w == desk[d].w
      s == [of |-> w, n |-> desk[d].val.n]
  IN /\ Sits(d, "insert")
     /\ IF \E c \in Twin : slug[c] = s
        THEN refused' = refused \cup {s} /\ Closes(d) /\ UNCHANGED <<life, slug, setConf>>
        ELSE \E c \in Twin :
               /\ life[c] = "none"
               /\ life' = [life EXCEPT ![c] = "live"]
               /\ slug' = [slug EXCEPT ![c] = s]
               /\ cfg' = [cfg EXCEPT ![c] = desk[d].mine]
               /\ wish' = [wish EXCEPT ![c] = desk[d].mine]
               /\ Applies(d, {c}, "clone")
               /\ UNCHANGED refused
     /\ UNCHANGED <<at, primary, shared, queued, forms, setNode>>

\* The copy's files and data replace the site's, with the site's settings.
PushStaging(d, w) ==
  /\ w \in Wp \cap Live /\ TwinsOf(w) \cap Live # {}
  /\ Sits(d, "away") /\ forms < MaxForms /\ forms' = forms + 1
  /\ Applies(d, {w}, "push")
  /\ UNCHANGED <<setRows, setConf, queued, setNode>>

DeleteSite(d, w) ==
  /\ w \in Stands /\ life[w] # "deleting"
  /\ Plain => \A v \in {w} \cup TwinsOf(w) : ~Condemned(v)
  /\ Sits(d, "away") /\ forms < MaxForms /\ forms' = forms + 1
  /\ desk' = [desk EXCEPT ![d] = [Away EXCEPT !.pc = "build", !.left =
       IF w \in Wp THEN Append([k \in 1 .. Cardinality(TwinsOf(w)) |-> [w |-> SetToSeq(TwinsOf(w))[k], kind |-> "delete"]], [w |-> w, kind |-> "delete"])
                   ELSE <<[w |-> w, kind |-> "delete"]>>]]
  /\ UNCHANGED <<setRows, setConf, queued, setNode>>

-----------------------------------------------------------------------------
(* applyWorkload, and the like: load, buildSpec, enqueue.                  *)

NextErrand(d) ==
  IF Len(desk[d].left) = 1 THEN Away ELSE [desk[d] EXCEPT !.pc = "build", !.left = Tail(desk[d].left)]

BuildSpec(d) ==
  LET job == Head(desk[d].left)
  IN /\ Sits(d, "build")
     /\ IF job.w \notin Stands
        THEN /\ desk' = [desk EXCEPT ![d] = NextErrand(d)]
             /\ UNCHANGED life
        ELSE /\ desk' = [desk EXCEPT ![d].pc = "queue", ![d].spec = SpecOf(job.w)]
             /\ life' = IF job.kind = "delete" THEN [life EXCEPT ![job.w] = "deleting"] ELSE life
     /\ UNCHANGED <<slug, at, primary, shared, refused, setConf, queued, forms, setNode>>

QueueJob(d) ==
  LET job == Head(desk[d].left)
  IN /\ Sits(d, "queue")
     /\ queued' = [queued EXCEPT ![job.w] = Append(@, [kind |-> job.kind, spec |-> desk[d].spec])]
     /\ desk' = [desk EXCEPT ![d] = NextErrand(d)]
     /\ UNCHANGED <<setRows, setConf, forms, setNode>>

-----------------------------------------------------------------------------
(* The node.                                                               *)

setPanel == <<slug, shared, refused, setConf, desk, forms>>

\* syncSftp publishes the port, unless another container has it.
PortTaken(w, spec) == spec.on /\ w \notin App /\ \E v \in Sited \ {w} : opens[v] = spec.port

Remade(w, spec, port) ==
  /\ runs' = [runs EXCEPT ![w] = spec]
  /\ opens' = [opens EXCEPT ![w] = port]

\* A site is made anew, and then its SFTP container.
UpdateJob(w) ==
  LET job  == Head(queued[w])
      port == IF w \in App THEN 0 ELSE job.spec.port
  IN /\ queued[w] # <<>> /\ job.kind = "update"
     /\ queued' = [queued EXCEPT ![w] = Tail(@)]
     /\ \/ /\ runs[w] # Nil /\ ~PortTaken(w, job.spec)
           /\ Remade(w, job.spec, port)
           /\ fine' = fine \cup {w} /\ UNCHANGED broken
        \/ /\ IF runs[w] = Nil THEN UNCHANGED <<runs, opens, broken>>
              ELSE IF PortTaken(w, job.spec) THEN Remade(w, job.spec, 0) /\ UNCHANGED broken
              ELSE /\ broken < MaxBroken /\ broken' = broken + 1
                   /\ \/ UNCHANGED <<runs, opens>>
                      \/ w \notin App /\ Remade(w, job.spec, 0)
                      \/ w \notin App /\ Remade(w, job.spec, port)
           /\ fine' = fine \ {w}
     /\ UNCHANGED <<life, at, primary, setPanel>>

\* A copy, or what comes back from one: no SFTP.
CloneJob(w) ==
  LET job == Head(queued[w])
  IN /\ queued[w] # <<>> /\ job.kind \in {"clone", "push"}
     /\ queued' = [queued EXCEPT ![w] = Tail(@)]
     /\ \/ /\ Remade(w, job.spec, opens[w])
           /\ UNCHANGED <<life, fine, broken>>
        \/ /\ broken < MaxBroken /\ broken' = broken + 1
           /\ life' = [life EXCEPT ![w] = "error"]
           /\ fine' = fine \ {w}
           /\ UNCHANGED opens /\ \E r \in {runs[w], job.spec} : runs' = [runs EXCEPT ![w] = r]
     /\ UNCHANGED <<at, primary, setPanel>>

\* The containers go, then the host names, then the row.
DeleteJob(w) ==
  /\ queued[w] # <<>> /\ Head(queued[w]).kind = "delete"
  /\ queued' = [queued EXCEPT ![w] = Tail(@)]
  /\ \/ /\ Remade(w, Nil, 0)
        /\ at' = [h \in Host |-> IF at[h] = w THEN Nil ELSE at[h]]
        /\ primary' = [primary EXCEPT ![w] = {}]
        /\ life' = [life EXCEPT ![w] = "deleted"]
        /\ fine' = fine \cup {w} /\ UNCHANGED broken
     \/ /\ broken < MaxBroken /\ broken' = broken + 1
        /\ life' = [life EXCEPT ![w] = "error"]
        /\ fine' = fine \ {w}
        /\ UNCHANGED <<runs, opens, at, primary>>
  /\ UNCHANGED setPanel

-----------------------------------------------------------------------------
SettingsNext ==
  \/ \E d \in Desk, w \in Sited :
       \/ SaveConfig(d, w) \/ SaveQuietly(d, w) \/ AttachEnvGroups(d, w) \/ SetSftp(d, w)
       \/ \E h \in Host : AddDomain(d, w, h) \/ RemoveDomain(d, w, h) \/ SetPrimaryDomain(d, w, h)
       \/ SetPrimaryDomain(d, w, Sys)
       \/ CreateStaging(d, w) \/ PushStaging(d, w) \/ DeleteSite(d, w)
  \/ \E d \in Desk, g \in Group : SaveEnvGroup(d, g) \/ DeleteEnvGroup(d, g)
  \/ \E d \in Desk :
       \/ AllocatePort(d) \/ WriteConfig(d) \/ NextPrimary(d) \/ UsersOfGroup(d) \/ DropGroup(d)
       \/ InsertStaging(d) \/ BuildSpec(d) \/ QueueJob(d)
  \/ \E w \in Sited : UpdateJob(w) \/ CloneJob(w) \/ DeleteJob(w)

SettingsSpec == SettingsInit /\ [][SettingsNext]_setVars

-----------------------------------------------------------------------------
(* Properties.                                                             *)

NobodyAsks == \A d \in Desk : Sits(d, "away")

\* "Pushes the current desired state to the node": when the last job of a site
\* succeeded, it was made from what its customer last asked for, of every
\* setting, of the groups it uses and of its host names.
SettingsServed ==
  \A w \in Stands : NobodyAsks /\ queued[w] = <<>> /\ w \in fine =>
    /\ runs[w] = [SpecOf(w) EXCEPT !.own = wish[w].own, !.on = wish[w].on, !.shared = [g \in wish[w].groups |-> shared[g]]]
    /\ opens[w] = IF wish[w].on THEN cfg[w].port ELSE 0

\* "Never leave a site without a primary hostname", nor with two.
OnePrimary == NobodyAsks => \A w \in Stands : Cardinality(primary[w]) = 1

\* "Detach the group from its services first".
GroupsStay == \A w \in Stands : \A g \in cfg[w].groups : shared[g] > 0

\* "allocating a free port on the node": two sites never have the same, and a
\* port that was given to a site is open for no other.
PortsApart ==
  \A w, v \in Sited : w # v =>
    /\ {w, v} \subseteq Stands => cfg[w].port = 0 \/ cfg[w].port # cfg[v].port
    /\ w \in Stands /\ cfg[w].port # 0 => opens[v] # cfg[w].port

SettingsRight == SettingsServed /\ OnePrimary /\ GroupsStay /\ PortsApart

\* "A site can have up to three staging environments": while it has fewer,
\* nothing refuses another.
RoomForTwins == refused = {}
=============================================================================
