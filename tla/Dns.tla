--------------------------------- MODULE Dns ---------------------------------
(***************************************************************************)
(* A domain hosted here: its records and their snapshots, changed by the   *)
(* customer and by the panel, and the name servers, one on every node,     *)
(* which get the whole data set with each change.                          *)
(*                                                                         *)
(* A request is a sequence of statements; with more than one in Editor     *)
(* they interleave.  The jobs of a node are done one after the other, as   *)
(* SerialExecution promises.                                               *)
(***************************************************************************)
EXTENDS Integers, Sequences, FiniteSetsExt, SequencesExt

CONSTANTS
  Ns,            \* nodes
  Editor,        \* requests in progress
  Own,           \* a name the customer fills
  Base,          \* the base domain of a node
  Apart,         \* customers put no CNAME where the panel puts addresses
  SnapshotsKept,
  Nothing,       \* no zone, no work, no answer
  MaxEdits,      \* bound: requests
  MaxNsFailed,   \* bound: syncs that fail
  MaxToggles     \* bound: nodes that join or are switched off

ASSUME DnsBounds ==
  /\ {MaxEdits, MaxNsFailed, MaxToggles} \subseteq Nat
  /\ SnapshotsKept \in Nat \ {0}
  /\ Own # Base /\ Apart \in BOOLEAN

VARIABLES
  zone,      \* the records
  snaps,     \* dns_snapshots, newest first
  settings,  \* how often the settings of the name servers were changed
  member,    \* the nodes that are not disabled
  asked,     \* what each request is doing
  syncs,     \* syncs[n]: queued jobs of a node, oldest first
  working,   \* working[n]: the payload a node works at
  serves,    \* serves[n]: the payload a name server answers from
  told,      \* told[n]: what became of the last sync of a member
  past,      \* what the customer's changes replaced, newest first
  wasted,    \* snapshots taken for a deletion that deleted nothing
  edits, nsFailed, toggles

dnsVars == <<zone, snaps, settings, member, asked, syncs, working, serves, told, past, wasted, edits, nsFailed, toggles>>
dnsNodes == <<member, working, serves, nsFailed, toggles>>
dnsPast  == <<past, wasted>>

Types  == {"A", "CNAME"}
Entry  == {r \in [name : {Own, Base}, type : Types] : Apart /\ r.name = Base => r.type = "A"}

\* A zone without records is not a zone that is not there.
ASSUME NothingIsNoZone == \A z \in SUBSET Entry : z # Nothing

Request(pc, by, recs) == [pc |-> pc, by |-> by, recs |-> recs, load |-> Nothing, todo |-> {}, at |-> {}]
Quiet  == Request("quiet", "nobody", {})
Current == [settings |-> settings, zone |-> zone]

Asking(w, pc)   == asked[w].pc = pc
Onward(w, pc) == asked' = [asked EXCEPT ![w].pc = pc]
Asks(w, pc, by, recs) == asked' = [asked EXCEPT ![w] = Request(pc, by, recs)]
Begin(w) == Asking(w, "quiet") /\ edits < MaxEdits /\ edits' = edits + 1

DnsTypeOK ==
  /\ zone = Nothing \/ zone \subseteq Entry
  /\ \A k \in DOMAIN snaps : snaps[k] \subseteq Entry
  /\ Len(snaps) <= SnapshotsKept + Cardinality(Editor)
  /\ member \subseteq Ns
  /\ \A n \in Ns : Len(syncs[n]) <= Cardinality(Editor)
  /\ told \in [Ns -> {"nothing", "queued", "done", "failed"}]

DnsInit ==
  /\ zone = Nothing /\ snaps = <<>> /\ settings = 0
  /\ member = Ns
  /\ asked = [w \in Editor |-> Quiet]
  /\ syncs = [n \in Ns |-> <<>>]
  /\ working = [n \in Ns |-> Nothing]
  /\ serves = [n \in Ns |-> Nothing]
  /\ told = [n \in Ns |-> "nothing"]
  /\ past = <<>> /\ wasted = 0
  /\ edits = 0 /\ nsFailed = 0 /\ toggles = 0

-----------------------------------------------------------------------------
(* Changes.                                                                *)

CreateZone(w) ==
  /\ Begin(w)
  /\ zone = Nothing /\ zone' = {} /\ snaps' = <<>> /\ past' = <<>> /\ wasted' = 0
  /\ Asks(w, "sync", "create", {})
  /\ UNCHANGED <<settings, syncs, told, dnsNodes>>

\* The snapshots go with the zone.
DeleteZone(w) ==
  /\ Begin(w)
  /\ zone # Nothing /\ zone' = Nothing /\ snaps' = <<>> /\ past' = <<>> /\ wasted' = 0
  /\ Asks(w, "sync", "delete", {})
  /\ UNCHANGED <<settings, syncs, told, dnsNodes>>

SaveDnsSettings(w) ==
  /\ Begin(w)
  /\ settings' = settings + 1
  /\ Asks(w, "sync", "settings", {})
  /\ UNCHANGED <<zone, snaps, syncs, told, dnsPast, dnsNodes>>

SyncDnsNow(w) ==
  /\ Begin(w)
  /\ Asks(w, "sync", "staff", {})
  /\ UNCHANGED <<zone, snaps, settings, syncs, told, dnsPast, dnsNodes>>

\* A CNAME shares its name with nothing.
Clashes(r, have) ==
  \E h \in have : h.name = r.name /\ (r.type = "CNAME" \/ h.type = "CNAME")

\* A record that is there, or that a CNAME keeps out, is not taken.
Fits(r, have) == IF r \in have \/ Clashes(r, have) THEN {} ELSE {r}

\* The records of a template or of a file, here two at the most, one after the
\* other; what was accepted counts for the one behind it.
Fitting(r, more, have) ==
  LET first == Fits(r, have)
  IN first \cup UNION {Fits(s, have \cup first) : s \in more}

\* addRecord, addDnsRecords: the records are read, the new ones compared.
AddRecords(w) ==
  \E r \in Entry, more \in {{}} \cup {{s} : s \in Entry} :
    /\ Begin(w) /\ zone # Nothing
    /\ Fitting(r, more, zone) # {}
    /\ Asks(w, "snap", "add", Fitting(r, more, zone))
    /\ UNCHANGED <<zone, snaps, settings, syncs, told, dnsPast, dnsNodes>>

\* A record to delete may be gone by now.
DeleteRecord(w) ==
  \E r \in Entry :
    /\ Begin(w) /\ zone # Nothing
    /\ Asks(w, "snap", "remove", {r})
    /\ UNCHANGED <<zone, snaps, settings, syncs, told, dnsPast, dnsNodes>>

RestoreZoneSnapshot(w) ==
  \E k \in DOMAIN snaps :
    /\ Begin(w)
    /\ Asks(w, "snap", "restore", snaps[k])
    /\ UNCHANGED <<zone, snaps, settings, syncs, told, dnsPast, dnsNodes>>

\* A node of the panel puts its address into the zone: no snapshot, and only
\* an address of the same name keeps it from doing so.
PublishNodeDns(w) ==
  LET r == [name |-> Base, type |-> "A"]
  IN /\ Begin(w) /\ zone # Nothing /\ r \notin zone
     /\ Asks(w, "change", "panel", {r})
     /\ UNCHANGED <<zone, snaps, settings, syncs, told, dnsPast, dnsNodes>>

\* snapshotZone: insert, look, delete.
SnapshotZone(w) ==
  /\ Asking(w, "snap")
  /\ IF zone = Nothing THEN asked' = [asked EXCEPT ![w] = Quiet] /\ UNCHANGED snaps
     ELSE snaps' = <<zone>> \o snaps /\ Onward(w, "trim")
  /\ UNCHANGED <<zone, settings, syncs, told, edits, dnsPast, dnsNodes>>

KeptSnaps == SubSeq(snaps, 1, SnapshotsKept)

TrimSnapshots(w) ==
  /\ Asking(w, "trim")
  /\ snaps' = IF Len(snaps) > SnapshotsKept THEN KeptSnaps ELSE snaps
  /\ Onward(w, "change")
  /\ UNCHANGED <<zone, settings, syncs, told, edits, dnsPast, dnsNodes>>

\* The change itself, and the serial; a zone that is gone takes no records.
ChangeRecords(w) ==
  LET by   == asked[w].by
      recs == asked[w].recs
      to   == CASE by \in {"add", "panel"} -> zone \cup recs
                [] by = "remove"           -> zone \ recs
                [] by = "restore"          -> recs
      idle == by = "remove" /\ recs \cap zone = {}
  IN /\ Asking(w, "change")
     /\ IF zone = Nothing
        THEN asked' = [asked EXCEPT ![w] = Quiet] /\ UNCHANGED <<zone, dnsPast>>
        ELSE /\ zone' = to
             /\ past' = IF by = "panel" \/ idle THEN past ELSE <<zone>> \o past
             /\ wasted' = IF idle THEN wasted + 1 ELSE wasted
             /\ asked' = IF idle THEN [asked EXCEPT ![w] = Quiet] ELSE [asked EXCEPT ![w].pc = "sync"]
     /\ UNCHANGED <<snaps, settings, syncs, told, edits, dnsNodes>>

-----------------------------------------------------------------------------
(* syncDns.                                                                *)

\* The settings, the zones and the nodes are read,
ReadZones(w) ==
  /\ Asking(w, "sync")
  /\ asked' = IF member = {} THEN [asked EXCEPT ![w] = Quiet]
              ELSE [asked EXCEPT ![w].pc = "cancel", ![w].load = Current, ![w].todo = member]
  /\ UNCHANGED <<zone, snaps, settings, syncs, told, edits, dnsPast, dnsNodes>>

\* for each node the queued sync is cancelled,
CancelSync(w) ==
  \E n \in asked[w].todo :
    /\ Asking(w, "cancel")
    /\ syncs' = [syncs EXCEPT ![n] = <<>>]
    /\ asked' = [asked EXCEPT ![w].pc = "queue", ![w].todo = @ \ {n}, ![w].at = {n}]
    /\ UNCHANGED <<zone, snaps, settings, told, edits, dnsPast, dnsNodes>>

\* Mutant: a node that is at a sync needs no other.
QueuedUnless(n, load) == IF working[n] = Nothing THEN <<load>> ELSE <<>>
Queued(n, load) == Append(syncs[n], load)

\* and the new one inserted.
QueueSync(w) ==
  \E n \in asked[w].at :
    /\ Asking(w, "queue")
    /\ syncs' = [syncs EXCEPT ![n] = Queued(n, asked[w].load)]
    /\ told' = [told EXCEPT ![n] = "queued"]
    /\ asked' = IF asked[w].todo = {} THEN [asked EXCEPT ![w] = Quiet]
                ELSE [asked EXCEPT ![w].pc = "cancel", ![w].at = {}]
    /\ UNCHANGED <<zone, snaps, settings, edits, dnsPast, dnsNodes>>

-----------------------------------------------------------------------------
(* Nodes.                                                                  *)

dnsPanel == <<zone, snaps, settings, asked, edits, dnsPast>>

\* An agent takes the next sync: the name server is removed,
SyncStart(n) ==
  /\ n \in member /\ working[n] = Nothing /\ syncs[n] # <<>>
  /\ working' = [working EXCEPT ![n] = Head(syncs[n])]
  /\ syncs' = [syncs EXCEPT ![n] = Tail(@)]
  /\ serves' = [serves EXCEPT ![n] = Nothing]
  /\ UNCHANGED <<dnsPanel, member, told, nsFailed, toggles>>

\* and started again with the new files, unless that fails.
SyncEnd(n) ==
  /\ working[n] # Nothing
  /\ \/ /\ serves' = [serves EXCEPT ![n] = working[n]]
        /\ told' = [told EXCEPT ![n] = IF @ = "queued" /\ syncs[n] = <<>> THEN "done" ELSE @]
        /\ UNCHANGED nsFailed
     \/ /\ nsFailed < MaxNsFailed /\ nsFailed' = nsFailed + 1
        /\ told' = [told EXCEPT ![n] = IF @ = "queued" /\ syncs[n] = <<>> THEN "failed" ELSE @]
        /\ UNCHANGED serves
  /\ working' = [working EXCEPT ![n] = Nothing]
  /\ UNCHANGED <<dnsPanel, syncs, member, toggles>>

\* Staff switches a node off, or on again; nothing is queued for it then.
ToggleNode(n) ==
  /\ toggles < MaxToggles /\ toggles' = toggles + 1
  /\ member' = IF n \in member THEN member \ {n} ELSE member \cup {n}
  /\ told' = [told EXCEPT ![n] = "nothing"]
  /\ UNCHANGED <<dnsPanel, syncs, working, serves, nsFailed>>

-----------------------------------------------------------------------------
DnsSteps(w) ==
  SnapshotZone(w) \/ TrimSnapshots(w) \/ ChangeRecords(w) \/ ReadZones(w) \/ CancelSync(w) \/ QueueSync(w)

DnsNext ==
  \/ \E w \in Editor :
       \/ CreateZone(w) \/ DeleteZone(w) \/ SaveDnsSettings(w) \/ SyncDnsNow(w)
       \/ AddRecords(w) \/ DeleteRecord(w) \/ RestoreZoneSnapshot(w) \/ PublishNodeDns(w)
       \/ DnsSteps(w)
  \/ \E n \in Ns : SyncStart(n) \/ SyncEnd(n) \/ ToggleNode(n)

\* Requests come to an end, agents poll and work.
DnsFairness ==
  /\ \A w \in Editor : WF_dnsVars(DnsSteps(w))
  /\ \A n \in Ns : WF_dnsVars(SyncStart(n)) /\ WF_dnsVars(SyncEnd(n))

-----------------------------------------------------------------------------
(* Properties.                                                             *)

\* "Call before changing it": what the customer's last changes replaced is
\* still among the snapshots, as many as are kept; restoring one "can be
\* undone" as well.
ChangesUndoable ==
  LET taken == wasted + Cardinality({w \in Editor : asked[w].pc \in {"trim", "change"}})
  IN zone # Nothing => \A k \in DOMAIN past : k + taken <= SnapshotsKept => past[k] \in ToSet(snaps)

\* "A CNAME cannot coexist with other records of the same name", nor does a
\* template, a file or a snapshot bring that about.
NamesApart == zone # Nothing => \A r \in zone : ~Clashes(r, zone \ {r})

\* "Each gets the complete, current data set": when the last sync queued for a
\* node was done, and nobody is changing anything, its name server answers from
\* what the panel shows.
Settled == \A w \in Editor : asked[w].pc \in {"quiet", "snap", "trim"}
ServersCurrent == \A n \in Ns : Settled /\ told[n] = "done" => serves[n] = Current

DnsRight == ChangesUndoable /\ NamesApart /\ ServersCurrent

\* A name server that was taken down answers again, when the sync did not fail.
NamesAnswered == \A n \in Ns : told[n] = "queued" ~> told[n] \in {"done", "failed"} \/ n \notin member
=============================================================================
