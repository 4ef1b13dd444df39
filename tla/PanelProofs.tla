----------------------------- MODULE PanelProofs -----------------------------
(***************************************************************************)
(* What customers subscribe to, for any number of nodes, records, names    *)
(* and calls.                                                              *)
(***************************************************************************)
EXTENDS MCPanel, FiniteSetTheorems, SequenceTheorems, TLAPS

-----------------------------------------------------------------------------
(* A zone and its name servers, as long as its requests come one after     *)
(* another and no customer puts a CNAME where the panel puts addresses.    *)
(*                                                                         *)
(* A request finds the zone it has read (Plans).  Snapshots are what a     *)
(* zone was, so that they hold no clash either (Records), and the k-th     *)
(* change back is no further down than the k-th snapshot, not counting     *)
(* those that nothing followed (WayBack).  A node that the request at work *)
(* need not come to any more has the current data last in its queue, or    *)
(* serves it (Answers).                                                    *)

OneEditor == \A v, w \in Editor : v = w

Payload   == [settings : Nat, zone : {Nothing} \cup SUBSET Entry]
Changing  == {"snap", "trim", "change"}
Sending   == {"cancel", "queue"}
AskedKind == [pc : {"quiet", "sync"} \cup Changing \cup Sending,
              by : {"nobody", "create", "delete", "settings", "staff", "add", "remove", "restore", "panel"},
              recs : SUBSET Entry, load : {Nothing} \cup Payload, todo : SUBSET Ns, at : SUBSET Ns]

ZoneTypes ==
  /\ zone = Nothing \/ zone \in SUBSET Entry
  /\ snaps \in Seq(SUBSET Entry) /\ past \in Seq(SUBSET Entry)
  /\ settings \in Nat /\ wasted \in Nat
  /\ member \in SUBSET Ns
  /\ asked \in [Editor -> AskedKind]
  /\ syncs \in [Ns -> Seq(Payload)]
  /\ working \in [Ns -> {Nothing} \cup Payload]
  /\ serves \in [Ns -> {Nothing} \cup Payload]
  /\ told \in [Ns -> {"nothing", "queued", "done", "failed"}]

Apiece(rs) == \A r \in rs : ~Clashes(r, rs \ {r})

Plans ==
  /\ zone = Nothing => snaps = <<>>
  /\ \A w \in Editor : asked[w].pc \in Changing =>
       /\ zone # Nothing
       /\ asked[w].by \in {"add", "remove", "restore", "panel"}
       /\ asked[w].by = "panel" => asked[w].pc = "change" /\ asked[w].recs = {[name |-> Base, type |-> "A"]}
       /\ asked[w].by = "add" => Apiece(zone \cup asked[w].recs)
       /\ asked[w].by = "restore" => Apiece(asked[w].recs)

Records ==
  /\ zone # Nothing => Apiece(zone)
  /\ \A k \in DOMAIN snaps : Apiece(snaps[k])

\* A request that has taken its snapshot.
Taken == \E w \in Editor : asked[w].pc \in {"trim", "change"} /\ asked[w].by # "panel"
Surplus == IF Taken THEN wasted + 1 ELSE wasted

WayBack ==
  zone # Nothing =>
    /\ Taken => snaps # <<>> /\ snaps[1] = zone
    /\ \A k \in DOMAIN past : k + Surplus <= SnapshotsKept =>
         \E j \in DOMAIN snaps : j <= k + Surplus /\ snaps[j] = past[k]

\* What a node is still to be sent.
Comes(w, n)  == asked[w].pc \in Sending /\ n \in asked[w].todo \cup asked[w].at
Behind(n)    == \E w \in Editor : asked[w].pc = "sync" \/ Comes(w, n)
Latest(n)    == IF syncs[n] = <<>> THEN working[n] ELSE syncs[n][Len(syncs[n])]

Answers ==
  /\ \A w \in Editor : asked[w].pc \notin Sending => asked[w].at = {}
  /\ \A w \in Editor : asked[w].pc \in Sending =>
       /\ asked[w].load = Current
       /\ asked[w].at \cap asked[w].todo = {}
       /\ asked[w].pc = "queue" => \E n \in Ns : asked[w].at = {n}
       /\ asked[w].pc = "cancel" => asked[w].at = {}
  /\ \A n \in Ns :
       /\ told[n] = "done" => syncs[n] = <<>> /\ working[n] = Nothing
       /\ n \notin member =>
            \/ told[n] = "nothing"
            \/ told[n] = "queued" /\ syncs[n] # <<>> /\ \A w \in Editor : ~Comes(w, n)
       /\ n \in member /\ ~Behind(n) =>
            /\ told[n] = "queued" => Latest(n) = Current
            /\ told[n] = "done" => serves[n] = Current

\* At most one sync waits at a node, one snapshot to be trimmed.
Room ==
  /\ Len(snaps) <= SnapshotsKept \/ (Len(snaps) = SnapshotsKept + 1 /\ \E w \in Editor : asked[w].pc = "trim")
  /\ \A n \in Ns : Len(syncs[n]) <= 1 /\ (syncs[n] # <<>> => Editor # {})
  /\ \A w \in Editor : asked[w].pc = "queue" => \A n \in asked[w].at : syncs[n] = <<>>

DnsInv == ZoneTypes /\ Plans /\ Records /\ WayBack /\ Answers /\ Room

\* Fewer records clash no more; a record that clashes with none joins them.
LEMMA ApieceSubset ==
  ASSUME NEW rs, NEW ss \in SUBSET rs, Apiece(rs)
  PROVE  Apiece(ss)
  BY DEF Apiece, Clashes

LEMMA ApieceAdd ==
  ASSUME NEW rs, NEW r, Apiece(rs), ~Clashes(r, rs)
  PROVE  Apiece(rs \cup {r})
  BY DEF Apiece, Clashes

\* What is taken of a template clashes with nothing.
LEMMA ApieceFits ==
  ASSUME NEW have, NEW r, Apiece(have)
  PROVE  Apiece(have \cup Fits(r, have)) /\ Fits(r, have) \subseteq {r}
  <1>1. CASE r \in have \/ Clashes(r, have)
    <2>1. have \cup Fits(r, have) = have
      BY <1>1 DEF Fits
    <2> QED BY <2>1, <1>1 DEF Fits
  <1>2. CASE ~(r \in have \/ Clashes(r, have))
    <2>1. have \cup Fits(r, have) = have \cup {r}
      BY <1>2 DEF Fits
    <2> QED BY <2>1, <1>2, ApieceAdd DEF Fits
  <1> QED BY <1>1, <1>2

LEMMA ApieceFitting ==
  ASSUME NEW have, NEW r \in Entry, NEW more \in {{}} \cup {{s} : s \in Entry}, Apiece(have)
  PROVE  Apiece(have \cup Fitting(r, more, have)) /\ Fitting(r, more, have) \subseteq Entry
  <1> DEFINE first == Fits(r, have)
  <1>1. Apiece(have \cup first) /\ first \subseteq Entry
    BY ApieceFits
  <1>2. CASE more = {}
    <2>1. Fitting(r, more, have) = first
      BY <1>2 DEF Fitting
    <2> QED BY <2>1, <1>1
  <1>3. CASE \E s \in Entry : more = {s}
    <2>1. PICK s \in Entry : more = {s}
      BY <1>3
    <2>2. Fitting(r, more, have) = first \cup Fits(s, have \cup first)
      BY <2>1 DEF Fitting
    <2> HIDE DEF first
    <2>3. Apiece((have \cup first) \cup Fits(s, have \cup first)) /\ Fits(s, have \cup first) \subseteq Entry
      BY <1>1, ApieceFits
    <2>4. have \cup Fitting(r, more, have) = (have \cup first) \cup Fits(s, have \cup first)
      BY <2>2
    <2> QED BY <2>2, <2>3, <2>4, <1>1
  <1> QED BY <1>2, <1>3

-----------------------------------------------------------------------------
(* Every step of a zone keeps the invariant.                               *)

LEMMA DnsInvInit == DnsInit => DnsInv
  <1> SUFFICES ASSUME DnsInit PROVE DnsInv
    OBVIOUS
  <1> USE DEF DnsInit
  <1>1. ZoneTypes
    BY DEF ZoneTypes, Quiet, Request, AskedKind
  <1>2. Plans /\ Records /\ WayBack
    BY DEF Plans, Records, WayBack, Quiet, Request, Changing
  <1>3. Answers
    BY DEF Answers, Quiet, Request, Sending
  <1>4. Room
    BY DnsBounds DEF Room, Quiet, Request
  <1> QED BY <1>1, <1>2, <1>3, <1>4 DEF DnsInv

LEMMA OnwardIsAsked ==
  ASSUME asked \in [Editor -> AskedKind], NEW w \in Editor, NEW pc \in {"quiet", "sync"} \cup Changing \cup Sending
  PROVE  [asked EXCEPT ![w].pc = pc] \in [Editor -> AskedKind]
  BY DEF AskedKind

LEMMA SendsIsAsked ==
  ASSUME asked \in [Editor -> AskedKind], NEW w \in Editor, NEW load \in Payload, NEW todo \in SUBSET Ns
  PROVE  [asked EXCEPT ![w].pc = "cancel", ![w].load = load, ![w].todo = todo] \in [Editor -> AskedKind]
  <1> DEFINE r == [asked[w] EXCEPT !.pc = "cancel", !.load = load, !.todo = todo]
  <1>1. asked[w] \in AskedKind
    OBVIOUS
  <1>2. r \in AskedKind
    BY <1>1 DEF AskedKind, Sending
  <1>3. [asked EXCEPT ![w].pc = "cancel", ![w].load = load, ![w].todo = todo] = [asked EXCEPT ![w] = r]
    OBVIOUS
  <1> HIDE DEF r
  <1> QED BY <1>2, <1>3

LEMMA RequestIsAsked ==
  ASSUME NEW pc \in {"sync", "snap", "change"}, NEW recs \in SUBSET Entry,
         NEW by \in {"create", "delete", "settings", "staff", "add", "remove", "restore", "panel"}
  PROVE  Request(pc, by, recs) \in AskedKind
  BY DEF Request, AskedKind, Changing, Sending

\* The rows a request leaves alone keep what is known of them.
LEMMA StartOfZone ==
  ASSUME OneEditor, DnsInv, NEW w \in Editor, CreateZone(w) \/ DeleteZone(w)
  PROVE  DnsInv'
  <1> USE DEF DnsInv, CreateZone, DeleteZone, Begin, Asking, Asks, dnsNodes
  <1>1. asked'[w].pc = "sync" /\ asked'[w].at = {} /\ \A v \in Editor : v = w
    BY DEF OneEditor, ZoneTypes, Request
  <1>2. ZoneTypes'
    <2>1. PICK by \in {"create", "delete", "settings", "staff"} : asked' = [asked EXCEPT ![w] = Request("sync", by, {})]
      OBVIOUS
    <2>2. Request("sync", by, {}) \in AskedKind
      BY RequestIsAsked
    <2>3. asked' \in [Editor -> AskedKind]
      BY <2>1, <2>2 DEF ZoneTypes
    <2>4. zone' = Nothing \/ zone' \in SUBSET Entry
      OBVIOUS
    <2>5. snaps' \in Seq(SUBSET Entry) /\ past' \in Seq(SUBSET Entry)
      <3>1. snaps' = <<>> /\ past' = <<>>
        OBVIOUS
      <3> QED BY <3>1, EmptySeq
    <2> QED BY <2>3, <2>4, <2>5 DEF ZoneTypes
  <1>3. Plans'
    BY <1>1 DEF Plans, Changing
  <1>4. Records'
    BY DEF Records, Apiece, Clashes
  <1>5. WayBack'
    BY <1>1 DEF WayBack, Taken
  <1>6. Answers'
    BY <1>1 DEF Answers, Sending, Behind, Comes
  <1>7. Room'
    BY <1>1, DnsBounds DEF Room, ZoneTypes
  <1> QED BY <1>2, <1>3, <1>4, <1>5, <1>6, <1>7

LEMMA AsksToSync ==
  ASSUME OneEditor, DnsInv, NEW w \in Editor, SaveDnsSettings(w) \/ SyncDnsNow(w)
  PROVE  DnsInv'
  <1> USE DEF DnsInv, SaveDnsSettings, SyncDnsNow, Begin, Asking, Asks, dnsNodes, dnsPast
  <1>1. asked'[w].pc = "sync" /\ asked'[w].at = {} /\ asked[w].pc = "quiet" /\ \A v \in Editor : v = w
    BY DEF OneEditor, ZoneTypes, Request
  <1>2. ZoneTypes'
    <2>1. PICK by \in {"create", "delete", "settings", "staff"} : asked' = [asked EXCEPT ![w] = Request("sync", by, {})]
      OBVIOUS
    <2>2. Request("sync", by, {}) \in AskedKind
      BY RequestIsAsked
    <2>3. asked' \in [Editor -> AskedKind]
      BY <2>1, <2>2 DEF ZoneTypes
    <2>4. /\ zone' = Nothing \/ zone' \in SUBSET Entry
          /\ snaps' \in Seq(SUBSET Entry) /\ past' \in Seq(SUBSET Entry)
          /\ settings' \in Nat /\ wasted' \in Nat
      BY DEF ZoneTypes
    <2> QED BY <2>3, <2>4 DEF ZoneTypes
  <1>3. Plans'
    BY <1>1 DEF Plans, Changing
  <1>4. Records'
    BY DEF Records
  <1>5. WayBack'
    BY <1>1 DEF WayBack, Taken, Surplus
  <1>6. Answers'
    BY <1>1 DEF Answers, Sending, Behind, Comes
  <1>7. Room'
    BY <1>1 DEF Room
  <1> QED BY <1>2, <1>3, <1>4, <1>5, <1>6, <1>7

\* A request that will change the records.
LEMMA AsksToChange ==
  ASSUME OneEditor, DnsInv, NEW w \in Editor,
         AddRecords(w) \/ DeleteRecord(w) \/ RestoreZoneSnapshot(w)
  PROVE  DnsInv'
  <1> USE DEF DnsInv, Begin, Asking, Asks, Request, Quiet, dnsNodes, dnsPast
  <1>1. PICK by \in {"add", "remove", "restore"}, recs \in SUBSET Entry :
          /\ asked' = [asked EXCEPT ![w] = Request("snap", by, recs)]
          /\ zone # Nothing /\ asked[w].pc = "quiet"
          /\ by = "add" => Apiece(zone \cup recs)
          /\ by = "restore" => Apiece(recs)
          /\ UNCHANGED <<zone, snaps, settings, syncs, told, dnsPast, dnsNodes>>
    <2>1. CASE AddRecords(w)
      <3>1. PICK r \in Entry, more \in {{}} \cup {{s} : s \in Entry} :
              /\ Begin(w) /\ zone # Nothing
              /\ Asks(w, "snap", "add", Fitting(r, more, zone))
              /\ UNCHANGED <<zone, snaps, settings, syncs, told, dnsPast, dnsNodes>>
        BY <2>1 DEF AddRecords
      <3>2. Apiece(zone \cup Fitting(r, more, zone)) /\ Fitting(r, more, zone) \subseteq Entry
        BY <3>1, ApieceFitting DEF Records
      <3> QED BY <3>1, <3>2
    <2>2. CASE DeleteRecord(w)
      <3>1. PICK r \in Entry :
              /\ Begin(w) /\ zone # Nothing
              /\ Asks(w, "snap", "remove", {r})
              /\ UNCHANGED <<zone, snaps, settings, syncs, told, dnsPast, dnsNodes>>
        BY <2>2 DEF DeleteRecord
      <3> QED BY <3>1
    <2>3. CASE RestoreZoneSnapshot(w)
      <3>1. PICK k \in DOMAIN snaps :
              /\ Begin(w)
              /\ Asks(w, "snap", "restore", snaps[k])
              /\ UNCHANGED <<zone, snaps, settings, syncs, told, dnsPast, dnsNodes>>
        BY <2>3 DEF RestoreZoneSnapshot
      <3>2. zone # Nothing /\ Apiece(snaps[k]) /\ snaps[k] \in SUBSET Entry
        BY DEF Plans, Records, ZoneTypes
      <3> QED BY <3>1, <3>2
    <2> QED BY <2>1, <2>2, <2>3
  <1>2. asked'[w].pc = "snap" /\ asked'[w].by = by /\ asked'[w].recs = recs /\ \A v \in Editor : v = w
    BY <1>1 DEF OneEditor, ZoneTypes
  <1>3. ZoneTypes'
    BY <1>1 DEF ZoneTypes, AskedKind, Changing
  <1>4. Plans'
    BY <1>1, <1>2 DEF Plans, Changing
  <1>5. Records'
    BY <1>1 DEF Records
  <1>6. WayBack'
    BY <1>1, <1>2 DEF WayBack, Taken, Surplus
  <1>7. Answers'
    BY <1>1, <1>2 DEF Answers, Sending, Behind, Comes, Current, Latest
  <1>8. Room'
    BY <1>1, <1>2 DEF Room
  <1> QED BY <1>3, <1>4, <1>5, <1>6, <1>7, <1>8

LEMMA PanelPublishes ==
  ASSUME OneEditor, DnsInv, NEW w \in Editor, PublishNodeDns(w)
  PROVE  DnsInv'
  <1> USE DEF DnsInv, PublishNodeDns, Begin, Asking, Asks, Request, Quiet, dnsNodes, dnsPast
  <1> DEFINE recs == {[name |-> Base, type |-> "A"]}
  <1>1. /\ asked'[w].pc = "change" /\ asked'[w].by = "panel" /\ asked'[w].recs = recs
        /\ asked[w].pc = "quiet" /\ zone # Nothing /\ \A v \in Editor : v = w
    BY DEF OneEditor, ZoneTypes, Request
  <1>2. ZoneTypes'
    BY DnsBounds DEF ZoneTypes, AskedKind, Changing, Entry, Types
  <1>3. Plans'
    BY <1>1 DEF Plans, Changing
  <1>4. Records'
    BY DEF Records
  <1>5. WayBack'
    BY <1>1 DEF WayBack, Taken, Surplus
  <1>6. Answers'
    BY <1>1 DEF Answers, Sending, Behind, Comes, Current, Latest
  <1>7. Room'
    BY <1>1 DEF Room
  <1> QED BY <1>2, <1>3, <1>4, <1>5, <1>6, <1>7

LEMMA SnapshotZoneKeeps ==
  ASSUME OneEditor, DnsInv, NEW w \in Editor, SnapshotZone(w)
  PROVE  DnsInv'
  <1> USE DEF DnsInv, SnapshotZone, Asking, Onward, dnsNodes, dnsPast
  <1>1. /\ zone # Nothing /\ snaps' = <<zone>> \o snaps /\ asked' = [asked EXCEPT ![w].pc = "trim"]
        /\ UNCHANGED <<zone, settings, syncs, told, edits, dnsPast, dnsNodes>>
    BY DEF Plans, Changing
  <1>2. asked'[w].pc = "trim" /\ asked'[w].by = asked[w].by /\ asked'[w].recs = asked[w].recs /\ asked[w].pc = "snap"
    BY <1>1 DEF ZoneTypes, AskedKind
  <1>3. \A v \in Editor : v = w
    BY DEF OneEditor
  <1>4. /\ snaps' \in Seq(SUBSET Entry) /\ Len(snaps') = Len(snaps) + 1
        /\ snaps' # <<>> /\ snaps'[1] = zone
        /\ \A k \in DOMAIN snaps : k + 1 \in DOMAIN snaps' /\ snaps'[k + 1] = snaps[k]
        /\ \A k \in DOMAIN snaps' : snaps'[k] = zone \/ \E j \in DOMAIN snaps : snaps'[k] = snaps[j]
    <2>1. zone \in SUBSET Entry /\ snaps \in Seq(SUBSET Entry)
      BY <1>1 DEF ZoneTypes
    <2> QED BY <1>1, <2>1
  <1>5. ZoneTypes'
    <2>1. asked' \in [Editor -> AskedKind]
      BY <1>1, OnwardIsAsked DEF ZoneTypes, Changing
    <2> QED BY <1>1, <1>4, <2>1 DEF ZoneTypes
  <1>6. Plans'
    BY <1>1, <1>2, <1>3 DEF Plans, Changing
  <1>7. Records'
    BY <1>1, <1>4 DEF Records
  <1>8. WayBack'
    <2>1. ~Taken /\ (Taken' <=> asked[w].by # "panel")
      BY <1>1, <1>2, <1>3 DEF Taken
    <2>2. asked[w].by # "panel"
      BY <1>2 DEF Plans, Changing
    <2>3. Surplus' = Surplus + 1 /\ Surplus \in Nat
      BY <1>1, <2>1, <2>2 DEF Surplus, ZoneTypes
    <2>4. ASSUME NEW k \in DOMAIN past, k + Surplus' <= SnapshotsKept
          PROVE  \E j \in DOMAIN snaps' : j <= k + Surplus' /\ snaps'[j] = past[k]
      <3>1. k \in Nat
        BY DEF ZoneTypes
      <3>2. PICK j \in DOMAIN snaps : j <= k + Surplus /\ snaps[j] = past[k]
        BY <1>1, <2>3, <2>4, <3>1, DnsBounds DEF WayBack
      <3>3. j + 1 \in DOMAIN snaps' /\ snaps'[j + 1] = past[k] /\ j + 1 <= k + Surplus'
        BY <3>1, <3>2, <1>4, <2>3 DEF ZoneTypes
      <3> QED BY <3>3
    <2> QED BY <1>1, <1>4, <2>4 DEF WayBack
  <1>9. Answers'
    BY <1>1, <1>2, <1>3 DEF Answers, Sending, Behind, Comes, Current, Latest
  <1>10. Room'
    <2>1. Len(snaps) <= SnapshotsKept
      BY <1>2, <1>3 DEF Room
    <2> QED BY <1>1, <1>2, <1>4, <2>1, DnsBounds DEF Room, ZoneTypes
  <1> QED BY <1>5, <1>6, <1>7, <1>8, <1>9, <1>10

LEMMA TrimKeeps ==
  ASSUME OneEditor, DnsInv, NEW w \in Editor, TrimSnapshots(w)
  PROVE  DnsInv'
  <1> USE DEF DnsInv, TrimSnapshots, Asking, Onward, dnsNodes, dnsPast
  <1>1. asked'[w].pc = "change" /\ asked'[w].by = asked[w].by /\ asked'[w].recs = asked[w].recs /\ asked[w].pc = "trim"
    BY DEF ZoneTypes, AskedKind
  <1>2. \A v \in Editor : v = w
    BY DEF OneEditor
  <1>3. /\ snaps' \in Seq(SUBSET Entry) /\ Len(snaps') <= SnapshotsKept
        /\ \A k \in DOMAIN snaps' : k \in DOMAIN snaps /\ snaps'[k] = snaps[k]
        /\ \A k \in DOMAIN snaps : k <= SnapshotsKept => k \in DOMAIN snaps'
        /\ snaps # <<>> => snaps' # <<>>
    <2>1. snaps \in Seq(SUBSET Entry) /\ SnapshotsKept \in Nat \ {0}
      BY DnsBounds DEF ZoneTypes
    <2>2. CASE Len(snaps) > SnapshotsKept
      <3>1. snaps' = SubSeq(snaps, 1, SnapshotsKept)
        BY <2>2 DEF KeptSnaps
      <3>2. snaps' \in Seq(SUBSET Entry) /\ Len(snaps') = SnapshotsKept
        BY <2>1, <2>2, <3>1
      <3>3. \A k \in 1 .. SnapshotsKept : snaps'[k] = snaps[k]
        BY <2>1, <2>2, <3>1
      <3> QED BY <2>1, <2>2, <3>2, <3>3
    <2>3. CASE ~(Len(snaps) > SnapshotsKept)
      BY <2>1, <2>3
    <2> QED BY <2>2, <2>3
  <1>4. ZoneTypes'
    <2>1. asked' \in [Editor -> AskedKind]
      BY OnwardIsAsked DEF ZoneTypes, Changing
    <2> QED BY <1>3, <2>1 DEF ZoneTypes
  <1>5. Plans'
    BY <1>1, <1>2, <1>3 DEF Plans, Changing
  <1>6. Records'
    BY <1>3 DEF Records
  <1>7. WayBack'
    <2>1. Taken' = Taken /\ Surplus' = Surplus /\ Surplus \in Nat
      BY <1>1, <1>2 DEF Taken, Surplus, ZoneTypes
    <2>2. ASSUME zone # Nothing, NEW k \in DOMAIN past, k + Surplus <= SnapshotsKept
          PROVE  \E j \in DOMAIN snaps' : j <= k + Surplus /\ snaps'[j] = past[k]
      <3>1. k \in Nat /\ SnapshotsKept \in Nat
        BY DnsBounds DEF ZoneTypes
      <3>2. PICK j \in DOMAIN snaps : j <= k + Surplus /\ snaps[j] = past[k]
        BY <2>2 DEF WayBack
      <3>3. j \in Nat
        BY DEF ZoneTypes
      <3>4. j \in DOMAIN snaps'
        BY <1>3, <2>1, <2>2, <3>1, <3>2, <3>3
      <3> QED BY <1>3, <3>2, <3>4
    <2>3. Taken /\ snaps # <<>> => 1 \in DOMAIN snaps'
      BY <1>3 DEF ZoneTypes
    <2> QED BY <1>3, <2>1, <2>2, <2>3 DEF WayBack
  <1>8. Answers'
    BY <1>1, <1>2 DEF Answers, Sending, Behind, Comes, Current, Latest
  <1>9. Room'
    BY <1>1, <1>2, <1>3 DEF Room
  <1> QED BY <1>4, <1>5, <1>6, <1>7, <1>8, <1>9

LEMMA QuietIsAsked == Quiet \in AskedKind
  BY DEF Quiet, Request, AskedKind

LEMMA NoneTaken ==
  ASSUME wasted' \in Nat, ~Taken'
  PROVE  Surplus' = wasted'
  BY DEF Surplus

LEMMA ChangeKeeps ==
  ASSUME OneEditor, Apart, DnsInv, NEW w \in Editor, ChangeRecords(w)
  PROVE  DnsInv'
  <1> DEFINE by == asked[w].by
             recs == asked[w].recs
             to == CASE by \in {"add", "panel"} -> zone \cup recs
                     [] by = "remove"           -> zone \ recs
                     [] by = "restore"          -> recs
             idle == by = "remove" /\ recs \cap zone = {}
  <1> USE DEF DnsInv, Asking, dnsNodes
  <1>1. /\ asked[w].pc = "change" /\ zone # Nothing
        /\ by \in {"add", "remove", "restore", "panel"}
        /\ zone \in SUBSET Entry /\ recs \in SUBSET Entry
    BY DEF ChangeRecords, Plans, Changing, ZoneTypes, AskedKind
  <1>2. /\ zone' = to
        /\ past' = IF by = "panel" \/ idle THEN past ELSE <<zone>> \o past
        /\ wasted' = IF idle THEN wasted + 1 ELSE wasted
        /\ asked' = IF idle THEN [asked EXCEPT ![w] = Quiet] ELSE [asked EXCEPT ![w].pc = "sync"]
        /\ UNCHANGED <<snaps, settings, syncs, told, edits, dnsNodes>>
    BY <1>1 DEF ChangeRecords
  <1>3. \A v \in Editor : v = w
    BY DEF OneEditor
  <1>4. asked'[w].pc = IF idle THEN "quiet" ELSE "sync"
    BY <1>2 DEF ZoneTypes, AskedKind, Quiet, Request
  <1>5. to \in SUBSET Entry /\ Apiece(to)
    <2>1. CASE by = "add"
      BY <1>1, <2>1 DEF Plans, Changing
    <2>2. CASE by = "panel"
      <3>1. to = zone \cup {[name |-> Base, type |-> "A"]}
        BY <2>2, <1>1 DEF Plans, Changing
      <3>2. ~Clashes([name |-> Base, type |-> "A"], zone)
        BY <1>1, Apart DEF Clashes, Entry
      <3>3. Apiece(zone)
        BY <1>1 DEF Records
      <3> QED BY <1>1, <2>2, <3>1, <3>2, <3>3, ApieceAdd
    <2>3. CASE by = "remove"
      <3>1. to = zone \ recs /\ Apiece(zone)
        BY <2>3, <1>1 DEF Records
      <3> QED BY <1>1, <3>1, ApieceSubset
    <2>4. CASE by = "restore"
      BY <1>1, <2>4 DEF Plans, Changing
    <2> QED BY <1>1, <2>1, <2>2, <2>3, <2>4
  <1>6. idle => to = zone
    BY <1>1
  <1> HIDE DEF by, recs, to
  <1>7. ZoneTypes'
    <2>1. asked' \in [Editor -> AskedKind]
      BY <1>2, QuietIsAsked, OnwardIsAsked DEF ZoneTypes
    <2>2. past' \in Seq(SUBSET Entry) /\ wasted' \in Nat
      <3>1. past \in Seq(SUBSET Entry) /\ wasted \in Nat
        BY DEF ZoneTypes
      <3>2. <<zone>> \o past \in Seq(SUBSET Entry)
        BY <1>1, <3>1
      <3>3. (past' = past \/ past' = <<zone>> \o past) /\ (wasted' = wasted \/ wasted' = wasted + 1)
        <4>1. CASE by = "panel" \/ idle
          BY <1>2, <4>1
        <4>2. CASE ~(by = "panel" \/ idle)
          BY <1>2, <4>2
        <4> QED BY <4>1, <4>2
      <3>4. past' \in Seq(SUBSET Entry)
        BY <3>1, <3>2, <3>3
      <3>5. wasted' \in Nat
        BY <3>1, <3>3
      <3> QED BY <3>4, <3>5
    <2>3. zone' \in SUBSET Entry
      BY <1>2, <1>5
    <2> QED BY <1>2, <2>1, <2>2, <2>3 DEF ZoneTypes
  <1>8. Plans'
    <2>1. zone' # Nothing
      BY <1>2, <1>5, NothingIsNoZone
    <2> QED BY <1>3, <1>4, <2>1 DEF Plans, Changing
  <1>9. Records'
    BY <1>2, <1>5 DEF Records
  <1>10. WayBack'
    <2>1. ~Taken' /\ (Taken <=> by # "panel")
      BY <1>1, <1>3, <1>4 DEF Taken, by
    <2>2. Surplus \in Nat /\ Surplus' \in Nat /\ SnapshotsKept \in Nat \ {0}
      <3>1. wasted \in Nat /\ wasted' \in Nat
        BY <1>7 DEF ZoneTypes
      <3>2. Surplus = wasted \/ Surplus = wasted + 1
        BY <3>1 DEF Surplus
      <3>3. Surplus' = wasted'
        BY <2>1, <3>1, NoneTaken
      <3> QED BY <3>1, <3>2, <3>3, DnsBounds
    <2>3. CASE by = "panel"
      <3>1. past' = past /\ Surplus' = Surplus
        BY <1>2, <2>1, <2>3 DEF Surplus
      <3> QED BY <1>1, <1>2, <2>1, <3>1 DEF WayBack
    <2>4. CASE by # "panel" /\ idle
      <3>1. past' = past /\ Surplus' = Surplus
        BY <1>2, <2>1, <2>4 DEF Surplus, ZoneTypes
      <3> QED BY <1>1, <1>2, <2>1, <3>1 DEF WayBack
    <2>5. CASE by # "panel" /\ ~idle
      <3>1. past' = <<zone>> \o past /\ Surplus = Surplus' + 1
        BY <1>2, <2>1, <2>5 DEF Surplus, ZoneTypes
      <3>2. snaps # <<>> /\ snaps[1] = zone
        BY <1>1, <2>1, <2>5 DEF WayBack
      <3>3. ASSUME NEW k \in DOMAIN past', k + Surplus' <= SnapshotsKept
            PROVE  \E j \in DOMAIN snaps : j <= k + Surplus' /\ snaps[j] = past'[k]
        <4>1. past \in Seq(SUBSET Entry) /\ snaps \in Seq(SUBSET Entry)
          BY DEF ZoneTypes
        <4>2. CASE k = 1
          <5>1. past'[k] = zone
            BY <1>1, <3>1, <4>1, <4>2
          <5>2. 1 \in DOMAIN snaps
            BY <3>2, <4>1
          <5> QED BY <2>2, <3>2, <4>2, <5>1, <5>2
        <4>3. CASE k # 1
          <5>1. k \in Nat /\ k - 1 \in DOMAIN past /\ past'[k] = past[k - 1]
            BY <1>1, <3>1, <3>3, <4>1, <4>3
          <5>2. (k - 1) + Surplus = k + Surplus'
            BY <2>2, <3>1, <5>1
          <5>3. PICK j \in DOMAIN snaps : j <= (k - 1) + Surplus /\ snaps[j] = past[k - 1]
            BY <1>1, <3>3, <5>1, <5>2 DEF WayBack
          <5> QED BY <5>1, <5>2, <5>3
        <4> QED BY <4>2, <4>3
      <3> QED BY <1>2, <2>1, <3>3 DEF WayBack
    <2> QED BY <2>3, <2>4, <2>5
  <1>11. Answers'
    <2>1. CASE idle
      <3>1. Current' = Current /\ asked'[w].pc = "quiet" /\ asked'[w].at = {}
        BY <1>2, <1>4, <1>6, <2>1 DEF Current, ZoneTypes, Quiet, Request
      <3> QED BY <1>1, <1>2, <1>3, <3>1 DEF Answers, Sending, Behind, Comes, Latest
    <2>2. CASE ~idle
      <3>1. asked'[w].at = asked[w].at
        BY <1>2, <2>2 DEF ZoneTypes, AskedKind
      <3> QED BY <1>1, <1>2, <1>3, <1>4, <2>2, <3>1 DEF Answers, Sending, Behind, Comes
    <2> QED BY <2>1, <2>2
  <1>12. Room'
    BY <1>1, <1>2, <1>3, <1>4 DEF Room
  <1> QED BY <1>7, <1>8, <1>9, <1>10, <1>11, <1>12

\* The request has read what it sends.
LEMMA ReadZonesKeeps ==
  ASSUME OneEditor, DnsInv, NEW w \in Editor, ReadZones(w)
  PROVE  DnsInv'
  <1> USE DEF DnsInv, Asking, dnsNodes, dnsPast
  <1>1. /\ asked[w].pc = "sync" /\ asked[w] \in AskedKind /\ \A v \in Editor : v = w
        /\ UNCHANGED <<zone, snaps, settings, syncs, told, edits, dnsPast, dnsNodes>>
    BY DEF ReadZones, ZoneTypes, OneEditor
  <1>2. \/ member = {} /\ asked' = [asked EXCEPT ![w] = Quiet]
        \/ /\ member # {}
           /\ asked' = [asked EXCEPT ![w].pc = "cancel", ![w].load = Current, ![w].todo = member]
    BY DEF ReadZones
  <1>3. IF member = {} THEN asked'[w] = Quiet
        ELSE /\ asked'[w].pc = "cancel" /\ asked'[w].at = asked[w].at
             /\ asked'[w].load = Current /\ asked'[w].todo = member
    BY <1>2 DEF ZoneTypes, AskedKind
  <1>4. ZoneTypes'
    <2>1. Current \in Payload
      BY DEF Current, Payload, ZoneTypes
    <2>2. asked' \in [Editor -> AskedKind]
      <3>1. CASE member = {}
        BY <1>2, <3>1, QuietIsAsked DEF ZoneTypes
      <3>2. CASE member # {}
        <4>1. asked \in [Editor -> AskedKind] /\ member \in SUBSET Ns
          BY DEF ZoneTypes
        <4>2. [asked EXCEPT ![w].pc = "cancel", ![w].load = Current, ![w].todo = member] \in [Editor -> AskedKind]
          BY <2>1, <4>1, SendsIsAsked
        <4> QED BY <1>2, <3>2, <4>2
      <3> QED BY <3>1, <3>2
    <2> QED BY <1>1, <2>2 DEF ZoneTypes
  <1>5. Plans'
    BY <1>1, <1>3 DEF Plans, Changing, Quiet, Request
  <1>6. Records'
    BY <1>1 DEF Records
  <1>7. WayBack'
    <2>1. ~Taken /\ ~Taken'
      BY <1>1, <1>3 DEF Taken, Quiet, Request
    <2> QED BY <1>1, <2>1 DEF WayBack, Surplus
  <1>8. Answers'
    <2>1. asked[w].at = {} /\ Current' = Current
      BY <1>1 DEF Answers, Sending, Current
    <2>2. CASE member = {}
      <3>1. asked'[w].pc = "quiet" /\ asked'[w].at = {}
        BY <1>3, <2>2 DEF Quiet, Request
      <3> QED BY <1>1, <2>1, <2>2, <3>1 DEF Answers, Sending, Comes
    <2>3. CASE member # {}
      <3>1. /\ asked'[w].pc = "cancel" /\ asked'[w].at = {}
            /\ asked'[w].load = Current /\ asked'[w].todo = member
        BY <1>3, <2>1, <2>3
      <3>2. \A n \in Ns : Comes(w, n)' <=> n \in member
        BY <3>1 DEF Comes, Sending
      <3> QED BY <1>1, <2>1, <3>1, <3>2 DEF Answers, Sending, Behind
    <2> QED BY <2>2, <2>3
  <1>9. Room'
    BY <1>1, <1>3 DEF Room, Quiet, Request
  <1> QED BY <1>4, <1>5, <1>6, <1>7, <1>8, <1>9

LEMMA CancelKeeps ==
  ASSUME OneEditor, DnsInv, NEW w \in Editor, CancelSync(w)
  PROVE  DnsInv'
  <1> USE DEF DnsInv, Asking, dnsNodes, dnsPast
  <1>1. PICK n \in asked[w].todo :
          /\ asked[w].pc = "cancel"
          /\ syncs' = [syncs EXCEPT ![n] = <<>>]
          /\ asked' = [asked EXCEPT ![w].pc = "queue", ![w].todo = @ \ {n}, ![w].at = {n}]
          /\ UNCHANGED <<zone, snaps, settings, told, edits, dnsPast, dnsNodes>>
    BY DEF CancelSync
  <1>2. /\ asked[w] \in AskedKind /\ n \in Ns /\ \A v \in Editor : v = w
    BY DEF ZoneTypes, OneEditor, AskedKind
  <1>3. /\ asked'[w].pc = "queue" /\ asked'[w].todo = asked[w].todo \ {n} /\ asked'[w].at = {n}
        /\ asked'[w].load = asked[w].load /\ asked' \in [Editor -> AskedKind]
    <2> DEFINE left == asked[w].todo \ {n}
               r    == [asked[w] EXCEPT !.pc = "queue", !.todo = left, !.at = {n}]
    <2>1. left \in SUBSET Ns
      BY <1>2 DEF AskedKind
    <2> HIDE DEF left
    <2>2. /\ r \in AskedKind /\ r.pc = "queue" /\ r.todo = left /\ r.at = {n} /\ r.load = asked[w].load
      BY <1>2, <2>1 DEF AskedKind, Sending
    <2>3. asked' = [asked EXCEPT ![w] = r] /\ asked \in [Editor -> AskedKind]
      BY <1>1 DEF ZoneTypes, left
    <2> HIDE DEF r
    <2> QED BY <2>2, <2>3 DEF left
  <1>4. syncs' \in [Ns -> Seq(Payload)] /\ syncs'[n] = <<>> /\ \A m \in Ns \ {n} : syncs'[m] = syncs[m]
    BY <1>1, <1>2, EmptySeq DEF ZoneTypes
  <1>5. ZoneTypes'
    BY <1>1, <1>3, <1>4 DEF ZoneTypes
  <1>6. Plans'
    BY <1>1, <1>2, <1>3 DEF Plans, Changing
  <1>7. Records'
    BY <1>1 DEF Records
  <1>8. WayBack'
    <2>1. ~Taken /\ ~Taken'
      BY <1>1, <1>2, <1>3 DEF Taken
    <2> QED BY <1>1, <2>1 DEF WayBack, Surplus
  <1>9. Answers'
    <2>1. Current' = Current /\ asked[w].at = {} /\ asked[w].load = Current
      BY <1>1 DEF Answers, Sending, Current
    <2>2. \A m \in Ns : (\A v \in Editor : ~Comes(v, m)') <=> (\A v \in Editor : ~Comes(v, m))
      BY <1>1, <1>2, <1>3, <2>1 DEF Comes, Sending
    <2>3. \A m \in Ns : Behind(m)' <=> Behind(m)
      BY <1>1, <1>2, <1>3, <2>1 DEF Comes, Sending, Behind
    <2>4. Behind(n) /\ Comes(w, n)
      BY <1>1 DEF Behind, Comes, Sending
    <2>5. \A v \in Editor : asked'[v].pc \in Sending =>
            /\ asked'[v].load = Current' /\ asked'[v].at \cap asked'[v].todo = {}
            /\ asked'[v].pc = "queue" => \E m \in Ns : asked'[v].at = {m}
            /\ asked'[v].pc = "cancel" => asked'[v].at = {}
      BY <1>2, <1>3, <2>1
    <2>6. ASSUME NEW m \in Ns
          PROVE  /\ told'[m] = "done" => syncs'[m] = <<>> /\ working'[m] = Nothing
                 /\ m \notin member' =>
                      \/ told'[m] = "nothing"
                      \/ told'[m] = "queued" /\ syncs'[m] # <<>> /\ \A v \in Editor : ~Comes(v, m)'
                 /\ m \in member' /\ ~Behind(m)' =>
                      /\ told'[m] = "queued" => Latest(m)' = Current'
                      /\ told'[m] = "done" => serves'[m] = Current'
      <3>1. CASE m = n
        BY <1>1, <1>4, <2>3, <2>4, <3>1 DEF Answers
      <3>2. CASE m # n
        BY <1>1, <1>4, <2>1, <2>2, <2>3, <3>2 DEF Answers, Latest
      <3> QED BY <3>1, <3>2
    <2> QED BY <1>2, <1>3, <2>5, <2>6 DEF Answers, Sending
  <1>10. Room'
    BY <1>1, <1>2, <1>3, <1>4 DEF Room
  <1> QED BY <1>5, <1>6, <1>7, <1>8, <1>9, <1>10

LEMMA QueueKeeps ==
  ASSUME OneEditor, DnsInv, NEW w \in Editor, QueueSync(w)
  PROVE  DnsInv'
  <1> USE DEF DnsInv, Asking, dnsNodes, dnsPast
  <1>1. PICK n \in asked[w].at :
          /\ asked[w].pc = "queue"
          /\ syncs' = [syncs EXCEPT ![n] = Append(syncs[n], asked[w].load)]
          /\ told' = [told EXCEPT ![n] = "queued"]
          /\ asked' = IF asked[w].todo = {} THEN [asked EXCEPT ![w] = Quiet]
                      ELSE [asked EXCEPT ![w].pc = "cancel", ![w].at = {}]
          /\ UNCHANGED <<zone, snaps, settings, edits, dnsPast, dnsNodes>>
    BY DEF QueueSync, Queued
  <1>2. /\ asked[w] \in AskedKind /\ n \in Ns /\ (\A v \in Editor : v = w) /\ asked[w].at = {n}
        /\ asked[w].load = Current /\ n \notin asked[w].todo /\ syncs[n] = <<>>
    BY <1>1 DEF ZoneTypes, OneEditor, AskedKind, Answers, Sending, Room
  <1>3. /\ asked' \in [Editor -> AskedKind] /\ asked'[w].at = {}
        /\ IF asked[w].todo = {} THEN asked'[w] = Quiet
           ELSE asked'[w].pc = "cancel" /\ asked'[w].todo = asked[w].todo /\ asked'[w].load = Current
    <2>1. CASE asked[w].todo = {}
      BY <1>1, <1>2, <2>1, QuietIsAsked DEF ZoneTypes, Quiet, Request
    <2>2. CASE asked[w].todo # {}
      BY <1>1, <1>2, <2>2 DEF ZoneTypes, AskedKind, Sending
    <2> QED BY <2>1, <2>2
  <1>4. Current \in Payload
    BY DEF Current, Payload, ZoneTypes
  <1>5. syncs'[n] = <<Current>> /\ \A m \in Ns \ {n} : syncs'[m] = syncs[m] /\ told'[m] = told[m]
    BY <1>1, <1>2, <1>4 DEF ZoneTypes
  <1>6. syncs' \in [Ns -> Seq(Payload)] /\ told'[n] = "queued"
    BY <1>1, <1>2, <1>4 DEF ZoneTypes
  <1>7. ZoneTypes'
    BY <1>1, <1>2, <1>3, <1>6 DEF ZoneTypes
  <1>8. Plans'
    BY <1>1, <1>2, <1>3 DEF Plans, Changing, Quiet, Request
  <1>9. Records'
    BY <1>1 DEF Records
  <1>10. WayBack'
    <2>1. ~Taken /\ ~Taken'
      BY <1>1, <1>2, <1>3 DEF Taken, Quiet, Request
    <2> QED BY <1>1, <2>1 DEF WayBack, Surplus
  <1>11. Answers'
    <2>1. Current' = Current
      BY <1>1 DEF Current
    <2>2. \A m \in Ns : Comes(w, m)' <=> m \in asked[w].todo
      BY <1>2, <1>3 DEF Comes, Sending, Quiet, Request
    <2>3. \A m \in Ns : Comes(w, m) <=> m \in asked[w].todo \/ m = n
      BY <1>1, <1>2 DEF Comes, Sending
    <2>4. \A m \in Ns : /\ Behind(m)' <=> m \in asked[w].todo
                        /\ Behind(m) <=> m \in asked[w].todo \/ m = n
      BY <1>1, <1>2, <1>3, <2>2, <2>3 DEF Behind, Quiet, Request
    <2>5. \A v \in Editor : /\ asked'[v].at = {}
                            /\ asked'[v].pc \in Sending => asked'[v].pc = "cancel" /\ asked'[v].load = Current'
      BY <1>2, <1>3, <2>1 DEF Sending, Quiet, Request
    <2>6. ASSUME NEW m \in Ns
          PROVE  /\ told'[m] = "done" => syncs'[m] = <<>> /\ working'[m] = Nothing
                 /\ m \notin member' =>
                      \/ told'[m] = "nothing"
                      \/ told'[m] = "queued" /\ syncs'[m] # <<>> /\ \A v \in Editor : ~Comes(v, m)'
                 /\ m \in member' /\ ~Behind(m)' =>
                      /\ told'[m] = "queued" => Latest(m)' = Current'
                      /\ told'[m] = "done" => serves'[m] = Current'
      <3>1. CASE m = n
        <4>1. ~Comes(w, n)'
          BY <1>2, <2>2
        <4>2. \A v \in Editor : ~Comes(v, n)'
          BY <1>2, <4>1
        <4>3. Latest(n)' = Current' /\ syncs'[n] # <<>>
          BY <1>4, <1>5, <2>1 DEF Latest
        <4> QED BY <1>6, <3>1, <4>2, <4>3
      <3>2. CASE m # n
        <4>1. Latest(m)' = Latest(m)
          BY <1>1, <1>5, <3>2 DEF Latest
        <4>2. Behind(m)' <=> Behind(m)
          BY <2>4, <3>2
        <4>3. \A v \in Editor : Comes(v, m)' <=> Comes(v, m)
          BY <1>2, <2>2, <2>3, <3>2
        <4> QED BY <1>1, <1>5, <2>1, <3>2, <4>1, <4>2, <4>3 DEF Answers
      <3> QED BY <3>1, <3>2
    <2> QED BY <2>5, <2>6 DEF Answers, Sending
  <1>12. Room'
    <2>1. asked'[w].pc # "queue" /\ asked'[w].pc # "trim" /\ asked[w].pc # "trim"
      BY <1>1, <1>3 DEF Quiet, Request
    <2>2. Len(syncs'[n]) = 1
      BY <1>5
    <2>3. ASSUME NEW m \in Ns PROVE Len(syncs'[m]) <= 1
      <3>1. CASE m = n
        <4>1. syncs'[m] = syncs'[n]
          BY <3>1
        <4>2. Len(syncs'[m]) = 1
          BY <2>2, <4>1
        <4> QED BY <4>2
      <3>2. CASE m # n
        BY <1>5, <3>2 DEF Room
      <3> QED BY <3>1, <3>2
    <2>4. \A v \in Editor : asked'[v].pc # "queue" /\ asked'[v].pc # "trim" /\ asked[v].pc # "trim"
      BY <1>2, <2>1
    <2> QED BY <1>1, <2>3, <2>4 DEF Room
  <1> QED BY <1>7, <1>8, <1>9, <1>10, <1>11, <1>12

-----------------------------------------------------------------------------
(* The nodes: requests, records and snapshots are left alone.              *)

LEMMA NodeLeaves ==
  ASSUME DnsInv, UNCHANGED dnsPanel
  PROVE  Plans' /\ Records' /\ WayBack' /\ Current' = Current
  BY DEF DnsInv, dnsPanel, dnsPast, Plans, Records, WayBack, Taken, Surplus, Current

LEMMA OneLong ==
  ASSUME NEW S, NEW s \in Seq(S), s # <<>>, Len(s) <= 1
  PROVE  Len(s) = 1 /\ Head(s) = s[1] /\ Head(s) \in S /\ Tail(s) = <<>>
  <1>1. Len(s) \in Nat /\ Len(s) # 0
    BY EmptySeq
  <1>2. Len(s) = 1
    BY <1>1
  <1>3. Tail(s) \in Seq(S) /\ Len(Tail(s)) = 0
    BY <1>2, HeadTailProperties
  <1>4. Tail(s) = <<>>
    BY <1>3, EmptySeq
  <1> QED BY <1>2, <1>4

LEMMA SyncStartKeeps ==
  ASSUME DnsInv, NEW n \in Ns, SyncStart(n)
  PROVE  DnsInv'
  <1> USE DEF DnsInv, SyncStart, dnsPanel, dnsPast
  <1>1. /\ syncs[n] \in Seq(Payload) /\ Len(syncs[n]) = 1 /\ Head(syncs[n]) = syncs[n][1]
        /\ Head(syncs[n]) \in Payload /\ Tail(syncs[n]) = <<>> /\ n \in member
    <2>1. syncs[n] \in Seq(Payload) /\ syncs[n] # <<>> /\ Len(syncs[n]) <= 1 /\ n \in member
      BY DEF ZoneTypes, Room
    <2> QED BY <2>1, OneLong
  <1>2. /\ syncs'[n] = <<>> /\ working'[n] = syncs[n][1] /\ serves'[n] = Nothing
        /\ \A m \in Ns \ {n} : syncs'[m] = syncs[m] /\ working'[m] = working[m] /\ serves'[m] = serves[m]
    BY <1>1 DEF ZoneTypes
  <1>3. ZoneTypes'
    BY <1>1, EmptySeq DEF ZoneTypes
  <1>4. Answers'
    <2>1. Current' = Current /\ \A m \in Ns : Behind(m)' = Behind(m) /\ \A v \in Editor : Comes(v, m)' = Comes(v, m)
      BY DEF Current, Behind, Comes
    <2>2. ASSUME NEW m \in Ns
          PROVE  /\ told'[m] = "done" => syncs'[m] = <<>> /\ working'[m] = Nothing
                 /\ m \notin member' =>
                      \/ told'[m] = "nothing"
                      \/ told'[m] = "queued" /\ syncs'[m] # <<>> /\ \A v \in Editor : ~Comes(v, m)'
                 /\ m \in member' /\ ~Behind(m)' =>
                      /\ told'[m] = "queued" => Latest(m)' = Current'
                      /\ told'[m] = "done" => serves'[m] = Current'
      <3>1. CASE m = n
        <4>1. told[n] # "done"
          BY DEF Answers
        <4>2. Latest(n)' = Latest(n)
          BY <1>1, <1>2 DEF Latest
        <4> QED BY <1>1, <2>1, <3>1, <4>1, <4>2 DEF Answers
      <3>2. CASE m # n
        <4>1. Latest(m)' = Latest(m)
          BY <1>2, <3>2 DEF Latest
        <4> QED BY <1>2, <2>1, <3>2, <4>1 DEF Answers
      <3> QED BY <3>1, <3>2
    <2> QED BY <2>1, <2>2 DEF Answers
  <1>5. Room'
    BY <1>2 DEF Room
  <1> QED BY <1>3, <1>4, <1>5, NodeLeaves

LEMMA SyncEndKeeps ==
  ASSUME DnsInv, NEW n \in Ns, SyncEnd(n)
  PROVE  DnsInv'
  <1> USE DEF DnsInv, dnsPanel, dnsPast
  <1>1. /\ working[n] # Nothing /\ UNCHANGED <<dnsPanel, syncs, member>>
        /\ working' = [working EXCEPT ![n] = Nothing]
        /\ \/ /\ serves' = [serves EXCEPT ![n] = working[n]]
              /\ told' = [told EXCEPT ![n] = IF @ = "queued" /\ syncs[n] = <<>> THEN "done" ELSE @]
           \/ /\ told' = [told EXCEPT ![n] = IF @ = "queued" /\ syncs[n] = <<>> THEN "failed" ELSE @]
              /\ UNCHANGED serves
    BY DEF SyncEnd
  <1>2. /\ working'[n] = Nothing /\ told[n] # "done"
        /\ told'[n] = told[n] \/ (told[n] = "queued" /\ syncs[n] = <<>>)
        /\ told'[n] = "done" => serves'[n] = working[n] /\ told[n] = "queued" /\ syncs[n] = <<>>
        /\ told'[n] = "queued" => syncs[n] # <<>>
        /\ told' \in [Ns -> {"nothing", "queued", "done", "failed"}]
        /\ \A m \in Ns \ {n} : working'[m] = working[m] /\ serves'[m] = serves[m] /\ told'[m] = told[m]
    <2>1. /\ working \in [Ns -> {Nothing} \cup Payload] /\ serves \in [Ns -> {Nothing} \cup Payload]
          /\ told \in [Ns -> {"nothing", "queued", "done", "failed"}] /\ told[n] # "done"
      BY <1>1 DEF ZoneTypes, Answers
    <2>2. PICK end \in {"done", "failed"} :
            /\ told' = [told EXCEPT ![n] = IF told[n] = "queued" /\ syncs[n] = <<>> THEN end ELSE told[n]]
            /\ end = "done" => serves' = [serves EXCEPT ![n] = working[n]]
            /\ end = "failed" => UNCHANGED serves
      BY <1>1
    <2>3. told'[n] = IF told[n] = "queued" /\ syncs[n] = <<>> THEN end ELSE told[n]
      BY <2>1, <2>2
    <2>4. told' \in [Ns -> {"nothing", "queued", "done", "failed"}]
      BY <2>1, <2>2
    <2>5. \A m \in Ns \ {n} : working'[m] = working[m] /\ serves'[m] = serves[m] /\ told'[m] = told[m]
      BY <1>1, <2>1, <2>2
    <2>6. working'[n] = Nothing /\ (end = "done" => serves'[n] = working[n])
      BY <1>1, <2>1, <2>2
    <2>7. CASE told[n] = "queued" /\ syncs[n] = <<>>
      BY <2>1, <2>3, <2>4, <2>5, <2>6, <2>7
    <2>8. CASE ~(told[n] = "queued" /\ syncs[n] = <<>>)
      BY <2>1, <2>3, <2>4, <2>5, <2>6, <2>8
    <2> QED BY <2>7, <2>8
  <1>3. ZoneTypes'
    <2>1. serves' \in [Ns -> {Nothing} \cup Payload] /\ working' \in [Ns -> {Nothing} \cup Payload]
      BY <1>1 DEF ZoneTypes
    <2> QED BY <1>1, <1>2, <2>1 DEF ZoneTypes
  <1>4. Answers'
    <2>1. Current' = Current /\ \A m \in Ns : Behind(m)' = Behind(m) /\ \A v \in Editor : Comes(v, m)' = Comes(v, m)
      BY <1>1 DEF Current, Behind, Comes
    <2>2. ASSUME NEW m \in Ns
          PROVE  /\ told'[m] = "done" => syncs'[m] = <<>> /\ working'[m] = Nothing
                 /\ m \notin member' =>
                      \/ told'[m] = "nothing"
                      \/ told'[m] = "queued" /\ syncs'[m] # <<>> /\ \A v \in Editor : ~Comes(v, m)'
                 /\ m \in member' /\ ~Behind(m)' =>
                      /\ told'[m] = "queued" => Latest(m)' = Current'
                      /\ told'[m] = "done" => serves'[m] = Current'
      <3>1. CASE m = n
        <4>1. told[n] = "queued" /\ syncs[n] = <<>> => n \in member
          BY DEF Answers
        <4>2. syncs[n] = <<>> => Latest(n) = working[n]
          BY DEF Latest
        <4>3. syncs[n] # <<>> => Latest(n)' = Latest(n)
          BY <1>1 DEF Latest
        <4> QED BY <1>1, <1>2, <2>1, <3>1, <4>1, <4>2, <4>3 DEF Answers
      <3>2. CASE m # n
        <4>1. Latest(m)' = Latest(m)
          BY <1>1, <1>2, <3>2 DEF Latest
        <4> QED BY <1>1, <1>2, <2>1, <3>2, <4>1 DEF Answers
      <3> QED BY <3>1, <3>2
    <2> QED BY <1>1, <2>1, <2>2 DEF Answers
  <1>5. Room'
    BY <1>1 DEF Room
  <1> QED BY <1>1, <1>3, <1>4, <1>5, NodeLeaves

LEMMA ToggleKeeps ==
  ASSUME DnsInv, NEW n \in Ns, ToggleNode(n)
  PROVE  DnsInv'
  <1> USE DEF DnsInv, ToggleNode, dnsPanel, dnsPast
  <1>1. /\ told'[n] = "nothing"
        /\ \A m \in Ns \ {n} : told'[m] = told[m] /\ (m \in member' <=> m \in member)
    BY DEF ZoneTypes
  <1>2. ZoneTypes'
    BY DEF ZoneTypes
  <1>3. Answers'
    <2>1. /\ Current' = Current
          /\ \A m \in Ns : /\ Behind(m)' = Behind(m) /\ Latest(m)' = Latest(m)
                            /\ \A v \in Editor : Comes(v, m)' = Comes(v, m)
      BY DEF Current, Behind, Comes, Latest
    <2> QED BY <1>1, <2>1 DEF Answers
  <1>4. Room'
    BY DEF Room
  <1> QED BY <1>2, <1>3, <1>4, NodeLeaves

-----------------------------------------------------------------------------
(* What the runs check, for every zone.                                    *)

LEMMA DnsStep ==
  ASSUME OneEditor, Apart, DnsInv, DnsNext \/ UNCHANGED dnsVars
  PROVE  DnsInv'
  <1>1. ASSUME NEW w \in Editor, CreateZone(w) \/ DeleteZone(w)
        PROVE  DnsInv'
    BY <1>1, StartOfZone
  <1>2. ASSUME NEW w \in Editor, SaveDnsSettings(w) \/ SyncDnsNow(w)
        PROVE  DnsInv'
    BY <1>2, AsksToSync
  <1>3. ASSUME NEW w \in Editor, AddRecords(w) \/ DeleteRecord(w) \/ RestoreZoneSnapshot(w)
        PROVE  DnsInv'
    BY <1>3, AsksToChange
  <1>4. ASSUME NEW w \in Editor, PublishNodeDns(w)
        PROVE  DnsInv'
    BY <1>4, PanelPublishes
  <1>5. ASSUME NEW w \in Editor, DnsSteps(w)
        PROVE  DnsInv'
    BY <1>5, SnapshotZoneKeeps, TrimKeeps, ChangeKeeps, ReadZonesKeeps, CancelKeeps, QueueKeeps DEF DnsSteps
  <1>6. ASSUME NEW n \in Ns, SyncStart(n) \/ SyncEnd(n) \/ ToggleNode(n)
        PROVE  DnsInv'
    BY <1>6, SyncStartKeeps, SyncEndKeeps, ToggleKeeps
  <1>7. CASE UNCHANGED dnsVars
    <2> USE <1>7 DEF dnsVars, DnsInv
    <2>1. ZoneTypes'
      BY DEF ZoneTypes
    <2>2. Plans' /\ Records' /\ WayBack'
      BY DEF Plans, Records, WayBack, Taken, Surplus
    <2>3. Answers'
      BY DEF Answers, Behind, Comes, Latest, Current
    <2>4. Room'
      BY DEF Room
    <2> QED BY <2>1, <2>2, <2>3, <2>4
  <1> QED BY <1>1, <1>2, <1>3, <1>4, <1>5, <1>6, <1>7 DEF DnsNext

LEMMA AtMostOneAt ==
  ASSUME OneEditor, NEW S \in SUBSET Editor
  PROVE  IF S = {} THEN Cardinality(S) = 0 ELSE Cardinality(S) = 1
  <1>1. CASE S = {}
    BY <1>1, FS_EmptySet
  <1>2. CASE S # {}
    <2>1. PICK w \in S : TRUE
      BY <1>2
    <2>2. S = {w}
      BY <2>1 DEF OneEditor
    <2> QED BY <1>2, <2>2, FS_Singleton
  <1> QED BY <1>1, <1>2

LEMMA DnsIsRight ==
  ASSUME OneEditor, DnsInv
  PROVE  DnsRight
  <1> USE DEF DnsInv
  <1>1. ChangesUndoable
    <2> DEFINE busy == {w \in Editor : asked[w].pc \in {"trim", "change"}}
               taken == wasted + Cardinality(busy)
    <2>1. Cardinality(busy) \in Nat /\ (Taken => Cardinality(busy) = 1)
      <3>1. Taken => busy # {}
        BY DEF Taken
      <3>2. busy \in SUBSET Editor
        OBVIOUS
      <3> HIDE DEF busy
      <3> QED BY <3>1, <3>2, AtMostOneAt
    <2> HIDE DEF busy
    <2>2. taken \in Nat /\ Surplus \in Nat /\ Surplus <= taken
      <3>1. wasted \in Nat
        BY DEF ZoneTypes
      <3>2. CASE Taken
        BY <2>1, <3>1, <3>2 DEF Surplus
      <3>3. CASE ~Taken
        BY <2>1, <3>1, <3>3 DEF Surplus
      <3> QED BY <3>2, <3>3
    <2> HIDE DEF taken
    <2>3. ASSUME zone # Nothing, NEW k \in DOMAIN past, k + taken <= SnapshotsKept
          PROVE  past[k] \in ToSet(snaps)
      <3>1. k \in Nat /\ SnapshotsKept \in Nat
        BY DnsBounds DEF ZoneTypes
      <3>2. k + Surplus <= SnapshotsKept
        BY <2>2, <2>3, <3>1
      <3>3. PICK j \in DOMAIN snaps : snaps[j] = past[k]
        BY <2>3, <3>2 DEF WayBack
      <3> QED BY <3>3 DEF ToSet
    <2> QED BY <2>3 DEF ChangesUndoable, taken, busy
  <1>2. NamesApart
    BY DEF NamesApart, Records, Apiece
  <1>3. ServersCurrent
    <2> SUFFICES ASSUME NEW n \in Ns, Settled, told[n] = "done"
                 PROVE  serves[n] = Current
      BY DEF ServersCurrent
    <2>1. ~Behind(n)
      BY DEF Settled, Behind, Comes, Sending
    <2>2. n \in member
      BY DEF Answers
    <2> QED BY <2>1, <2>2 DEF Answers
  <1> QED BY <1>1, <1>2, <1>3 DEF DnsRight

\* What a customer's last changes replaced can be brought back, no name clashes
\* with another, and a name server whose last sync was done answers from the
\* current zone, whatever the nodes, the records and the failures.
THEOREM ZonesAreServed ==
  ASSUME OneEditor, Apart
  PROVE  PanelSpec => []DnsRight
  <1>1. PanelInit => DnsInv
    BY DnsInvInit DEF PanelInit
  <1>2. DnsInv /\ [PanelNext]_panelVars => DnsInv'
    <2> SUFFICES ASSUME DnsInv, [PanelNext]_panelVars PROVE DnsInv'
      OBVIOUS
    <2>1. DnsNext \/ UNCHANGED dnsVars
      BY DEF PanelNext, panelVars
    <2> QED BY <2>1, DnsStep
  <1>3. DnsInv => DnsRight
    BY DnsIsRight
  <1> QED BY <1>1, <1>2, <1>3, PTL DEF PanelSpec

-----------------------------------------------------------------------------
(* Domain names, as long as the panel is at one of them at a time.         *)
(*                                                                         *)
(* A name the registry once had in the account stays there (Registered).   *)
(* What a call knows of its name holds until it ends (CallKnown).  Unless  *)
(* an answer was lost, the row follows the registry, or the caller has     *)
(* just been told (RowKnown).  An active order owns its name, and its due  *)
(* date is at most one period ahead of the registry's, while that period   *)
(* is being registered (OrderKnown).                                       *)

OneCaller == \A c, d \in Caller : c = d

Registered == {"ours", "expired"}
Buys       == {"register", "transfer"}
Shown      == Watched \cup {"expired"}

CallKind  == [pc : {"idle", "place", "attach", "byService", "call", "answer", "sync", "synced", "finish"},
              op : {"none", "renew", "change", "sync"} \cup Buys, name : Name \cup {"none"}, order : Nat,
              value : Nat, ok : BOOLEAN, info : {"none", "active", "expired", "transferring"}, expires : Nat]
RowKind   == [status : NameStatus, owner : Nat, ns : Nat, expires : Nat]
EntryKind == [state : {"free", "other", "requested"} \cup Registered, ns : Nat, expires : Nat]
OrderKind == [name : Name, act : Buys, state : {"unpaid", "paid", "active"}, due : Nat]

DomTypes ==
  /\ dom \in [Name -> RowKind] /\ registry \in [Name -> EntryKind]
  /\ orders \in Seq(OrderKind) /\ caller \in [Caller -> CallKind]
  /\ year \in Nat /\ lost \in Nat /\ kills \in Nat /\ changes \in Nat

At(c, n, pcs, op) == caller[c].name = n /\ caller[c].pc \in pcs /\ caller[c].op = op

\* The registrar has said yes, and the row does not say so yet.
Granting(c, n) ==
  caller[c].name = n /\ caller[c].pc = "answer" /\ caller[c].op \in Buys \cup {"renew"} /\ caller[c].ok

\* A renewal is registered, and its date not yet in the row.
Redating(c, n) == At(c, n, {"sync", "synced"}, "renew") \/ (At(c, n, {"answer"}, "renew") /\ caller[c].ok)

Buying(c) ==
  /\ caller[c].op \in Buys /\ OrderOf(c) \in DOMAIN orders
  /\ dom[NameOf(c)].owner = OrderOf(c) /\ orders[OrderOf(c)].state = "paid"

Renewing(c) ==
  /\ caller[c].op = "renew" /\ OrderOf(c) \in DOMAIN orders
  /\ dom[NameOf(c)].owner = OrderOf(c) /\ orders[OrderOf(c)].state = "active"

CallKnown(c) ==
  LET n == caller[c].name
      o == caller[c].order
  IN /\ caller[c].pc # "idle" => n \in Name
     /\ caller[c].pc = "idle" => caller[c] = NoCall
     /\ o \in 0 .. Len(orders)
     /\ caller[c].pc \in {"place", "attach"} =>
          /\ caller[c].op \in Buys /\ dom[n].status \in Orderable /\ registry[n].state \in {"free", "other"}
          /\ caller[c].ok <=> dom[n].status # "none"
     /\ caller[c].pc = "attach" =>
          o = Len(orders) /\ o # 0 /\ orders[o].name = n /\ orders[o].state = "unpaid"
     /\ caller[c].pc = "byService" =>
          caller[c].op \in Buys /\ o \in DOMAIN orders /\ orders[o].name = n /\ orders[o].state = "paid"
     /\ caller[c].pc \in {"call", "answer"} =>
          (Buying(c) /\ dom[n].status \notin Watched) \/ Renewing(c) \/ caller[c].op = "change"
     /\ Granting(c, n) =>
          registry[n].state \in (IF caller[c].op = "transfer" THEN {"requested", "ours", "other"} ELSE Registered)
     /\ caller[c].pc \in {"sync", "synced"} =>
          \/ Buying(c) /\ dom[n].status \in Watched
          \/ caller[c].op = "renew" /\ dom[n].status = "active"
          \/ caller[c].op = "sync" /\ dom[n].status \in Watched
     /\ caller[c].pc = "synced" =>
          /\ caller[c].expires \in {0, registry[n].expires}
          /\ caller[c].op = "renew" => caller[c].expires = registry[n].expires
          /\ caller[c].info = "active" => registry[n].state = "ours"
          /\ caller[c].info = "expired" => registry[n].state = "expired"
          /\ caller[c].info = "transferring" => registry[n].state # "free"
          /\ caller[c].info # "none"
     /\ caller[c].pc = "finish" => Buying(c) /\ dom[n].status \in Shown

RowKnown(n) ==
  /\ registry[n].state \in Registered <=> registry[n].expires > 0
  /\ dom[n].expires <= registry[n].expires
  /\ dom[n].status \in {"active", "expired"} => registry[n].state \in Registered
  /\ dom[n].status = "transferring" => registry[n].state # "free"
  /\ dom[n].owner \in 0 .. Len(orders)
  /\ dom[n].owner # 0 => orders[dom[n].owner].name = n
  /\ dom[n].status = "none" => dom[n].owner = 0
  /\ lost = 0 /\ registry[n].state \in {"ours", "requested"} =>
       dom[n].status \in Watched \/ \E c \in Caller : Granting(c, n)
  /\ lost = 0 /\ registry[n].state = "expired" =>
       dom[n].status \notin {"pending", "none"} \/ \E c \in Caller : Granting(c, n)
  /\ lost = 0 => dom[n].expires \in {0, registry[n].expires} \/ \E c \in Caller : Redating(c, n)
  /\ lost = 0 => \A c \in Caller : At(c, n, {"call"}, "renew") => caller[c].expires \in {0, registry[n].expires}

OrderKnown(o) ==
  LET n == orders[o].name
  IN /\ orders[o].state = "active" => dom[n].owner = o /\ dom[n].status \in Shown
     /\ orders[o].state = "unpaid" <=> orders[o].due = 0
     /\ orders[o].state = "unpaid" /\ dom[n].owner = o => dom[n].status = "pending"
     /\ orders[o].state = "unpaid" /\ kills = 0 =>
          dom[n].owner = o \/ \E c \in Caller : Is(c, "attach") /\ OrderOf(c) = o
     /\ registry[n].state \notin Registered => orders[o].due <= year + 1
     /\ lost = 0 /\ dom[n].owner = o /\ registry[n].state \in Registered /\ orders[o].state # "unpaid" =>
          \/ orders[o].due <= registry[n].expires
          \/ orders[o].due <= registry[n].expires + 1 /\ \E c \in Caller : At(c, n, {"call"}, "renew")

DomInv ==
  /\ DomTypes
  /\ \A c \in Caller : CallKnown(c)
  /\ \A n \in Name : RowKnown(n)
  /\ \A o \in DOMAIN orders : OrderKnown(o)

\* A call goes on, or is over.
LEMMA StepIsCall ==
  ASSUME caller \in [Caller -> CallKind], NEW c \in Caller,
         NEW pc \in {"call", "answer", "sync", "finish"}
  PROVE  LET after == [caller EXCEPT ![c].pc = pc]
         IN /\ after \in [Caller -> CallKind]
            /\ after[c].pc = pc /\ after[c].op = caller[c].op /\ after[c].name = caller[c].name
            /\ after[c].order = caller[c].order /\ after[c].ok = caller[c].ok /\ after[c].expires = caller[c].expires
            /\ after[c].info = caller[c].info
  BY DEF CallKind

LEMMA AttachIsCall ==
  ASSUME caller \in [Caller -> CallKind], NEW c \in Caller, NEW o \in Nat
  PROVE  LET after == [caller EXCEPT ![c].pc = "attach", ![c].order = o]
         IN /\ after \in [Caller -> CallKind]
            /\ after[c].pc = "attach" /\ after[c].op = caller[c].op /\ after[c].name = caller[c].name
            /\ after[c].order = o /\ after[c].ok = caller[c].ok
  <1> DEFINE r == [caller[c] EXCEPT !.pc = "attach", !.order = o]
  <1>1. caller[c] \in CallKind
    OBVIOUS
  <1>2. /\ r \in CallKind /\ r.pc = "attach" /\ r.order = o
        /\ r.op = caller[c].op /\ r.name = caller[c].name /\ r.ok = caller[c].ok
    BY <1>1 DEF CallKind
  <1>3. [caller EXCEPT ![c].pc = "attach", ![c].order = o] = [caller EXCEPT ![c] = r]
    OBVIOUS
  <1> HIDE DEF r
  <1> QED BY <1>2, <1>3

LEMMA RestIsCall ==
  ASSUME caller \in [Caller -> CallKind], NEW c \in Caller
  PROVE  /\ [caller EXCEPT ![c] = NoCall] \in [Caller -> CallKind]
         /\ [caller EXCEPT ![c] = NoCall][c] = NoCall
         /\ NoCall.pc = "idle" /\ NoCall.order = 0 /\ NoCall.op = "none"
  BY DEF CallKind, NoCall, CallOf

-----------------------------------------------------------------------------
LEMMA DomInvInit == DomainsInit => DomInv
  <1> SUFFICES ASSUME DomainsInit PROVE DomInv
    OBVIOUS
  <1> USE DEF DomainsInit
  <1>1. DomTypes
    <2>1. orders \in Seq(OrderKind)
      BY EmptySeq
    <2>2. caller \in [Caller -> CallKind]
      BY DEF CallKind, NoCall, CallOf, Buys
    <2>3. dom \in [Name -> RowKind] /\ registry \in [Name -> EntryKind]
      BY DEF RowKind, EntryKind, NameStatus
    <2> QED BY <2>1, <2>2, <2>3 DEF DomTypes
  <1>2. \A c \in Caller : CallKnown(c)
    BY DEF CallKnown, NoCall, CallOf, Granting
  <1>3. \A n \in Name : RowKnown(n)
    <2>1. \A n \in Name : /\ dom[n].status = "none" /\ dom[n].owner = 0 /\ dom[n].expires = 0
                          /\ registry[n].state \in {"free", "other"} /\ registry[n].expires = 0
      OBVIOUS
    <2>2. \A c \in Caller : caller[c].pc = "idle"
      BY DEF NoCall, CallOf
    <2>3. Len(orders) = 0
      OBVIOUS
    <2> HIDE DEF DomainsInit
    <2> TAKE n \in Name
    <2>4. registry[n].state \in Registered <=> registry[n].expires > 0
      BY <2>1 DEF Registered
    <2>5. dom[n].expires <= registry[n].expires /\ dom[n].owner \in 0 .. Len(orders)
      BY <2>1, <2>3
    <2>6. \A c \in Caller : ~At(c, n, {"call"}, "renew")
      BY <2>2 DEF At
    <2> QED BY <2>1, <2>4, <2>5, <2>6 DEF RowKnown
  <1>4. orders = <<>> /\ \A o \in DOMAIN orders : OrderKnown(o)
    OBVIOUS
  <1> QED BY <1>1, <1>2, <1>3, <1>4 DEF DomInv

LEMMA PrepareKeeps ==
  ASSUME OneCaller, DomInv, NEW c \in Caller, NEW n \in Name, NEW act \in Buys, Prepare(c, n, act)
  PROVE  DomInv'
  <1> USE DEF DomInv, Prepare, TakesUp
  <1>1. /\ caller'[c].pc = "place" /\ caller'[c].op = act /\ caller'[c].name = n /\ caller'[c].order = 0
        /\ caller'[c].ok = (dom[n].status # "none") /\ caller' \in [Caller -> CallKind]
    BY DEF DomTypes, CallKind, CallOf, Buys
  <1>2. \A d \in Caller : d = c
    BY DEF OneCaller
  <1>3. DomTypes'
    BY <1>1 DEF DomTypes
  <1>4. CallKnown(c)'
    <2>1. caller'[c].ok <=> dom[n].status # "none"
      BY <1>1
    <2>2. registry[n].state \in {"free", "other"}
      OBVIOUS
    <2>3. 0 \in 0 .. Len(orders)
      BY LenProperties DEF DomTypes
    <2> QED BY <1>1, <2>1, <2>2, <2>3 DEF CallKnown, Granting
  <1>5. ASSUME NEW m \in Name PROVE RowKnown(m)'
    BY <1>1, <1>2 DEF RowKnown, Granting, Redating, At, Is
  <1>6. ASSUME NEW o \in DOMAIN orders PROVE OrderKnown(o)'
    BY <1>1, <1>2 DEF OrderKnown, At, Is
  <1> QED BY <1>2, <1>3, <1>4, <1>5, <1>6

LEMMA PlaceKeeps ==
  ASSUME OneCaller, DomInv, NEW c \in Caller, Place(c)
  PROVE  DomInv'
  <1> USE DEF DomInv, NameOf, OrderOf
  <1> DEFINE new == [name |-> NameOf(c), act |-> caller[c].op, state |-> "unpaid", due |-> 0]
  <1>1. /\ caller[c].pc = "place" /\ orders' = Append(orders, new)
        /\ caller' = [caller EXCEPT ![c].pc = "attach", ![c].order = Len(orders) + 1]
        /\ UNCHANGED <<dom, registry, year, lost, kills, changes>>
        /\ \A d \in Caller : d = c
    BY DEF Place, OneCaller, Is
  <1>2. /\ caller[c].name \in Name /\ caller[c].op \in Buys /\ new \in OrderKind
        /\ dom[caller[c].name].status \in Orderable /\ registry[caller[c].name].state \in {"free", "other"}
        /\ caller[c].ok <=> dom[caller[c].name].status # "none"
    BY <1>1 DEF CallKnown, OrderKind
  <1>3. /\ orders \in Seq(OrderKind) /\ orders' \in Seq(OrderKind) /\ Len(orders') = Len(orders) + 1
        /\ orders'[Len(orders) + 1] = new /\ \A o \in DOMAIN orders : orders'[o] = orders[o] /\ o \in DOMAIN orders'
        /\ \A o \in DOMAIN orders' : o \in DOMAIN orders \/ o = Len(orders) + 1
        /\ Len(orders) \in Nat /\ DOMAIN orders = 1 .. Len(orders)
    BY <1>1, <1>2 DEF DomTypes
  <1>4. /\ caller'[c].pc = "attach" /\ caller'[c].order = Len(orders) + 1 /\ caller'[c].name = caller[c].name
        /\ caller'[c].op = caller[c].op /\ caller'[c].ok = caller[c].ok
        /\ caller' \in [Caller -> CallKind]
    <2>1. Len(orders) + 1 \in Nat /\ caller \in [Caller -> CallKind]
      BY <1>3 DEF DomTypes
    <2> DEFINE k == Len(orders) + 1
    <2>2. k \in Nat /\ caller' = [caller EXCEPT ![c].pc = "attach", ![c].order = k]
      BY <1>1, <2>1
    <2> HIDE DEF k
    <2>3. /\ caller'[c].pc = "attach" /\ caller'[c].order = k /\ caller'[c].name = caller[c].name
          /\ caller'[c].op = caller[c].op /\ caller'[c].ok = caller[c].ok
          /\ caller' \in [Caller -> CallKind]
      BY <2>1, <2>2, AttachIsCall
    <2> QED BY <2>3 DEF k
  <1>5. new.name = caller[c].name /\ new.state = "unpaid" /\ new.due = 0
    OBVIOUS
  <1> HIDE DEF new
  <1>6. DomTypes'
    BY <1>1, <1>3, <1>4 DEF DomTypes
  <1>7. CallKnown(c)'
    BY <1>1, <1>2, <1>3, <1>4, <1>5, SMTT(30) DEF CallKnown, Granting
  <1>8. ASSUME NEW m \in Name PROVE RowKnown(m)'
    <2>1. dom[m].owner \in 0 .. Len(orders')
      BY <1>3 DEF RowKnown
    <2>2. dom[m].owner # 0 => orders'[dom[m].owner].name = m
      BY <1>3 DEF RowKnown
    <2>3. ~Granting(c, m) /\ ~Redating(c, m) /\ ~Granting(c, m)' /\ ~Redating(c, m)' /\ ~At(c, m, {"call"}, "renew")'
      BY <1>1, <1>4 DEF Granting, Redating, At
    <2> QED BY <1>1, <2>1, <2>2, <2>3 DEF RowKnown
  <1>9. ASSUME NEW o \in DOMAIN orders' PROVE OrderKnown(o)'
    <2>1. CASE o \in DOMAIN orders
      BY <1>1, <1>3, <1>4, <2>1 DEF OrderKnown, At, Is
    <2>2. CASE o = Len(orders) + 1
      <3>1. orders'[o] = new /\ dom[new.name].owner # o /\ Is(c, "attach")' /\ OrderOf(c)' = o
        BY <1>2, <1>3, <1>4, <1>5, <2>2 DEF RowKnown, Is
      <3> QED BY <1>1, <1>5, <3>1 DEF OrderKnown, DomTypes
    <2> QED BY <1>3, <2>1, <2>2
  <1> QED BY <1>1, <1>6, <1>7, <1>8, <1>9

LEMMA AttachKeeps ==
  ASSUME OneCaller, DomInv, NEW c \in Caller, Attach(c)
  PROVE  DomInv'
  <1> USE DEF DomInv, NameOf, OrderOf
  <1> DEFINE n == caller[c].name
             o == caller[c].order
  <1>1. /\ caller[c].pc = "attach" /\ n \in Name /\ caller[c].op \in Buys
        /\ dom[n].status \in Orderable /\ registry[n].state \in {"free", "other"}
        /\ caller[c].ok <=> dom[n].status # "none"
        /\ o = Len(orders) /\ o # 0 /\ orders[o].name = n /\ orders[o].state = "unpaid"
        /\ \A d \in Caller : d = c
    BY DEF Attach, OneCaller, Is, CallKnown
  <1>2. /\ dom' = [dom EXCEPT ![n] = [status |-> "pending", owner |-> o, ns |-> 0, expires |-> 0]]
        /\ caller' = [caller EXCEPT ![c] = NoCall]
        /\ UNCHANGED <<registry, orders, year, lost, kills, changes>>
    BY <1>1 DEF Attach, Leaves
  <1>3. /\ caller' \in [Caller -> CallKind] /\ caller'[c] = NoCall /\ NoCall.pc = "idle" /\ NoCall.order = 0
        /\ Len(orders) \in Nat /\ DOMAIN orders = 1 .. Len(orders)
    BY <1>2 DEF DomTypes, CallKind, NoCall, CallOf
  <1>4. /\ dom'[n].status = "pending" /\ dom'[n].owner = o /\ dom'[n].expires = 0
        /\ \A m \in Name : m # n => dom'[m] = dom[m]
        /\ dom' \in [Name -> RowKind]
    BY <1>1, <1>2, <1>3 DEF DomTypes, RowKind, NameStatus
  <1> HIDE DEF n, o
  <1>5. DomTypes'
    BY <1>2, <1>3, <1>4 DEF DomTypes
  <1>6. CallKnown(c)'
    BY <1>2, <1>3 DEF CallKnown, Granting
  <1>7. ASSUME NEW m \in Name PROVE RowKnown(m)'
    <2>1. ~Granting(c, m) /\ ~Redating(c, m) /\ ~Granting(c, m)' /\ ~Redating(c, m)' /\ ~At(c, m, {"call"}, "renew")'
      BY <1>1, <1>3 DEF Granting, Redating, At
    <2>2. CASE m = n
      <3>1. registry[n] = registry[m] /\ registry[n].state \notin {"ours", "requested", "expired"} /\ registry[n].expires \in Nat
        BY <1>1, <2>2 DEF DomTypes, EntryKind
      <3> QED BY <1>1, <1>2, <1>3, <1>4, <2>1, <2>2, <3>1 DEF RowKnown, Registered
    <2>3. CASE m # n
      BY <1>1, <1>2, <1>4, <2>1, <2>3 DEF RowKnown
    <2> QED BY <2>2, <2>3
  <1>8. ASSUME NEW p \in DOMAIN orders PROVE OrderKnown(p)'
    <2>1. CASE orders[p].name = n
      <3>1. orders[p].state # "active"
        BY <1>1, <2>1 DEF OrderKnown, RowKnown, Shown, Watched, Orderable, Registered
      <3>2. orders[p].state = "unpaid" /\ kills = 0 => p = o
        BY <1>1, <2>1 DEF OrderKnown, Orderable, Is, o
      <3>3. registry[n].state \notin Registered
        BY <1>1 DEF Registered
      <3> QED BY <1>2, <1>4, <2>1, <3>1, <3>2, <3>3 DEF OrderKnown
    <2>2. CASE orders[p].name # n
      <3>1. p # o /\ orders[p].name \in Name
        <4>1. orders[p] \in OrderKind
          BY ElementOfSeq DEF DomTypes
        <4> QED BY <1>1, <2>2, <4>1 DEF OrderKind
      <3> QED BY <1>1, <1>2, <1>3, <1>4, <2>2, <3>1 DEF OrderKnown, At, Is, o
    <2> QED BY <2>1, <2>2
  <1> QED BY <1>1, <1>2, <1>5, <1>6, <1>7, <1>8

LEMMA PayKeeps ==
  ASSUME OneCaller, DomInv, NEW c \in Caller, NEW o \in DOMAIN orders, PayOrder(c, o)
  PROVE  DomInv'
  <1> USE DEF DomInv, NameOf, OrderOf
  <1> DEFINE n == orders[o].name
             due == IF orders[o].due = 0 THEN year + 1 ELSE orders[o].due
  <1>1. /\ caller[c].pc = "idle" /\ orders[o].state \in {"unpaid", "paid"}
        /\ \A d \in Caller : d = c
        /\ UNCHANGED <<dom, registry, year, lost, kills, changes>>
        /\ orders' = [orders EXCEPT ![o].state = "paid", ![o].due = due]
        /\ caller' = [caller EXCEPT ![c] = CallOf("byService", orders[o].act, n, o)]
    BY DEF PayOrder, OneCaller, Is, TakesUp
  <1>2. /\ orders[o] \in OrderKind /\ n \in Name /\ orders[o].due \in Nat /\ year \in Nat /\ due \in Nat \ {0}
        /\ Len(orders) \in Nat /\ DOMAIN orders = 1 .. Len(orders)
    <2>1. orders[o] \in OrderKind /\ year \in Nat /\ Len(orders) \in Nat /\ DOMAIN orders = 1 .. Len(orders)
      BY ElementOfSeq, LenProperties DEF DomTypes
    <2>2. n \in Name /\ orders[o].due \in Nat
      BY <2>1 DEF OrderKind
    <2> HIDE DEF n
    <2> QED BY <2>1, <2>2
  <1>3. /\ orders' \in Seq(OrderKind) /\ Len(orders') = Len(orders) /\ DOMAIN orders' = DOMAIN orders
        /\ orders'[o].state = "paid" /\ orders'[o].due = due /\ orders'[o].name = n
        /\ \A p \in DOMAIN orders : p # o => orders'[p] = orders[p]
    <2>1. orders' = [orders EXCEPT ![o] = [orders[o] EXCEPT !.state = "paid", !.due = due]]
      BY <1>1
    <2>2. [orders[o] EXCEPT !.state = "paid", !.due = due] \in OrderKind
      BY <1>2 DEF OrderKind
    <2> HIDE DEF due, n
    <2>3. orders' \in Seq(OrderKind) /\ Len(orders') = Len(orders) /\ DOMAIN orders' = DOMAIN orders
      BY <2>1, <2>2 DEF DomTypes
    <2> QED BY <1>2, <2>1, <2>3 DEF OrderKind, n
  <1>4. /\ caller'[c].pc = "byService" /\ caller'[c].op \in Buys /\ caller'[c].name = n /\ caller'[c].order = o
        /\ caller' \in [Caller -> CallKind]
    BY <1>1, <1>2 DEF DomTypes, CallKind, OrderKind, CallOf
  <1> HIDE DEF n, due
  <1>5. DomTypes'
    BY <1>1, <1>3, <1>4 DEF DomTypes
  <1>6. CallKnown(c)'
    BY <1>2, <1>3, <1>4 DEF CallKnown, Granting
  <1>7. ASSUME NEW m \in Name PROVE RowKnown(m)'
    <2>1. ~Granting(c, m) /\ ~Redating(c, m) /\ ~Granting(c, m)' /\ ~Redating(c, m)' /\ ~At(c, m, {"call"}, "renew")'
      BY <1>1, <1>4 DEF Granting, Redating, At
    <2>2. dom[m].owner # 0 => orders'[dom[m].owner].name = m
      BY <1>2, <1>3 DEF RowKnown, n
    <2> QED BY <1>1, <1>3, <2>1, <2>2 DEF RowKnown
  <1>8. ASSUME NEW p \in DOMAIN orders PROVE OrderKnown(p)'
    <2>1. CASE p = o
      <3>1. registry[n].state \notin Registered => due <= year + 1
        BY <1>2, <2>1 DEF OrderKnown, due, n
      <3>2. ASSUME lost = 0, dom[n].owner = o, registry[n].state \in Registered
            PROVE  due <= registry[n].expires
        <4>1. orders[o].state = "paid"
          <5>1. orders[o].state = "unpaid" => dom[n].status = "pending"
            BY <3>2 DEF OrderKnown, n
          <5>2. ~Granting(c, n)
            BY <1>1 DEF Granting
          <5>3. dom[n].status # "pending"
            BY <1>1, <1>2, <3>2, <5>2 DEF RowKnown, Registered, Watched
          <5> QED BY <1>1, <5>1, <5>3
        <4>2. due = orders[o].due
          BY <4>1 DEF OrderKnown, due
        <4>3. ~At(c, n, {"call"}, "renew")
          BY <1>1 DEF At
        <4> QED BY <1>1, <3>2, <4>1, <4>2, <4>3 DEF OrderKnown, n
      <3>3. orders'[p].state = "paid" /\ orders'[p].due = due /\ due # 0 /\ orders'[p].name = n
        BY <1>2, <1>3, <2>1
      <3>4. lost' = 0 /\ dom'[n].owner = p /\ registry'[n].state \in Registered => due <= registry'[n].expires
        BY <1>1, <2>1, <3>2
      <3>5. registry'[n].state \notin Registered => due <= year' + 1
        BY <1>1, <3>1
      <3>6. orders'[p].state # "unpaid" /\ orders'[p].state # "active" /\ orders'[p].due # 0
        BY <3>3
      <3> HIDE DEF DomInv
      <3> QED BY <3>3, <3>4, <3>5, <3>6 DEF OrderKnown
    <2>2. CASE p # o
      <3>1. orders'[p] = orders[p]
        BY <1>3, <2>2
      <3>2. \A d \in Caller : caller[d].pc # "attach" /\ ~At(d, orders[p].name, {"call"}, "renew")
        BY <1>1 DEF At
      <3>3. OrderKnown(p)
        OBVIOUS
      <3> HIDE DEF DomInv
      <3> QED BY <1>1, <3>1, <3>2, <3>3 DEF OrderKnown, Is
    <2> QED BY <2>1, <2>2
  <1> QED BY <1>1, <1>3, <1>5, <1>6, <1>7, <1>8

\* The order is active as soon as its name is.
LEMMA ReadKeeps ==
  ASSUME OneCaller, DomInv, NEW c \in Caller, ProvisionRead(c)
  PROVE  DomInv'
  <1> USE DEF DomInv, NameOf, OrderOf
  <1> DEFINE n == caller[c].name
             o == caller[c].order
  <1>1. /\ caller[c].pc = "byService" /\ n \in Name /\ caller[c].op \in Buys
        /\ o \in DOMAIN orders /\ orders[o].name = n /\ orders[o].state = "paid"
        /\ \A d \in Caller : d = c
        /\ UNCHANGED <<dom, registry, year, lost, kills, changes>>
    BY DEF ProvisionRead, OneCaller, Is, CallKnown
  <1>2. \/ caller' = [caller EXCEPT ![c] = NoCall] /\ UNCHANGED orders
        \/ /\ caller' = [caller EXCEPT ![c] = NoCall] /\ orders' = [orders EXCEPT ![o].state = "active"]
           /\ dom[n].owner = o /\ dom[n].status \in Watched
        \/ /\ caller' = [caller EXCEPT ![c].pc = "call"] /\ UNCHANGED orders
           /\ dom[n].owner = o /\ dom[n].status \notin Watched
    BY DEF ProvisionRead, Done, Watched, Leaves, Step
  <1>3. Len(orders) \in Nat /\ DOMAIN orders = 1 .. Len(orders) /\ orders[o] \in OrderKind
    BY <1>1, ElementOfSeq DEF DomTypes
  <1>4. /\ caller' \in [Caller -> CallKind]
        /\ caller'[c] = NoCall \/ (/\ caller'[c].pc = "call" /\ caller'[c].op = caller[c].op
                                 /\ caller'[c].name = n /\ caller'[c].order = o
                                 /\ dom[n].owner = o /\ dom[n].status \notin Watched /\ orders' = orders)
        /\ NoCall.pc = "idle" /\ NoCall.order = 0
    <2>1. caller \in [Caller -> CallKind]
      BY DEF DomTypes
    <2>2. CASE caller' = [caller EXCEPT ![c] = NoCall]
      BY <2>1, <2>2, RestIsCall
    <2>3. CASE /\ caller' = [caller EXCEPT ![c].pc = "call"] /\ UNCHANGED orders
               /\ dom[n].owner = o /\ dom[n].status \notin Watched
      <3>1. /\ caller' \in [Caller -> CallKind] /\ caller'[c].pc = "call" /\ caller'[c].op = caller[c].op
            /\ caller'[c].name = n /\ caller'[c].order = o
        BY <2>1, <2>3, StepIsCall
      <3> QED BY <2>1, <2>3, <3>1, RestIsCall
    <2> QED BY <1>2, <2>2, <2>3
  <1>5. \/ UNCHANGED orders
        \/ /\ orders' \in Seq(OrderKind) /\ Len(orders') = Len(orders) /\ DOMAIN orders' = DOMAIN orders
           /\ orders'[o].state = "active" /\ orders'[o].due = orders[o].due /\ orders'[o].name = n
           /\ \A p \in DOMAIN orders : p # o => orders'[p] = orders[p]
           /\ dom[n].owner = o /\ dom[n].status \in Watched
    <2>1. CASE UNCHANGED orders
      BY <2>1
    <2>2. CASE orders' = [orders EXCEPT ![o].state = "active"] /\ dom[n].owner = o /\ dom[n].status \in Watched
      <3>1. orders' = [orders EXCEPT ![o] = [orders[o] EXCEPT !.state = "active"]]
        BY <2>2
      <3>2. [orders[o] EXCEPT !.state = "active"] \in OrderKind
        BY <1>3 DEF OrderKind
      <3> HIDE DEF o, n
      <3>3. orders' \in Seq(OrderKind) /\ Len(orders') = Len(orders) /\ DOMAIN orders' = DOMAIN orders
        BY <1>1, <3>1, <3>2 DEF DomTypes
      <3> QED BY <1>1, <1>3, <2>2, <3>1, <3>3 DEF OrderKind
    <2> QED BY <1>2, <2>1, <2>2
  <1> HIDE DEF n, o
  <1>6. DomTypes'
    BY <1>1, <1>4, <1>5 DEF DomTypes
  <1>7. CallKnown(c)'
    <2>1. CASE caller'[c] = NoCall
      BY <1>3, <1>4, <1>5, <2>1 DEF CallKnown, Granting
    <2>2. CASE caller'[c] # NoCall
      <3>1. Buying(c)'
        BY <1>1, <1>4, <2>2 DEF Buying
      <3> QED BY <1>1, <1>3, <1>4, <2>2, <3>1 DEF CallKnown, Granting
    <2> QED BY <2>1, <2>2
  <1>8. ASSUME NEW m \in Name PROVE RowKnown(m)'
    <2>1. ~Granting(c, m) /\ ~Redating(c, m) /\ ~Granting(c, m)' /\ ~Redating(c, m)' /\ ~At(c, m, {"call"}, "renew")'
      BY <1>1, <1>4 DEF Granting, Redating, At, Buys, NoCall, CallOf
    <2>2. dom[m].owner # 0 => orders'[dom[m].owner].name = m
      BY <1>1, <1>3, <1>5 DEF RowKnown
    <2>3. Len(orders') = Len(orders)
      BY <1>5
    <2> QED BY <1>1, <2>1, <2>2, <2>3 DEF RowKnown
  <1>9. ASSUME NEW p \in DOMAIN orders PROVE OrderKnown(p)'
    <2>1. ~At(c, orders[p].name, {"call"}, "renew") /\ ~Is(c, "attach")
      BY <1>1 DEF At, Is
    <2>2. CASE orders'[p] = orders[p]
      BY <1>1, <2>1, <2>2 DEF OrderKnown
    <2>3. CASE orders'[p] # orders[p]
      <3>1. /\ p = o /\ orders'[o].state = "active" /\ orders'[o].due = orders[o].due /\ orders'[o].name = n
            /\ dom[n].owner = o /\ dom[n].status \in Shown
        BY <1>5, <2>3 DEF Shown
      <3> QED BY <1>1, <2>1, <3>1 DEF OrderKnown
    <2> QED BY <2>2, <2>3
  <1> QED BY <1>1, <1>5, <1>6, <1>7, <1>8, <1>9

\* What a grant does to a name; a name in the account stays there.
LEMMA GrantedIs ==
  ASSUME year \in Nat
  PROVE  \A r \in EntryKind, op \in {"register", "transfer", "renew", "change"}, v \in Nat :
           /\ Granted(op, r, v) \in EntryKind
           /\ op = "register" => Granted(op, r, v).state = "ours" /\ Granted(op, r, v).expires = year + 1
           /\ op = "transfer" => Granted(op, r, v).state = "requested" /\ Granted(op, r, v).expires = r.expires
           /\ op = "renew" => Granted(op, r, v).state \in Registered /\ Granted(op, r, v).expires = r.expires + 1
           /\ op = "change" => Granted(op, r, v).state = r.state /\ Granted(op, r, v).expires = r.expires
  <1> TAKE r \in EntryKind, op \in {"register", "transfer", "renew", "change"}, v \in Nat
  <1>1. CASE op = "register"
    <2>1. Granted(op, r, v) = [r EXCEPT !.state = "ours", !.expires = year + 1]
      BY <1>1 DEF Granted
    <2>2. year + 1 \in Nat
      OBVIOUS
    <2> QED BY <1>1, <2>1, <2>2 DEF EntryKind, Registered
  <1>2. CASE op = "transfer"
    <2>1. Granted(op, r, v) = [r EXCEPT !.state = "requested"]
      BY <1>2 DEF Granted
    <2> QED BY <1>2, <2>1 DEF EntryKind, Registered
  <1>3. CASE op = "renew"
    <2>1. r.expires \in Nat /\ r.expires + 1 \in Nat
      BY DEF EntryKind
    <2>2. CASE r.expires + 1 > year
      <3>1. Granted(op, r, v) = [r EXCEPT !.state = "ours", !.expires = r.expires + 1]
        BY <1>3, <2>2 DEF Granted
      <3> QED BY <1>3, <2>1, <3>1 DEF EntryKind, Registered
    <2>3. CASE ~(r.expires + 1 > year)
      <3>1. Granted(op, r, v) = [r EXCEPT !.state = "expired", !.expires = r.expires + 1]
        BY <1>3, <2>3 DEF Granted
      <3> QED BY <1>3, <2>1, <3>1 DEF EntryKind, Registered
    <2> QED BY <2>2, <2>3
  <1>4. CASE op = "change"
    <2>1. Granted(op, r, v) = [r EXCEPT !.ns = v]
      BY <1>4 DEF Granted
    <2> QED BY <1>4, <2>1 DEF EntryKind
  <1> QED BY <1>1, <1>2, <1>3, <1>4

LEMMA AnswerIsCall ==
  ASSUME caller \in [Caller -> CallKind], NEW c \in Caller
  PROVE  /\ LET yes == [caller EXCEPT ![c].pc = "answer", ![c].ok = TRUE]
            IN /\ yes \in [Caller -> CallKind]
               /\ yes[c].pc = "answer" /\ yes[c].op = caller[c].op /\ yes[c].name = caller[c].name
               /\ yes[c].order = caller[c].order /\ yes[c].ok
         /\ LET no == [caller EXCEPT ![c].pc = "answer", ![c].ok = FALSE]
            IN /\ no \in [Caller -> CallKind]
               /\ no[c].pc = "answer" /\ no[c].op = caller[c].op /\ no[c].name = caller[c].name
               /\ no[c].order = caller[c].order /\ ~no[c].ok
  <1> DEFINE yes == [caller[c] EXCEPT !.pc = "answer", !.ok = TRUE]
             no  == [caller[c] EXCEPT !.pc = "answer", !.ok = FALSE]
  <1>1. caller[c] \in CallKind
    OBVIOUS
  <1>2. /\ yes \in CallKind /\ yes.pc = "answer" /\ yes.order = caller[c].order
        /\ yes.op = caller[c].op /\ yes.name = caller[c].name /\ yes.ok
    BY <1>1 DEF CallKind
  <1>3. /\ no \in CallKind /\ no.pc = "answer" /\ no.order = caller[c].order
        /\ no.op = caller[c].op /\ no.name = caller[c].name /\ ~no.ok
    BY <1>1 DEF CallKind
  <1>4. /\ [caller EXCEPT ![c].pc = "answer", ![c].ok = TRUE] = [caller EXCEPT ![c] = yes]
        /\ [caller EXCEPT ![c].pc = "answer", ![c].ok = FALSE] = [caller EXCEPT ![c] = no]
    OBVIOUS
  <1> HIDE DEF yes, no
  <1> QED BY <1>2, <1>3, <1>4

LEMMA RegistrarKeeps ==
  ASSUME OneCaller, DomInv, NEW c \in Caller, AtRegistrar(c)
  PROVE  DomInv'
  <1> USE DEF NameOf, OrderOf
  <1> DEFINE n == caller[c].name
             op == caller[c].op
             row == registry[n]
  <1>1. /\ caller[c].pc = "call" /\ n \in Name /\ op \in {"register", "transfer", "renew", "change"}
        /\ (Buying(c) /\ dom[n].status \notin Watched) \/ Renewing(c) \/ op = "change"
        /\ caller[c].order \in 0 .. Len(orders) /\ caller[c].value \in Nat /\ caller[c].expires \in Nat
        /\ row \in EntryKind /\ year \in Nat /\ lost \in Nat
        /\ \A d \in Caller : d = c
        /\ UNCHANGED <<dom, orders, year, kills, changes>>
    <2>1. caller[c] \in CallKind /\ CallKnown(c) /\ caller[c].pc = "call"
      BY DEF DomInv, DomTypes, AtRegistrar, Is
    <2>2. caller[c].name \in Name
      BY <2>1 DEF CallKnown
    <2>3. registry[caller[c].name] \in EntryKind /\ year \in Nat /\ lost \in Nat
      BY <2>2 DEF DomInv, DomTypes
    <2>4. \A d \in Caller : d = c
      BY DEF OneCaller
    <2>5. UNCHANGED <<dom, orders, year, kills, changes>>
      BY DEF AtRegistrar
    <2>6. caller[c].value \in Nat /\ caller[c].expires \in Nat
      BY <2>1 DEF CallKind
    <2>7. (Buying(c) /\ dom[n].status \notin Watched) \/ Renewing(c) \/ op = "change"
      BY <2>1 DEF CallKnown
    <2>8. op \in {"register", "transfer", "renew", "change"}
      BY <2>7 DEF Buying, Renewing, Buys
    <2>9. caller[c].order \in 0 .. Len(orders)
      BY <2>1 DEF CallKnown
    <2> QED BY <2>1, <2>2, <2>3, <2>4, <2>5, <2>6, <2>7, <2>8, <2>9
  <1>2. /\ caller'[c].ok => Grants(c)
        /\ lost' = 0 => lost = 0 /\ (Grants(c) => caller'[c].ok)
        /\ lost' \in Nat
        /\ caller'[c].pc = "answer" /\ caller'[c].op = op /\ caller'[c].name = n
        /\ caller'[c].order = caller[c].order
        /\ caller' \in [Caller -> CallKind]
    <2>1. caller \in [Caller -> CallKind]
      BY DEF DomInv, DomTypes
    <2>2. \/ Grants(c) /\ Answered(c, TRUE) /\ lost' = lost
          \/ ~Grants(c) /\ Answered(c, FALSE) /\ lost' = lost
          \/ lost' = lost + 1 /\ Answered(c, FALSE)
      BY DEF AtRegistrar
    <2>3. lost + 1 # 0 /\ lost + 1 \in Nat
      BY <1>1
    <2>4. CASE Grants(c) /\ Answered(c, TRUE) /\ lost' = lost
      BY <1>1, <2>1, <2>4, AnswerIsCall DEF Answered
    <2>5. CASE ~Grants(c) /\ Answered(c, FALSE) /\ lost' = lost
      BY <1>1, <2>1, <2>5, AnswerIsCall DEF Answered
    <2>6. CASE lost' = lost + 1 /\ Answered(c, FALSE)
      BY <2>1, <2>3, <2>6, AnswerIsCall DEF Answered
    <2> QED BY <2>2, <2>4, <2>5, <2>6
  <1>4. \/ ~Grants(c) /\ registry' = registry
        \/ Grants(c) /\ registry' = [registry EXCEPT ![n] = Granted(op, row, caller[c].value)]
    BY DEF AtRegistrar
  <1>5. /\ registry' \in [Name -> EntryKind]
        /\ \A m \in Name : m # n => registry'[m] = registry[m]
        /\ Grants(c) => registry'[n] = Granted(op, row, caller[c].value)
        /\ ~Grants(c) => registry'[n] = row
    <2>1. registry \in [Name -> EntryKind] /\ Granted(op, row, caller[c].value) \in EntryKind
      BY <1>1, GrantedIs DEF DomInv, DomTypes
    <2> HIDE DEF op
    <2> QED BY <1>1, <1>4, <2>1
  <1> DEFINE new == registry'[n]
  <1>6. /\ Grants(c) /\ op = "register" => row.state = "free" /\ new.state = "ours" /\ new.expires = year + 1
        /\ Grants(c) /\ op = "transfer" => row.state = "other" /\ new.state = "requested" /\ new.expires = row.expires
        /\ Grants(c) /\ op = "renew" => row.state \in Registered /\ new.state \in Registered /\ new.expires = row.expires + 1
        /\ Grants(c) /\ op = "change" => row.state = "ours" /\ new.state = "ours" /\ new.expires = row.expires
        /\ ~Grants(c) => new = row
        /\ op = "renew" /\ row.state \in Registered /\ caller[c].expires \in {0, row.expires} => Grants(c)
    <2>1. /\ op = "register" => Grants(c) = (row.state = "free")
          /\ op = "transfer" => Grants(c) = (row.state = "other")
          /\ op = "renew" => Grants(c) = (row.state \in Registered /\ (GuardsExpiry => caller[c].expires \in {0, row.expires}))
          /\ op = "change" => Grants(c) = (row.state = "ours")
      BY DEF Grants, Registered
    <2>2. /\ op = "register" => Granted(op, row, caller[c].value).state = "ours" /\ Granted(op, row, caller[c].value).expires = year + 1
          /\ op = "transfer" => Granted(op, row, caller[c].value).state = "requested" /\ Granted(op, row, caller[c].value).expires = row.expires
          /\ op = "renew" => Granted(op, row, caller[c].value).state \in Registered /\ Granted(op, row, caller[c].value).expires = row.expires + 1
          /\ op = "change" => Granted(op, row, caller[c].value).state = row.state /\ Granted(op, row, caller[c].value).expires = row.expires
      <3> DEFINE v == caller[c].value
      <3>1. row \in EntryKind /\ op \in {"register", "transfer", "renew", "change"} /\ v \in Nat /\ year \in Nat
        BY <1>1
      <3> HIDE DEF op, row, v
      <3>2. /\ op = "register" => Granted(op, row, v).state = "ours" /\ Granted(op, row, v).expires = year + 1
            /\ op = "transfer" => Granted(op, row, v).state = "requested" /\ Granted(op, row, v).expires = row.expires
            /\ op = "renew" => Granted(op, row, v).state \in Registered /\ Granted(op, row, v).expires = row.expires + 1
            /\ op = "change" => Granted(op, row, v).state = row.state /\ Granted(op, row, v).expires = row.expires
        BY <3>1, GrantedIs, ZenonT(60)
      <3> QED BY <3>2 DEF v
    <2> HIDE DEF op, row, n
    <2> QED BY <1>5, <2>1, <2>2
  <1>7. /\ new \in EntryKind /\ row.expires \in Nat /\ year \in Nat /\ RowKnown(n) /\ ~Granting(c, n) /\ ~Redating(c, n)
        /\ row.state \in {"free", "other"} => row.expires = 0
        /\ dom[n].expires \in Nat
    <2>1. RowKnown(n) /\ dom[n].expires \in Nat
      BY <1>1 DEF DomInv, DomTypes, RowKind
    <2>2. new \in EntryKind /\ row.expires \in Nat
      BY <1>1, <1>5 DEF EntryKind
    <2>3. row.state \in {"free", "other"} => row.expires = 0
      BY <2>1, <2>2 DEF RowKnown, Registered
    <2>4. ~Granting(c, n) /\ ~Redating(c, n)
      BY <1>1 DEF Granting, Redating, At
    <2> QED BY <1>1, <2>1, <2>2, <2>3, <2>4
  <1> DEFINE Same     == ~(Grants(c) /\ op \in {"register", "transfer", "renew"}) /\ new.state = row.state /\ new.expires = row.expires
             Bought   == Grants(c) /\ op = "register" /\ row.state = "free" /\ new.state = "ours" /\ new.expires = year + 1
             Asked    == Grants(c) /\ op = "transfer" /\ row.state = "other" /\ new.state = "requested" /\ new.expires = row.expires
             Extended == Grants(c) /\ op = "renew" /\ row.state \in Registered /\ new.state \in Registered /\ new.expires = row.expires + 1
  <1>8. Same \/ Bought \/ Asked \/ Extended
    BY <1>1, <1>6
  <1> HIDE DEF n, op, row, new
  <1>9. DomTypes'
    BY <1>1, <1>2, <1>5 DEF DomInv, DomTypes
  <1>10. CallKnown(c)'
    <2>1. Buying(c)' = Buying(c) /\ Renewing(c)' = Renewing(c)
      BY <1>1, <1>2 DEF Buying, Renewing, n, op
    <2>2. Granting(c, n)' => new.state \in (IF op = "transfer" THEN {"requested", "ours", "other"} ELSE Registered)
      <3> SUFFICES ASSUME Granting(c, n)'
                   PROVE  new.state \in (IF op = "transfer" THEN {"requested", "ours", "other"} ELSE Registered)
        OBVIOUS
      <3>1. Grants(c) /\ op \in {"register", "transfer", "renew"}
        BY <1>2 DEF Granting, Buys
      <3> QED BY <1>6, <3>1 DEF Registered
    <2>3. dom'[n].status = dom[n].status /\ caller'[c].name \in Name /\ caller'[c].order \in 0 .. Len(orders')
      BY <1>1, <1>2
    <2>4. (Buying(c)' /\ dom'[n].status \notin Watched) \/ Renewing(c)' \/ op = "change"
      BY <1>1, <2>1, <2>3
    <2>5. caller'[c].pc = "answer" /\ caller'[c].op = op /\ caller'[c].name = n
      BY <1>2
    <2> HIDE DEF DomInv
    <2> QED BY <2>2, <2>3, <2>4, <2>5 DEF CallKnown, new, n, op
  <1>11. ASSUME NEW m \in Name PROVE RowKnown(m)'
    <2>1. CASE m = n
      <3>1. new.state \in Registered <=> new.expires > 0
        <4>1. row.state \in Registered <=> row.expires > 0
          BY <1>7 DEF RowKnown, row
        <4>2. CASE Same
          BY <4>1, <4>2
        <4>3. CASE Bought
          BY <1>7, <4>3 DEF Registered
        <4>4. CASE Asked
          BY <4>1, <4>4 DEF Registered
        <4>5. CASE Extended
          BY <1>7, <4>5
        <4> QED BY <1>8, <4>2, <4>3, <4>4, <4>5
      <3>2. dom[n].expires <= new.expires
        <4>1. dom[n].expires <= row.expires
          BY <1>7 DEF RowKnown, row
        <4>2. CASE Bought
          BY <1>7, <4>1, <4>2
        <4>3. CASE ~Bought
          BY <1>7, <1>8, <4>1, <4>3
        <4> QED BY <4>2, <4>3
      <3>3. dom[n].status \in {"active", "expired"} => new.state \in Registered
        <4>1. dom[n].status \in {"active", "expired"} => row.state \in Registered
          BY <1>7 DEF RowKnown, row
        <4> QED BY <1>8, <4>1 DEF Registered
      <3>4. \A d \in Caller : ~Granting(d, n) /\ ~Redating(d, n) /\ ~At(d, n, {"call"}, "renew")'
        BY <1>1, <1>2, <1>7 DEF At
      <3>5. lost' = 0 /\ ~Same => Granting(c, n)'
        <4>2. ~Same => Grants(c) /\ op \in {"register", "transfer", "renew"}
          BY <1>8
        <4>3. lost' = 0 /\ Grants(c) => caller'[c].ok
          BY <1>2
        <4> HIDE DEF Same
        <4> QED BY <1>2, <4>2, <4>3 DEF Granting, Buys, n, op
      <3>6. lost' = 0 /\ new.state \in {"ours", "requested"} => dom[n].status \in Watched \/ Granting(c, n)'
        <4>1. lost = 0 /\ row.state \in {"ours", "requested"} => dom[n].status \in Watched
          BY <1>7, <3>4 DEF RowKnown, row
        <4> QED BY <1>2, <3>5, <4>1
      <3>7. lost' = 0 /\ new.state = "expired" => dom[n].status \notin {"pending", "none"} \/ Granting(c, n)'
        <4>1. lost = 0 /\ row.state = "expired" => dom[n].status \notin {"pending", "none"}
          BY <1>7, <3>4 DEF RowKnown, row
        <4> QED BY <1>2, <3>5, <4>1
      <3>8. lost' = 0 => dom[n].expires \in {0, new.expires} \/ Redating(c, n)'
        <4>1. lost = 0 => dom[n].expires \in {0, row.expires}
          BY <1>7, <3>4 DEF RowKnown, row
        <4>2. CASE Extended
          <5>1. lost' = 0 => caller'[c].ok
            BY <1>2, <4>2
          <5> QED BY <1>2, <4>2, <5>1 DEF Redating, At, n, op
        <4>3. CASE Bought
          <5>1. row.expires = 0 /\ dom[n].expires <= row.expires
            BY <1>7, <4>3 DEF RowKnown, row
          <5>2. dom[n].expires = 0
            BY <1>7, <5>1
          <5> QED BY <5>2
        <4>4. CASE Same \/ Asked
          BY <1>2, <4>1, <4>4
        <4> QED BY <1>8, <4>2, <4>3, <4>4
      <3>9. /\ dom[n].owner \in 0 .. Len(orders)
            /\ dom[n].owner # 0 => orders[dom[n].owner].name = n
            /\ dom[n].status = "none" => dom[n].owner = 0
        BY <1>7 DEF RowKnown
      <3>10. dom[n].status = "transferring" => new.state # "free"
        <4>1. dom[n].status = "transferring" => row.state # "free"
          BY <1>7 DEF RowKnown, row
        <4> QED BY <1>8, <4>1 DEF Registered
      <3> HIDE DEF Same, Bought, Asked, Extended
      <3> QED BY <1>1, <1>2, <3>10, <2>1, <3>1, <3>2, <3>3, <3>4, <3>6, <3>7, <3>8, <3>9 DEF RowKnown, Granting, Redating, At, new, n, op
    <2>2. CASE m # n
      <3>1. registry'[m] = registry[m] /\ RowKnown(m)
        BY <1>5, <2>2 DEF DomInv
      <3>2. \A d \in Caller : /\ ~Granting(d, m) /\ ~Redating(d, m)
                             /\ ~Granting(d, m)' /\ ~Redating(d, m)' /\ ~At(d, m, {"call"}, "renew")'
        BY <1>1, <1>2, <2>2 DEF Granting, Redating, At, n
      <3>3. UNCHANGED <<dom, orders>> /\ (lost' = 0 => lost = 0)
        BY <1>1, <1>2
      <3> QED BY <3>1, <3>2, <3>3 DEF RowKnown
    <2> QED BY <2>1, <2>2
  <1>12. ASSUME NEW p \in DOMAIN orders PROVE OrderKnown(p)'
    <2> DEFINE m == orders[p].name
    <2>1. /\ OrderKnown(p) /\ m \in Name /\ orders[p].due \in Nat
          /\ ~Is(c, "attach") /\ ~Is(c, "attach")'
      <3>1. orders[p] \in OrderKind /\ OrderKnown(p)
        BY ElementOfSeq DEF DomInv, DomTypes
      <3>2. m \in Name /\ orders[p].due \in Nat
        BY <3>1 DEF OrderKind
      <3>3. ~Is(c, "attach") /\ ~Is(c, "attach")'
        BY <1>1, <1>2 DEF Is
      <3> QED BY <3>1, <3>2, <3>3
    <2> HIDE DEF m
    <2>2. ASSUME registry'[m].state \notin Registered
          PROVE  orders[p].due <= year + 1
      <3>1. registry[m].state \notin Registered
        <4>1. CASE m = n
          BY <1>8, <2>2, <4>1 DEF row, new, Registered
        <4>2. CASE m # n
          BY <1>5, <2>1, <2>2, <4>2
        <4> QED BY <4>1, <4>2
      <3> QED BY <2>1, <3>1 DEF OrderKnown, m
    <2>3. ASSUME lost' = 0, dom[m].owner = p, registry'[m].state \in Registered, orders[p].state # "unpaid"
          PROVE  orders[p].due <= registry'[m].expires
      <3>1. lost = 0 /\ registry[m].state \in Registered =>
              \/ orders[p].due <= registry[m].expires
              \/ orders[p].due <= registry[m].expires + 1 /\ m = n /\ op = "renew"
        BY <1>1, <1>2, <2>1, <2>3 DEF OrderKnown, At, m, n, op
      <3>2. CASE m # n
        BY <1>2, <1>5, <2>1, <2>3, <3>1, <3>2
      <3>3. CASE m = n /\ Extended
        BY <1>2, <1>7, <2>1, <2>3, <3>1, <3>3 DEF row, new
      <3>4. CASE m = n /\ Bought
        <4>1. orders[p].due <= year + 1
          BY <2>1, <3>4 DEF OrderKnown, m, row, Registered
        <4> QED BY <3>4, <4>1 DEF new
      <3>5. CASE m = n /\ Asked
        BY <2>3, <3>5 DEF new, Registered
      <3>6. CASE m = n /\ Same
        <4>1. row.state \in Registered /\ new.expires = row.expires
          BY <2>3, <3>6 DEF new
        <4>2. op # "renew"
          <5>1. op = "renew" => caller[c].expires \in {0, row.expires}
            BY <1>1, <1>2, <1>7, <2>3 DEF RowKnown, At, n, op, row
          <5> QED BY <1>6, <3>6, <4>1, <5>1
        <4> QED BY <1>2, <2>3, <3>1, <3>6, <4>1, <4>2 DEF new, row
      <3> QED BY <1>8, <3>2, <3>3, <3>4, <3>5, <3>6
    <2>4. \A d \in Caller : d = c
      BY <1>1
    <2>5. orders'[p] = orders[p] /\ dom' = dom /\ year' = year /\ kills' = kills
      BY <1>1
    <2> HIDE DEF Same, Bought, Asked, Extended
    <2> QED BY <2>1, <2>2, <2>3, <2>4, <2>5 DEF OrderKnown, m
  <1> QED BY <1>1, <1>9, <1>10, <1>11, <1>12 DEF DomInv

\* A status is written.
LEMMA StatusIsRow ==
  ASSUME dom \in [Name -> RowKind], NEW n \in Name, NEW s \in NameStatus
  PROVE  LET after == [dom EXCEPT ![n].status = s]
         IN /\ after \in [Name -> RowKind]
            /\ after[n].status = s /\ after[n].owner = dom[n].owner /\ after[n].expires = dom[n].expires
            /\ \A m \in Name : m # n => after[m] = dom[m]
  BY DEF RowKind

LEMMA ProvisionWriteKeeps ==
  ASSUME OneCaller, DomInv, NEW c \in Caller, ProvisionWrite(c)
  PROVE  DomInv'
  <1> USE DEF NameOf, OrderOf
  <1> DEFINE n  == caller[c].name
             op == caller[c].op
             s  == Written(c)
  <1>1. /\ caller[c] \in CallKind /\ caller[c].pc = "answer" /\ op # "change" /\ n \in Name
        /\ (Buying(c) /\ dom[n].status \notin Watched) \/ Renewing(c)
        /\ caller[c].order \in 0 .. Len(orders)
        /\ Granting(c, n) =>
              registry[n].state \in (IF op = "transfer" THEN {"requested", "ours", "other"} ELSE Registered)
        /\ \A d \in Caller : d = c
        /\ dom[n] \in RowKind /\ RowKnown(n)
        /\ UNCHANGED <<registry, orders, year, lost, kills, changes>>
    <2>1. caller[c] \in CallKind /\ CallKnown(c) /\ caller[c].pc = "answer" /\ op # "change"
      BY DEF DomInv, DomTypes, ProvisionWrite, Is
    <2>2. n \in Name /\ ((Buying(c) /\ dom[n].status \notin Watched) \/ Renewing(c)) /\ caller[c].order \in 0 .. Len(orders)
      BY <2>1 DEF CallKnown
    <2>3. Granting(c, n) =>
            registry[n].state \in (IF op = "transfer" THEN {"requested", "ours", "other"} ELSE Registered)
      BY <2>1 DEF CallKnown
    <2>4. \A d \in Caller : d = c
      BY DEF OneCaller
    <2>5. dom[n] \in RowKind /\ RowKnown(n)
      BY <2>2 DEF DomInv, DomTypes
    <2>6. UNCHANGED <<registry, orders, year, lost, kills, changes>>
      BY DEF ProvisionWrite
    <2> QED BY <2>1, <2>2, <2>3, <2>4, <2>5, <2>6
  <1>2. /\ dom' = [dom EXCEPT ![n].status = s]
        /\ caller[c].ok => caller' = [caller EXCEPT ![c].pc = "sync"]
        /\ ~caller[c].ok => caller' = [caller EXCEPT ![c] = NoCall]
    BY DEF ProvisionWrite, Step, Leaves
  <1>3. op \in Buys \cup {"renew"} /\ (op = "renew" => Renewing(c)) /\ (op \in Buys => Buying(c) /\ dom[n].status \notin Watched)
    BY <1>1 DEF Buying, Renewing, Buys
  <1>4. /\ caller[c].ok /\ op = "transfer" => s = "transferring"
        /\ caller[c].ok /\ op # "transfer" => s = "active"
        /\ ~caller[c].ok /\ op = "renew" => s = dom[n].status
        /\ ~caller[c].ok /\ op # "renew" => s = "failed"
    BY DEF Written
  <1>5. s \in NameStatus
    BY <1>1, <1>4 DEF NameStatus, RowKind
  <1> HIDE DEF s
  <1>6. /\ dom' \in [Name -> RowKind] /\ dom'[n].status = s
        /\ dom'[n].owner = dom[n].owner /\ dom'[n].expires = dom[n].expires
        /\ \A m \in Name : m # n => dom'[m] = dom[m]
    BY <1>1, <1>2, <1>5, StatusIsRow DEF DomInv, DomTypes
  <1>7. /\ caller' \in [Caller -> CallKind]
        /\ caller[c].ok => /\ caller'[c].pc = "sync" /\ caller'[c].op = op /\ caller'[c].name = n
                           /\ caller'[c].order = caller[c].order
        /\ ~caller[c].ok => caller'[c] = NoCall
        /\ NoCall.pc = "idle" /\ NoCall.order = 0 /\ NoCall.op = "none"
        /\ caller'[c].pc \in {"sync", "idle"}
    <2>1. caller \in [Caller -> CallKind]
      BY DEF DomInv, DomTypes
    <2>2. CASE caller[c].ok
      <3>1. caller' = [caller EXCEPT ![c].pc = "sync"]
        BY <1>2, <2>2
      <3>2. /\ caller' \in [Caller -> CallKind]
            /\ caller'[c].pc = "sync" /\ caller'[c].op = op /\ caller'[c].name = n /\ caller'[c].order = caller[c].order
        BY <2>1, <3>1, StepIsCall
      <3> QED BY <2>1, <2>2, <3>2, RestIsCall
    <2>3. CASE ~caller[c].ok
      BY <1>2, <2>1, <2>3, RestIsCall
    <2> QED BY <2>2, <2>3
  <1>8. DomTypes'
    BY <1>1, <1>6, <1>7 DEF DomInv, DomTypes
  <1>9. Granting(c, n) <=> caller[c].ok
    BY <1>1, <1>3 DEF Granting
  <1>10. \A m \in Name : ~Redating(c, m) \/ (m = n /\ caller[c].ok /\ op = "renew")
    BY <1>1 DEF Redating, At
  <1>11. CallKnown(c)'
    <2>1. CASE caller[c].ok
      <3>1. Buying(c) => Buying(c)'
        BY <1>1, <1>6, <1>7, <2>1 DEF Buying
      <3>2. op \in Buys => Buying(c)' /\ dom'[n].status \in Watched
        BY <1>3, <1>4, <1>6, <2>1, <3>1 DEF Watched, Buys
      <3>3. op = "renew" => dom'[n].status = "active"
        BY <1>4, <1>6, <2>1
      <3> QED BY <1>1, <1>3, <1>7, <2>1, <3>2, <3>3 DEF CallKnown, Granting, n, op
    <2>2. CASE ~caller[c].ok
      <3>1. 0 \in 0 .. Len(orders')
        BY <1>1
      <3> QED BY <1>7, <2>2, <3>1 DEF CallKnown, Granting
    <2> QED BY <2>1, <2>2
  <1> HIDE DEF n, op
  <1>12. ASSUME NEW m \in Name PROVE RowKnown(m)'
    <2>1. CASE m = n
      <3>1. s \in {"active", "expired"} => registry[n].state \in Registered
        BY <1>1, <1>4, <1>9 DEF RowKnown
      <3>2. s = "transferring" => registry[n].state # "free"
        BY <1>1, <1>4, <1>9 DEF RowKnown
      <3>3. s = "none" => dom[n].owner = 0
        BY <1>1, <1>4 DEF RowKnown
      <3>4. ~caller[c].ok /\ lost = 0 /\ registry[n].state \in {"ours", "requested"} => dom[n].status \in Watched
        BY <1>1, <1>9 DEF RowKnown
      <3>5. lost = 0 /\ registry[n].state \in {"ours", "requested"} => s \in Watched
        BY <1>3, <1>4, <3>4 DEF Watched, Buys
      <3>6. ~caller[c].ok /\ lost = 0 /\ registry[n].state = "expired" => dom[n].status \notin {"pending", "none"}
        BY <1>1, <1>9 DEF RowKnown
      <3>7. lost = 0 /\ registry[n].state = "expired" => s \notin {"pending", "none"}
        BY <1>4, <3>6
      <3>8. lost = 0 => dom[n].expires \in {0, registry[n].expires} \/ Redating(c, n)
        BY <1>1 DEF RowKnown
      <3>9. Redating(c, n) => caller'[c].pc = "sync" /\ caller'[c].op = "renew" /\ caller'[c].name = m
        BY <1>1, <1>7, <1>10, <2>1
      <3> QED BY <1>1, <1>6, <1>7, <2>1, <3>1, <3>2, <3>3, <3>5, <3>7, <3>8, <3>9 DEF RowKnown, Redating, At
    <2>2. CASE m # n
      <3>1. dom'[m] = dom[m] /\ RowKnown(m) /\ ~Granting(c, m) /\ ~Redating(c, m)
        BY <1>1, <1>6, <2>2 DEF DomInv, Granting, Redating, At, n
      <3>2. ~At(c, m, {"call"}, "renew")'
        BY <1>7 DEF At
      <3> QED BY <1>1, <3>1, <3>2 DEF RowKnown
    <2> QED BY <2>1, <2>2
  <1>13. ASSUME NEW p \in DOMAIN orders PROVE OrderKnown(p)'
    <2> DEFINE m == orders[p].name
    <2>1. OrderKnown(p) /\ m \in Name
      <3>1. orders[p] \in OrderKind /\ OrderKnown(p)
        BY ElementOfSeq DEF DomInv, DomTypes
      <3> QED BY <3>1 DEF OrderKind
    <2>2. ~Is(c, "attach") /\ ~Is(c, "attach")'
      BY <1>1, <1>7 DEF Is
    <2>3. ~At(c, m, {"call"}, "renew")
      BY <1>1 DEF At
    <2> HIDE DEF m
    <2>4. CASE m = n
      <3>1. orders[p].state = "unpaid" => dom[n].owner # p
        BY <1>1 DEF Buying, Renewing, n
      <3>2. orders[p].state = "active" => dom[n].owner = p /\ s \in Shown
        <4>1. orders[p].state = "active" => dom[n].owner = p /\ dom[n].status \in Shown
          BY <2>1, <2>4 DEF OrderKnown, m
        <4>2. orders[p].state = "active" => op = "renew"
          BY <1>3, <4>1 DEF Buying, n, Buys
        <4> QED BY <1>4, <4>1, <4>2 DEF Shown, Watched
      <3> QED BY <1>1, <1>6, <2>1, <2>2, <2>3, <2>4, <3>1, <3>2 DEF OrderKnown, m
    <2>5. CASE m # n
      <3>1. dom'[m] = dom[m]
        BY <1>6, <2>1, <2>5
      <3> QED BY <1>1, <2>1, <2>2, <2>3, <3>1 DEF OrderKnown, m
    <2> QED BY <2>4, <2>5
  <1> QED BY <1>1, <1>8, <1>11, <1>12, <1>13 DEF DomInv

\* The due date follows the date the registry gave.
LEMMA FinishKeeps ==
  ASSUME OneCaller, DomInv, NEW c \in Caller, Finish(c)
  PROVE  DomInv'
  <1> USE DEF NameOf, OrderOf
  <1> DEFINE n == caller[c].name
             o == caller[c].order
             e == dom[n].expires
             due == IF e > year THEN e ELSE orders[o].due
  <1>1. /\ caller[c].pc = "finish" /\ n \in Name /\ o \in DOMAIN orders
        /\ dom[n].owner = o /\ orders[o].state = "paid" /\ dom[n].status \in Shown
        /\ \A d \in Caller : d = c
        /\ UNCHANGED <<dom, registry, year, lost, kills, changes>>
        /\ caller' = [caller EXCEPT ![c] = NoCall]
        /\ orders' = [orders EXCEPT ![o].state = "active", ![o].due = due]
    <2>1. CallKnown(c) /\ caller[c].pc = "finish"
      BY DEF DomInv, Finish, Is
    <2>2. n \in Name /\ Buying(c) /\ dom[n].status \in Shown
      BY <2>1 DEF CallKnown
    <2>3. \A d \in Caller : d = c
      BY DEF OneCaller
    <2>4. /\ UNCHANGED <<dom, registry, year, lost, kills, changes>>
          /\ caller' = [caller EXCEPT ![c] = NoCall]
          /\ orders' = [orders EXCEPT ![o].state = "active", ![o].due = due]
      BY DEF Finish, Leaves
    <2> QED BY <2>1, <2>2, <2>3, <2>4 DEF Buying
  <1>2. /\ orders[o] \in OrderKind /\ orders[o].name = n /\ year \in Nat /\ e \in Nat /\ due \in Nat \ {0}
        /\ Len(orders) \in Nat /\ DOMAIN orders = 1 .. Len(orders) /\ registry[n].expires \in Nat
        /\ RowKnown(n) /\ OrderKnown(o) /\ dom[n].owner # 0
    <2>1. orders[o] \in OrderKind /\ Len(orders) \in Nat /\ DOMAIN orders = 1 .. Len(orders)
      BY <1>1, ElementOfSeq, LenProperties DEF DomInv, DomTypes
    <2>2. RowKnown(n) /\ OrderKnown(o) /\ year \in Nat /\ e \in Nat /\ registry[n].expires \in Nat
      BY <1>1 DEF DomInv, DomTypes, RowKind, EntryKind
    <2>3. dom[n].owner # 0
      BY <1>1, <2>1
    <2>4. orders[o].name = n
      BY <1>1, <2>2, <2>3 DEF RowKnown
    <2>5. orders[o].due \in Nat \ {0}
      <3>1. orders[o].due \in Nat
        BY <2>1 DEF OrderKind
      <3>2. orders[o].due # 0
        BY <1>1, <2>2 DEF OrderKnown
      <3> QED BY <3>1, <3>2
    <2>6. due \in Nat \ {0}
      BY <2>2, <2>5
    <2> QED BY <2>1, <2>2, <2>3, <2>4, <2>6
  <1>3. /\ orders' \in Seq(OrderKind) /\ Len(orders') = Len(orders) /\ DOMAIN orders' = DOMAIN orders
        /\ orders'[o].state = "active" /\ orders'[o].due = due /\ orders'[o].name = n
        /\ \A p \in DOMAIN orders : p # o => orders'[p] = orders[p]
    <2> DEFINE r == [orders[o] EXCEPT !.state = "active", !.due = due]
    <2>1. orders' = [orders EXCEPT ![o] = r]
      BY <1>1
    <2>2. r \in OrderKind /\ r.state = "active" /\ r.due = due /\ r.name = n
      <3> HIDE DEF due, n, o
      <3> QED BY <1>2 DEF OrderKind
    <2>3. orders \in Seq(OrderKind)
      BY DEF DomInv, DomTypes
    <2>4. o \in DOMAIN orders
      BY <1>1
    <2> HIDE DEF due, n, o, r
    <2> QED BY <2>1, <2>2, <2>3, <2>4
  <1>4. /\ caller' \in [Caller -> CallKind] /\ caller'[c] = NoCall
        /\ NoCall.pc = "idle" /\ NoCall.order = 0 /\ NoCall.op = "none"
    BY <1>1, RestIsCall DEF DomInv, DomTypes
  <1>5. /\ registry[n].state \notin Registered => due <= year + 1
        /\ lost = 0 /\ registry[n].state \in Registered => due <= registry[n].expires
    <2>1. e <= registry[n].expires /\ (registry[n].state \notin Registered => registry[n].expires = 0)
      BY <1>2 DEF RowKnown
    <2>2. registry[n].state \notin Registered => orders[o].due <= year + 1
      BY <1>2 DEF OrderKnown
    <2>3. lost = 0 /\ registry[n].state \in Registered => orders[o].due <= registry[n].expires
      BY <1>1, <1>2 DEF OrderKnown, At
    <2> QED BY <1>2, <2>1, <2>2, <2>3
  <1> HIDE DEF n, o, e, due
  <1>6. DomTypes'
    BY <1>1, <1>3, <1>4 DEF DomInv, DomTypes
  <1>7. CallKnown(c)'
    BY <1>2, <1>3, <1>4 DEF CallKnown, Granting
  <1>8. ASSUME NEW m \in Name PROVE RowKnown(m)'
    <2>1. ~Granting(c, m) /\ ~Redating(c, m) /\ ~Granting(c, m)' /\ ~Redating(c, m)' /\ ~At(c, m, {"call"}, "renew")'
      BY <1>1, <1>4 DEF Granting, Redating, At
    <2>2. RowKnown(m)
      BY DEF DomInv
    <2>3. dom[m].owner # 0 => orders'[dom[m].owner].name = m
      BY <1>1, <1>2, <1>3, <2>2 DEF RowKnown
    <2> QED BY <1>1, <1>3, <2>1, <2>2, <2>3 DEF RowKnown
  <1>9. ASSUME NEW p \in DOMAIN orders PROVE OrderKnown(p)'
    <2>1. OrderKnown(p)
      BY DEF DomInv
    <2>2. CASE p = o
      BY <1>1, <1>2, <1>3, <1>5, <2>2 DEF OrderKnown
    <2>3. CASE p # o
      <3>1. ~Is(c, "attach") /\ ~At(c, orders[p].name, {"call"}, "renew")
        BY <1>1 DEF Is, At
      <3> QED BY <1>1, <1>3, <2>1, <2>3, <3>1 DEF OrderKnown
    <2> QED BY <2>2, <2>3
  <1> QED BY <1>1, <1>3, <1>6, <1>7, <1>8, <1>9 DEF DomInv

LEMMA RenewNameKeeps ==
  ASSUME OneCaller, DomInv, NEW c \in Caller, NEW o \in DOMAIN orders, RenewName(c, o)
  PROVE  DomInv'
  <1> USE DEF NameOf, OrderOf
  <1> DEFINE n == orders[o].name
             k == orders[o].due + 1
             w == [CallOf("call", "renew", n, o) EXCEPT !.expires = dom[n].expires]
  <1>1. /\ orders[o] \in OrderKind /\ n \in Name /\ orders[o].due \in Nat /\ year \in Nat /\ dom[n].expires \in Nat
        /\ Len(orders) \in Nat /\ DOMAIN orders = 1 .. Len(orders) /\ orders \in Seq(OrderKind)
        /\ RowKnown(n) /\ OrderKnown(o) /\ registry[n].expires \in Nat /\ k \in Nat \ {0}
    <2>1. orders[o] \in OrderKind /\ Len(orders) \in Nat /\ DOMAIN orders = 1 .. Len(orders) /\ orders \in Seq(OrderKind)
      BY ElementOfSeq, LenProperties DEF DomInv, DomTypes
    <2>2. n \in Name /\ orders[o].due \in Nat
      BY <2>1 DEF OrderKind
    <2>3. RowKnown(n) /\ OrderKnown(o) /\ year \in Nat /\ dom[n].expires \in Nat /\ registry[n].expires \in Nat
      BY <2>2 DEF DomInv, DomTypes, RowKind, EntryKind
    <2>4. k \in Nat \ {0}
      BY <2>2
    <2> QED BY <2>1, <2>2, <2>3, <2>4
  <1>2. /\ caller[c].pc = "idle" /\ orders[o].state = "active" /\ orders[o].due <= year
        /\ dom[n].owner = o
        /\ \A d \in Caller : d = c
        /\ UNCHANGED <<dom, registry, year, lost, kills, changes>>
        /\ orders' = [orders EXCEPT ![o].due = k]
        /\ caller' = [caller EXCEPT ![c] = w]
    <2>1. orders[o].state = "active" /\ dom[n].owner = o
      BY <1>1 DEF RenewName, OrderKnown
    <2>2. caller[c].pc = "idle" /\ orders[o].due <= year /\ \A d \in Caller : d = c
      BY <1>1 DEF RenewName, OneCaller, Is
    <2>3. UNCHANGED <<dom, registry, year, lost, kills, changes>> /\ orders' = [orders EXCEPT ![o].due = k]
      BY DEF RenewName
    <2>4. caller' = [caller EXCEPT ![c] = w]
      BY <2>1 DEF RenewName, Renewable
    <2> QED BY <2>1, <2>2, <2>3, <2>4
  <1>3. /\ orders' \in Seq(OrderKind) /\ Len(orders') = Len(orders) /\ DOMAIN orders' = DOMAIN orders
        /\ orders'[o].state = "active" /\ orders'[o].due = k /\ orders'[o].name = n
        /\ \A p \in DOMAIN orders : p # o => orders'[p] = orders[p]
    <2> DEFINE r == [orders[o] EXCEPT !.due = k]
    <2>1. orders' = [orders EXCEPT ![o] = r]
      BY <1>2
    <2>2. r \in OrderKind /\ r.state = "active" /\ r.due = k /\ r.name = n
      <3> HIDE DEF k
      <3> QED BY <1>1, <1>2 DEF OrderKind
    <2> HIDE DEF k, n, r
    <2> QED BY <1>1, <2>1, <2>2
  <1>4. /\ w \in CallKind /\ w.pc = "call" /\ w.op = "renew" /\ w.name = n /\ w.order = o /\ w.expires = dom[n].expires
    <2> DEFINE x == dom[n].expires
    <2>1. x \in Nat /\ n \in Name /\ o \in Nat
      BY <1>1
    <2> HIDE DEF x, n
    <2> QED BY <2>1 DEF CallKind, CallOf, x
  <1> HIDE DEF w
  <1>5. /\ caller' \in [Caller -> CallKind] /\ caller'[c].pc = "call" /\ caller'[c].op = "renew" /\ caller'[c].name = n
        /\ caller'[c].order = o /\ caller'[c].expires = dom[n].expires
    BY <1>2, <1>4 DEF DomInv, DomTypes
  <1>6. /\ lost = 0 => dom[n].expires \in {0, registry[n].expires}
        /\ registry[n].state \notin Registered => k <= year + 1
        /\ lost = 0 /\ registry[n].state \in Registered => k <= registry[n].expires + 1
    <2>1. lost = 0 => dom[n].expires \in {0, registry[n].expires}
      BY <1>1, <1>2 DEF RowKnown, Redating, At
    <2>2. lost = 0 /\ registry[n].state \in Registered => orders[o].due <= registry[n].expires
      BY <1>1, <1>2 DEF OrderKnown, At
    <2> QED BY <1>1, <1>2, <2>1, <2>2
  <1> HIDE DEF n, k
  <1>7. DomTypes'
    BY <1>2, <1>3, <1>5 DEF DomInv, DomTypes
  <1>8. CallKnown(c)'
    <2>1. Renewing(c)'
      BY <1>2, <1>3, <1>5 DEF Renewing
    <2> QED BY <1>1, <1>3, <1>5, <2>1 DEF CallKnown, Granting
  <1>9. ASSUME NEW m \in Name PROVE RowKnown(m)'
    <2>1. ~Granting(c, m) /\ ~Redating(c, m) /\ ~Granting(c, m)' /\ ~Redating(c, m)'
      BY <1>2, <1>5 DEF Granting, Redating, At
    <2>2. RowKnown(m)
      BY DEF DomInv
    <2>3. dom[m].owner # 0 => orders'[dom[m].owner].name = m
      BY <1>1, <1>2, <1>3, <2>2 DEF RowKnown, n
    <2>4. lost = 0 /\ At(c, m, {"call"}, "renew")' => caller'[c].expires \in {0, registry[m].expires}
      BY <1>5, <1>6 DEF At
    <2> QED BY <1>2, <1>3, <2>1, <2>2, <2>3, <2>4 DEF RowKnown
  <1>10. ASSUME NEW p \in DOMAIN orders PROVE OrderKnown(p)'
    <2>1. OrderKnown(p)
      BY DEF DomInv
    <2>2. CASE p = o
      <3>1. orders[o].state = "active" => dom[n].owner = o /\ dom[n].status \in Shown
        BY <1>1 DEF OrderKnown, n
      <3> QED BY <1>1, <1>2, <1>3, <1>5, <1>6, <2>2, <3>1 DEF OrderKnown, At
    <2>3. CASE p # o
      <3>1. ~Is(c, "attach") /\ ~At(c, orders[p].name, {"call"}, "renew")
        BY <1>2 DEF Is, At
      <3> QED BY <1>2, <1>3, <2>1, <2>3, <3>1 DEF OrderKnown
    <2> QED BY <2>2, <2>3
  <1> QED BY <1>2, <1>3, <1>7, <1>8, <1>9, <1>10 DEF DomInv

LEMMA SettingKeeps ==
  ASSUME OneCaller, DomInv, NEW c \in Caller, NEW n \in Name, Change(c, n)
  PROVE  DomInv'
  <1> DEFINE v == changes + 1
             w == [CallOf("call", "change", n, 0) EXCEPT !.value = v]
  <1>1. /\ caller[c].pc = "idle" /\ v \in Nat /\ \A d \in Caller : d = c
        /\ UNCHANGED <<dom, registry, orders, year, lost, kills>> /\ changes' = v
        /\ caller' = [caller EXCEPT ![c] = w]
    BY DEF Change, OneCaller, Is, DomInv, DomTypes, TakesUp
  <1>2. w \in CallKind /\ w.pc = "call" /\ w.op = "change" /\ w.name = n /\ w.order = 0
    <2> HIDE DEF v
    <2> QED BY <1>1 DEF CallKind, CallOf
  <1> HIDE DEF v, w
  <1>3. caller' \in [Caller -> CallKind] /\ caller'[c] = w
    BY <1>1, <1>2 DEF DomInv, DomTypes
  <1>4. DomTypes'
    BY <1>1, <1>3 DEF DomInv, DomTypes
  <1>5. CallKnown(c)'
    <2>1. 0 \in 0 .. Len(orders)
      BY LenProperties DEF DomInv, DomTypes
    <2> QED BY <1>1, <1>2, <1>3, <2>1 DEF CallKnown, Granting, Buys
  <1>6. ASSUME NEW m \in Name PROVE RowKnown(m)'
    <2>1. ~Granting(c, m) /\ ~Redating(c, m) /\ ~Granting(c, m)' /\ ~Redating(c, m)' /\ ~At(c, m, {"call"}, "renew")'
      BY <1>1, <1>2, <1>3 DEF Granting, Redating, At
    <2>2. RowKnown(m)
      BY DEF DomInv
    <2> QED BY <1>1, <2>1, <2>2 DEF RowKnown
  <1>7. ASSUME NEW p \in DOMAIN orders PROVE OrderKnown(p)'
    <2>1. OrderKnown(p) /\ ~Is(c, "attach") /\ ~At(c, orders[p].name, {"call"}, "renew")
      BY <1>1 DEF DomInv, Is, At
    <2> QED BY <1>1, <2>1 DEF OrderKnown
  <1> QED BY <1>1, <1>4, <1>5, <1>6, <1>7 DEF DomInv

LEMMA ChangeWriteKeeps ==
  ASSUME OneCaller, DomInv, NEW c \in Caller, ChangeWrite(c)
  PROVE  DomInv'
  <1> USE DEF NameOf
  <1> DEFINE n == caller[c].name
  <1>1. /\ caller[c].pc = "answer" /\ caller[c].op = "change" /\ n \in Name /\ caller[c].value \in Nat
        /\ \A d \in Caller : d = c
        /\ UNCHANGED <<registry, orders, year, lost, kills, changes>>
        /\ caller' = [caller EXCEPT ![c] = NoCall]
        /\ dom' = dom \/ dom' = [dom EXCEPT ![n].ns = caller[c].value]
    <2>1. CallKnown(c) /\ caller[c] \in CallKind /\ caller[c].pc = "answer" /\ caller[c].op = "change"
      BY DEF DomInv, DomTypes, ChangeWrite, Is
    <2>2. n \in Name /\ caller[c].value \in Nat
      BY <2>1 DEF CallKnown, CallKind
    <2> QED BY <2>1, <2>2 DEF ChangeWrite, OneCaller, Leaves
  <1>2. /\ dom' \in [Name -> RowKind]
        /\ \A m \in Name : /\ dom'[m].status = dom[m].status /\ dom'[m].owner = dom[m].owner
                            /\ dom'[m].expires = dom[m].expires
    <2>1. dom \in [Name -> RowKind]
      BY DEF DomInv, DomTypes
    <2>2. CASE dom' = dom
      BY <2>1, <2>2
    <2>3. CASE dom' = [dom EXCEPT ![n].ns = caller[c].value]
      <3> DEFINE v == caller[c].value
      <3>1. v \in Nat /\ n \in Name /\ dom' = [dom EXCEPT ![n].ns = v]
        BY <1>1, <2>3
      <3> HIDE DEF v, n
      <3> QED BY <2>1, <3>1 DEF RowKind
    <2> QED BY <1>1, <2>2, <2>3
  <1>3. /\ caller' \in [Caller -> CallKind] /\ caller'[c] = NoCall
        /\ NoCall.pc = "idle" /\ NoCall.order = 0 /\ NoCall.op = "none"
    BY <1>1, RestIsCall DEF DomInv, DomTypes
  <1>4. DomTypes'
    BY <1>1, <1>2, <1>3 DEF DomInv, DomTypes
  <1>5. CallKnown(c)'
    <2>1. 0 \in 0 .. Len(orders)
      BY LenProperties DEF DomInv, DomTypes
    <2> QED BY <1>1, <1>3, <2>1 DEF CallKnown, Granting
  <1>6. ASSUME NEW m \in Name PROVE RowKnown(m)'
    <2>1. ~Granting(c, m) /\ ~Redating(c, m) /\ ~Granting(c, m)' /\ ~Redating(c, m)' /\ ~At(c, m, {"call"}, "renew")'
      BY <1>1, <1>3 DEF Granting, Redating, At, Buys
    <2>2. RowKnown(m)
      BY DEF DomInv
    <2> QED BY <1>1, <1>2, <2>1, <2>2 DEF RowKnown
  <1>7. ASSUME NEW p \in DOMAIN orders PROVE OrderKnown(p)'
    <2>1. OrderKnown(p) /\ ~Is(c, "attach") /\ ~At(c, orders[p].name, {"call"}, "renew")
      BY <1>1 DEF DomInv, Is, At
    <2>2. orders[p].name \in Name
      <3>1. orders[p] \in OrderKind
        BY ElementOfSeq DEF DomInv, DomTypes
      <3> QED BY <3>1 DEF OrderKind
    <2> QED BY <1>1, <1>2, <2>1, <2>2 DEF OrderKnown
  <1> QED BY <1>1, <1>4, <1>5, <1>6, <1>7 DEF DomInv

LEMMA StartSyncKeeps ==
  ASSUME OneCaller, DomInv, NEW c \in Caller, NEW n \in Name, StartSync(c, n)
  PROVE  DomInv'
  <1> DEFINE w == CallOf("sync", "sync", n, 0)
  <1>1. /\ caller[c].pc = "idle" /\ dom[n].status \in Watched /\ \A d \in Caller : d = c
        /\ UNCHANGED <<dom, registry, orders, year, lost, kills, changes>>
        /\ caller' = [caller EXCEPT ![c] = w]
    BY DEF StartSync, OneCaller, Is, TakesUp
  <1>2. w \in CallKind /\ w.pc = "sync" /\ w.op = "sync" /\ w.name = n /\ w.order = 0
    BY DEF CallKind, CallOf
  <1> HIDE DEF w
  <1>3. caller' \in [Caller -> CallKind] /\ caller'[c] = w
    BY <1>1, <1>2 DEF DomInv, DomTypes
  <1>4. DomTypes'
    BY <1>1, <1>3 DEF DomInv, DomTypes
  <1>5. CallKnown(c)'
    <2>1. 0 \in 0 .. Len(orders)
      BY LenProperties DEF DomInv, DomTypes
    <2> QED BY <1>1, <1>2, <1>3, <2>1 DEF CallKnown, Granting
  <1>6. ASSUME NEW m \in Name PROVE RowKnown(m)'
    <2>1. ~Granting(c, m) /\ ~Redating(c, m) /\ ~Granting(c, m)' /\ ~Redating(c, m)' /\ ~At(c, m, {"call"}, "renew")'
      BY <1>1, <1>2, <1>3 DEF Granting, Redating, At
    <2>2. RowKnown(m)
      BY DEF DomInv
    <2> QED BY <1>1, <2>1, <2>2 DEF RowKnown
  <1>7. ASSUME NEW p \in DOMAIN orders PROVE OrderKnown(p)'
    <2>1. OrderKnown(p) /\ ~Is(c, "attach") /\ ~At(c, orders[p].name, {"call"}, "renew")
      BY <1>1 DEF DomInv, Is, At
    <2> QED BY <1>1, <2>1 DEF OrderKnown
  <1> QED BY <1>1, <1>4, <1>5, <1>6, <1>7 DEF DomInv

\* After the synchronisation an activation goes on, and anything else is over.
LEMMA AfterSyncIs ==
  ASSUME caller \in [Caller -> CallKind], NEW c \in Caller, AfterSync(c)
  PROVE  /\ caller' \in [Caller -> CallKind]
         /\ \/ caller'[c] = NoCall
            \/ /\ caller'[c].pc = "finish" /\ caller'[c].op = caller[c].op /\ caller[c].op \in Buys
               /\ caller'[c].name = caller[c].name /\ caller'[c].order = caller[c].order
  <1>1. CASE Activates(c)
    <2>1. caller' = [caller EXCEPT ![c].pc = "finish"] /\ caller[c].op \in Buys
      BY <1>1 DEF AfterSync, Activates, Step, Buys
    <2>2. /\ caller' \in [Caller -> CallKind]
          /\ caller'[c].pc = "finish" /\ caller'[c].op = caller[c].op
          /\ caller'[c].name = caller[c].name /\ caller'[c].order = caller[c].order
      BY <2>1, StepIsCall
    <2> QED BY <2>1, <2>2
  <1>2. CASE ~Activates(c)
    <2>1. caller' = [caller EXCEPT ![c] = NoCall]
      BY <1>2 DEF AfterSync, Leaves
    <2> QED BY <2>1, RestIsCall
  <1> QED BY <1>1, <1>2

LEMMA SyncReadKeeps ==
  ASSUME OneCaller, DomInv, NEW c \in Caller, SyncRead(c)
  PROVE  DomInv'
  <1> USE DEF NameOf, OrderOf
  <1> DEFINE n    == caller[c].name
             op   == caller[c].op
             info == InfoOf(registry[n].state)
             v    == registry[n].ns
             e    == registry[n].expires
  <1>1. /\ caller \in [Caller -> CallKind] /\ caller[c].pc = "sync" /\ n \in Name
        /\ \/ Buying(c) /\ dom[n].status \in Watched
           \/ op = "renew" /\ dom[n].status = "active"
           \/ op = "sync" /\ dom[n].status \in Watched
        /\ caller[c].order \in 0 .. Len(orders) /\ 0 \in 0 .. Len(orders)
        /\ \A d \in Caller : d = c
        /\ registry[n].state \in {"free", "other", "requested"} \cup Registered /\ v \in Nat /\ e \in Nat
        /\ RowKnown(n) /\ dom[n].expires \in Nat /\ lost \in Nat
        /\ UNCHANGED <<dom, registry, orders, year, kills, changes>>
    <2>1. caller \in [Caller -> CallKind] /\ CallKnown(c) /\ caller[c].pc = "sync" /\ lost \in Nat
      BY DEF DomInv, DomTypes, SyncRead, Is
    <2>2. /\ n \in Name
          /\ \/ Buying(c) /\ dom[n].status \in Watched
             \/ op = "renew" /\ dom[n].status = "active"
             \/ op = "sync" /\ dom[n].status \in Watched
          /\ caller[c].order \in 0 .. Len(orders)
      BY <2>1 DEF CallKnown
    <2>3. /\ registry[n].state \in {"free", "other", "requested"} \cup Registered /\ v \in Nat /\ e \in Nat
          /\ RowKnown(n) /\ dom[n].expires \in Nat
      BY <2>2 DEF DomInv, DomTypes, EntryKind, RowKind
    <2>4. 0 \in 0 .. Len(orders)
      BY LenProperties DEF DomInv, DomTypes
    <2>5. UNCHANGED <<dom, registry, orders, year, kills, changes>>
      BY DEF SyncRead
    <2> QED BY <2>1, <2>2, <2>3, <2>4, <2>5 DEF OneCaller
  <1>2. /\ registry[n].state \in {"free", "other"} <=> info = "throws"
        /\ registry[n].state = "ours" <=> info = "active"
        /\ registry[n].state = "expired" <=> info = "expired"
        /\ registry[n].state = "requested" <=> info = "transferring"
        /\ info = "throws" \/ info \in {"active", "expired", "transferring"}
    BY <1>1 DEF InfoOf, Registered
  <1>3. \/ /\ info # "throws" /\ lost' = lost
           /\ caller' = [caller EXCEPT ![c].pc = "synced", ![c].info = info, ![c].value = v, ![c].expires = e]
        \/ info = "throws" /\ lost' = lost /\ AfterSync(c)
        \/ lost' = lost + 1 /\ AfterSync(c)
    BY <1>1 DEF SyncRead, Watched
  <1>4. \/ /\ info # "throws" /\ lost' = lost /\ caller' \in [Caller -> CallKind]
           /\ caller'[c].pc = "synced" /\ caller'[c].op = op /\ caller'[c].name = n
           /\ caller'[c].order = caller[c].order /\ caller'[c].info = info /\ caller'[c].expires = e
        \/ /\ (info = "throws" /\ lost' = lost) \/ lost' = lost + 1
           /\ caller' \in [Caller -> CallKind]
           /\ \/ caller'[c].pc = "idle" /\ caller'[c] = NoCall /\ caller'[c].order = 0
              \/ /\ caller'[c].pc = "finish" /\ caller'[c].op = op /\ op \in Buys
                 /\ caller'[c].name = n /\ caller'[c].order = caller[c].order
    <2>1. CASE /\ info # "throws" /\ lost' = lost
               /\ caller' = [caller EXCEPT ![c].pc = "synced", ![c].info = info, ![c].value = v, ![c].expires = e]
      <3>1. caller \in [Caller -> CallKind] /\ info \in {"active", "expired", "transferring"} /\ v \in Nat /\ e \in Nat
        BY <1>1, <1>2, <2>1
      <3>2. caller' = [caller EXCEPT ![c].pc = "synced", ![c].info = info, ![c].value = v, ![c].expires = e]
        BY <2>1
      <3> DEFINE r == [caller[c] EXCEPT !.pc = "synced", !.info = info, !.value = v, !.expires = e]
      <3> HIDE DEF info, v, e
      <3>4. caller[c] \in CallKind
        BY <3>1
      <3>5. /\ r \in CallKind /\ r.pc = "synced" /\ r.order = caller[c].order
            /\ r.op = op /\ r.name = n /\ r.info = info /\ r.expires = e
        BY <3>1, <3>4 DEF CallKind
      <3>6. caller' = [caller EXCEPT ![c] = r]
        BY <3>2
      <3> HIDE DEF r
      <3>3. /\ caller' \in [Caller -> CallKind]
            /\ caller'[c].pc = "synced" /\ caller'[c].op = op /\ caller'[c].name = n
            /\ caller'[c].order = caller[c].order /\ caller'[c].info = info /\ caller'[c].expires = e
        BY <3>1, <3>5, <3>6
      <3> QED BY <2>1, <3>3
    <2>2. CASE ((info = "throws" /\ lost' = lost) \/ lost' = lost + 1) /\ AfterSync(c)
      <3>1. NoCall.pc = "idle" /\ NoCall.order = 0
        BY DEF NoCall, CallOf
      <3>2. /\ caller' \in [Caller -> CallKind]
            /\ \/ caller'[c] = NoCall
               \/ /\ caller'[c].pc = "finish" /\ caller'[c].op = caller[c].op /\ caller[c].op \in Buys
                  /\ caller'[c].name = caller[c].name /\ caller'[c].order = caller[c].order
        BY <1>1, <2>2, AfterSyncIs
      <3> QED BY <2>2, <3>1, <3>2
    <2> QED BY <1>3, <2>1, <2>2
  <1>5. lost' \in Nat /\ (lost' = 0 => lost = 0) /\ (lost' = lost + 1 => lost' # 0)
    BY <1>1, <1>4
  <1> HIDE DEF n, op, info, v, e
  <1>6. DomTypes'
    BY <1>1, <1>4, <1>5 DEF DomInv, DomTypes
  <1>7. CallKnown(c)'
    <2>1. CASE caller'[c].pc = "synced"
      <3>1. Buying(c) => Buying(c)'
        BY <1>1, <1>4, <2>1 DEF Buying, n, op
      <3>2. op = "renew" => registry[n].expires = e
        BY DEF e
      <3>3. Buying(c) => op \in Buys
        BY DEF Buying, op
      <3>4. caller'[c].op = op /\ caller'[c].name = n /\ caller'[c].info = info /\ caller'[c].expires = e
            /\ caller'[c].order = caller[c].order /\ info # "throws"
        BY <1>4, <2>1 DEF NoCall, CallOf
      <3>5. registry[n].expires = e
        BY DEF e
      <3> QED BY <1>1, <1>2, <2>1, <3>1, <3>3, <3>4, <3>5 DEF CallKnown, Granting, Buys
    <2>2. CASE caller'[c].pc = "finish"
      <3>1. caller'[c].op = op /\ op \in Buys /\ caller'[c].name = n /\ caller'[c].order = caller[c].order
        BY <1>4, <2>2 DEF NoCall, CallOf
      <3>2. Buying(c) /\ dom[n].status \in Watched
        BY <1>1, <3>1 DEF Buys
      <3>3. Buying(c)'
        BY <1>1, <3>1, <3>2 DEF Buying, n, op
      <3> QED BY <1>1, <2>2, <3>1, <3>2, <3>3 DEF CallKnown, Granting, Shown
    <2>3. CASE caller'[c].pc = "idle"
      <3>1. caller'[c] = NoCall /\ caller'[c].order = 0
        BY <1>4, <2>3
      <3> QED BY <1>1, <2>3, <3>1 DEF CallKnown, Granting
    <2> QED BY <1>4, <2>1, <2>2, <2>3
  <1>8. caller'[c].pc \in {"synced", "finish", "idle"}
    BY <1>4
  <1>9. ASSUME NEW m \in Name PROVE RowKnown(m)'
    <2>1. ~Granting(c, m) /\ ~Granting(c, m)' /\ ~At(c, m, {"call"}, "renew")'
      BY <1>1, <1>8 DEF Granting, At
    <2>2. RowKnown(m) /\ dom[m].expires \in Nat /\ registry[m].expires \in Nat
      BY DEF DomInv, DomTypes, RowKind, EntryKind
    <2>3. lost' = 0 => dom[m].expires \in {0, registry[m].expires} \/ Redating(c, m)'
      <3>1. lost = 0 => dom[m].expires \in {0, registry[m].expires} \/ Redating(c, m)
        BY <1>1, <2>2 DEF RowKnown
      <3>2. CASE ~Redating(c, m)
        BY <1>5, <3>1, <3>2
      <3>3. CASE Redating(c, m) /\ caller'[c].pc = "synced"
        <4>1. caller'[c].name = m /\ caller'[c].op = "renew"
          BY <1>1, <1>4, <3>3 DEF Redating, At, n, op, NoCall, CallOf
        <4> QED BY <3>3, <4>1 DEF Redating, At
      <3>4. CASE Redating(c, m) /\ caller'[c].pc # "synced"
        <4>1. m = n
          BY <3>4 DEF Redating, At, n
        <4>2. lost' = 0 => info = "throws"
          BY <1>4, <1>5, <3>4
        <4>3. info = "throws" => registry[m].state \notin Registered
          BY <1>2, <4>1 DEF Registered
        <4>4. info = "throws" => registry[m].expires = 0
          BY <2>2, <4>3 DEF RowKnown
        <4> QED BY <2>2, <4>2, <4>4 DEF RowKnown
      <3> QED BY <3>2, <3>3, <3>4
    <2> QED BY <1>1, <1>5, <2>1, <2>2, <2>3 DEF RowKnown
  <1>10. ASSUME NEW p \in DOMAIN orders PROVE OrderKnown(p)'
    <2>1. OrderKnown(p) /\ ~Is(c, "attach") /\ ~At(c, orders[p].name, {"call"}, "renew")
      BY <1>1 DEF DomInv, Is, At
    <2> QED BY <1>1, <1>5, <2>1 DEF OrderKnown
  <1> QED BY <1>1, <1>6, <1>7, <1>9, <1>10 DEF DomInv

LEMMA SyncWriteKeeps ==
  ASSUME OneCaller, DomInv, NEW c \in Caller, SyncWrite(c)
  PROVE  DomInv'
  <1> USE DEF NameOf, OrderOf
  <1> DEFINE n   == caller[c].name
             op  == caller[c].op
             s   == caller[c].info
             v   == caller[c].value
             x   == caller[c].expires
             e   == IF x = 0 THEN dom[n].expires ELSE x
  <1>1. /\ caller \in [Caller -> CallKind] /\ caller[c].pc = "synced" /\ n \in Name
        /\ s \in {"active", "expired", "transferring"} /\ v \in Nat /\ x \in Nat
        /\ \/ Buying(c) /\ dom[n].status \in Watched
           \/ op = "renew" /\ dom[n].status = "active"
           \/ op = "sync" /\ dom[n].status \in Watched
        /\ caller[c].order \in 0 .. Len(orders) /\ 0 \in 0 .. Len(orders)
        /\ x \in {0, registry[n].expires} /\ (op = "renew" => x = registry[n].expires)
        /\ (s = "active" => registry[n].state = "ours") /\ (s = "expired" => registry[n].state = "expired")
        /\ (s = "transferring" => registry[n].state # "free")
        /\ \A d \in Caller : d = c
        /\ RowKnown(n) /\ dom[n] \in RowKind /\ dom \in [Name -> RowKind] /\ registry[n].expires \in Nat
        /\ UNCHANGED <<registry, orders, year, lost, kills, changes>> /\ AfterSync(c)
        /\ dom' = [dom EXCEPT ![n] = Synced(dom[n], caller[c])]
    <2>1. caller \in [Caller -> CallKind] /\ CallKnown(c) /\ caller[c].pc = "synced" /\ dom \in [Name -> RowKind]
      BY DEF DomInv, DomTypes, SyncWrite, Is
    <2>2. /\ n \in Name
          /\ \/ Buying(c) /\ dom[n].status \in Watched
             \/ op = "renew" /\ dom[n].status = "active"
             \/ op = "sync" /\ dom[n].status \in Watched
          /\ caller[c].order \in 0 .. Len(orders)
      BY <2>1 DEF CallKnown
    <2>3. /\ x \in {0, registry[n].expires} /\ (op = "renew" => x = registry[n].expires)
          /\ (s = "active" => registry[n].state = "ours") /\ (s = "expired" => registry[n].state = "expired")
          /\ (s = "transferring" => registry[n].state # "free") /\ s # "none"
      BY <2>1 DEF CallKnown
    <2>4. s \in {"active", "expired", "transferring"} /\ v \in Nat /\ x \in Nat
      BY <2>1, <2>3 DEF CallKind
    <2>5. RowKnown(n) /\ dom[n] \in RowKind /\ registry[n].expires \in Nat
      BY <2>2 DEF DomInv, DomTypes, EntryKind
    <2>6. 0 \in 0 .. Len(orders)
      BY LenProperties DEF DomInv, DomTypes
    <2>7. /\ UNCHANGED <<registry, orders, year, lost, kills, changes>> /\ AfterSync(c)
          /\ dom' = [dom EXCEPT ![n] = Synced(dom[n], caller[c])]
      BY DEF SyncWrite
    <2>8. \A d \in Caller : d = c
      BY DEF OneCaller
    <2> QED BY <2>1, <2>2, <2>3, <2>4, <2>5, <2>6, <2>7, <2>8
  <1>2. dom[n].expires \in Nat /\ e \in Nat
    <2>1. dom[n].expires \in Nat
      BY <1>1 DEF RowKind
    <2> QED BY <1>1, <2>1
  <1>3. /\ dom' \in [Name -> RowKind] /\ dom'[n].status = s /\ dom'[n].owner = dom[n].owner /\ dom'[n].expires = e
        /\ \A m \in Name : m # n => dom'[m] = dom[m]
    <2> DEFINE r == [dom[n] EXCEPT !.status = s, !.ns = v, !.expires = e]
    <2>1. dom' = [dom EXCEPT ![n] = r]
      BY <1>1 DEF Synced
    <2>2. r \in RowKind /\ r.status = s /\ r.owner = dom[n].owner /\ r.expires = e
      <3>1. s \in NameStatus /\ v \in Nat /\ e \in Nat /\ dom[n] \in RowKind
        BY <1>1, <1>2 DEF NameStatus
      <3> HIDE DEF s, v, e, n
      <3> QED BY <3>1 DEF RowKind
    <2> HIDE DEF r, s, v, e
    <2> QED BY <1>1, <2>1, <2>2
  <1>4. /\ caller' \in [Caller -> CallKind]
        /\ \/ caller'[c].pc = "idle" /\ caller'[c] = NoCall /\ caller'[c].order = 0
           \/ /\ caller'[c].pc = "finish" /\ caller'[c].op = op /\ op \in Buys
              /\ caller'[c].name = n /\ caller'[c].order = caller[c].order
    <2>1. NoCall.pc = "idle" /\ NoCall.order = 0
      BY DEF NoCall, CallOf
    <2>2. /\ caller' \in [Caller -> CallKind]
          /\ \/ caller'[c] = NoCall
             \/ /\ caller'[c].pc = "finish" /\ caller'[c].op = caller[c].op /\ caller[c].op \in Buys
                /\ caller'[c].name = caller[c].name /\ caller'[c].order = caller[c].order
      BY <1>1, AfterSyncIs
    <2> QED BY <2>1, <2>2
  <1>5. /\ e <= registry[n].expires
        /\ lost = 0 => e \in {0, registry[n].expires}
        /\ dom[n].status \in Watched
    <2>1. dom[n].expires <= registry[n].expires
      BY <1>1 DEF RowKnown
    <2>2. e <= registry[n].expires
      BY <1>1, <1>2, <2>1
    <2>3. dom[n].status \in Watched
      BY <1>1 DEF Watched
    <2>4. ASSUME lost = 0, op = "renew" PROVE e \in {0, registry[n].expires}
      <3>1. x = registry[n].expires
        BY <1>1, <2>4
      <3>2. CASE x = 0
        <4>1. e = dom[n].expires /\ dom[n].expires <= 0
          BY <2>1, <3>1, <3>2
        <4> QED BY <1>2, <4>1
      <3>3. CASE x # 0
        BY <3>1, <3>3
      <3> QED BY <3>2, <3>3
    <2>5. ASSUME lost = 0, op # "renew" PROVE e \in {0, registry[n].expires}
      <3>1. ~Redating(c, n)
        BY <2>5 DEF Redating, At
      <3>2. dom[n].expires \in {0, registry[n].expires}
        BY <1>1, <2>5, <3>1 DEF RowKnown
      <3>3. x \in {0, registry[n].expires}
        BY <1>1
      <3> QED BY <3>2, <3>3
    <2> QED BY <2>2, <2>3, <2>4, <2>5
  <1> HIDE DEF n, op, s, v, x, e
  <1>6. DomTypes'
    BY <1>1, <1>3, <1>4 DEF DomInv, DomTypes
  <1>7. CallKnown(c)'
    <2>1. CASE caller'[c].pc = "finish"
      <3>1. caller'[c].op = op /\ op \in Buys /\ caller'[c].name = n /\ caller'[c].order = caller[c].order
        BY <1>4, <2>1
      <3>2. Buying(c)
        BY <1>1, <3>1 DEF Buys
      <3>3. Buying(c)'
        BY <1>1, <1>3, <3>1, <3>2 DEF Buying, n, op
      <3> QED BY <1>1, <1>3, <2>1, <3>1, <3>3 DEF CallKnown, Granting, Shown, Watched
    <2>2. CASE caller'[c].pc = "idle"
      <3>1. caller'[c] = NoCall /\ caller'[c].order = 0
        BY <1>4, <2>2
      <3> QED BY <1>1, <2>2, <3>1 DEF CallKnown, Granting
    <2> QED BY <1>4, <2>1, <2>2
  <1>8. caller'[c].pc \in {"finish", "idle"}
    BY <1>4
  <1>9. ASSUME NEW m \in Name PROVE RowKnown(m)'
    <2>1. ~Granting(c, m) /\ ~Granting(c, m)' /\ ~Redating(c, m)' /\ ~At(c, m, {"call"}, "renew")'
      BY <1>1, <1>8 DEF Granting, Redating, At
    <2>2. RowKnown(m)
      BY DEF DomInv
    <2>3. CASE m = n
      <3>1. s \in {"active", "expired"} => registry[n].state \in Registered
        BY <1>1 DEF Registered
      <3>2. lost = 0 /\ registry[n].state \in {"ours", "requested"} => s \in Watched
        BY <1>1 DEF Watched
      <3>3. s \notin {"pending", "none"}
        BY <1>1
      <3> QED BY <1>1, <1>3, <1>5, <2>1, <2>2, <2>3, <3>1, <3>2, <3>3 DEF RowKnown
    <2>4. CASE m # n
      <3>1. dom'[m] = dom[m] /\ ~Redating(c, m)
        BY <1>3, <2>4 DEF Redating, At, n
      <3> QED BY <1>1, <2>1, <2>2, <3>1 DEF RowKnown
    <2> QED BY <2>3, <2>4
  <1>10. ASSUME NEW p \in DOMAIN orders PROVE OrderKnown(p)'
    <2> DEFINE m == orders[p].name
    <2>1. OrderKnown(p) /\ m \in Name /\ ~Is(c, "attach") /\ ~At(c, m, {"call"}, "renew")
      <3>1. orders[p] \in OrderKind /\ OrderKnown(p)
        BY ElementOfSeq DEF DomInv, DomTypes
      <3>2. m \in Name
        BY <3>1 DEF OrderKind
      <3> QED BY <1>1, <3>1, <3>2 DEF Is, At
    <2> HIDE DEF m
    <2>2. CASE m = n
      <3>1. s \in Shown /\ (orders[p].state = "unpaid" => dom[n].owner # p)
        BY <1>1, <1>5, <2>1, <2>2 DEF OrderKnown, m, Shown, Watched
      <3> QED BY <1>1, <1>3, <2>1, <2>2, <3>1 DEF OrderKnown, m
    <2>3. CASE m # n
      <3>1. dom'[m] = dom[m]
        BY <1>3, <2>1, <2>3
      <3> QED BY <1>1, <2>1, <3>1 DEF OrderKnown, m
    <2> QED BY <2>2, <2>3
  <1> QED BY <1>1, <1>6, <1>7, <1>9, <1>10 DEF DomInv

LEMMA KilledKeeps ==
  ASSUME OneCaller, DomInv, NEW c \in Caller, Killed(c)
  PROVE  DomInv'
  <1>1. /\ caller[c].pc # "idle" /\ \A d \in Caller : d = c
        /\ kills \in Nat /\ kills' = kills + 1 /\ lost \in Nat
        /\ lost' = IF caller[c].pc = "answer" \/ caller[c].op = "renew" THEN lost + 1 ELSE lost
        /\ UNCHANGED <<dom, registry, orders, year, changes>>
        /\ caller' = [caller EXCEPT ![c] = NoCall]
    BY DEF Killed, OneCaller, Is, DomInv, DomTypes, Leaves
  <1>2. /\ lost' \in Nat /\ kills' \in Nat /\ kills' # 0
        /\ lost' = 0 => lost = 0 /\ caller[c].pc # "answer" /\ caller[c].op # "renew"
    BY <1>1
  <1>3. /\ caller' \in [Caller -> CallKind] /\ caller'[c] = NoCall
        /\ NoCall.pc = "idle" /\ NoCall.order = 0 /\ NoCall.op = "none"
    BY <1>1, RestIsCall DEF DomInv, DomTypes
  <1>4. DomTypes'
    BY <1>1, <1>2, <1>3 DEF DomInv, DomTypes
  <1>5. CallKnown(c)'
    <2>1. 0 \in 0 .. Len(orders)
      BY LenProperties DEF DomInv, DomTypes
    <2> QED BY <1>1, <1>3, <2>1 DEF CallKnown, Granting
  <1>6. ASSUME NEW m \in Name PROVE RowKnown(m)'
    <2>1. /\ lost' = 0 => ~Granting(c, m) /\ ~Redating(c, m)
          /\ ~Granting(c, m)' /\ ~Redating(c, m)' /\ ~At(c, m, {"call"}, "renew")'
      BY <1>2, <1>3 DEF Granting, Redating, At
    <2>2. RowKnown(m)
      BY DEF DomInv
    <2> QED BY <1>1, <1>2, <2>1, <2>2 DEF RowKnown
  <1>7. ASSUME NEW p \in DOMAIN orders PROVE OrderKnown(p)'
    <2>1. OrderKnown(p) /\ (lost' = 0 => ~At(c, orders[p].name, {"call"}, "renew"))
      BY <1>2 DEF DomInv, At
    <2> QED BY <1>1, <1>2, <2>1 DEF OrderKnown
  <1> QED BY <1>1, <1>4, <1>5, <1>6, <1>7 DEF DomInv

LEMMA TransferEndsKeeps ==
  ASSUME OneCaller, DomInv, NEW n \in Name, NEW done \in BOOLEAN, TransferEnds(n, done)
  PROVE  DomInv'
  <1> DEFINE k == year + 1
  <1>1. /\ registry[n].state = "requested" /\ registry \in [Name -> EntryKind] /\ registry[n] \in EntryKind
        /\ year \in Nat /\ k \in Nat \ {0} /\ RowKnown(n) /\ dom[n].expires \in Nat /\ registry[n].expires \in Nat
        /\ UNCHANGED <<dom, orders, caller, year, lost, kills, changes>>
        /\ \/ registry' = [registry EXCEPT ![n].state = "ours", ![n].expires = k]
           \/ registry' = [registry EXCEPT ![n].state = "other"]
    BY DEF TransferEnds, DomInv, DomTypes, EntryKind, RowKind
  <1>2. registry[n].expires = 0 /\ dom[n].expires = 0 /\ dom[n].status \notin {"active", "expired"}
    BY <1>1 DEF RowKnown, Registered
  <1> HIDE DEF k
  <1>3. /\ registry' \in [Name -> EntryKind] /\ \A m \in Name : m # n => registry'[m] = registry[m]
        /\ \/ registry'[n].state = "ours" /\ registry'[n].expires = k
           \/ registry'[n].state = "other" /\ registry'[n].expires = 0
    <2>1. CASE registry' = [registry EXCEPT ![n].state = "ours", ![n].expires = k]
      <3> DEFINE r == [registry[n] EXCEPT !.state = "ours", !.expires = k]
      <3>1. r \in EntryKind /\ r.state = "ours" /\ r.expires = k
        BY <1>1 DEF EntryKind, Registered
      <3>2. registry' = [registry EXCEPT ![n] = r]
        BY <2>1
      <3> HIDE DEF r
      <3> QED BY <1>1, <3>1, <3>2
    <2>2. CASE registry' = [registry EXCEPT ![n].state = "other"]
      <3> DEFINE r == [registry[n] EXCEPT !.state = "other"]
      <3>1. r \in EntryKind /\ r.state = "other" /\ r.expires = 0
        BY <1>1, <1>2 DEF EntryKind, Registered
      <3>2. registry' = [registry EXCEPT ![n] = r]
        BY <2>2
      <3> HIDE DEF r
      <3> QED BY <1>1, <3>1, <3>2
    <2> QED BY <1>1, <2>1, <2>2
  <1>4. DomTypes'
    BY <1>1, <1>3 DEF DomInv, DomTypes
  <1>5. ASSUME NEW c \in Caller PROVE CallKnown(c)'
    <2>1. CallKnown(c) /\ caller[c] \in CallKind
      BY DEF DomInv, DomTypes
    <2>2. CASE caller[c].name # n \/ caller[c].pc = "idle"
      <3>1. caller[c].pc = "idle" \/ (caller[c].name \in Name /\ caller[c].name # n)
        BY <2>1, <2>2 DEF CallKnown
      <3>2. Buying(c)' = Buying(c) /\ Renewing(c)' = Renewing(c)
        BY <1>1 DEF Buying, Renewing, NameOf, OrderOf
      <3>3. CASE caller[c].pc = "idle"
        BY <1>1, <2>1, <3>3 DEF CallKnown, Granting
      <3>4. CASE caller[c].name \in Name /\ caller[c].name # n
        <4>1. registry'[caller[c].name] = registry[caller[c].name]
          BY <1>3, <3>4
        <4> QED BY <1>1, <2>1, <3>2, <4>1 DEF CallKnown, Granting
      <3> QED BY <3>1, <3>3, <3>4
    <2>3. CASE caller[c].name = n /\ caller[c].pc # "idle"
      <3>1. caller[c].pc \notin {"place", "attach"}
        BY <1>1, <2>1, <2>3 DEF CallKnown
      <3>2. Granting(c, n) => caller[c].op = "transfer"
        BY <1>1, <2>1, <2>3 DEF CallKnown, Registered
      <3>3. caller[c].pc = "synced" => /\ caller[c].expires = 0 /\ caller[c].info \notin {"active", "expired", "none"}
                                       /\ caller[c].op # "renew"
        <4>1. caller[c].pc = "synced" => /\ caller[c].expires \in {0, registry[n].expires}
                                         /\ caller[c].info \notin {"active", "expired", "none"}
          BY <1>1, <2>1, <2>3 DEF CallKnown
        <4>2. caller[c].pc = "synced" => caller[c].op # "renew"
          BY <1>2, <2>1, <2>3 DEF CallKnown, Buying, Buys
        <4> QED BY <1>2, <4>1, <4>2
      <3>4. Buying(c)' = Buying(c) /\ Renewing(c)' = Renewing(c)
        BY <1>1 DEF Buying, Renewing, NameOf, OrderOf
      <3>5. registry'[n].state \in {"ours", "other"}
        BY <1>3
      <3> QED BY <1>1, <2>1, <2>3, <3>1, <3>2, <3>3, <3>4, <3>5 DEF CallKnown, Granting
    <2> QED BY <2>2, <2>3
  <1>6. ASSUME NEW m \in Name PROVE RowKnown(m)'
    <2>1. CASE m = n
      <3>1. registry'[n].state \in Registered <=> registry'[n].expires > 0
        BY <1>1, <1>3 DEF Registered
      <3>2. dom[n].expires <= registry'[n].expires
        BY <1>1, <1>2, <1>3
      <3>3. lost = 0 => dom[n].status \in Watched \/ \E c \in Caller : Granting(c, n)
        BY <1>1 DEF RowKnown
      <3>4. lost = 0 => \A c \in Caller : At(c, n, {"call"}, "renew") => caller[c].expires = 0
        BY <1>1, <1>2 DEF RowKnown
      <3>5. registry'[n].state # "expired" /\ registry'[n].state # "free"
        BY <1>3
      <3> QED BY <1>1, <1>2, <2>1, <3>1, <3>2, <3>3, <3>4, <3>5 DEF RowKnown, Granting, At
    <2>2. CASE m # n
      <3>1. registry'[m] = registry[m] /\ RowKnown(m)
        BY <1>3, <2>2 DEF DomInv
      <3> QED BY <1>1, <3>1 DEF RowKnown, Granting, Redating, At
    <2> QED BY <2>1, <2>2
  <1>7. ASSUME NEW p \in DOMAIN orders PROVE OrderKnown(p)'
    <2> DEFINE m == orders[p].name
    <2>1. OrderKnown(p) /\ m \in Name
      <3>1. orders[p] \in OrderKind /\ OrderKnown(p)
        BY ElementOfSeq DEF DomInv, DomTypes
      <3> QED BY <3>1 DEF OrderKind
    <2> HIDE DEF m
    <2>2. CASE m = n
      <3>1. orders[p].due <= k
        BY <1>1, <2>1, <2>2 DEF OrderKnown, m, k, Registered
      <3>2. registry'[n].state \in Registered => registry'[n].expires = k
        BY <1>3 DEF Registered
      <3> QED BY <1>1, <1>3, <2>1, <2>2, <3>1, <3>2 DEF OrderKnown, m, k, Is, At, OrderOf
    <2>3. CASE m # n
      <3>1. registry'[m] = registry[m]
        BY <1>3, <2>1, <2>3
      <3> QED BY <1>1, <2>1, <3>1 DEF OrderKnown, m, Is, At, OrderOf
    <2> QED BY <2>2, <2>3
  <1> QED BY <1>1, <1>4, <1>5, <1>6, <1>7 DEF DomInv

LEMMA NextYearKeeps ==
  ASSUME OneCaller, DomInv, NextYear
  PROVE  DomInv'
  <1>1. /\ year \in Nat /\ year' = year + 1 /\ \A c \in Caller : caller[c].pc = "idle"
        /\ registry \in [Name -> EntryKind]
        /\ UNCHANGED <<dom, orders, caller, lost, kills, changes>>
    BY DEF NextYear, Is, DomInv, DomTypes
  <1>2. /\ registry' \in [Name -> EntryKind]
        /\ \A m \in Name : /\ registry'[m].expires = registry[m].expires
                            /\ \/ registry'[m].state = registry[m].state
                               \/ registry[m].state = "ours" /\ registry'[m].state = "expired"
    <2> SUFFICES ASSUME NEW m \in Name
                 PROVE  /\ registry'[m] \in EntryKind /\ registry'[m].expires = registry[m].expires
                        /\ \/ registry'[m].state = registry[m].state
                           \/ registry[m].state = "ours" /\ registry'[m].state = "expired"
      <3>1. registry' = [m \in Name |-> registry'[m]]
        BY DEF NextYear
      <3> QED BY <3>1
    <2>1. registry[m] \in EntryKind
      BY <1>1
    <2>2. CASE registry[m].state = "ours" /\ registry[m].expires <= year
      <3>1. registry'[m] = [registry[m] EXCEPT !.state = "expired"]
        BY <2>2 DEF NextYear
      <3> QED BY <2>1, <2>2, <3>1 DEF EntryKind, Registered
    <2>3. CASE ~(registry[m].state = "ours" /\ registry[m].expires <= year)
      <3>1. registry'[m] = registry[m]
        BY <2>3 DEF NextYear
      <3> QED BY <2>1, <3>1
    <2> QED BY <2>2, <2>3
  <1>3. DomTypes'
    BY <1>1, <1>2 DEF DomInv, DomTypes
  <1>4. ASSUME NEW c \in Caller PROVE CallKnown(c)'
    <2>1. CallKnown(c) /\ caller[c].pc = "idle"
      BY <1>1 DEF DomInv
    <2> QED BY <1>1, <2>1 DEF CallKnown, Granting
  <1>5. ASSUME NEW m \in Name PROVE RowKnown(m)'
    <2>1. \A c \in Caller : /\ ~Granting(c, m) /\ ~Redating(c, m) /\ caller'[c].pc = "idle"
      BY <1>1 DEF Granting, Redating, At
    <2>2. RowKnown(m) /\ (registry'[m].state \in Registered <=> registry[m].state \in Registered)
      BY <1>2 DEF DomInv, Registered
    <2>3. lost = 0 /\ registry'[m].state \in {"ours", "requested"} => dom[m].status \in Watched
      BY <1>2, <2>1, <2>2 DEF RowKnown
    <2>4. lost = 0 /\ registry'[m].state = "expired" => dom[m].status \notin {"pending", "none"}
      BY <1>2, <2>1, <2>2 DEF RowKnown, Watched
    <2>5. lost = 0 => dom[m].expires \in {0, registry'[m].expires}
      BY <1>2, <2>1, <2>2 DEF RowKnown
    <2>6. dom[m].status = "transferring" => registry'[m].state # "free"
      BY <1>2, <2>2 DEF RowKnown
    <2>7. registry'[m].expires = registry[m].expires
      BY <1>2
    <2> QED BY <1>1, <2>1, <2>2, <2>3, <2>4, <2>5, <2>6, <2>7 DEF RowKnown, At
  <1>6. ASSUME NEW p \in DOMAIN orders PROVE OrderKnown(p)'
    <2> DEFINE m == orders[p].name
    <2>1. OrderKnown(p) /\ m \in Name /\ orders[p].due \in Nat
      <3>1. orders[p] \in OrderKind /\ OrderKnown(p)
        BY ElementOfSeq DEF DomInv, DomTypes
      <3> QED BY <3>1 DEF OrderKind
    <2> HIDE DEF m
    <2>2. \A c \in Caller : ~At(c, m, {"call"}, "renew") /\ ~Is(c, "attach")
      BY <1>1 DEF At, Is
    <2>3. /\ registry'[m].expires = registry[m].expires
          /\ registry'[m].state \in Registered <=> registry[m].state \in Registered
      BY <1>2, <2>1 DEF Registered
    <2>4. registry'[m].state \notin Registered => orders[p].due <= year' + 1
      BY <1>1, <2>1, <2>3 DEF OrderKnown, m
    <2> QED BY <1>1, <2>1, <2>2, <2>3, <2>4 DEF OrderKnown, m
  <1> QED BY <1>1, <1>3, <1>4, <1>5, <1>6 DEF DomInv

LEMMA DomInvStutters ==
  ASSUME DomInv, UNCHANGED domVars
  PROVE  DomInv'
  <1>1. UNCHANGED <<dom, registry, orders, caller, year, lost, kills, changes>>
    BY DEF domVars
  <1>2. DomTypes'
    BY <1>1 DEF DomInv, DomTypes
  <1>3. ASSUME NEW c \in Caller PROVE CallKnown(c)'
    <2>1. CallKnown(c)
      BY DEF DomInv
    <2> QED BY <1>1, <2>1 DEF CallKnown, Granting, Buying, Renewing, NameOf, OrderOf
  <1>4. ASSUME NEW n \in Name PROVE RowKnown(n)'
    <2>1. RowKnown(n)
      BY DEF DomInv
    <2> QED BY <1>1, <2>1 DEF RowKnown, Granting, Redating, At
  <1>5. ASSUME NEW o \in DOMAIN orders PROVE OrderKnown(o)'
    <2>1. OrderKnown(o)
      BY DEF DomInv
    <2> QED BY <1>1, <2>1 DEF OrderKnown, Is, At, OrderOf
  <1> QED BY <1>1, <1>2, <1>3, <1>4, <1>5 DEF DomInv

LEMMA DomInvStep ==
  ASSUME OneCaller, DomInv, [DomainsNext]_domVars
  PROVE  DomInv'
  <1>1. CASE \E c \in Caller, n \in Name : \E act \in Buys : Prepare(c, n, act)
    BY <1>1, PrepareKeeps
  <1>2. CASE \E c \in Caller, n \in Name : Change(c, n)
    BY <1>2, SettingKeeps
  <1>3. CASE \E c \in Caller : \E o \in DOMAIN orders : PayOrder(c, o)
    BY <1>3, PayKeeps
  <1>4. CASE \E c \in Caller : \E o \in DOMAIN orders : RenewName(c, o)
    BY <1>4, RenewNameKeeps
  <1>5. CASE \E n \in Name : \E c \in Caller : StartSync(c, n)
    BY <1>5, StartSyncKeeps
  <1>6. CASE \E c \in Caller : Proceeds(c)
    BY <1>6, PlaceKeeps, AttachKeeps, ReadKeeps, RegistrarKeeps, ProvisionWriteKeeps, FinishKeeps,
       ChangeWriteKeeps, SyncReadKeeps, SyncWriteKeeps DEF Proceeds
  <1>7. CASE \E c \in Caller : Killed(c)
    BY <1>7, KilledKeeps
  <1>8. CASE \E n \in Name, done \in BOOLEAN : TransferEnds(n, done)
    BY <1>8, TransferEndsKeeps
  <1>9. CASE NextYear
    BY <1>9, NextYearKeeps
  <1>10. CASE UNCHANGED domVars
    BY <1>10, DomInvStutters
  <1> QED BY <1>1, <1>2, <1>3, <1>4, <1>5, <1>6, <1>7, <1>8, <1>9, <1>10 DEF DomainsNext, Cron, Buys

LEMMA DomInvSuffices ==
  ASSUME DomInv
  PROVE  SoldIsRegistered
  <1> USE DEF Unused, NameOf
  <1>1. \A n \in Name : Unused(n) => \A c \in Caller : ~Granting(c, n) /\ ~At(c, n, {"call"}, "renew")
    BY DEF Granting, At
  <1>2. RowTellsRegistry
    BY DEF RowTellsRegistry, DomInv, RowKnown, Registered
  <1>3. RegisteredIsKnown
    <2> SUFFICES ASSUME NEW n \in Name, registry[n].state = "ours", Unused(n), lost = 0
                 PROVE  dom[n].status \in Watched
      BY DEF RegisteredIsKnown, Watched
    <2>1. RowKnown(n) /\ \A c \in Caller : ~Granting(c, n)
      BY <1>1 DEF DomInv
    <2> QED BY <2>1 DEF RowKnown
  <1>4. ASSUME NEW o \in DOMAIN orders PROVE OrderKnown(o) /\ orders[o].name \in Name
    <2>1. orders[o] \in OrderKind /\ OrderKnown(o)
      BY ElementOfSeq DEF DomInv, DomTypes
    <2> QED BY <2>1 DEF OrderKind
  <1>5. SoldOnce
    <2> SUFFICES ASSUME NEW o \in DOMAIN orders, orders[o].state = "unpaid", Unused(orders[o].name), kills = 0
                 PROVE  dom[orders[o].name].owner = o
      BY DEF SoldOnce
    <2>1. \A c \in Caller : ~(Is(c, "attach") /\ OrderOf(c) = o)
      BY DEF DomInv, CallKnown, Is, OrderOf
    <2> QED BY <1>4, <2>1 DEF OrderKnown
  <1>6. PaidIsRegistered
    <2> SUFFICES ASSUME NEW o \in DOMAIN orders, orders[o].state = "active", Unused(orders[o].name), lost = 0,
                        registry[orders[o].name].state # "requested"
                 PROVE  orders[o].due <= registry[orders[o].name].expires \/ registry[orders[o].name].state = "other"
      BY DEF PaidIsRegistered
    <2> DEFINE n == orders[o].name
    <2>1. OrderKnown(o) /\ n \in Name /\ \A c \in Caller : ~At(c, n, {"call"}, "renew")
      BY <1>1, <1>4
    <2>2. RowKnown(n) /\ registry[n].state \in {"free", "other", "requested"} \cup Registered
      BY <2>1 DEF DomInv, DomTypes, EntryKind
    <2>3. CASE registry[n].state \in Registered
      BY <2>1, <2>3 DEF OrderKnown
    <2>4. CASE registry[n].state = "free"
      BY <2>1, <2>2, <2>4 DEF OrderKnown, RowKnown, Shown, Watched, Registered
    <2> QED BY <2>2, <2>3, <2>4
  <1> QED BY <1>2, <1>3, <1>5, <1>6 DEF SoldIsRegistered

\* Nobody is sold a name that is not registered, no name is bought twice, an
\* order that waits for its payment has its name, and whoever paid for a period
\* has it, whatever answers get lost and whenever a process ends: for any number
\* of names, orders and years, while the panel is at one name at a time.
THEOREM NamesAreRegistered ==
  ASSUME OneCaller
  PROVE  PanelSpec => []SoldIsRegistered
  <1>1. PanelInit => DomInv
    BY DomInvInit DEF PanelInit
  <1>2. DomInv /\ [PanelNext]_panelVars => DomInv'
    <2> SUFFICES ASSUME DomInv, [PanelNext]_panelVars PROVE DomInv'
      OBVIOUS
    <2>1. DomainsNext \/ UNCHANGED domVars
      BY DEF PanelNext, panelVars
    <2> QED BY <2>1, DomInvStep
  <1>3. DomInv => SoldIsRegistered
    BY DomInvSuffices
  <1> QED BY <1>1, <1>2, <1>3, PTL DEF PanelSpec

-----------------------------------------------------------------------------
(* Services, their invoices and their sites.                               *)
(*                                                                         *)
(* Each actor has a list of services, and the services from the one it is  *)
(* at to the end of the list are those ahead of it.  Nobody else changes a *)
(* row of which an actor has a claim: the claim is on the service of a     *)
(* call at the module, until the row is written, and ends when staff or a  *)
(* customer changes the row (stale).  HoldInv is that claims are right;    *)
(* what follows says of each step which rows, invoices and lists it        *)
(* changes, and that HoldInv goes on.                                      *)

(* Services and what they are billed.                                      *)

Fors == UNION {[D -> Nat] : D \in SUBSET Service}
Seen == [site : Nat, pending : Nat]
Calling == {"create", "suspend", "unsuspend", "terminate"}

SvcKind == [status : {"none", "pending", "active", "suspended", "terminated"},
            due : Nat, billedFor : Nat, leaving : BOOLEAN,
            reason : {"none", OVERDUE, ByStaff}, plan : {"small", "big"},
            pending : Nat, site : Nat]
BillKind == [kind : {"new", "renewal", "upgrade"}, status : {"unpaid", "paid", "cancelled"},
             for : Fors, settled : BOOLEAN]
MadeKind == [of : Service, is : {"up", "held", "gone"}]
ActorKind == [pc : {"idle", "line", "call", "write", "leave", "undo", "switch", "list", "issue"},
              job : {"none", "fulfil", "staff", "leave", "undo", "switch", "invoice", "suspend", "terminate"},
              todo : Seq(Service), inv : Nat, act : Calling \cup {"none"}, now : Nat,
              saw : Seen \cup Fors]

SubTypes ==
  /\ svc \in [Service -> SvcKind]
  /\ bill \in Seq(BillKind)
  /\ made \in Seq(MadeKind)
  /\ actor \in [Actor -> ActorKind]
  /\ day \in Nat /\ day # 0
  /\ misfires \in Nat
  /\ stale \in SUBSET Service
  /\ \A s \in Service : svc[s].pending <= Len(bill) /\ svc[s].site <= Len(made)

-----------------------------------------------------------------------------
LEMMA RestIsActor == Rest \in ActorKind
<1>1. <<>> \in Seq(Service)
  OBVIOUS
<1>2. [site |-> 0, pending |-> 0] \in Seen
  BY DEF Seen
<1> QED BY <1>1, <1>2 DEF Rest, ActorKind

LEMMA ForsAre ==
  ASSUME NEW f \in Fors
  PROVE  /\ DOMAIN f \in SUBSET Service
         /\ \A s \in DOMAIN f : f[s] \in Nat
<1>1. PICK D \in SUBSET Service : f \in [D -> Nat]
  BY DEF Fors
<1> QED BY <1>1

LEMMA MakesFors ==
  ASSUME NEW D \in SUBSET Service, NEW f \in [D -> Nat]
  PROVE  f \in Fors
BY DEF Fors

\* The list of a set of services: each of them once.
LEMMA ListsOnce ==
  ASSUME NEW S \in SUBSET Service
  PROVE  \A q : q = SetToSeq(S) =>
           /\ q \in Seq(Service) /\ IsInjective(q) /\ Range(q) = S
           /\ q = <<>> <=> S = {}
<1> SUFFICES ASSUME NEW q, q = SetToSeq(S)
             PROVE  /\ q \in Seq(Service) /\ IsInjective(q) /\ Range(q) = S
                    /\ q = <<>> <=> S = {}
  OBVIOUS
<1> DEFINE n == Cardinality(S)
<1>1. IsFiniteSet(S) /\ n \in Nat
  BY SubscriptionsBounds, FS_Subset, FS_CardinalityType
<1>2. ExistsBijection(1 .. n, S)
  BY <1>1, FS_CardinalityType
<1> HIDE DEF n
<1>3. \E g \in [1 .. n -> S] : IsInjective(g)
  BY <1>2 DEF ExistsBijection, Bijection, Injection
<1>4. q \in [1 .. n -> S] /\ IsInjective(q)
  BY <1>3 DEF SetToSeq, n
<1>5. q \in Surjection(1 .. n, S)
  <2>1. q \in Injection(1 .. n, S)
    BY <1>4 DEF Injection
  <2>2. Cardinality(1 .. n) = n
    BY <1>1, FS_Interval
  <2> QED BY <1>1, <2>1, <2>2, FS_Injection DEF n
<1>6. q \in Seq(S) /\ DOMAIN q = 1 .. n
  BY <1>1, <1>4, SeqDef
<1>7. Range(q) = S
  <2>1. \A x \in S : \E k \in DOMAIN q : q[k] = x
    BY <1>5, <1>6 DEF Surjection
  <2>2. \A k \in DOMAIN q : q[k] \in S
    BY <1>4
  <2> QED BY <2>1, <2>2 DEF Range
<1>8. q \in Seq(Service)
  BY <1>4, <1>6, SeqDef
<1>9. q = <<>> <=> S = {}
  <2>1. q = <<>> => S = {}
    BY <1>7 DEF Range
  <2>2. S = {} => q = <<>>
    BY <1>6
  <2> QED BY <2>1, <2>2
<1> QED BY <1>4, <1>7, <1>8, <1>9

LEMMA NoneOnList == <<>> \in Seq(Service) /\ IsInjective(<<>>) /\ Range(<<>>) = {}
BY DEF IsInjective, Range

\* What is left of such a list.
LEMMA RestOfList ==
  ASSUME NEW q \in Seq(Service), q # <<>>, IsInjective(q)
  PROVE  /\ Head(q) \in Range(q) /\ Range(q) \in SUBSET Service
         /\ Tail(q) \in Seq(Service) /\ IsInjective(Tail(q))
         /\ Range(Tail(q)) = Range(q) \ {Head(q)}
         /\ Tail(q) = <<>> <=> Range(q) = {Head(q)}
         /\ Tail(q) # <<>> => Head(Tail(q)) \in Range(q) \ {Head(q)}
         /\ Tail(q) = <<>> <=> Len(q) = 1
<1>1. Tail(q) \in Seq(Service) /\ Len(q) \in Nat /\ Len(q) >= 1 /\ DOMAIN q = 1 .. Len(q)
  OBVIOUS
<1>2. Len(Tail(q)) = Len(q) - 1 /\ DOMAIN Tail(q) = 1 .. Len(q) - 1
  BY <1>1
<1>3. \A i \in 1 .. Len(q) - 1 : Tail(q)[i] = q[i + 1]
  BY <1>1
<1>4. Head(q) = q[1] /\ 1 \in DOMAIN q
  BY <1>1
<1>5. IsInjective(Tail(q))
  <2> SUFFICES ASSUME NEW i \in 1 .. Len(q) - 1, NEW j \in 1 .. Len(q) - 1, Tail(q)[i] = Tail(q)[j] PROVE i = j
    BY <1>2 DEF IsInjective
  <2>1. i + 1 \in DOMAIN q /\ j + 1 \in DOMAIN q /\ q[i + 1] = q[j + 1]
    BY <1>1, <1>3
  <2>2. i + 1 = j + 1
    BY <2>1 DEF IsInjective
  <2> QED BY <1>1, <2>2
<1>6. Range(Tail(q)) = Range(q) \ {Head(q)}
  <2>1. ASSUME NEW i \in 1 .. Len(q) - 1 PROVE Tail(q)[i] \in Range(q) \ {Head(q)}
    <3>1. i + 1 \in DOMAIN q /\ i + 1 # 1 /\ Tail(q)[i] = q[i + 1]
      BY <1>1, <1>3
    <3>2. q[i + 1] # q[1]
      BY <1>4, <3>1 DEF IsInjective
    <3> QED BY <1>4, <3>1, <3>2 DEF Range
  <2>2. ASSUME NEW i \in DOMAIN q, q[i] # Head(q) PROVE q[i] \in Range(Tail(q))
    <3>1. i # 1 /\ i - 1 \in 1 .. Len(q) - 1 /\ (i - 1) + 1 = i
      BY <1>1, <1>4, <2>2
    <3>2. Tail(q)[i - 1] = q[i]
      BY <1>3, <3>1
    <3> QED BY <1>2, <3>1, <3>2 DEF Range
  <2> QED BY <1>2, <2>1, <2>2 DEF Range
<1>7. Head(q) \in Range(q) /\ Range(q) \in SUBSET Service
  BY <1>1, <1>4 DEF Range
<1>8. Tail(q) = <<>> <=> Len(q) = 1
  BY <1>1, <1>2
<1>9. Tail(q) # <<>> => Head(Tail(q)) \in Range(Tail(q))
  BY <1>1, <1>2 DEF Range
<1>10. Tail(q) = <<>> <=> Range(Tail(q)) = {}
  <2>1. Tail(q) = <<>> => Range(Tail(q)) = {}
    BY NoneOnList
  <2> QED BY <1>9, <2>1
<1>11. Tail(q) = <<>> <=> Range(q) = {Head(q)}
  BY <1>6, <1>7, <1>10
<1> QED BY <1>1, <1>5, <1>6, <1>7, <1>8, <1>9, <1>11

LEMMA OneOnList ==
  ASSUME NEW s \in Service
  PROVE  \A q : q = <<s>> => q \in Seq(Service) /\ q # <<>> /\ Len(q) = 1 /\ IsInjective(q) /\ Range(q) = {s} /\ Head(q) = s
<1> SUFFICES ASSUME NEW q, q = <<s>>
             PROVE q \in Seq(Service) /\ q # <<>> /\ Len(q) = 1 /\ IsInjective(q) /\ Range(q) = {s} /\ Head(q) = s
  OBVIOUS
<1>1. q \in Seq(Service) /\ q # <<>> /\ Len(q) = 1 /\ DOMAIN q = {1} /\ q[1] = s /\ Head(q) = s
  OBVIOUS
<1> QED BY <1>1 DEF IsInjective, Range


LEMMA AfterIs ==
  ASSUME NEW v \in SvcKind, NEW act \in Calling, NEW saw, act = "create" => saw \in Seen,
         NEW reason \in {OVERDUE, ByStaff}
  PROVE  \A x : x = After(v, act, saw, reason) =>
           /\ x \in SvcKind
           /\ x.billedFor = v.billedFor /\ x.leaving = v.leaving /\ x.plan = v.plan
           /\ x.due = IF act = "terminate" THEN 0 ELSE v.due
           /\ x.status = IF act = "suspend" THEN "suspended" ELSE IF act = "terminate" THEN "terminated" ELSE "active"
           /\ x.reason = IF act = "suspend" THEN reason ELSE IF act = "terminate" THEN v.reason ELSE "none"
           /\ x.pending = IF act = "create" THEN saw.pending ELSE v.pending
           /\ x.site = IF act = "create" THEN saw.site ELSE v.site
<1> SUFFICES ASSUME NEW x, x = After(v, act, saw, reason)
             PROVE  /\ x \in SvcKind
                    /\ x.billedFor = v.billedFor /\ x.leaving = v.leaving /\ x.plan = v.plan
                    /\ x.due = IF act = "terminate" THEN 0 ELSE v.due
                    /\ x.status = IF act = "suspend" THEN "suspended" ELSE IF act = "terminate" THEN "terminated" ELSE "active"
                    /\ x.reason = IF act = "suspend" THEN reason ELSE IF act = "terminate" THEN v.reason ELSE "none"
                    /\ x.pending = IF act = "create" THEN saw.pending ELSE v.pending
                    /\ x.site = IF act = "create" THEN saw.site ELSE v.site
  OBVIOUS
<1>1. CASE act = "create"
  <2>1. saw.site \in Nat /\ saw.pending \in Nat
    BY <1>1 DEF Seen
  <2>2. \A w, p \in Nat : w = saw.site /\ p = saw.pending =>
          x = [v EXCEPT !.status = "active", !.reason = "none", !.site = w, !.pending = p]
    BY <1>1 DEF After
  <2>3. PICK w \in Nat, p \in Nat : w = saw.site /\ p = saw.pending
    BY <2>1
  <2>4. x = [v EXCEPT !.status = "active", !.reason = "none", !.site = w, !.pending = p]
    BY <2>2, <2>3
  <2>5. PICK st \in {"active"}, re \in {"none"} : TRUE
    OBVIOUS
  <2>6. x = [v EXCEPT !.status = st, !.reason = re, !.site = w, !.pending = p]
    BY <2>4, <2>5
  <2>7. /\ x \in SvcKind
        /\ x.billedFor = v.billedFor /\ x.leaving = v.leaving /\ x.plan = v.plan /\ x.due = v.due
        /\ x.status = st /\ x.reason = re /\ x.site = w /\ x.pending = p
    BY <2>5, <2>6 DEF SvcKind
  <2> QED BY <1>1, <2>3, <2>5, <2>7
<1>2. CASE act = "suspend"
  <2>1. x = [v EXCEPT !.status = "suspended", !.reason = reason]
    BY <1>2 DEF After
  <2> QED BY <1>2, <2>1 DEF SvcKind
<1>3. CASE act = "unsuspend"
  <2>1. PICK st \in {"active"}, re \in {"none"} : TRUE
    OBVIOUS
  <2>2. x = [v EXCEPT !.status = st, !.reason = re]
    BY <1>3, <2>1 DEF After
  <2>3. /\ x \in SvcKind
        /\ x.billedFor = v.billedFor /\ x.leaving = v.leaving /\ x.plan = v.plan /\ x.due = v.due
        /\ x.status = st /\ x.reason = re /\ x.site = v.site /\ x.pending = v.pending
    BY <2>1, <2>2 DEF SvcKind
  <2> QED BY <1>3, <2>1, <2>3
<1>4. CASE act = "terminate"
  <2>1. PICK st \in {"terminated"}, n \in Nat : n = 0
    OBVIOUS
  <2>2. x = [v EXCEPT !.status = st, !.due = n]
    BY <1>4, <2>1 DEF After
  <2>3. /\ x \in SvcKind
        /\ x.billedFor = v.billedFor /\ x.leaving = v.leaving /\ x.plan = v.plan /\ x.due = n
        /\ x.status = st /\ x.reason = v.reason /\ x.site = v.site /\ x.pending = v.pending
    BY <2>1, <2>2 DEF SvcKind
  <2> QED BY <1>4, <2>1, <2>3
<1> QED BY <1>1, <1>2, <1>3, <1>4 DEF Calling

\* The lines of an invoice that change something.
StartsLine(v, i)   == bill[i].kind = "new" /\ v.status = "pending"
RenewsLine(v, i)   == bill[i].kind = "renewal" /\ v.due # 0
UpgradesLine(v, i) == bill[i].kind = "upgrade" /\ v.pending = i

LEMMA LineEffectIs ==
  ASSUME SubTypes, NEW s \in Service, NEW i \in DOMAIN bill
  PROVE  \A x, act : x = LineEffect(s, i)[1] /\ act = LineEffect(s, i)[2] =>
           /\ x \in SvcKind
           /\ x.status = svc[s].status /\ x.billedFor = svc[s].billedFor /\ x.leaving = svc[s].leaving
           /\ x.reason = svc[s].reason /\ x.site = svc[s].site
           /\ x.due = IF StartsLine(svc[s], i) THEN day + Cycle ELSE
                      IF RenewsLine(svc[s], i) THEN svc[s].due + Cycle ELSE svc[s].due
           /\ x.pending = IF UpgradesLine(svc[s], i) THEN 0 ELSE svc[s].pending
           /\ act = IF StartsLine(svc[s], i) THEN "create" ELSE
                    IF RenewsLine(svc[s], i) /\ svc[s].status = "suspended" /\ svc[s].reason = OVERDUE THEN "unsuspend" ELSE "none"
<1> DEFINE v == svc[s]
<1>1. v \in SvcKind /\ day \in Nat /\ Cycle \in Nat /\ v.due \in Nat /\ bill[i].kind \in {"new", "renewal", "upgrade"}
  <2>1. v \in SvcKind /\ day \in Nat
    BY DEF SubTypes
  <2>2. bill[i] \in BillKind
    BY DEF SubTypes
  <2> QED BY <2>1, <2>2, SubscriptionsBounds DEF SvcKind, BillKind
<1> SUFFICES ASSUME NEW x, NEW act, x = LineEffect(s, i)[1], act = LineEffect(s, i)[2]
             PROVE  /\ x \in SvcKind
                    /\ x.status = v.status /\ x.billedFor = v.billedFor /\ x.leaving = v.leaving
                    /\ x.reason = v.reason /\ x.site = v.site
                    /\ x.due = IF StartsLine(v, i) THEN day + Cycle ELSE
                               IF RenewsLine(v, i) THEN v.due + Cycle ELSE v.due
                    /\ x.pending = IF UpgradesLine(v, i) THEN 0 ELSE v.pending
                    /\ act = IF StartsLine(v, i) THEN "create" ELSE
                             IF RenewsLine(v, i) /\ v.status = "suspended" /\ v.reason = OVERDUE THEN "unsuspend" ELSE "none"
  OBVIOUS
<1>2. CASE StartsLine(v, i)
  <2>1. x = [v EXCEPT !.due = day + Cycle] /\ act = "create"
    BY <1>2 DEF LineEffect, StartsLine, AddCycle
  <2>2. ~RenewsLine(v, i) /\ ~UpgradesLine(v, i)
    BY <1>2 DEF StartsLine, RenewsLine, UpgradesLine
  <2>3. day + Cycle \in Nat
    BY <1>1
  <2> HIDE DEF v
  <2> QED BY <1>1, <1>2, <2>1, <2>2, <2>3 DEF SvcKind
<1>3. CASE RenewsLine(v, i)
  <2>1. x = [v EXCEPT !.due = v.due + Cycle] /\ act = IF Lifts(v) THEN "unsuspend" ELSE "none"
    BY <1>3 DEF LineEffect, RenewsLine, AddCycle
  <2>2. ~StartsLine(v, i) /\ ~UpgradesLine(v, i)
    BY <1>3 DEF StartsLine, RenewsLine, UpgradesLine
  <2>3. v.due + Cycle \in Nat
    BY <1>1
  <2> HIDE DEF v
  <2> QED BY <1>1, <1>3, <2>1, <2>2, <2>3 DEF SvcKind, Lifts
<1>4. CASE UpgradesLine(v, i)
  <2>1. x = [v EXCEPT !.plan = "big", !.pending = 0] /\ act = "none"
    BY <1>4 DEF LineEffect, UpgradesLine
  <2>2. ~StartsLine(v, i) /\ ~RenewsLine(v, i)
    BY <1>4 DEF StartsLine, RenewsLine, UpgradesLine
  <2> HIDE DEF v
  <2>3. PICK pl \in {"big"}, p \in Nat : p = 0
    OBVIOUS
  <2>4. x = [v EXCEPT !.plan = pl, !.pending = p]
    BY <2>1, <2>3
  <2>5. /\ x \in SvcKind
        /\ x.status = v.status /\ x.billedFor = v.billedFor /\ x.leaving = v.leaving
        /\ x.reason = v.reason /\ x.site = v.site /\ x.due = v.due /\ x.pending = p
    BY <1>1, <2>3, <2>4 DEF SvcKind
  <2> QED BY <1>4, <2>1, <2>2, <2>3, <2>5
<1>5. CASE ~StartsLine(v, i) /\ ~RenewsLine(v, i) /\ ~UpgradesLine(v, i)
  <2>1. x = v /\ act = "none"
    BY <1>5 DEF LineEffect, StartsLine, RenewsLine, UpgradesLine
  <2> QED BY <1>1, <1>5, <2>1 DEF SvcKind
<1> QED BY <1>2, <1>3, <1>4, <1>5

-----------------------------------------------------------------------------
\* What an actor has still to do; the first is what it is at.
Ahead(a) == Range(actor[a].todo)

\* Only a moves.
Moves(a) ==
  /\ actor' \in [Actor -> ActorKind]
  /\ \A b \in Actor : b # a => actor'[b] = actor[b]

LEMMA RestIs ==
  Rest.pc = "idle" /\ Rest.job = "none" /\ Rest.todo = <<>> /\ Rest.act = "none" /\ Rest.now = 0 /\ Rest.inv = 0
BY DEF Rest

LEMMA MovesTo ==
  ASSUME SubTypes, NEW a \in Actor, NEW x \in ActorKind, actor' = [actor EXCEPT ![a] = x]
  PROVE  Moves(a) /\ actor'[a] = x
BY DEF Moves, SubTypes

LEMMA BeginsIs ==
  ASSUME SubTypes, NEW h \in Hand, NEW jb \in {"leave", "undo", "switch"}, NEW s \in Service,
         Begins(h, jb, jb, s, 0)
  PROVE  /\ Moves(h)
         /\ actor'[h].pc = jb /\ actor'[h].job = jb /\ actor'[h].todo = <<s>>
<1>1. PICK x : x = [Rest EXCEPT !.job = jb, !.pc = jb, !.todo = <<s>>, !.inv = 0]
  OBVIOUS
<1>2. PICK q : q = <<s>> /\ q \in Seq(Service)
  BY OneOnList
<1>3. x \in ActorKind /\ x.pc = jb /\ x.job = jb /\ x.todo = q
  BY <1>1, <1>2, RestIsActor DEF ActorKind
<1>4. actor' = [actor EXCEPT ![h] = x] /\ h \in Actor
  BY <1>1 DEF Begins, Actor
<1> QED BY <1>2, <1>3, <1>4, MovesTo

LEMMA RestsIs ==
  ASSUME SubTypes, NEW a \in Actor, actor' = [actor EXCEPT ![a] = Rest]
  PROVE  Moves(a) /\ actor'[a] = Rest
BY RestIsActor, MovesTo

LEMMA PayIs ==
  ASSUME SubTypes, NEW h \in Hand, NEW i \in DOMAIN bill, Pay(h, i)
  PROVE  /\ Moves(h)
         /\ actor'[h].pc = "line" /\ actor'[h].job = "fulfil" /\ actor'[h].inv = i
         /\ IsInjective(actor'[h].todo) /\ Range(actor'[h].todo) = DOMAIN bill[i].for
         /\ actor'[h].todo = <<>> <=> DOMAIN bill[i].for = {}
<1>1. PICK q : q = SetToSeq(DOMAIN bill[i].for)
  OBVIOUS
<1>2. bill[i] \in BillKind /\ i \in Nat
  BY DEF SubTypes
<1>3. DOMAIN bill[i].for \in SUBSET Service
  BY <1>2, ForsAre DEF BillKind
<1>4. q \in Seq(Service) /\ IsInjective(q) /\ Range(q) = DOMAIN bill[i].for /\ (q = <<>> <=> DOMAIN bill[i].for = {})
  BY <1>1, <1>3, ListsOnce
<1>5. PICK jb \in {"fulfil"}, p \in {"line"} : TRUE
  OBVIOUS
<1>6. PICK x : x = [Rest EXCEPT !.job = jb, !.pc = p, !.inv = i, !.todo = q]
  OBVIOUS
<1>7. x \in ActorKind /\ x.pc = p /\ x.job = jb /\ x.todo = q /\ x.inv = i
  BY <1>2, <1>4, <1>5, <1>6, RestIsActor DEF ActorKind
<1>8. actor' = [actor EXCEPT ![h] = x] /\ h \in Actor
  BY <1>1, <1>5, <1>6 DEF Pay, Actor
<1> QED BY <1>4, <1>5, <1>7, <1>8, MovesTo

LEMMA CommandIs ==
  ASSUME SubTypes, NEW h \in Hand, NEW s \in Service, NEW act \in Calling, Command(h, act, s)
  PROVE  /\ Moves(h)
         /\ actor'[h].pc = "call" /\ actor'[h].job = "staff" /\ actor'[h].todo = <<s>> /\ actor'[h].act = act
<1>1. PICK q : q = <<s>> /\ q \in Seq(Service)
  BY OneOnList
<1>2. PICK jb \in {"staff"}, p \in {"call"} : TRUE
  OBVIOUS
<1>3. PICK x : x = [Rest EXCEPT !.job = jb, !.pc = p, !.todo = q, !.act = act]
  OBVIOUS
<1>4. x \in ActorKind /\ x.pc = p /\ x.job = jb /\ x.todo = q /\ x.act = act
  BY <1>1, <1>2, <1>3, RestIsActor DEF ActorKind
<1>5. actor' = [actor EXCEPT ![h] = x] /\ h \in Actor
  BY <1>1, <1>2, <1>3 DEF Command, Actor
<1> QED BY <1>1, <1>2, <1>4, <1>5, MovesTo

LEMMA StartRunIs ==
  ASSUME SubTypes, NEW r \in Run, StartRun(r)
  PROVE  /\ Moves(r)
         /\ actor'[r].pc = "list" /\ actor'[r].job = "invoice" /\ actor'[r].todo = <<>> /\ actor'[r].now = day
<1>1. PICK jb \in {"invoice"}, p \in {"list"} : TRUE
  OBVIOUS
<1>2. PICK x : x = [Rest EXCEPT !.job = jb, !.pc = p, !.now = day]
  OBVIOUS
<1>3. day \in Nat
  BY DEF SubTypes
<1>4. x \in ActorKind /\ x.pc = p /\ x.job = jb /\ x.todo = Rest.todo /\ x.now = day
  BY <1>1, <1>2, <1>3, RestIsActor DEF ActorKind
<1>5. actor' = [actor EXCEPT ![r] = x] /\ r \in Actor
  BY <1>1, <1>2 DEF StartRun, Actor
<1> QED BY <1>1, <1>4, <1>5, MovesTo, RestIs

\* The next selection of a run; others have nothing more to do.
LEMMA NextPhaseIs ==
  ASSUME NEW v \in ActorKind
  PROVE  \A x : x = NextPhase(v) =>
           /\ x \in ActorKind /\ x.todo = <<>>
           /\ \/ v.job \notin {"invoice", "suspend", "terminate"} /\ x = Rest
              \/ /\ v.job \in {"invoice", "suspend", "terminate"}
                 /\ x.pc = "list" /\ x.now = v.now /\ x.job \in {"suspend", "terminate", "leave"}
<1> SUFFICES ASSUME NEW x, x = NextPhase(v)
             PROVE  /\ x \in ActorKind /\ x.todo = <<>>
                    /\ \/ v.job \notin {"invoice", "suspend", "terminate"} /\ x = Rest
                       \/ /\ v.job \in {"invoice", "suspend", "terminate"}
                          /\ x.pc = "list" /\ x.now = v.now /\ x.job \in {"suspend", "terminate", "leave"}
  OBVIOUS
<1>1. DOMAIN Follows = {"invoice", "suspend", "terminate"}
  BY DEF Follows
<1>2. CASE v.job \notin DOMAIN Follows
  <2>1. x = Rest
    BY <1>2 DEF NextPhase
  <2> QED BY <1>1, <1>2, <2>1, RestIsActor, RestIs
<1>3. CASE v.job \in DOMAIN Follows
  <2>1. PICK jb : jb = Follows[v.job]
    OBVIOUS
  <2>2. jb \in {"suspend", "terminate", "leave"}
    BY <1>3, <2>1, <1>1 DEF Follows
  <2>3. PICK p \in {"list"}, n \in Nat : n = v.now
    BY DEF ActorKind
  <2>4. x = [Rest EXCEPT !.job = jb, !.pc = p, !.now = n]
    BY <1>3, <2>1, <2>3 DEF NextPhase
  <2>5. x \in ActorKind /\ x.pc = p /\ x.job = jb /\ x.todo = Rest.todo /\ x.now = n
    BY <2>2, <2>3, <2>4, RestIsActor DEF ActorKind
  <2> QED BY <1>1, <1>3, <2>2, <2>3, <2>5, RestIs
<1> QED BY <1>2, <1>3

\* The list goes on after its first: w is how it goes on.
Follow(a, w) ==
  /\ Moves(a)
  /\ IsInjective(w.todo) /\ Range(w.todo) = Ahead(a) \ {Item(a)}
  /\ \/ /\ Ahead(a) = {Item(a)} /\ Len(actor[a].todo) = 1 /\ w.todo = <<>>
        /\ \/ actor[a].job \notin {"invoice", "suspend", "terminate"} /\ w = Rest
           \/ /\ actor[a].job \in {"invoice", "suspend", "terminate"}
              /\ w.pc = "list" /\ w.now = actor[a].now /\ w.job \in {"suspend", "terminate", "leave"}
     \/ /\ w.todo # <<>> /\ Head(w.todo) \in Ahead(a) \ {Item(a)} /\ Len(actor[a].todo) # 1
        /\ w.pc = IF a \in Hand THEN "line" ELSE "call"
        /\ w.job = actor[a].job /\ w.inv = actor[a].inv /\ w.act = actor[a].act /\ w.now = actor[a].now

LEMMA NextItemIs ==
  ASSUME SubTypes, NEW a \in Actor, actor[a].todo # <<>>, IsInjective(actor[a].todo), NextItem(a)
  PROVE  Follow(a, actor'[a])
<1>1. PICK v : v = actor[a]
  OBVIOUS
<1>2. v \in ActorKind /\ v.todo \in Seq(Service)
  BY <1>1 DEF SubTypes, ActorKind
<1>3. PICK q : q = Tail(v.todo)
  OBVIOUS
<1>4. /\ q \in Seq(Service) /\ IsInjective(q)
      /\ Range(q) = Range(v.todo) \ {Head(v.todo)}
      /\ q = <<>> <=> Range(v.todo) = {Head(v.todo)}
      /\ q # <<>> => Head(q) \in Range(v.todo) \ {Head(v.todo)}
      /\ q = <<>> <=> Len(v.todo) = 1
  BY <1>1, <1>2, <1>3, RestOfList
<1>5. CASE q = <<>>
  <2>1. PICK x : x = NextPhase(v)
    OBVIOUS
  <2>2. actor' = [actor EXCEPT ![a] = x]
    BY <1>1, <1>3, <1>5, <2>1 DEF NextItem
  <2>3. x \in ActorKind /\ x.todo = <<>>
    BY <1>2, <2>1, NextPhaseIs
  <2>4. \/ v.job \notin {"invoice", "suspend", "terminate"} /\ x = Rest
        \/ /\ v.job \in {"invoice", "suspend", "terminate"}
           /\ x.pc = "list" /\ x.now = v.now /\ x.job \in {"suspend", "terminate", "leave"}
    BY <1>2, <2>1, NextPhaseIs
  <2>5. Moves(a) /\ actor'[a] = x
    BY <2>2, <2>3, MovesTo
  <2> QED BY <1>1, <1>4, <1>5, <2>3, <2>4, <2>5 DEF Follow, Ahead, Item
<1>6. CASE q # <<>>
  <2>1. PICK p \in {"line", "call"} : p = IF a \in Hand THEN "line" ELSE "call"
    OBVIOUS
  <2>2. PICK x : x = [v EXCEPT !.todo = q, !.pc = p]
    OBVIOUS
  <2>3. actor' = [actor EXCEPT ![a] = x]
    BY <1>1, <1>3, <1>6, <2>1, <2>2 DEF NextItem
  <2>4. x \in ActorKind /\ x.todo = q /\ x.pc = p /\ x.job = v.job /\ x.inv = v.inv /\ x.act = v.act /\ x.now = v.now
    BY <1>2, <1>4, <2>1, <2>2 DEF ActorKind
  <2>5. Moves(a) /\ actor'[a] = x
    BY <2>3, <2>4, MovesTo
  <2> QED BY <1>1, <1>4, <1>6, <2>1, <2>4, <2>5 DEF Follow, Ahead, Item
<1> QED BY <1>5, <1>6

-----------------------------------------------------------------------------
(* What a step does to invoices and workloads.                             *)

\* Every invoice stays, and what is for whom once it is paid.
BillsStay ==
  /\ bill' \in Seq(BillKind) /\ Len(bill) <= Len(bill')
  /\ \A i \in DOMAIN bill : i \in DOMAIN bill' /\ bill'[i].kind = bill[i].kind
  /\ \A i \in DOMAIN bill : bill[i].status # "unpaid" => bill'[i].status = bill[i].status /\ bill'[i].for = bill[i].for
  /\ \A i \in DOMAIN bill' : i \notin DOMAIN bill => bill'[i].status = "unpaid" /\ DOMAIN bill'[i].for # {}

\* The k-th is replaced by b.
LEMMA BillReplaced ==
  ASSUME SubTypes, NEW k \in DOMAIN bill, NEW b \in BillKind, bill' = [bill EXCEPT ![k] = b]
  PROVE  /\ bill' \in Seq(BillKind) /\ DOMAIN bill' = DOMAIN bill /\ Len(bill') = Len(bill)
         /\ bill'[k] = b
         /\ \A i \in DOMAIN bill : i # k => bill'[i] = bill[i]
BY DEF SubTypes

LEMMA BillSettled ==
  ASSUME SubTypes, NEW k \in DOMAIN bill, NEW st \in {"unpaid", "paid", "cancelled"}, NEW f \in BOOLEAN,
         \/ bill' = [bill EXCEPT ![k].status = st] /\ f = bill[k].settled
         \/ bill' = [bill EXCEPT ![k].settled = f] /\ st = bill[k].status
  PROVE  /\ bill' \in Seq(BillKind) /\ DOMAIN bill' = DOMAIN bill /\ Len(bill') = Len(bill)
         /\ \A i \in DOMAIN bill : /\ bill'[i].kind = bill[i].kind /\ bill'[i].for = bill[i].for
                                   /\ i # k => bill'[i] = bill[i]
         /\ bill'[k].status = st /\ bill'[k].settled = f
<1>1. PICK b : b = bill[k] /\ b \in BillKind
  BY DEF SubTypes
<1>2. PICK x : x = IF bill' = [bill EXCEPT ![k].status = st] /\ f = b.settled THEN [b EXCEPT !.status = st] ELSE [b EXCEPT !.settled = f]
  OBVIOUS
<1>3. x \in BillKind /\ x.kind = b.kind /\ x.for = b.for /\ x.status = st /\ x.settled = f
  <2>1. CASE bill' = [bill EXCEPT ![k].status = st] /\ f = b.settled
    <3>1. x = [b EXCEPT !.status = st]
      BY <1>2, <2>1
    <3> QED BY <1>1, <2>1, <3>1 DEF BillKind
  <2>2. CASE ~(bill' = [bill EXCEPT ![k].status = st] /\ f = b.settled)
    <3>1. x = [b EXCEPT !.settled = f]
      BY <1>2, <2>2
    <3>2. st = b.status
      BY <1>1, <2>2
    <3> QED BY <1>1, <3>1, <3>2 DEF BillKind
  <2> QED BY <2>1, <2>2
<1>4. bill' = [bill EXCEPT ![k] = x]
  BY <1>1, <1>2
<1> QED BY <1>1, <1>3, <1>4, BillReplaced

LEMMA BillAdded ==
  ASSUME SubTypes, NEW kind \in {"new", "renewal", "upgrade"}, NEW for \in Fors, bill' = Append(bill, Invoice(kind, for))
  PROVE  /\ bill' \in Seq(BillKind) /\ Len(bill') = Len(bill) + 1 /\ Len(bill) \in Nat
         /\ DOMAIN bill = 1 .. Len(bill) /\ DOMAIN bill' = 1 .. Len(bill) + 1
         /\ \A i \in DOMAIN bill : bill'[i] = bill[i]
         /\ bill'[Len(bill) + 1] \in BillKind
         /\ bill'[Len(bill) + 1].kind = kind /\ bill'[Len(bill) + 1].for = for
         /\ bill'[Len(bill) + 1].status = "unpaid"
<1>1. PICK b : b = Invoice(kind, for)
  OBVIOUS
<1>2. b \in BillKind /\ b.kind = kind /\ b.for = for /\ b.status = "unpaid"
  BY <1>1 DEF Invoice, BillKind
<1>3. bill' = Append(bill, b) /\ bill \in Seq(BillKind)
  BY <1>1 DEF SubTypes
<1> QED BY <1>2, <1>3

\* The unpaid renewals of s lose their line; those that were for s alone are cancelled.
LEMMA LinesLeft ==
  ASSUME SubTypes, NEW h \in Hand, LeaveLines(h), NEW s, s = Item(h)
  PROVE  /\ bill' \in Seq(BillKind) /\ DOMAIN bill' = DOMAIN bill /\ Len(bill') = Len(bill)
         /\ \A i \in DOMAIN bill :
              \/ ~(Bills(i, "renewal", s) /\ bill[i].status = "unpaid") /\ bill'[i] = bill[i]
              \/ /\ Bills(i, "renewal", s) /\ bill[i].status = "unpaid"
                 /\ bill'[i].kind = bill[i].kind /\ bill'[i].status \in {"unpaid", "cancelled"}
                 /\ DOMAIN bill'[i].for = DOMAIN bill[i].for \ {s}
                 /\ \A x \in DOMAIN bill'[i].for : bill'[i].for[x] = bill[i].for[x]
                 /\ bill'[i].status = "unpaid" => DOMAIN bill'[i].for # {}
<1> DEFINE out(i) == [x \in DOMAIN bill[i].for \ {s} |-> bill[i].for[x]]
           new(i) == IF ~(Bills(i, "renewal", s) /\ bill[i].status = "unpaid") THEN bill[i]
                     ELSE IF DOMAIN bill[i].for = {s} THEN [bill[i] EXCEPT !.status = "cancelled", !.for = out(i)]
                     ELSE [bill[i] EXCEPT !.for = out(i)]
<1>1. bill' = [i \in DOMAIN bill |-> new(i)]
  BY DEF LeaveLines
<1>2. ASSUME NEW i \in DOMAIN bill
      PROVE  /\ new(i) \in BillKind
             /\ \/ ~(Bills(i, "renewal", s) /\ bill[i].status = "unpaid") /\ new(i) = bill[i]
                \/ /\ Bills(i, "renewal", s) /\ bill[i].status = "unpaid"
                   /\ new(i).kind = bill[i].kind /\ new(i).status \in {"unpaid", "cancelled"}
                   /\ DOMAIN new(i).for = DOMAIN bill[i].for \ {s}
                   /\ \A x \in DOMAIN new(i).for : new(i).for[x] = bill[i].for[x]
                   /\ new(i).status = "unpaid" => DOMAIN new(i).for # {}
  <2>1. PICK b : b = bill[i] /\ b \in BillKind
    BY DEF SubTypes
  <2>2. PICK f : f = out(i)
    OBVIOUS
  <2>3. f \in Fors /\ DOMAIN f = DOMAIN b.for \ {s} /\ \A x \in DOMAIN f : f[x] = b.for[x]
    <3>1. b.for \in Fors
      BY <2>1 DEF BillKind
    <3>2. DOMAIN b.for \in SUBSET Service /\ \A x \in DOMAIN b.for : b.for[x] \in Nat
      BY <3>1, ForsAre
    <3>3. DOMAIN b.for \ {s} \in SUBSET Service /\ f = [x \in DOMAIN b.for \ {s} |-> b.for[x]]
      BY <2>1, <2>2, <3>2
    <3>4. f \in [DOMAIN b.for \ {s} -> Nat]
      BY <3>2, <3>3
    <3> QED BY <3>3, <3>4, MakesFors
  <2>4. CASE ~(Bills(i, "renewal", s) /\ bill[i].status = "unpaid")
    BY <2>1, <2>4
  <2>5. CASE Bills(i, "renewal", s) /\ bill[i].status = "unpaid" /\ DOMAIN bill[i].for = {s}
    <3>1. PICK st \in {"cancelled"} : TRUE
      OBVIOUS
    <3>2. PICK x : x = [b EXCEPT !.status = st, !.for = f]
      OBVIOUS
    <3>3. x \in BillKind /\ x.kind = b.kind /\ x.status = st /\ x.for = f
      BY <2>1, <2>3, <3>1, <3>2 DEF BillKind
    <3>4. new(i) = x
      BY <2>1, <2>2, <2>5, <3>1, <3>2
    <3> HIDE DEF new, out
    <3> QED BY <2>1, <2>3, <2>5, <3>1, <3>3, <3>4
  <2>6. CASE Bills(i, "renewal", s) /\ bill[i].status = "unpaid" /\ DOMAIN bill[i].for # {s}
    <3>1. PICK x : x = [b EXCEPT !.for = f]
      OBVIOUS
    <3>2. x \in BillKind /\ x.kind = b.kind /\ x.status = b.status /\ x.for = f
      BY <2>1, <2>3, <3>1 DEF BillKind
    <3>3. new(i) = x
      BY <2>1, <2>2, <2>6, <3>1
    <3>4. DOMAIN f # {}
      BY <2>1, <2>3, <2>6 DEF Bills
    <3> HIDE DEF new, out
    <3> QED BY <2>1, <2>3, <2>6, <3>2, <3>3, <3>4
  <2> HIDE DEF new, out
  <2> QED BY <2>4, <2>5, <2>6
<1> HIDE DEF new, out
<1>3. bill \in Seq(BillKind)
  BY DEF SubTypes
<1>4. bill' \in Seq(BillKind) /\ DOMAIN bill' = DOMAIN bill /\ Len(bill') = Len(bill)
  <2>1. PICK n \in Nat : DOMAIN bill = 1 .. n /\ n = Len(bill)
    BY <1>3
  <2>2. bill' \in [1 .. n -> BillKind]
    BY <1>1, <1>2, <2>1
  <2> QED BY <2>1, <2>2
<1>5. \A i \in DOMAIN bill : bill'[i] = new(i)
  BY <1>1
<1> QED BY <1>2, <1>4, <1>5

\* a goes from one step of its item to the next.
LEMMA CallIs ==
  ASSUME SubTypes, NEW a \in Actor, Call(a), NEW s \in Service, s = Item(a)
  PROVE  /\ Moves(a)
         /\ actor'[a].pc = "write" /\ actor'[a].todo = actor[a].todo /\ actor'[a].job = actor[a].job
         /\ actor'[a].inv = actor[a].inv /\ actor'[a].act = actor[a].act /\ actor'[a].now = actor[a].now
         /\ actor'[a].saw \in Seen /\ actor'[a].saw.pending = svc[s].pending
         /\ actor'[a].saw.site = IF actor[a].act = "create" /\ svc[s].site = 0 THEN Len(made) + 1 ELSE svc[s].site
<1>1. PICK n \in Nat : n = IF actor[a].act = "create" /\ svc[s].site = 0 THEN Len(made) + 1 ELSE svc[s].site
  <2>1. svc[s] \in SvcKind /\ made \in Seq(MadeKind)
    BY DEF SubTypes
  <2>2. svc[s].site \in Nat /\ Len(made) + 1 \in Nat
    BY <2>1 DEF SvcKind
  <2> QED BY <2>2
<1>2. PICK p \in Nat : p = svc[s].pending
  BY DEF SubTypes, SvcKind
<1>3. PICK sw : sw = [site |-> n, pending |-> p]
  OBVIOUS
<1>4. sw \in Seen /\ sw.site = n /\ sw.pending = p
  BY <1>3 DEF Seen
<1>5. PICK v : v = actor[a] /\ v \in ActorKind
  BY DEF SubTypes
<1>6. PICK pc \in {"write"} : TRUE
  OBVIOUS
<1>7. PICK x : x = [v EXCEPT !.pc = pc, !.saw = sw]
  OBVIOUS
<1>8. actor' = [actor EXCEPT ![a] = x]
  BY <1>1, <1>2, <1>3, <1>5, <1>6, <1>7 DEF Call, Creates
<1>9. x \in ActorKind /\ x.pc = pc /\ x.saw = sw /\ x.todo = v.todo /\ x.job = v.job /\ x.inv = v.inv /\ x.act = v.act /\ x.now = v.now
  BY <1>4, <1>5, <1>6, <1>7 DEF ActorKind
<1>10. Moves(a) /\ actor'[a] = x
  BY <1>8, <1>9, MovesTo
<1> QED BY <1>1, <1>2, <1>4, <1>5, <1>6, <1>9, <1>10

\* What the module makes of the workload the row names.
LEMMA CallMakes ==
  ASSUME SubTypes, NEW a \in Actor, Call(a), NEW s \in Service, s = Item(a), actor[a].act \in Calling
  PROVE  /\ made' \in Seq(MadeKind) /\ Len(made) <= Len(made')
         /\ \A w \in DOMAIN made : /\ w \in DOMAIN made' /\ made'[w].of = made[w].of
                                   /\ w # svc[s].site => made'[w] = made[w]
         /\ IF actor[a].act = "create" /\ svc[s].site = 0
            THEN DOMAIN made' = DOMAIN made \cup {Len(made) + 1} /\ made'[Len(made) + 1] = [of |-> s, is |-> "up"]
            ELSE DOMAIN made' = DOMAIN made
         /\ \A w \in DOMAIN made : actor[a].act # "terminate" => (made'[w].is = "gone" <=> made[w].is = "gone")
<1>1. CASE actor[a].act = "create" /\ svc[s].site = 0
  <2>1. PICK m : m = [of |-> s, is |-> "up"]
    OBVIOUS
  <2>2. m \in MadeKind /\ made' = Append(made, m) /\ made \in Seq(MadeKind)
    BY <1>1, <2>1 DEF Call, Creates, MadeKind, SubTypes
  <2>3. Len(made) \in Nat /\ DOMAIN made = 1 .. Len(made) /\ DOMAIN made' = 1 .. Len(made) + 1
    BY <2>2
  <2>4. made' \in Seq(MadeKind) /\ Len(made') = Len(made) + 1
    BY <2>2
  <2>5. (\A w \in DOMAIN made : made'[w] = made[w]) /\ made'[Len(made) + 1] = m
    BY <2>2, <2>3
  <2>6. DOMAIN made' = DOMAIN made \cup {Len(made) + 1} /\ Len(made) <= Len(made') /\ \A w \in DOMAIN made : w \in DOMAIN made'
    BY <2>3, <2>4
  <2> QED BY <1>1, <2>1, <2>4, <2>5, <2>6
<1>2. CASE ~(actor[a].act = "create" /\ svc[s].site = 0)
  <2> DEFINE w0 == svc[s].site
             same == actor[a].act = "create" \/ w0 = 0 \/ made[w0].is = "gone"
  <2>1. PICK how : how = [suspend |-> "held", unsuspend |-> "up", terminate |-> "gone"][actor[a].act]
    OBVIOUS
  <2>2. made' = IF same THEN made ELSE [made EXCEPT ![w0].is = how]
    BY <1>2, <2>1 DEF Call, Creates
  <2>3. made \in Seq(MadeKind) /\ \A w \in DOMAIN made : made[w] \in MadeKind
    BY DEF SubTypes
  <2>4. CASE same \/ w0 \notin DOMAIN made
    <3>1. made' = made
      <4>1. CASE same
        BY <2>2, <4>1
      <4>2. CASE ~same /\ w0 \notin DOMAIN made
        <5>1. made' = [made EXCEPT ![w0].is = how]
          BY <2>2, <4>2
        <5>2. made = [w \in DOMAIN made |-> made[w]]
          BY <2>3
        <5> QED BY <4>2, <5>1, <5>2
      <4> QED BY <2>4, <4>1, <4>2
    <3> QED BY <1>2, <2>3, <3>1
  <2>5. CASE ~same /\ w0 \in DOMAIN made
    <3>1. actor[a].act \in {"suspend", "unsuspend", "terminate"} /\ made[w0].is # "gone"
      BY <2>5 DEF Calling
    <3>2. how \in {"held", "up", "gone"} /\ (actor[a].act # "terminate" => how # "gone")
      BY <2>1, <3>1
    <3>3. PICK m : m = made[w0] /\ m \in MadeKind
      BY <2>3, <2>5
    <3>4. PICK x : x = [m EXCEPT !.is = how]
      OBVIOUS
    <3>5. x \in MadeKind /\ x.of = m.of /\ x.is = how
      BY <3>2, <3>3, <3>4 DEF MadeKind
    <3>6. made' = [made EXCEPT ![w0] = x]
      BY <2>2, <2>5, <3>3, <3>4
    <3> HIDE DEF w0
    <3>7. made' \in Seq(MadeKind) /\ DOMAIN made' = DOMAIN made /\ Len(made') = Len(made) /\ Len(made) \in Nat
      BY <2>3, <2>5, <3>5, <3>6
    <3>8. made'[w0] = x /\ \A w \in DOMAIN made : w # w0 => made'[w] = made[w]
      BY <2>3, <2>5, <3>6
    <3>9. \A w \in DOMAIN made : made'[w].of = made[w].of
      BY <3>3, <3>5, <3>8
    <3>10. \A w \in DOMAIN made : actor[a].act # "terminate" => (made'[w].is = "gone" <=> made[w].is = "gone")
      BY <3>1, <3>2, <3>3, <3>5, <3>8
    <3> QED BY <1>2, <3>7, <3>8, <3>9, <3>10 DEF w0
  <2> QED BY <2>4, <2>5
<1> QED BY <1>1, <1>2

\* A line that needs the module goes on to its call.
LEMMA LineCalls ==
  ASSUME SubTypes, NEW h \in Hand, NEW ac \in Calling, actor' = [actor EXCEPT ![h].pc = "call", ![h].act = ac]
  PROVE  /\ Moves(h)
         /\ actor'[h].pc = "call" /\ actor'[h].act = ac /\ actor'[h].todo = actor[h].todo
         /\ actor'[h].job = actor[h].job /\ actor'[h].inv = actor[h].inv
<1>1. PICK v : v = actor[h] /\ v \in ActorKind
  BY DEF SubTypes, Actor
<1>2. PICK p \in {"call"} : TRUE
  OBVIOUS
<1>3. PICK x : x = [v EXCEPT !.pc = p, !.act = ac]
  OBVIOUS
<1>4. x \in ActorKind /\ x.pc = p /\ x.act = ac /\ x.todo = v.todo /\ x.job = v.job /\ x.inv = v.inv
  BY <1>1, <1>2, <1>3 DEF ActorKind
<1>5. actor' = [actor EXCEPT ![h] = x] /\ h \in Actor
  BY <1>1, <1>2, <1>3 DEF Actor
<1> QED BY <1>1, <1>2, <1>4, <1>5, MovesTo

\* A selection, and what the run has read with it.
LEMMA ListIs ==
  ASSUME SubTypes, NEW r \in Run, List(r), actor[r].job \in DOMAIN ActOf
  PROVE  /\ Moves(r)
         /\ LET job == actor[r].job
                found == Selected(job, actor[r].now)
                v == actor'[r]
            IN \/ /\ found = {} /\ v.todo = <<>>
                  /\ \/ job \notin {"invoice", "suspend", "terminate"} /\ v = Rest
                     \/ /\ job \in {"invoice", "suspend", "terminate"}
                        /\ v.pc = "list" /\ v.now = actor[r].now /\ v.job \in {"suspend", "terminate", "leave"}
               \/ /\ found # {} /\ IsInjective(v.todo) /\ Range(v.todo) = found /\ v.todo # <<>>
                  /\ v.act = ActOf[job] /\ v.job = job /\ v.now = actor[r].now
                  /\ v.pc = IF job = "invoice" THEN "issue" ELSE "call"
                  /\ v.saw \in Fors /\ DOMAIN v.saw = found /\ \A s \in found : v.saw[s] = svc[s].due
<1> DEFINE job == actor[r].job
           found == Selected(job, actor[r].now)
<1>1. PICK v : v = actor[r] /\ v \in ActorKind
  BY DEF SubTypes, Actor
<1>2. found \in SUBSET Service
  BY DEF Selected
<1>3. PICK q : q = SetToSeq(found)
  OBVIOUS
<1>4. q \in Seq(Service) /\ IsInjective(q) /\ Range(q) = found /\ (q = <<>> <=> found = {})
  BY <1>2, <1>3, ListsOnce
<1>5. CASE found = {}
  <2>1. PICK x : x = NextPhase(v)
    OBVIOUS
  <2>2. actor' = [actor EXCEPT ![r] = x] /\ r \in Actor
    BY <1>1, <1>3, <1>4, <1>5, <2>1 DEF List, Actor
  <2>3. /\ x \in ActorKind /\ x.todo = <<>>
        /\ \/ v.job \notin {"invoice", "suspend", "terminate"} /\ x = Rest
           \/ /\ v.job \in {"invoice", "suspend", "terminate"}
              /\ x.pc = "list" /\ x.now = v.now /\ x.job \in {"suspend", "terminate", "leave"}
    BY <1>1, <2>1, NextPhaseIs
  <2>4. Moves(r) /\ actor'[r] = x
    BY <2>2, <2>3, MovesTo
  <2> HIDE DEF found
  <2> QED BY <1>1, <1>5, <2>3, <2>4 DEF found
<1>6. CASE found # {}
  <2>1. PICK sw : sw = [s \in found |-> svc[s].due]
    OBVIOUS
  <2>2. sw \in Fors /\ DOMAIN sw = found /\ \A s \in found : sw[s] = svc[s].due
    <3>1. \A s \in Service : svc[s].due \in Nat
      BY DEF SubTypes, SvcKind
    <3> HIDE DEF found
    <3>2. sw \in [found -> Nat]
      BY <1>2, <2>1, <3>1
    <3> QED BY <1>2, <2>1, <3>2, MakesFors
  <2>3. PICK ac : ac = ActOf[job]
    OBVIOUS
  <2>4. ac \in Calling \cup {"none"}
    BY <2>3 DEF ActOf, Calling
  <2>5. PICK p \in {"issue", "call"} : p = IF job = "invoice" THEN "issue" ELSE "call"
    OBVIOUS
  <2>6. PICK x : x = [v EXCEPT !.todo = q, !.act = ac, !.pc = p, !.saw = sw]
    OBVIOUS
  <2>7. x \in ActorKind /\ x.todo = q /\ x.act = ac /\ x.pc = p /\ x.saw = sw /\ x.job = v.job /\ x.now = v.now
    BY <1>1, <1>4, <2>2, <2>4, <2>5, <2>6 DEF ActorKind
  <2>8. actor' = [actor EXCEPT ![r] = x] /\ r \in Actor
    <3>1. q # <<>> /\ Range(SetToSeq(found)) = found
      BY <1>3, <1>4, <1>6
    <3> HIDE DEF found
    <3>2. actor' = [actor EXCEPT ![r] = [actor[r] EXCEPT !.todo = q, !.act = ac, !.pc = p, !.saw = [s \in Range(q) |-> svc[s].due]]]
      BY <1>3, <2>3, <2>5, <3>1 DEF List, found
    <3> QED BY <1>1, <1>4, <2>1, <2>6, <3>2 DEF Actor
  <2>9. Moves(r) /\ actor'[r] = x
    BY <2>7, <2>8, MovesTo
  <2> HIDE DEF found
  <2> QED BY <1>1, <1>4, <1>6, <2>2, <2>3, <2>5, <2>7, <2>9 DEF found
<1> QED BY <1>5, <1>6

-----------------------------------------------------------------------------
(* What a step does to the rows.                                           *)

\* Only the row of s changes.
RowMoves(s) ==
  /\ svc' \in [Service -> SvcKind]
  /\ \A x \in Service : x # s => svc'[x] = svc[x]

LEMMA RowMovesTo ==
  ASSUME SubTypes, NEW s \in Service, NEW v \in SvcKind, svc' = [svc EXCEPT ![s] = v]
  PROVE  RowMoves(s) /\ svc'[s] = v
BY DEF RowMoves, SubTypes

LEMMA OrderIs ==
  ASSUME SubTypes, NEW ss \in SUBSET Service, Order(ss)
  PROVE  /\ svc' \in [Service -> SvcKind]
         /\ \A s \in Service :
              /\ svc'[s].status = IF s \in ss THEN "pending" ELSE svc[s].status
              /\ svc'[s].due = svc[s].due /\ svc'[s].billedFor = svc[s].billedFor /\ svc'[s].leaving = svc[s].leaving
              /\ svc'[s].reason = svc[s].reason /\ svc'[s].pending = svc[s].pending /\ svc'[s].site = svc[s].site
<1> DEFINE new(s) == IF s \in ss THEN [svc[s] EXCEPT !.status = "pending"] ELSE svc[s]
<1>1. svc' = [s \in Service |-> new(s)]
  BY DEF Order
<1>2. ASSUME NEW s \in Service
      PROVE  /\ new(s) \in SvcKind
             /\ new(s).status = IF s \in ss THEN "pending" ELSE svc[s].status
             /\ new(s).due = svc[s].due /\ new(s).billedFor = svc[s].billedFor /\ new(s).leaving = svc[s].leaving
             /\ new(s).reason = svc[s].reason /\ new(s).pending = svc[s].pending /\ new(s).site = svc[s].site
  <2>1. PICK v : v = svc[s] /\ v \in SvcKind
    BY DEF SubTypes
  <2>2. PICK st \in {"pending"} : TRUE
    OBVIOUS
  <2>3. PICK x : x = [v EXCEPT !.status = st]
    OBVIOUS
  <2>4. /\ x \in SvcKind /\ x.status = st /\ x.due = v.due /\ x.billedFor = v.billedFor /\ x.leaving = v.leaving
        /\ x.reason = v.reason /\ x.pending = v.pending /\ x.site = v.site
    BY <2>1, <2>2, <2>3 DEF SvcKind
  <2>5. new(s) = IF s \in ss THEN x ELSE v
    BY <2>1, <2>2, <2>3
  <2> HIDE DEF new
  <2> QED BY <2>1, <2>2, <2>4, <2>5
<1> HIDE DEF new
<1> QED BY <1>1, <1>2

\* The flag of a cancellation is set or taken back.
LEMMA FlagIs ==
  ASSUME SubTypes, NEW s \in Service, NEW f \in BOOLEAN, svc' = [svc EXCEPT ![s].leaving = f]
  PROVE  /\ RowMoves(s)
         /\ svc'[s].leaving = f /\ svc'[s].status = svc[s].status /\ svc'[s].due = svc[s].due
         /\ svc'[s].billedFor = svc[s].billedFor /\ svc'[s].reason = svc[s].reason
         /\ svc'[s].pending = svc[s].pending /\ svc'[s].site = svc[s].site
<1>1. PICK v : v = svc[s] /\ v \in SvcKind
  BY DEF SubTypes
<1>2. PICK x : x = [v EXCEPT !.leaving = f]
  OBVIOUS
<1>3. /\ x \in SvcKind /\ x.leaving = f /\ x.status = v.status /\ x.due = v.due /\ x.billedFor = v.billedFor
      /\ x.reason = v.reason /\ x.pending = v.pending /\ x.site = v.site
  BY <1>1, <1>2 DEF SvcKind
<1>4. svc' = [svc EXCEPT ![s] = x]
  BY <1>1, <1>2
<1> QED BY <1>1, <1>3, <1>4, RowMovesTo

LEMMA UndoBilledIs ==
  ASSUME SubTypes, NEW h \in Hand, UndoBilled(h), NEW s \in Service, s = Item(h)
  PROVE  /\ RowMoves(s)
         /\ svc'[s].billedFor = IF StillBilled(s) THEN svc[s].billedFor ELSE 0
         /\ svc'[s].leaving = svc[s].leaving /\ svc'[s].status = svc[s].status /\ svc'[s].due = svc[s].due
         /\ svc'[s].reason = svc[s].reason
         /\ svc'[s].pending = svc[s].pending /\ svc'[s].site = svc[s].site
<1>1. PICK v : v = svc[s] /\ v \in SvcKind
  BY DEF SubTypes
<1>2. PICK n \in Nat : n = IF StillBilled(s) THEN v.billedFor ELSE 0
  BY <1>1 DEF SvcKind
<1>3. PICK x : x = [v EXCEPT !.billedFor = n]
  OBVIOUS
<1>4. /\ x \in SvcKind /\ x.billedFor = n /\ x.leaving = v.leaving /\ x.status = v.status /\ x.due = v.due
      /\ x.reason = v.reason /\ x.pending = v.pending /\ x.site = v.site
  BY <1>1, <1>2, <1>3 DEF SvcKind
<1>5. svc' = [svc EXCEPT ![s] = x]
  BY <1>1, <1>2, <1>3 DEF UndoBilled
<1> QED BY <1>1, <1>2, <1>4, <1>5, RowMovesTo

LEMMA SwitchPlanIs ==
  ASSUME SubTypes, NEW h \in Hand, SwitchPlan(h), NEW s \in Service, s = Item(h)
  PROVE  /\ RowMoves(s)
         /\ svc'[s].billedFor = svc[s].billedFor
         /\ svc'[s].leaving = svc[s].leaving /\ svc'[s].status = svc[s].status /\ svc'[s].due = svc[s].due
         /\ svc'[s].reason = svc[s].reason /\ svc'[s].site = svc[s].site
         /\ \/ /\ svc'[s].pending = Len(bill) + 1
               /\ \E f \in Fors : DOMAIN f = {s} /\ bill' = Append(bill, Invoice("upgrade", f))
            \/ svc'[s].pending = 0 /\ bill' = bill
<1>1. PICK v : v = svc[s] /\ v \in SvcKind
  BY DEF SubTypes
<1> DEFINE upgrades == v.plan = "small" /\ day < v.due
<1>2. CASE upgrades
  <2>1. PICK n \in Nat : n = Len(bill) + 1
    BY DEF SubTypes
  <2>2. PICK x : x = [v EXCEPT !.pending = n]
    OBVIOUS
  <2>3. /\ x \in SvcKind /\ x.pending = n /\ x.billedFor = v.billedFor /\ x.leaving = v.leaving /\ x.status = v.status
        /\ x.due = v.due /\ x.reason = v.reason /\ x.site = v.site
    BY <1>1, <2>1, <2>2 DEF SvcKind
  <2>4. svc' = [svc EXCEPT ![s] = x]
    BY <1>1, <1>2, <2>1, <2>2 DEF SwitchPlan
  <2>5. PICK f : f = [x1 \in {s} |-> svc[s].due]
    OBVIOUS
  <2>6. bill' = Append(bill, Invoice("upgrade", f))
    BY <1>1, <1>2, <2>5 DEF SwitchPlan
  <2>7. f \in Fors /\ DOMAIN f = {s}
    <3>1. svc[s].due \in Nat
      BY <1>1 DEF SvcKind
    <3>2. f \in [{s} -> Nat] /\ {s} \in SUBSET Service
      BY <2>5, <3>1
    <3> QED BY <3>2, MakesFors
  <2> QED BY <1>1, <2>1, <2>3, <2>4, <2>6, <2>7, RowMovesTo
<1>3. CASE ~upgrades
  <2>1. PICK p \in {"small", "big"} : p = IF v.plan = "small" THEN "big" ELSE "small"
    OBVIOUS
  <2>2. PICK n \in Nat : n = 0
    OBVIOUS
  <2>3. PICK x : x = [v EXCEPT !.plan = p, !.pending = n]
    OBVIOUS
  <2>4. /\ x \in SvcKind /\ x.pending = n /\ x.billedFor = v.billedFor /\ x.leaving = v.leaving /\ x.status = v.status
        /\ x.due = v.due /\ x.reason = v.reason /\ x.site = v.site
    BY <1>1, <2>1, <2>2, <2>3 DEF SvcKind
  <2>5. svc' = [svc EXCEPT ![s] = x] /\ bill' = bill
    BY <1>1, <1>3, <2>1, <2>2, <2>3 DEF SwitchPlan
  <2> QED BY <1>1, <2>2, <2>4, <2>5, RowMovesTo
<1> QED BY <1>2, <1>3

LEMMA IssueIs ==
  ASSUME SubTypes, NEW r \in Run, Issue(r), actor[r].saw \in Fors
  PROVE  /\ svc' \in [Service -> SvcKind]
         /\ \A s \in Service :
              /\ svc'[s].billedFor = IF s \in DOMAIN actor[r].saw THEN actor[r].saw[s] ELSE svc[s].billedFor
              /\ svc'[s].status = svc[s].status /\ svc'[s].due = svc[s].due /\ svc'[s].leaving = svc[s].leaving
              /\ svc'[s].reason = svc[s].reason /\ svc'[s].pending = svc[s].pending /\ svc'[s].site = svc[s].site
<1> DEFINE saw == actor[r].saw
           new(s) == IF s \in DOMAIN saw THEN [svc[s] EXCEPT !.billedFor = saw[s]] ELSE svc[s]
<1>1. svc' = [s \in Service |-> new(s)]
  BY DEF Issue
<1>2. ASSUME NEW s \in Service
      PROVE  /\ new(s) \in SvcKind
             /\ new(s).billedFor = IF s \in DOMAIN saw THEN saw[s] ELSE svc[s].billedFor
             /\ new(s).status = svc[s].status /\ new(s).due = svc[s].due /\ new(s).leaving = svc[s].leaving
             /\ new(s).reason = svc[s].reason /\ new(s).pending = svc[s].pending /\ new(s).site = svc[s].site
  <2>1. PICK v : v = svc[s] /\ v \in SvcKind
    BY DEF SubTypes
  <2>2. CASE s \notin DOMAIN saw
    BY <2>1, <2>2
  <2>3. CASE s \in DOMAIN saw
    <3>1. PICK n \in Nat : n = saw[s]
      BY <2>3, ForsAre
    <3>2. PICK x : x = [v EXCEPT !.billedFor = n]
      OBVIOUS
    <3>3. /\ x \in SvcKind /\ x.billedFor = n /\ x.status = v.status /\ x.due = v.due /\ x.leaving = v.leaving
          /\ x.reason = v.reason /\ x.pending = v.pending /\ x.site = v.site
      BY <2>1, <3>1, <3>2 DEF SvcKind
    <3>4. new(s) = x
      BY <2>1, <2>3, <3>1, <3>2
    <3> HIDE DEF new
    <3> QED BY <2>1, <2>3, <3>1, <3>3, <3>4
  <2> QED BY <2>2, <2>3
<1> HIDE DEF new
<1> QED BY <1>1, <1>2

\* What a request is doing fits its list and its invoice.
HandShape(h) ==
  /\ actor[h].pc \in {"idle", "line", "call", "write", "leave", "undo", "switch"}
  /\ actor[h].todo = <<>> <=> On(h, "idle")
  /\ actor[h].pc \in {"leave", "undo", "switch"} => Len(actor[h].todo) = 1
  /\ actor[h].pc \in {"line", "call", "write"} =>
       \/ /\ actor[h].job = "staff" /\ actor[h].pc # "line"
          /\ Len(actor[h].todo) = 1
          /\ actor[h].act \in Calling
       \/ /\ actor[h].job = "fulfil"
          /\ actor[h].inv \in DOMAIN bill /\ bill[actor[h].inv].status = "paid"
          /\ Ahead(h) \subseteq DOMAIN bill[actor[h].inv].for
          /\ actor[h].pc # "line" => actor[h].act \in {"create", "unsuspend"}

\* What a run is doing fits its selection; nobody it selected waits to be activated.
RunShape(r) ==
  /\ actor[r].pc \in {"idle", "list", "issue", "call", "write"}
  /\ actor[r].todo = <<>> <=> actor[r].pc \in {"idle", "list"}
  /\ On(r, "list") => actor[r].job \in DOMAIN ActOf
  /\ On(r, "issue") => actor[r].job = "invoice" /\ actor[r].saw \in Fors /\ DOMAIN actor[r].saw = Ahead(r)
  /\ actor[r].pc \in {"call", "write"} =>
       actor[r].job \in {"suspend", "terminate", "leave"} /\ actor[r].act = ActOf[actor[r].job]
  /\ actor[r].now <= day
  /\ \A s \in Ahead(r) : svc[s].status \notin {"none", "pending"}

ShapeOf(a) ==
  /\ IsInjective(actor[a].todo)
  /\ On(a, "write") => actor[a].saw \in Seen /\ actor[a].saw.site <= Len(made) /\ actor[a].saw.pending <= Len(bill)
  /\ a \in Hand => HandShape(a)
  /\ a \in Run => RunShape(a)

\* a is at the module, or about to write what it answered, for s.
Calls(a, s) == actor[a].pc \in {"call", "write"} /\ Item(a) = s

\* What a still means to do to a service that nobody changed meanwhile is right for it.
ClaimOf(a) ==
  \A s \in Service \ stale :
    /\ a \in Hand /\ Calls(a, s) /\ actor[a].job = "fulfil" =>
         /\ actor[a].act = "create" => svc[s].status = "pending"
         /\ actor[a].act = "unsuspend" => svc[s].status = "suspended" /\ svc[s].reason = OVERDUE
    /\ a \in Run /\ actor[a].pc \in {"call", "write"} /\ s \in Ahead(a) /\ actor[a].act = "suspend" =>
         svc[s].status = "active"

HoldInv ==
  /\ SubTypes
  /\ \A a \in Actor : ShapeOf(a) /\ ClaimOf(a)
  /\ \A i \in DOMAIN bill : bill[i].status = "unpaid" => DOMAIN bill[i].for # {}

-----------------------------------------------------------------------------
LEMMA HoldInvInit == SubscriptionsInit => HoldInv
<1> SUFFICES ASSUME SubscriptionsInit PROVE HoldInv
  OBVIOUS
<1>1. \A a \in Actor : actor[a] = Rest
  BY DEF SubscriptionsInit
<1>2. SubTypes
  <2>1. PICK v : v = [status |-> "none", due |-> 0, billedFor |-> 0, leaving |-> FALSE,
                      reason |-> "none", plan |-> "small", pending |-> 0, site |-> 0]
    OBVIOUS
  <2>2. v \in SvcKind /\ v.pending = 0 /\ v.site = 0
    BY <2>1 DEF SvcKind
  <2>3. svc \in [Service -> SvcKind] /\ \A s \in Service : svc[s] = v
    BY <2>1, <2>2 DEF SubscriptionsInit
  <2>4. bill = <<>> /\ made = <<>> /\ bill \in Seq(BillKind) /\ made \in Seq(MadeKind) /\ Len(bill) = 0 /\ Len(made) = 0
    BY DEF SubscriptionsInit
  <2>5. actor \in [Actor -> ActorKind]
    BY RestIsActor DEF SubscriptionsInit
  <2> QED BY <2>2, <2>3, <2>4, <2>5 DEF SubTypes, SubscriptionsInit
<1>3. ASSUME NEW a \in Actor PROVE ShapeOf(a) /\ ClaimOf(a)
  <2>1. actor[a].pc = "idle" /\ actor[a].todo = <<>> /\ actor[a].now = 0 /\ Ahead(a) = {} /\ IsInjective(actor[a].todo)
    BY <1>1, RestIs, NoneOnList DEF Ahead
  <2>2. HandShape(a)
    BY <2>1 DEF HandShape, On
  <2>3. RunShape(a)
    BY <2>1, <1>2 DEF RunShape, On, SubTypes
  <2> QED BY <2>1, <2>2, <2>3 DEF ShapeOf, ClaimOf, Calls, On
<1>4. bill = <<>>
  BY DEF SubscriptionsInit
<1> QED BY <1>2, <1>3, <1>4 DEF HoldInv

-----------------------------------------------------------------------------
\* A step lets what others do stay right.
RowsGoOn ==
  /\ stale \subseteq stale' /\ day <= day' /\ Len(made) <= Len(made')
  /\ \A s \in Service : svc[s].status \notin {"none", "pending"} => svc'[s].status \notin {"none", "pending"}

\* s is not what b is at the module for.
Untouched(b) ==
  \A s \in Service \ stale' : s \in Ahead(b) /\ actor[b].pc \in {"call", "write"} /\ svc[s].status # "none" =>
    svc'[s].status = svc[s].status /\ svc'[s].reason = svc[s].reason

LEMMA ItemIsAhead ==
  ASSUME HoldInv, NEW a \in Actor, actor[a].todo # <<>>
  PROVE  Item(a) \in Service /\ Item(a) \in Ahead(a) /\ Ahead(a) \in SUBSET Service
<1>1. actor[a].todo \in Seq(Service) /\ IsInjective(actor[a].todo)
  BY DEF HoldInv, SubTypes, ActorKind, ShapeOf
<1> QED BY <1>1, RestOfList DEF Item, Ahead

LEMMA Bystander ==
  ASSUME HoldInv, SubTypes', NEW b \in Actor, actor'[b] = actor[b], BillsStay, RowsGoOn, Untouched(b)
  PROVE  ShapeOf(b)' /\ ClaimOf(b)'
<1>1. ShapeOf(b) /\ ClaimOf(b) /\ SubTypes
  BY DEF HoldInv
<1>2. Ahead(b)' = Ahead(b) /\ Item(b)' = Item(b) /\ Ahead(b) \in SUBSET Service
  <2>1. actor[b].todo \in Seq(Service)
    BY <1>1 DEF SubTypes, ActorKind
  <2> QED BY <2>1 DEF Ahead, Item, Range
<1>3. b \in Hand => HandShape(b)'
  BY <1>1, <1>2 DEF ShapeOf, HandShape, On, BillsStay
<1>4. b \in Run => RunShape(b)'
  <2> SUFFICES ASSUME b \in Run PROVE RunShape(b)'
    OBVIOUS
  <2>1. actor[b].now <= day'
    <3>1. actor[b].now \in Nat /\ day \in Nat /\ day' \in Nat /\ actor[b].now <= day /\ day <= day'
      BY <1>1 DEF SubTypes, ActorKind, RowsGoOn, ShapeOf, RunShape
    <3> QED BY <3>1
  <2> QED BY <1>1, <1>2, <2>1 DEF ShapeOf, RunShape, On, RowsGoOn
<1>5. On(b, "write") => actor[b].saw \in Seen /\ actor[b].saw.site <= Len(made') /\ actor[b].saw.pending <= Len(bill')
  <2> SUFFICES ASSUME On(b, "write") PROVE actor[b].saw \in Seen /\ actor[b].saw.site <= Len(made') /\ actor[b].saw.pending <= Len(bill')
    OBVIOUS
  <2>1. actor[b].saw \in Seen /\ actor[b].saw.site <= Len(made) /\ actor[b].saw.pending <= Len(bill)
    BY <1>1 DEF ShapeOf
  <2>2. actor[b].saw.site \in Nat /\ actor[b].saw.pending \in Nat
    BY <2>1 DEF Seen
  <2>3. Len(made) \in Nat /\ Len(bill) \in Nat /\ Len(made') \in Nat /\ Len(bill') \in Nat
    BY <1>1 DEF SubTypes
  <2>4. Len(made) <= Len(made') /\ Len(bill) <= Len(bill')
    BY DEF RowsGoOn, BillsStay
  <2> QED BY <2>1, <2>2, <2>3, <2>4
<1>6. ShapeOf(b)'
  BY <1>1, <1>3, <1>4, <1>5 DEF ShapeOf, On
<1>7. ClaimOf(b)'
  <2> SUFFICES ASSUME NEW s \in Service \ stale'
               PROVE  /\ (b \in Hand /\ Calls(b, s) /\ actor[b].job = "fulfil")' =>
                           /\ (actor[b].act = "create")' => svc'[s].status = "pending"
                           /\ (actor[b].act = "unsuspend")' => svc'[s].status = "suspended" /\ svc'[s].reason = OVERDUE
                      /\ (b \in Run /\ actor[b].pc \in {"call", "write"} /\ s \in Ahead(b) /\ actor[b].act = "suspend")' =>
                           svc'[s].status = "active"
    BY DEF ClaimOf
  <2>1. s \in Service \ stale
    BY DEF RowsGoOn
  <2>2. Calls(b, s)' <=> Calls(b, s)
    BY <1>2 DEF Calls
  <2>3. Calls(b, s) => s \in Ahead(b)
    <3>1. Calls(b, s) => actor[b].todo # <<>>
      BY <1>1 DEF Calls, ShapeOf, HandShape, RunShape, On, Actor
    <3> QED BY <3>1, ItemIsAhead DEF Calls
  <2> QED BY <1>1, <1>2, <2>1, <2>2, <2>3 DEF ClaimOf, Untouched, Calls
<1> QED BY <1>6, <1>7

LEMMA TouchedIs ==
  ASSUME HoldInv, NEW a, NEW s \in Service, stale' = Touched(a, s)
  PROVE  /\ stale \subseteq stale' /\ stale' \in SUBSET Service
         /\ \A b \in Actor : b # a /\ s \in Ahead(b) /\ actor[b].pc \in {"issue", "call", "write"} => s \in stale'
         /\ \A x \in stale' : x # s => x \in stale
BY DEF Touched, Ahead, HoldInv, SubTypes

LEMMA BillsAsTheyAre ==
  ASSUME HoldInv, bill' = bill
  PROVE  /\ BillsStay
         /\ \A i \in DOMAIN bill' : bill'[i].status = "unpaid" => DOMAIN bill'[i].for # {}
BY DEF BillsStay, HoldInv, SubTypes

LEMMA HoldGoesOn ==
  ASSUME HoldInv, SubTypes', NEW a \in Actor, Moves(a), BillsStay, RowsGoOn,
         \A b \in Actor : b # a => Untouched(b),
         ShapeOf(a)', ClaimOf(a)',
         \A i \in DOMAIN bill' : bill'[i].status = "unpaid" => DOMAIN bill'[i].for # {}
  PROVE  HoldInv'
<1>1. ASSUME NEW b \in Actor PROVE ShapeOf(b)' /\ ClaimOf(b)'
  <2>1. CASE b = a
    BY <2>1
  <2>2. CASE b # a
    <3>1. actor'[b] = actor[b]
      BY <2>2 DEF Moves
    <3> QED BY <2>2, <3>1, Bystander
  <2> QED BY <2>1, <2>2
<1> QED BY <1>1 DEF HoldInv

\* Nobody moves.
LEMMA HoldStays ==
  ASSUME HoldInv, SubTypes', actor' = actor, BillsStay, RowsGoOn, \A b \in Actor : Untouched(b),
         \A i \in DOMAIN bill' : bill'[i].status = "unpaid" => DOMAIN bill'[i].for # {}
  PROVE  HoldInv'
<1>1. ASSUME NEW b \in Actor PROVE ShapeOf(b)' /\ ClaimOf(b)'
  BY Bystander
<1> QED BY <1>1 DEF HoldInv

\* A list of one: the first is all there is.
LEMMA OneAhead ==
  ASSUME NEW s \in Service, NEW v, v.todo = <<s>>
  PROVE  /\ v.todo # <<>> /\ Len(v.todo) = 1 /\ IsInjective(v.todo) /\ Range(v.todo) = {s} /\ Head(v.todo) = s
BY OneOnList

-----------------------------------------------------------------------------
LEMMA OrderHolds ==
  ASSUME HoldInv, NEW ss \in SUBSET Service, ss # {}, Order(ss)
  PROVE  HoldInv'
<1>1. SubTypes
  BY DEF HoldInv
<1>2. PICK f : f = [s \in ss |-> 0]
  OBVIOUS
<1>3. f \in Fors /\ DOMAIN f = ss
  <2>1. f \in [ss -> Nat]
    BY <1>2
  <2> QED BY <2>1, MakesFors
<1>4. bill' = Append(bill, Invoice("new", f)) /\ actor' = actor /\ UNCHANGED <<made, day, misfires, stale>>
      /\ \A s \in ss : svc[s].status = "none"
  BY <1>2 DEF Order
<1>5. /\ bill' \in Seq(BillKind) /\ Len(bill') = Len(bill) + 1 /\ Len(bill) \in Nat
      /\ DOMAIN bill = 1 .. Len(bill) /\ DOMAIN bill' = 1 .. Len(bill) + 1
      /\ \A i \in DOMAIN bill : bill'[i] = bill[i]
      /\ bill'[Len(bill) + 1].status = "unpaid" /\ bill'[Len(bill) + 1].for = f
  BY <1>1, <1>3, <1>4, BillAdded
<1>6. BillsStay /\ \A i \in DOMAIN bill' : bill'[i].status = "unpaid" => DOMAIN bill'[i].for # {}
  <2>1. \A i \in DOMAIN bill' : i \notin DOMAIN bill => i = Len(bill) + 1
    BY <1>5
  <2>2. \A i \in DOMAIN bill : i \in DOMAIN bill'
    BY <1>5
  <2>3. Len(bill) <= Len(bill')
    BY <1>5
  <2>4. \A i \in DOMAIN bill : bill[i].status = "unpaid" => DOMAIN bill[i].for # {}
    BY DEF HoldInv
  <2> QED BY <1>3, <1>5, <2>1, <2>2, <2>3, <2>4 DEF BillsStay
<1>7. /\ svc' \in [Service -> SvcKind]
      /\ \A s \in Service :
           /\ svc'[s].status = IF s \in ss THEN "pending" ELSE svc[s].status
           /\ svc'[s].reason = svc[s].reason /\ svc'[s].pending = svc[s].pending /\ svc'[s].site = svc[s].site
  BY <1>1, OrderIs
<1>8. SubTypes'
  <2>1. \A s \in Service : svc'[s].pending <= Len(bill') /\ svc'[s].site <= Len(made')
    <3> SUFFICES ASSUME NEW s \in Service PROVE svc'[s].pending <= Len(bill') /\ svc'[s].site <= Len(made')
      OBVIOUS
    <3>1. svc[s] \in SvcKind /\ svc[s].pending <= Len(bill) /\ svc[s].site <= Len(made)
      BY <1>1 DEF SubTypes
    <3>2. svc[s].pending \in Nat
      BY <3>1 DEF SvcKind
    <3> QED BY <1>4, <1>5, <1>7, <3>1, <3>2
  <2> QED BY <1>1, <1>4, <1>5, <1>7, <2>1 DEF SubTypes
<1>9. RowsGoOn
  <2>1. Len(made) \in Nat /\ day \in Nat
    BY <1>1 DEF SubTypes
  <2> QED BY <1>4, <1>7, <2>1 DEF RowsGoOn
<1>10. \A b \in Actor : Untouched(b)
  <2> SUFFICES ASSUME NEW b \in Actor, NEW s \in Service \ stale', s \in Ahead(b), actor[b].pc \in {"call", "write"}, svc[s].status # "none"
               PROVE  svc'[s].status = svc[s].status /\ svc'[s].reason = svc[s].reason
    BY DEF Untouched
  <2> QED BY <1>4, <1>7
<1> QED BY <1>4, <1>6, <1>8, <1>9, <1>10, HoldStays

LEMMA TypesGoOn ==
  ASSUME HoldInv, svc' \in [Service -> SvcKind], bill' \in Seq(BillKind), made' \in Seq(MadeKind),
         actor' \in [Actor -> ActorKind], day' \in Nat, day' # 0, misfires' \in Nat, stale' \in SUBSET Service,
         Len(bill) <= Len(bill'), Len(made) <= Len(made'),
         \A s \in Service : svc'[s].pending = svc[s].pending \/ svc'[s].pending <= Len(bill'),
         \A s \in Service : svc'[s].site = svc[s].site \/ svc'[s].site <= Len(made')
  PROVE  SubTypes'
<1>1. \A s \in Service : svc'[s].pending <= Len(bill') /\ svc'[s].site <= Len(made')
  <2> SUFFICES ASSUME NEW s \in Service PROVE svc'[s].pending <= Len(bill') /\ svc'[s].site <= Len(made')
    OBVIOUS
  <2>1. svc[s] \in SvcKind /\ svc[s].pending <= Len(bill) /\ svc[s].site <= Len(made) /\ bill \in Seq(BillKind) /\ made \in Seq(MadeKind)
    BY DEF HoldInv, SubTypes
  <2>2. svc[s].pending \in Nat /\ svc[s].site \in Nat
    BY <2>1 DEF SvcKind
  <2>3. Len(bill) \in Nat /\ Len(made) \in Nat /\ Len(bill') \in Nat /\ Len(made') \in Nat
    BY <2>1
  <2> QED BY <2>1, <2>2, <2>3
<1> QED BY <1>1 DEF SubTypes

\* Only what a is at changes.
LEMMA TypesOfTurn ==
  ASSUME HoldInv, NEW a \in Actor, Moves(a), UNCHANGED <<svc, made, day, misfires, stale>>,
         bill' \in Seq(BillKind), Len(bill') = Len(bill)
  PROVE  SubTypes' /\ RowsGoOn /\ \A b \in Actor : Untouched(b)
<1>1. Len(bill) \in Nat /\ Len(made) \in Nat /\ day \in Nat
  BY DEF HoldInv, SubTypes
<1>2. SubTypes'
  BY <1>1, TypesGoOn DEF HoldInv, SubTypes, Moves
<1>3. RowsGoOn
  BY <1>1 DEF RowsGoOn
<1> QED BY <1>2, <1>3 DEF Untouched

LEMMA RestShape ==
  ASSUME SubTypes', NEW a \in Actor, actor'[a] = Rest
  PROVE  ShapeOf(a)' /\ ClaimOf(a)'
<1>1. actor'[a].pc = "idle" /\ actor'[a].todo = <<>> /\ actor'[a].now = 0 /\ Ahead(a)' = {} /\ IsInjective(actor'[a].todo)
  BY RestIs, NoneOnList DEF Ahead
<1>2. HandShape(a)'
  BY <1>1 DEF HandShape, On
<1>3. RunShape(a)'
  <2>1. 0 <= day'
    BY DEF SubTypes
  <2> QED BY <1>1, <2>1 DEF RunShape, On
<1> QED BY <1>1, <1>2, <1>3 DEF ShapeOf, ClaimOf, Calls, On

LEMMA HandsAreNoRuns == \A h \in Hand : h \in Actor /\ h \notin Run
BY SubscriptionsBounds DEF Actor

-----------------------------------------------------------------------------
LEMMA PayHolds ==
  ASSUME HoldInv, NEW h \in Hand, NEW i \in DOMAIN bill, Pay(h, i)
  PROVE  HoldInv'
<1>1. SubTypes /\ h \in Actor /\ h \notin Run
  BY HandsAreNoRuns DEF HoldInv
<1>2. /\ Moves(h)
      /\ actor'[h].pc = "line" /\ actor'[h].job = "fulfil" /\ actor'[h].inv = i
      /\ IsInjective(actor'[h].todo) /\ Range(actor'[h].todo) = DOMAIN bill[i].for
      /\ actor'[h].todo = <<>> <=> DOMAIN bill[i].for = {}
  BY <1>1, PayIs
<1>3. bill' = [bill EXCEPT ![i].status = "paid"] /\ UNCHANGED <<svc, made, day, misfires, stale>> /\ bill[i].status = "unpaid"
  BY DEF Pay
<1>4. PICK st \in {"unpaid", "paid", "cancelled"}, f \in BOOLEAN : st = "paid" /\ f = bill[i].settled
  <2>1. bill[i] \in BillKind
    BY <1>1 DEF SubTypes
  <2>2. bill[i].settled \in BOOLEAN
    BY <2>1 DEF BillKind
  <2>3. PICK f \in BOOLEAN : f = bill[i].settled
    BY <2>2
  <2>4. PICK st \in {"unpaid", "paid", "cancelled"} : st = "paid"
    OBVIOUS
  <2> QED BY <2>3, <2>4
<1>5. /\ bill' \in Seq(BillKind) /\ DOMAIN bill' = DOMAIN bill /\ Len(bill') = Len(bill)
      /\ \A k \in DOMAIN bill : /\ bill'[k].kind = bill[k].kind /\ bill'[k].for = bill[k].for
                                /\ k # i => bill'[k] = bill[k]
      /\ bill'[i].status = st
  BY <1>1, <1>3, <1>4, BillSettled
<1>6. BillsStay /\ \A k \in DOMAIN bill' : bill'[k].status = "unpaid" => DOMAIN bill'[k].for # {}
  <2>1. Len(bill) <= Len(bill')
    BY <1>1, <1>5 DEF SubTypes
  <2>2. \A k \in DOMAIN bill : bill[k].status = "unpaid" => DOMAIN bill[k].for # {}
    BY DEF HoldInv
  <2> QED BY <1>3, <1>4, <1>5, <2>1, <2>2 DEF BillsStay
<1>7. SubTypes' /\ RowsGoOn /\ \A b \in Actor : Untouched(b)
  BY <1>1, <1>2, <1>3, <1>5, TypesOfTurn
<1>8. ShapeOf(h)' /\ ClaimOf(h)'
  <2>1. DOMAIN bill[i].for # {}
    BY <1>3 DEF HoldInv
  <2>2. HandShape(h)'
    BY <1>2, <1>4, <1>5, <2>1 DEF HandShape, On, Ahead
  <2> QED BY <1>1, <1>2, <2>2 DEF ShapeOf, ClaimOf, Calls, On
<1> QED BY <1>1, <1>2, <1>6, <1>7, <1>8, HoldGoesOn

LEMMA VoidHolds ==
  ASSUME HoldInv, NEW i \in DOMAIN bill, Void(i)
  PROVE  HoldInv'
<1>1. SubTypes
  BY DEF HoldInv
<1>2. bill' = [bill EXCEPT ![i].status = "cancelled"] /\ UNCHANGED <<svc, made, actor, day, misfires, stale>> /\ bill[i].status = "unpaid"
  BY DEF Void
<1>3. PICK st \in {"unpaid", "paid", "cancelled"}, f \in BOOLEAN : st = "cancelled" /\ f = bill[i].settled
  <2>1. bill[i] \in BillKind
    BY <1>1 DEF SubTypes
  <2>2. bill[i].settled \in BOOLEAN
    BY <2>1 DEF BillKind
  <2>3. PICK f \in BOOLEAN : f = bill[i].settled
    BY <2>2
  <2>4. PICK st \in {"unpaid", "paid", "cancelled"} : st = "cancelled"
    OBVIOUS
  <2> QED BY <2>3, <2>4
<1>4. /\ bill' \in Seq(BillKind) /\ DOMAIN bill' = DOMAIN bill /\ Len(bill') = Len(bill)
      /\ \A k \in DOMAIN bill : /\ bill'[k].kind = bill[k].kind /\ bill'[k].for = bill[k].for
                                /\ k # i => bill'[k] = bill[k]
      /\ bill'[i].status = st
  BY <1>1, <1>2, <1>3, BillSettled
<1>5. BillsStay /\ \A k \in DOMAIN bill' : bill'[k].status = "unpaid" => DOMAIN bill'[k].for # {}
  <2>1. Len(bill) <= Len(bill')
    BY <1>1, <1>4 DEF SubTypes
  <2>2. \A k \in DOMAIN bill : bill[k].status = "unpaid" => DOMAIN bill[k].for # {}
    BY DEF HoldInv
  <2> QED BY <1>2, <1>3, <1>4, <2>1, <2>2 DEF BillsStay
<1>6. SubTypes' /\ RowsGoOn /\ \A b \in Actor : Untouched(b)
  <2>1. Len(bill) \in Nat /\ Len(made) \in Nat /\ day \in Nat
    BY <1>1 DEF SubTypes
  <2>2. SubTypes'
    BY <1>1, <1>2, <1>4, <2>1, TypesGoOn DEF SubTypes
  <2> QED BY <1>2, <2>1, <2>2 DEF RowsGoOn, Untouched
<1> QED BY <1>2, <1>5, <1>6, HoldStays

LEMMA CommandHolds ==
  ASSUME HoldInv, NEW h \in Hand, NEW s \in Service, NEW act \in Calling, Command(h, act, s)
  PROVE  HoldInv'
<1>1. SubTypes /\ h \in Actor /\ h \notin Run
  BY HandsAreNoRuns DEF HoldInv
<1>2. /\ Moves(h)
      /\ actor'[h].pc = "call" /\ actor'[h].job = "staff" /\ actor'[h].todo = <<s>> /\ actor'[h].act = act
  BY <1>1, CommandIs
<1>3. UNCHANGED <<svc, bill, made, day, misfires, stale>>
  BY DEF Command
<1>4. BillsStay /\ \A k \in DOMAIN bill' : bill'[k].status = "unpaid" => DOMAIN bill'[k].for # {}
  BY <1>3, BillsAsTheyAre
<1>5. SubTypes' /\ RowsGoOn /\ \A b \in Actor : Untouched(b)
  BY <1>1, <1>2, <1>3, TypesOfTurn DEF SubTypes
<1>6. ShapeOf(h)' /\ ClaimOf(h)'
  <2>1. actor'[h].todo # <<>> /\ Len(actor'[h].todo) = 1 /\ IsInjective(actor'[h].todo)
    BY <1>2, OneAhead
  <2>2. HandShape(h)'
    BY <1>2, <2>1 DEF HandShape, On
  <2> QED BY <1>1, <1>2, <2>1, <2>2 DEF ShapeOf, ClaimOf, Calls, On
<1> QED BY <1>1, <1>2, <1>4, <1>5, <1>6, HoldGoesOn

\* Requests of more than one statement begin.
LEMMA BeginHolds ==
  ASSUME HoldInv, NEW h \in Hand, NEW s \in Service, Leave(h, s) \/ Undo(h, s) \/ Switch(h, s)
  PROVE  HoldInv'
<1>1. SubTypes /\ h \in Actor /\ h \notin Run
  BY HandsAreNoRuns DEF HoldInv
<1>2. PICK jb \in {"leave", "undo", "switch"} : Begins(h, jb, jb, s, 0)
  BY DEF Leave, Undo, Switch
<1>3. /\ Moves(h)
      /\ actor'[h].pc = jb /\ actor'[h].todo = <<s>>
  BY <1>1, <1>2, BeginsIs
<1>4. UNCHANGED <<bill, made, day, misfires>>
  BY DEF Leave, Undo, Switch
<1>5. BillsStay /\ \A k \in DOMAIN bill' : bill'[k].status = "unpaid" => DOMAIN bill'[k].for # {}
  BY <1>4, BillsAsTheyAre
<1>6. /\ svc' \in [Service -> SvcKind] /\ stale \subseteq stale' /\ stale' \in SUBSET Service
      /\ \A x \in Service : /\ svc'[x].status = svc[x].status /\ svc'[x].reason = svc[x].reason
                            /\ svc'[x].pending = svc[x].pending /\ svc'[x].site = svc[x].site
  <2>1. CASE Switch(h, s)
    BY <1>1, <2>1 DEF Switch, SubTypes
  <2>2. CASE Leave(h, s) \/ Undo(h, s)
    <3>1. PICK f \in BOOLEAN : svc' = [svc EXCEPT ![s].leaving = f] /\ stale' = Touched(h, s)
      BY <2>2 DEF Leave, Undo
    <3>2. /\ RowMoves(s) /\ svc'[s].status = svc[s].status /\ svc'[s].reason = svc[s].reason
          /\ svc'[s].pending = svc[s].pending /\ svc'[s].site = svc[s].site
      BY <1>1, <3>1, FlagIs
    <3>3. stale \subseteq stale' /\ stale' \in SUBSET Service
      BY <3>1, TouchedIs
    <3> QED BY <3>2, <3>3 DEF RowMoves
  <2> QED BY <2>1, <2>2
<1>7. SubTypes' /\ RowsGoOn /\ \A b \in Actor : Untouched(b)
  <2>1. Len(bill) \in Nat /\ Len(made) \in Nat /\ day \in Nat
    BY <1>1 DEF SubTypes
  <2>2. SubTypes'
    BY <1>1, <1>3, <1>4, <1>6, <2>1, TypesGoOn DEF SubTypes, Moves
  <2> QED BY <1>4, <1>6, <2>1, <2>2 DEF RowsGoOn, Untouched
<1>8. ShapeOf(h)' /\ ClaimOf(h)'
  <2>1. actor'[h].todo # <<>> /\ Len(actor'[h].todo) = 1 /\ IsInjective(actor'[h].todo)
    BY <1>3, OneAhead
  <2>2. HandShape(h)'
    BY <1>3, <2>1 DEF HandShape, On
  <2> QED BY <1>1, <1>3, <2>1, <2>2 DEF ShapeOf, ClaimOf, Calls, On
<1> QED BY <1>1, <1>3, <1>5, <1>7, <1>8, HoldGoesOn

LEMMA StartRunHolds ==
  ASSUME HoldInv, NEW r \in Run, StartRun(r)
  PROVE  HoldInv'
<1>1. SubTypes /\ r \in Actor /\ r \notin Hand
  BY HandsAreNoRuns DEF HoldInv, Actor
<1>2. /\ Moves(r)
      /\ actor'[r].pc = "list" /\ actor'[r].job = "invoice" /\ actor'[r].todo = <<>> /\ actor'[r].now = day
  BY <1>1, StartRunIs
<1>3. UNCHANGED <<svc, bill, made, day, misfires, stale>>
  BY DEF StartRun
<1>4. BillsStay /\ \A k \in DOMAIN bill' : bill'[k].status = "unpaid" => DOMAIN bill'[k].for # {}
  BY <1>3, BillsAsTheyAre
<1>5. SubTypes' /\ RowsGoOn /\ \A b \in Actor : Untouched(b)
  BY <1>1, <1>2, <1>3, TypesOfTurn DEF SubTypes
<1>6. ShapeOf(r)' /\ ClaimOf(r)'
  <2>1. day \in Nat
    BY <1>1 DEF SubTypes
  <2>2. "invoice" \in DOMAIN ActOf
    BY DEF ActOf
  <2>3. Ahead(r)' = {} /\ IsInjective(actor'[r].todo)
    BY <1>2, NoneOnList DEF Ahead
  <2>4. RunShape(r)'
    BY <1>2, <1>3, <2>1, <2>2, <2>3 DEF RunShape, On
  <2> QED BY <1>1, <1>2, <2>3, <2>4 DEF ShapeOf, ClaimOf, Calls, On
<1> QED BY <1>1, <1>2, <1>4, <1>5, <1>6, HoldGoesOn

LEMMA NextDayHolds ==
  ASSUME HoldInv, NextDay
  PROVE  HoldInv'
<1>1. SubTypes
  BY DEF HoldInv
<1>2. UNCHANGED <<svc, bill, made, actor, misfires, stale>> /\ day' = day + 1
  BY DEF NextDay
<1>3. Len(bill) \in Nat /\ Len(made) \in Nat /\ day \in Nat
  BY <1>1 DEF SubTypes
<1>4. day' \in Nat /\ day' # 0 /\ day <= day'
  BY <1>2, <1>3
<1>5. SubTypes'
  BY <1>1, <1>2, <1>3, <1>4, TypesGoOn DEF SubTypes
<1>6. RowsGoOn /\ \A b \in Actor : Untouched(b)
  BY <1>2, <1>3, <1>4 DEF RowsGoOn, Untouched
<1> QED BY <1>2, <1>5, <1>6, BillsAsTheyAre, HoldStays

LEMMA HandAt ==
  ASSUME HoldInv, NEW a \in Actor, actor[a].pc \in {"line", "leave", "undo", "switch"}
  PROVE  /\ a \in Hand /\ a \notin Run /\ HandShape(a) /\ actor[a].todo # <<>>
         /\ Item(a) \in Service /\ Item(a) \in Ahead(a) /\ Ahead(a) \in SUBSET Service
<1>1. ShapeOf(a)
  BY DEF HoldInv
<1>2. a \notin Run
  BY <1>1 DEF ShapeOf, RunShape
<1>3. a \in Hand
  BY <1>2 DEF Actor
<1>4. HandShape(a)
  BY <1>1, <1>3 DEF ShapeOf
<1>5. actor[a].todo # <<>>
  BY <1>4 DEF HandShape, On
<1> QED BY <1>2, <1>3, <1>4, <1>5, ItemIsAhead

LEMMA RunAt ==
  ASSUME HoldInv, NEW a \in Actor, actor[a].pc \in {"list", "issue"}
  PROVE  a \in Run /\ a \notin Hand /\ RunShape(a)
<1>1. ShapeOf(a)
  BY DEF HoldInv
<1>2. a \notin Hand
  BY <1>1 DEF ShapeOf, HandShape
<1>3. a \in Run
  BY <1>2 DEF Actor
<1> QED BY <1>1, <1>2, <1>3 DEF ShapeOf

LEMMA Caller1 ==
  ASSUME HoldInv, NEW a \in Actor, actor[a].pc \in {"call", "write"}
  PROVE  /\ actor[a].todo # <<>> /\ actor[a].act \in Calling
         /\ a \in Hand => /\ a \notin Run /\ HandShape(a)
                          /\ actor[a].job \in {"staff", "fulfil"}
         /\ a \notin Hand => /\ a \in Run /\ RunShape(a)
                             /\ actor[a].act \in {"suspend", "terminate"}
         /\ Item(a) \in Service /\ Item(a) \in Ahead(a) /\ Ahead(a) \in SUBSET Service
<1>1. ShapeOf(a)
  BY DEF HoldInv
<1>2. a \in Hand => a \notin Run /\ HandShape(a)
  BY <1>1, HandsAreNoRuns DEF ShapeOf
<1>3. a \notin Hand => a \in Run /\ RunShape(a)
  BY <1>1 DEF ShapeOf, Actor
<1>4. actor[a].todo # <<>>
  BY <1>2, <1>3 DEF HandShape, RunShape, On
<1>5. a \in Hand => actor[a].act \in Calling /\ actor[a].job \in {"staff", "fulfil"}
  BY <1>2 DEF HandShape, Calling
<1>6. a \notin Hand => actor[a].act \in {"suspend", "terminate"}
  BY <1>3 DEF RunShape, ActOf
<1> QED BY <1>2, <1>3, <1>4, <1>5, <1>6, ItemIsAhead DEF Calling

\* Whoever goes on to the next of its list finds it as it should be.
LEMMA FollowHolds ==
  ASSUME HoldInv, SubTypes', NEW a \in Actor, actor[a].pc \in {"line", "call", "write"}, Follow(a, actor'[a]),
         BillsStay, RowsGoOn, \A s \in Service : s # Item(a) => svc'[s].status = svc[s].status
  PROVE  ShapeOf(a)' /\ ClaimOf(a)'
<1>1. PICK w : w = actor'[a]
  OBVIOUS
<1>2. /\ IsInjective(w.todo) /\ Range(w.todo) = Ahead(a) \ {Item(a)} /\ Ahead(a)' = Ahead(a) \ {Item(a)}
  BY <1>1 DEF Follow, Ahead
<1>3. CASE w = Rest
  BY <1>1, <1>3, RestShape
<1>4. CASE w # Rest /\ w.todo = <<>>
  <2>1. actor[a].job \in {"invoice", "suspend", "terminate"} /\ w.pc = "list" /\ w.now = actor[a].now
        /\ w.job \in {"suspend", "terminate", "leave"}
    BY <1>1, <1>4 DEF Follow
  <2>2. a \in Run /\ a \notin Hand /\ RunShape(a)
    <3>1. ShapeOf(a)
      BY DEF HoldInv
    <3>2. a \notin Hand
      BY <2>1, <3>1 DEF ShapeOf, HandShape
    <3>3. a \in Run
      BY <3>2 DEF Actor
    <3> QED BY <3>1, <3>2, <3>3 DEF ShapeOf
  <2>3. w.now <= day'
    <3>1. actor[a].now \in Nat /\ day \in Nat /\ day' \in Nat /\ day <= day' /\ actor[a].now <= day
      BY <2>2 DEF HoldInv, SubTypes, ActorKind, RowsGoOn, RunShape
    <3> QED BY <2>1, <3>1
  <2>4. Ahead(a)' = {}
    BY <1>1, <1>4, NoneOnList DEF Ahead
  <2>5. RunShape(a)'
    <3>1. w.job \in DOMAIN ActOf
      BY <2>1 DEF ActOf
    <3> QED BY <1>1, <1>4, <2>1, <2>3, <2>4, <3>1 DEF RunShape, On
  <2> QED BY <1>1, <1>2, <2>1, <2>2, <2>4, <2>5 DEF ShapeOf, ClaimOf, Calls, On
<1>5. CASE w.todo # <<>>
  <2>1. /\ Head(w.todo) \in Ahead(a) \ {Item(a)} /\ Len(actor[a].todo) # 1
        /\ w.pc = IF a \in Hand THEN "line" ELSE "call"
        /\ w.job = actor[a].job /\ w.inv = actor[a].inv /\ w.act = actor[a].act /\ w.now = actor[a].now
    BY <1>1, <1>5 DEF Follow
  <2>2. CASE a \in Hand
    <3>1. HandShape(a) /\ a \notin Run
      BY <2>2, HandsAreNoRuns DEF HoldInv, ShapeOf
    <3>2. actor[a].job = "fulfil"
          /\ actor[a].inv \in DOMAIN bill /\ bill[actor[a].inv].status = "paid"
          /\ Ahead(a) \subseteq DOMAIN bill[actor[a].inv].for
      BY <2>1, <3>1 DEF HandShape
    <3>3. HandShape(a)'
      BY <1>1, <1>2, <1>5, <2>1, <2>2, <3>2 DEF HandShape, On, BillsStay
    <3> QED BY <1>1, <1>2, <2>1, <2>2, <3>1, <3>3 DEF ShapeOf, ClaimOf, Calls, On
  <2>3. CASE a \notin Hand
    <3>1. a \in Run /\ RunShape(a) /\ ClaimOf(a)
      BY <2>3 DEF HoldInv, ShapeOf, Actor
    <3>2. w.now <= day'
      <4>1. actor[a].now \in Nat /\ day \in Nat /\ day' \in Nat /\ day <= day' /\ actor[a].now <= day
        BY <3>1 DEF HoldInv, SubTypes, ActorKind, RowsGoOn, RunShape
      <4> QED BY <2>1, <4>1
    <3>3. actor[a].pc \in {"call", "write"}
      BY <3>1 DEF RunShape
    <3>4. \A s \in Ahead(a)' : s \in Service /\ s \in Ahead(a) /\ svc'[s].status \notin {"none", "pending"}
      <4>1. Ahead(a) \in SUBSET Service
        BY <3>3, Caller1
      <4> QED BY <1>2, <3>1, <4>1 DEF RunShape, RowsGoOn
    <3>5. RunShape(a)'
      BY <1>1, <1>5, <2>1, <2>3, <3>1, <3>2, <3>3, <3>4 DEF RunShape, On
    <3>6. ClaimOf(a)'
      <4> SUFFICES ASSUME NEW s \in Service \ stale', s \in Ahead(a)', actor'[a].act = "suspend" PROVE svc'[s].status = "active"
        BY <2>3 DEF ClaimOf
      <4>1. s \in Service \ stale /\ s \in Ahead(a) /\ s # Item(a) /\ actor[a].act = "suspend"
        BY <1>1, <1>2, <2>1 DEF RowsGoOn
      <4> QED BY <3>1, <3>3, <4>1 DEF ClaimOf
    <3> QED BY <1>1, <1>2, <2>1, <2>3, <3>1, <3>5, <3>6 DEF ShapeOf, On
  <2> QED BY <2>2, <2>3
<1> QED BY <1>3, <1>4, <1>5

-----------------------------------------------------------------------------
LEMMA LeaveLinesHolds ==
  ASSUME HoldInv, NEW h \in Actor, LeaveLines(h)
  PROVE  HoldInv'
<1>1. SubTypes /\ h \in Hand /\ h \notin Run /\ Item(h) \in Service
  <2>1. actor[h].pc = "leave"
    BY DEF LeaveLines, On
  <2> QED BY <2>1, HandAt DEF HoldInv
<1>2. actor' = [actor EXCEPT ![h] = Rest] /\ UNCHANGED <<svc, made, day, misfires, stale>>
  BY DEF LeaveLines
<1>3. Moves(h) /\ actor'[h] = Rest
  BY <1>1, <1>2, RestsIs
<1>4. PICK s \in Service : s = Item(h)
  BY <1>1
<1>5. /\ bill' \in Seq(BillKind) /\ DOMAIN bill' = DOMAIN bill /\ Len(bill') = Len(bill)
      /\ \A i \in DOMAIN bill :
           \/ bill'[i] = bill[i]
           \/ bill[i].status = "unpaid" /\ bill'[i].kind = bill[i].kind /\ (bill'[i].status = "unpaid" => DOMAIN bill'[i].for # {})
  BY <1>1, <1>4, LinesLeft
<1>6. BillsStay /\ \A k \in DOMAIN bill' : bill'[k].status = "unpaid" => DOMAIN bill'[k].for # {}
  <2>1. Len(bill) <= Len(bill')
    BY <1>1, <1>5 DEF SubTypes
  <2>2. \A k \in DOMAIN bill : bill[k].status = "unpaid" => DOMAIN bill[k].for # {}
    BY DEF HoldInv
  <2> QED BY <1>5, <2>1, <2>2 DEF BillsStay
<1>7. SubTypes' /\ RowsGoOn /\ \A b \in Actor : Untouched(b)
  BY <1>1, <1>2, <1>3, <1>5, TypesOfTurn
<1>8. ShapeOf(h)' /\ ClaimOf(h)'
  BY <1>3, <1>7, RestShape
<1> QED BY <1>3, <1>6, <1>7, <1>8, HoldGoesOn

LEMMA UndoBilledHolds ==
  ASSUME HoldInv, NEW h \in Actor, UndoBilled(h)
  PROVE  HoldInv'
<1>1. SubTypes /\ h \in Hand /\ Item(h) \in Service
  <2>1. actor[h].pc = "undo"
    BY DEF UndoBilled, On
  <2> QED BY <2>1, HandAt DEF HoldInv
<1>2. actor' = [actor EXCEPT ![h] = Rest] /\ UNCHANGED <<bill, made, day, misfires, stale>>
  BY DEF UndoBilled
<1>3. Moves(h) /\ actor'[h] = Rest
  BY <1>1, <1>2, RestsIs
<1>4. PICK s \in Service : s = Item(h)
  BY <1>1
<1>5. /\ RowMoves(s) /\ svc'[s].status = svc[s].status /\ svc'[s].reason = svc[s].reason
      /\ svc'[s].pending = svc[s].pending /\ svc'[s].site = svc[s].site
  BY <1>1, <1>4, UndoBilledIs
<1>6. SubTypes' /\ RowsGoOn /\ \A b \in Actor : Untouched(b)
  <2>1. Len(bill) \in Nat /\ Len(made) \in Nat /\ day \in Nat
    BY <1>1 DEF SubTypes
  <2>2. /\ svc' \in [Service -> SvcKind]
        /\ \A x \in Service : /\ svc'[x].status = svc[x].status /\ svc'[x].reason = svc[x].reason
                              /\ svc'[x].pending = svc[x].pending /\ svc'[x].site = svc[x].site
    BY <1>5 DEF RowMoves
  <2>3. SubTypes'
    BY <1>1, <1>2, <1>3, <2>1, <2>2, TypesGoOn DEF SubTypes, Moves
  <2> QED BY <1>2, <2>1, <2>2, <2>3 DEF RowsGoOn, Untouched
<1>7. ShapeOf(h)' /\ ClaimOf(h)'
  BY <1>3, <1>6, RestShape
<1> QED BY <1>2, <1>3, <1>6, <1>7, BillsAsTheyAre, HoldGoesOn

LEMMA SwitchPlanHolds ==
  ASSUME HoldInv, NEW h \in Actor, SwitchPlan(h)
  PROVE  HoldInv'
<1>1. SubTypes /\ h \in Hand /\ Item(h) \in Service
  <2>1. actor[h].pc = "switch"
    BY DEF SwitchPlan, On
  <2> QED BY <2>1, HandAt DEF HoldInv
<1>2. actor' = [actor EXCEPT ![h] = Rest] /\ UNCHANGED <<made, day, misfires, stale>>
  BY DEF SwitchPlan
<1>3. Moves(h) /\ actor'[h] = Rest
  BY <1>1, <1>2, RestsIs
<1>4. PICK s \in Service : s = Item(h)
  BY <1>1
<1>5. /\ RowMoves(s) /\ svc'[s].status = svc[s].status /\ svc'[s].reason = svc[s].reason
      /\ svc'[s].site = svc[s].site
      /\ \/ /\ svc'[s].pending = Len(bill) + 1
            /\ \E f \in Fors : DOMAIN f = {s} /\ bill' = Append(bill, Invoice("upgrade", f))
         \/ svc'[s].pending = 0 /\ bill' = bill
  BY <1>1, <1>4, SwitchPlanIs
<1>6. /\ bill' \in Seq(BillKind) /\ Len(bill) <= Len(bill') /\ BillsStay /\ svc'[s].pending <= Len(bill')
      /\ \A k \in DOMAIN bill' : bill'[k].status = "unpaid" => DOMAIN bill'[k].for # {}
  <2>0. bill \in Seq(BillKind) /\ Len(bill) \in Nat
    BY <1>1 DEF SubTypes
  <2>1. CASE svc'[s].pending = 0 /\ bill' = bill
    BY <2>0, <2>1, BillsAsTheyAre
  <2>2. CASE /\ svc'[s].pending = Len(bill) + 1
             /\ \E f \in Fors : DOMAIN f = {s} /\ bill' = Append(bill, Invoice("upgrade", f))
    <3>1. PICK f \in Fors : DOMAIN f = {s} /\ bill' = Append(bill, Invoice("upgrade", f))
      BY <2>2
    <3>2. PICK kind \in {"new", "renewal", "upgrade"} : kind = "upgrade"
      OBVIOUS
    <3>3. bill' = Append(bill, Invoice(kind, f))
      BY <3>1, <3>2
    <3>4. /\ bill' \in Seq(BillKind) /\ Len(bill') = Len(bill) + 1 /\ Len(bill) \in Nat
          /\ DOMAIN bill = 1 .. Len(bill) /\ DOMAIN bill' = 1 .. Len(bill) + 1
          /\ \A i \in DOMAIN bill : bill'[i] = bill[i]
          /\ bill'[Len(bill) + 1].status = "unpaid" /\ bill'[Len(bill) + 1].for = f
      BY <1>1, <3>3, BillAdded
    <3>5. \A i \in DOMAIN bill' : i \notin DOMAIN bill => i = Len(bill) + 1
      BY <3>4
    <3>6. \A i \in DOMAIN bill : i \in DOMAIN bill'
      BY <3>4
    <3>7. Len(bill) <= Len(bill') /\ svc'[s].pending <= Len(bill')
      BY <2>2, <3>4
    <3>8. \A i \in DOMAIN bill : bill[i].status = "unpaid" => DOMAIN bill[i].for # {}
      BY DEF HoldInv
    <3> QED BY <3>1, <3>4, <3>5, <3>6, <3>7, <3>8 DEF BillsStay
  <2> QED BY <1>5, <2>1, <2>2
<1>7. SubTypes' /\ RowsGoOn /\ \A b \in Actor : Untouched(b)
  <2>1. Len(made) \in Nat /\ day \in Nat
    BY <1>1 DEF SubTypes
  <2>2. /\ svc' \in [Service -> SvcKind]
        /\ \A x \in Service : /\ svc'[x].status = svc[x].status /\ svc'[x].reason = svc[x].reason
                              /\ svc'[x].site = svc[x].site
                              /\ svc'[x].pending = svc[x].pending \/ svc'[x].pending <= Len(bill')
    BY <1>5, <1>6 DEF RowMoves
  <2>3. SubTypes'
    BY <1>1, <1>2, <1>3, <1>6, <2>1, <2>2, TypesGoOn DEF SubTypes, Moves
  <2> QED BY <1>2, <2>1, <2>2, <2>3 DEF RowsGoOn, Untouched
<1>8. ShapeOf(h)' /\ ClaimOf(h)'
  BY <1>3, <1>7, RestShape
<1> QED BY <1>3, <1>6, <1>7, <1>8, HoldGoesOn

LEMMA FulfilLineIs ==
  ASSUME HoldInv, NEW h \in Actor, FulfilLine(h)
  PROVE  \E s \in Service, i \in DOMAIN bill, act \in Calling \cup {"none"} :
           /\ s = Item(h) /\ i = actor[h].inv /\ h \in Hand /\ h \notin Run
           /\ actor[h].job = "fulfil" /\ bill[i].status = "paid" /\ s \in DOMAIN bill[i].for
           /\ actor[h].pc = "line" /\ actor[h].todo # <<>>
           /\ RowMoves(s)
           /\ svc'[s].status = svc[s].status /\ svc'[s].billedFor = svc[s].billedFor /\ svc'[s].leaving = svc[s].leaving
           /\ svc'[s].reason = svc[s].reason /\ svc'[s].site = svc[s].site
           /\ svc'[s].due = IF StartsLine(svc[s], i) THEN day + Cycle ELSE
                            IF RenewsLine(svc[s], i) THEN svc[s].due + Cycle ELSE svc[s].due
           /\ svc'[s].pending = IF UpgradesLine(svc[s], i) THEN 0 ELSE svc[s].pending
           /\ act = IF StartsLine(svc[s], i) THEN "create" ELSE
                    IF RenewsLine(svc[s], i) /\ svc[s].status = "suspended" /\ svc[s].reason = OVERDUE THEN "unsuspend" ELSE "none"
           /\ svc'[s] # svc[s] => stale' = Touched(h, s)
           /\ svc'[s] = svc[s] => stale' = stale
           /\ IF act = "none" THEN NextItem(h) ELSE actor' = [actor EXCEPT ![h].pc = "call", ![h].act = act]
           /\ bill' = [bill EXCEPT ![i].settled = Len(actor[h].todo) = 1]
<1>1. actor[h].pc = "line" /\ SubTypes
  BY DEF FulfilLine, On, HoldInv
<1>2. /\ h \in Hand /\ h \notin Run /\ HandShape(h) /\ actor[h].todo # <<>>
      /\ Item(h) \in Service /\ Item(h) \in Ahead(h)
  BY <1>1, HandAt
<1>3. actor[h].job = "fulfil" /\ actor[h].inv \in DOMAIN bill /\ bill[actor[h].inv].status = "paid"
      /\ Item(h) \in DOMAIN bill[actor[h].inv].for
  BY <1>1, <1>2 DEF HandShape
<1>4. PICK s \in Service, i \in DOMAIN bill : s = Item(h) /\ i = actor[h].inv
  BY <1>2, <1>3
<1>5. PICK x, act : x = LineEffect(s, i)[1] /\ act = LineEffect(s, i)[2]
  OBVIOUS
<1>6. /\ x \in SvcKind
      /\ x.status = svc[s].status /\ x.billedFor = svc[s].billedFor /\ x.leaving = svc[s].leaving
      /\ x.reason = svc[s].reason /\ x.site = svc[s].site
      /\ x.due = IF StartsLine(svc[s], i) THEN day + Cycle ELSE
                 IF RenewsLine(svc[s], i) THEN svc[s].due + Cycle ELSE svc[s].due
      /\ x.pending = IF UpgradesLine(svc[s], i) THEN 0 ELSE svc[s].pending
      /\ act = IF StartsLine(svc[s], i) THEN "create" ELSE
               IF RenewsLine(svc[s], i) /\ svc[s].status = "suspended" /\ svc[s].reason = OVERDUE THEN "unsuspend" ELSE "none"
  BY <1>1, <1>5, LineEffectIs
<1>7. svc' = [svc EXCEPT ![s] = x]
  BY <1>4, <1>5 DEF FulfilLine
<1>8. RowMoves(s) /\ svc'[s] = x
  BY <1>1, <1>6, <1>7, RowMovesTo
<1>9. act \in Calling \cup {"none"}
  BY <1>6 DEF Calling
<1>10. stale' = IF svc[s] # x THEN Touched(h, s) ELSE stale
  BY <1>4, <1>5 DEF FulfilLine
<1>11. IF act = "none" THEN NextItem(h) ELSE actor' = [actor EXCEPT ![h].pc = "call", ![h].act = act]
  BY <1>4, <1>5 DEF FulfilLine
<1>12. bill' = [bill EXCEPT ![i].settled = Len(actor[h].todo) = 1]
  BY <1>4 DEF FulfilLine
<1>13. svc'[s] # svc[s] => stale' = Touched(h, s)
  BY <1>8, <1>10
<1>14. svc'[s] = svc[s] => stale' = stale
  BY <1>8, <1>10
<1> WITNESS s \in Service, i \in DOMAIN bill, act \in Calling \cup {"none"}
<1> QED BY <1>1, <1>2, <1>3, <1>4, <1>6, <1>8, <1>11, <1>12, <1>13, <1>14

LEMMA SettledIs ==
  ASSUME HoldInv, NEW i \in DOMAIN bill, NEW f, f \in BOOLEAN, bill' = [bill EXCEPT ![i].settled = f]
  PROVE  /\ bill' \in Seq(BillKind) /\ DOMAIN bill' = DOMAIN bill /\ Len(bill') = Len(bill) /\ Len(bill) \in Nat
         /\ \A k \in DOMAIN bill : /\ bill'[k].kind = bill[k].kind /\ bill'[k].for = bill[k].for
                                   /\ bill'[k].status = bill[k].status
                                   /\ k # i => bill'[k] = bill[k]
         /\ BillsStay
         /\ \A k \in DOMAIN bill' : bill'[k].status = "unpaid" => DOMAIN bill'[k].for # {}
<1>1. SubTypes
  BY DEF HoldInv
<1>2. bill[i] \in BillKind
  BY <1>1 DEF SubTypes
<1>3. PICK st \in {"unpaid", "paid", "cancelled"} : st = bill[i].status
  BY <1>2 DEF BillKind
<1>4. /\ bill' \in Seq(BillKind) /\ DOMAIN bill' = DOMAIN bill /\ Len(bill') = Len(bill)
      /\ \A k \in DOMAIN bill : /\ bill'[k].kind = bill[k].kind /\ bill'[k].for = bill[k].for
                                /\ k # i => bill'[k] = bill[k]
      /\ bill'[i].status = st
  BY <1>1, <1>3, BillSettled
<1>5. Len(bill) \in Nat
  BY <1>1 DEF SubTypes
<1>6. \A k \in DOMAIN bill : bill'[k].status = bill[k].status
  BY <1>3, <1>4
<1>7. \A k \in DOMAIN bill : bill[k].status = "unpaid" => DOMAIN bill[k].for # {}
  BY DEF HoldInv
<1>8. BillsStay
  BY <1>4, <1>5, <1>6 DEF BillsStay
<1> QED BY <1>4, <1>5, <1>6, <1>7, <1>8

LEMMA FulfilLineHolds ==
  ASSUME HoldInv, NEW h \in Actor, FulfilLine(h)
  PROVE  HoldInv'
<1>1. SubTypes
  BY DEF HoldInv
<1>2. PICK s \in Service, i \in DOMAIN bill, act \in Calling \cup {"none"} :
        /\ s = Item(h) /\ i = actor[h].inv /\ h \in Hand /\ h \notin Run
        /\ actor[h].job = "fulfil" /\ bill[i].status = "paid" /\ s \in DOMAIN bill[i].for
        /\ actor[h].pc = "line" /\ actor[h].todo # <<>>
        /\ RowMoves(s)
        /\ svc'[s].status = svc[s].status
        /\ svc'[s].reason = svc[s].reason /\ svc'[s].site = svc[s].site
        /\ svc'[s].pending = IF UpgradesLine(svc[s], i) THEN 0 ELSE svc[s].pending
        /\ act = IF StartsLine(svc[s], i) THEN "create" ELSE
                 IF RenewsLine(svc[s], i) /\ svc[s].status = "suspended" /\ svc[s].reason = OVERDUE THEN "unsuspend" ELSE "none"
        /\ svc'[s] # svc[s] => stale' = Touched(h, s)
        /\ svc'[s] = svc[s] => stale' = stale
        /\ IF act = "none" THEN NextItem(h) ELSE actor' = [actor EXCEPT ![h].pc = "call", ![h].act = act]
        /\ bill' = [bill EXCEPT ![i].settled = Len(actor[h].todo) = 1]
  BY FulfilLineIs
<1>3. PICK f : f = (Len(actor[h].todo) = 1) /\ f \in BOOLEAN
  OBVIOUS
<1>4. /\ bill' \in Seq(BillKind) /\ DOMAIN bill' = DOMAIN bill /\ Len(bill') = Len(bill) /\ Len(bill) \in Nat
      /\ \A k \in DOMAIN bill : /\ bill'[k].kind = bill[k].kind /\ bill'[k].for = bill[k].for
                                /\ bill'[k].status = bill[k].status
      /\ BillsStay
      /\ \A k \in DOMAIN bill' : bill'[k].status = "unpaid" => DOMAIN bill'[k].for # {}
  BY <1>2, <1>3, SettledIs
<1>5. stale \subseteq stale' /\ stale' \in SUBSET Service
  <2>1. stale' = Touched(h, s) => stale \subseteq stale' /\ stale' \in SUBSET Service
    BY TouchedIs
  <2>2. stale \in SUBSET Service
    BY <1>1 DEF SubTypes
  <2> QED BY <1>2, <2>1, <2>2
<1>6. ShapeOf(h) /\ HandShape(h)
  BY <1>2 DEF HoldInv, ShapeOf
<1>7. UNCHANGED <<made, day, misfires>>
  BY DEF FulfilLine
<1>8. Moves(h) /\ (act = "none" => Follow(h, actor'[h])) /\
      (act # "none" => /\ actor'[h].pc = "call" /\ actor'[h].act = act /\ actor'[h].todo = actor[h].todo
                       /\ actor'[h].job = actor[h].job /\ actor'[h].inv = actor[h].inv)
  <2>1. CASE act = "none"
    <3>1. Follow(h, actor'[h])
      BY <1>1, <1>2, <1>6, <2>1, NextItemIs DEF ShapeOf
    <3> QED BY <2>1, <3>1 DEF Follow
  <2>2. CASE act # "none"
    BY <1>1, <1>2, <2>2, LineCalls
  <2> QED BY <2>1, <2>2
<1>9. /\ svc' \in [Service -> SvcKind]
      /\ \A x \in Service : /\ svc'[x].status = svc[x].status /\ svc'[x].reason = svc[x].reason
                            /\ svc'[x].site = svc[x].site
                            /\ svc'[x].pending = svc[x].pending \/ svc'[x].pending <= Len(bill')
  <2>1. 0 <= Len(bill')
    BY <1>4
  <2> QED BY <1>2, <2>1 DEF RowMoves
<1>10. SubTypes' /\ RowsGoOn /\ \A b \in Actor : Untouched(b)
  <2>1. Len(made) \in Nat /\ day \in Nat
    BY <1>1 DEF SubTypes
  <2>2. SubTypes'
    BY <1>1, <1>4, <1>5, <1>7, <1>8, <1>9, <2>1, TypesGoOn DEF SubTypes, Moves
  <2> QED BY <1>5, <1>7, <1>9, <2>1, <2>2 DEF RowsGoOn, Untouched
<1>11. ShapeOf(h)' /\ ClaimOf(h)'
  <2>1. CASE act = "none"
    BY <1>2, <1>4, <1>8, <1>9, <1>10, <2>1, FollowHolds
  <2>2. CASE act # "none"
    <3>1. Ahead(h)' = Ahead(h) /\ Item(h)' = Item(h)
      BY <1>8, <2>2 DEF Ahead, Item
    <3>2. act \in {"create", "unsuspend"}
      BY <1>2, <2>2
    <3>3. HandShape(h)'
      BY <1>2, <1>4, <1>6, <1>8, <2>2, <3>1, <3>2 DEF HandShape, On
    <3>4. ClaimOf(h)'
      <4> SUFFICES ASSUME NEW x \in Service, Calls(h, x)'
                   PROVE  /\ act = "create" => svc'[x].status = "pending"
                          /\ act = "unsuspend" => svc'[x].status = "suspended" /\ svc'[x].reason = OVERDUE
        BY <1>2, <1>8, <2>2 DEF ClaimOf
      <4>1. x = s
        BY <1>2, <3>1 DEF Calls
      <4> QED BY <1>2, <4>1 DEF StartsLine, RenewsLine
    <3> QED BY <1>2, <1>6, <1>8, <2>2, <3>3, <3>4 DEF ShapeOf, On
  <2> QED BY <2>1, <2>2
<1> QED BY <1>4, <1>8, <1>10, <1>11, HoldGoesOn

LEMMA CallHolds ==
  ASSUME HoldInv, NEW a \in Actor, Call(a)
  PROVE  HoldInv'
<1>1. SubTypes /\ actor[a].pc = "call"
  BY DEF HoldInv, Call, On
<1>2. /\ actor[a].todo # <<>> /\ actor[a].act \in Calling
      /\ a \in Hand => a \notin Run /\ HandShape(a)
      /\ a \notin Hand => a \in Run /\ RunShape(a)
      /\ Item(a) \in Service
  BY <1>1, Caller1
<1>3. PICK s \in Service : s = Item(a)
  BY <1>2
<1>4. /\ Moves(a)
      /\ actor'[a].pc = "write" /\ actor'[a].todo = actor[a].todo /\ actor'[a].job = actor[a].job
      /\ actor'[a].inv = actor[a].inv /\ actor'[a].act = actor[a].act /\ actor'[a].now = actor[a].now
      /\ actor'[a].saw \in Seen /\ actor'[a].saw.pending = svc[s].pending
      /\ actor'[a].saw.site = IF actor[a].act = "create" /\ svc[s].site = 0 THEN Len(made) + 1 ELSE svc[s].site
  BY <1>1, <1>3, CallIs
<1>5. /\ made' \in Seq(MadeKind) /\ Len(made) <= Len(made')
      /\ IF actor[a].act = "create" /\ svc[s].site = 0
         THEN DOMAIN made' = DOMAIN made \cup {Len(made) + 1}
         ELSE DOMAIN made' = DOMAIN made
  BY <1>1, <1>2, <1>3, CallMakes
<1>6. UNCHANGED <<svc, bill, day, misfires, stale>>
  BY DEF Call
<1>7. SubTypes' /\ RowsGoOn /\ \A b \in Actor : Untouched(b)
  <2>1. Len(made) \in Nat /\ day \in Nat /\ Len(bill) \in Nat
    BY <1>1 DEF SubTypes
  <2>2. SubTypes'
    BY <1>1, <1>4, <1>5, <1>6, <2>1, TypesGoOn DEF SubTypes, Moves
  <2> QED BY <1>5, <1>6, <2>1, <2>2 DEF RowsGoOn, Untouched
<1>8. ShapeOf(a)
  BY DEF HoldInv
<1>9. Ahead(a)' = Ahead(a) /\ Item(a)' = Item(a)
  BY <1>4 DEF Ahead, Item
<1>10. ShapeOf(a)'
  <2>1. actor'[a].saw.site <= Len(made') /\ actor'[a].saw.pending <= Len(bill')
    <3>1. /\ made' \in Seq(MadeKind) /\ made \in Seq(MadeKind) /\ svc[s].site <= Len(made) /\ svc[s].pending <= Len(bill) /\ bill' = bill
      BY <1>1, <1>5, <1>6 DEF SubTypes
    <3>2. svc[s].site \in Nat /\ svc[s].pending \in Nat
      BY <1>1 DEF SubTypes, SvcKind
    <3>3. CASE actor[a].act = "create" /\ svc[s].site = 0
      <4>1. DOMAIN made' = 1 .. Len(made')
        BY <3>1
      <4>2. Len(made) + 1 \in DOMAIN made'
        BY <1>5, <3>3
      <4>3. Len(made) + 1 <= Len(made')
        BY <4>1, <4>2
      <4> QED BY <1>4, <3>1, <3>3, <4>3
    <3>4. CASE ~(actor[a].act = "create" /\ svc[s].site = 0)
      <4>1. svc[s].site <= Len(made')
        BY <1>5, <3>1, <3>2
      <4> QED BY <1>4, <3>1, <3>4, <4>1
    <3> QED BY <3>3, <3>4
  <2>2. a \in Hand => HandShape(a)'
    BY <1>1, <1>2, <1>4, <1>6, <1>9 DEF HandShape, On
  <2>3. a \in Run => RunShape(a)'
    BY <1>1, <1>2, <1>4, <1>6, <1>9 DEF RunShape, On
  <2> QED BY <1>4, <1>8, <2>1, <2>2, <2>3 DEF ShapeOf, On
<1>11. ClaimOf(a)'
  <2>1. ClaimOf(a)
    BY DEF HoldInv
  <2> QED BY <1>1, <1>4, <1>6, <1>9, <2>1 DEF ClaimOf, Calls
<1> QED BY <1>4, <1>6, <1>7, <1>10, <1>11, BillsAsTheyAre, HoldGoesOn

LEMMA CallFailsHolds ==
  ASSUME HoldInv, NEW a \in Actor, CallFails(a)
  PROVE  HoldInv'
<1>1. SubTypes /\ actor[a].pc = "call" /\ ShapeOf(a)
  BY DEF HoldInv, CallFails, On
<1>2. actor[a].todo # <<>>
  BY <1>1, Caller1
<1>3. Follow(a, actor'[a])
  BY <1>1, <1>2, NextItemIs DEF CallFails, ShapeOf
<1>4. UNCHANGED <<svc, bill, made, day, stale>> /\ misfires' \in Nat
  BY <1>1 DEF CallFails, SubTypes
<1>5. SubTypes' /\ RowsGoOn /\ \A b \in Actor : Untouched(b)
  <2>1. Len(made) \in Nat /\ day \in Nat /\ Len(bill) \in Nat
    BY <1>1 DEF SubTypes
  <2>2. SubTypes'
    BY <1>1, <1>3, <1>4, <2>1, TypesGoOn DEF SubTypes, Moves, Follow
  <2> QED BY <1>4, <2>1, <2>2 DEF RowsGoOn, Untouched
<1>6. ShapeOf(a)' /\ ClaimOf(a)'
  BY <1>1, <1>3, <1>4, <1>5, BillsAsTheyAre, FollowHolds
<1> QED BY <1>3, <1>4, <1>5, <1>6, BillsAsTheyAre, HoldGoesOn DEF Follow

\* What a write makes of the row.
LEMMA WriteIs ==
  ASSUME HoldInv, NEW a \in Actor, Write(a)
  PROVE  \E s \in Service :
           /\ s = Item(a) /\ actor[a].pc = "write" /\ actor[a].act \in Calling
           /\ actor[a].todo # <<>> /\ s \in Ahead(a)
           /\ RowMoves(s)
           /\ svc'[s].billedFor = svc[s].billedFor /\ svc'[s].leaving = svc[s].leaving
           /\ svc'[s].due = IF actor[a].act = "terminate" THEN 0 ELSE svc[s].due
           /\ svc'[s].status = IF actor[a].act = "suspend" THEN "suspended" ELSE
                               IF actor[a].act = "terminate" THEN "terminated" ELSE "active"
           /\ svc'[s].reason = IF actor[a].act = "suspend" THEN (IF a \in Run THEN OVERDUE ELSE ByStaff) ELSE
                               IF actor[a].act = "terminate" THEN svc[s].reason ELSE "none"
           /\ svc'[s].pending = IF actor[a].act = "create" THEN actor[a].saw.pending ELSE svc[s].pending
           /\ svc'[s].site = IF actor[a].act = "create" THEN actor[a].saw.site ELSE svc[s].site
           /\ stale' = Touched(a, s)
           /\ Follow(a, actor'[a])
<1>1. SubTypes /\ actor[a].pc = "write" /\ ShapeOf(a)
  BY DEF HoldInv, Write, On
<1>2. actor[a].todo # <<>> /\ actor[a].act \in Calling /\ Item(a) \in Service /\ Item(a) \in Ahead(a)
  BY <1>1, Caller1
<1>3. actor[a].saw \in Seen
  BY <1>1 DEF ShapeOf, On
<1>4. PICK s \in Service : s = Item(a)
  BY <1>2
<1>5. PICK reason \in {OVERDUE, ByStaff} : reason = IF a \in Run THEN OVERDUE ELSE ByStaff
  OBVIOUS
<1>6. PICK act \in Calling : act = actor[a].act
  BY <1>2
<1>7. PICK v \in SvcKind : v = svc[s]
  BY <1>1 DEF SubTypes
<1>8. PICK x : x = After(v, act, actor[a].saw, reason)
  OBVIOUS
<1>9. /\ x \in SvcKind
      /\ x.billedFor = v.billedFor /\ x.leaving = v.leaving /\ x.plan = v.plan
      /\ x.due = IF act = "terminate" THEN 0 ELSE v.due
      /\ x.status = IF act = "suspend" THEN "suspended" ELSE IF act = "terminate" THEN "terminated" ELSE "active"
      /\ x.reason = IF act = "suspend" THEN reason ELSE IF act = "terminate" THEN v.reason ELSE "none"
      /\ x.pending = IF act = "create" THEN actor[a].saw.pending ELSE v.pending
      /\ x.site = IF act = "create" THEN actor[a].saw.site ELSE v.site
  BY <1>3, <1>8, AfterIs
<1>10. svc' = [svc EXCEPT ![s] = x]
  BY <1>4, <1>5, <1>6, <1>7, <1>8 DEF Write
<1>11. RowMoves(s) /\ svc'[s] = x
  BY <1>1, <1>9, <1>10, RowMovesTo
<1>12. Follow(a, actor'[a])
  BY <1>1, <1>2, NextItemIs DEF Write, ShapeOf
<1>13. stale' = Touched(a, s)
  BY <1>4 DEF Write
<1> WITNESS s \in Service
<1> QED BY <1>1, <1>2, <1>4, <1>5, <1>6, <1>7, <1>9, <1>11, <1>12, <1>13

LEMMA WriteHolds ==
  ASSUME HoldInv, NEW a \in Actor, Write(a)
  PROVE  HoldInv'
<1>1. SubTypes
  BY DEF HoldInv
<1>2. PICK s \in Service :
        /\ s = Item(a) /\ actor[a].pc = "write" /\ actor[a].act \in Calling
        /\ RowMoves(s)
        /\ svc'[s].status = IF actor[a].act = "suspend" THEN "suspended" ELSE
                            IF actor[a].act = "terminate" THEN "terminated" ELSE "active"
        /\ svc'[s].pending = IF actor[a].act = "create" THEN actor[a].saw.pending ELSE svc[s].pending
        /\ svc'[s].site = IF actor[a].act = "create" THEN actor[a].saw.site ELSE svc[s].site
        /\ stale' = Touched(a, s)
        /\ Follow(a, actor'[a])
  BY WriteIs
<1>3. actor[a].saw.site <= Len(made) /\ actor[a].saw.pending <= Len(bill)
  BY <1>2 DEF HoldInv, ShapeOf, On
<1>4. UNCHANGED <<bill, made, day, misfires>>
  BY DEF Write
<1>5. /\ stale \subseteq stale' /\ stale' \in SUBSET Service
      /\ \A b \in Actor : b # a /\ s \in Ahead(b) /\ actor[b].pc \in {"issue", "call", "write"} => s \in stale'
  BY <1>2, TouchedIs
<1>6. SubTypes' /\ RowsGoOn
  <2>1. Len(bill) \in Nat /\ Len(made) \in Nat /\ day \in Nat
    BY <1>1 DEF SubTypes
  <2>2. /\ svc' \in [Service -> SvcKind]
        /\ \A x \in Service : /\ svc'[x].pending = svc[x].pending \/ svc'[x].pending <= Len(bill')
                              /\ svc'[x].site = svc[x].site \/ svc'[x].site <= Len(made')
                              /\ svc[x].status \notin {"none", "pending"} => svc'[x].status \notin {"none", "pending"}
    BY <1>2, <1>3, <1>4 DEF RowMoves
  <2>3. SubTypes'
    BY <1>1, <1>2, <1>4, <1>5, <2>1, <2>2, TypesGoOn DEF SubTypes, Follow, Moves
  <2> QED BY <1>4, <1>5, <2>1, <2>2, <2>3 DEF RowsGoOn
<1>7. \A b \in Actor : b # a => Untouched(b)
  <2> SUFFICES ASSUME NEW b \in Actor, b # a, NEW x \in Service \ stale', x \in Ahead(b), actor[b].pc \in {"call", "write"}
               PROVE  svc'[x].status = svc[x].status /\ svc'[x].reason = svc[x].reason
    BY DEF Untouched
  <2>1. x # s
    BY <1>5
  <2> QED BY <1>2, <2>1 DEF RowMoves
<1>8. ShapeOf(a)' /\ ClaimOf(a)'
  <2>1. \A x \in Service : x # Item(a) => svc'[x].status = svc[x].status
    BY <1>2 DEF RowMoves
  <2> QED BY <1>2, <1>4, <1>6, <2>1, BillsAsTheyAre, FollowHolds
<1> QED BY <1>2, <1>4, <1>6, <1>7, <1>8, BillsAsTheyAre, HoldGoesOn DEF Follow

LEMMA ListHolds ==
  ASSUME HoldInv, NEW r \in Actor, List(r)
  PROVE  HoldInv'
<1>1. SubTypes /\ r \in Run /\ r \notin Hand /\ RunShape(r) /\ actor[r].pc = "list" /\ actor[r].job \in DOMAIN ActOf
  <2>1. actor[r].pc = "list"
    BY DEF List, On
  <2>2. r \in Run /\ r \notin Hand /\ RunShape(r)
    BY <2>1, RunAt
  <2> QED BY <2>1, <2>2 DEF HoldInv, RunShape, On
<1> DEFINE job == actor[r].job
           found == Selected(job, actor[r].now)
           v == actor'[r]
<1>2. /\ Moves(r)
      /\ \/ /\ found = {} /\ v.todo = <<>>
            /\ \/ job \notin {"invoice", "suspend", "terminate"} /\ v = Rest
               \/ /\ job \in {"invoice", "suspend", "terminate"}
                  /\ v.pc = "list" /\ v.now = actor[r].now /\ v.job \in {"suspend", "terminate", "leave"}
         \/ /\ found # {} /\ IsInjective(v.todo) /\ Range(v.todo) = found /\ v.todo # <<>>
            /\ v.act = ActOf[job] /\ v.job = job /\ v.now = actor[r].now
            /\ v.pc = IF job = "invoice" THEN "issue" ELSE "call"
            /\ v.saw \in Fors /\ DOMAIN v.saw = found /\ \A s \in found : v.saw[s] = svc[s].due
  BY <1>1, ListIs
<1>3. UNCHANGED <<svc, bill, made, day, misfires, stale>>
  BY DEF List
<1>4. SubTypes' /\ RowsGoOn /\ \A b \in Actor : Untouched(b)
  BY <1>1, <1>2, <1>3, TypesOfTurn DEF SubTypes
<1>5. \A s \in found : s \in Service /\ svc[s].status \in {"active", "suspended"} /\ (job = "suspend" => svc[s].status = "active")
  <2>1. job \in {"invoice", "suspend", "terminate", "leave"}
    BY <1>1 DEF ActOf
  <2> QED BY <2>1 DEF Selected, EndsLeft, Alive
<1> HIDE DEF found
<1>6. ShapeOf(r)' /\ ClaimOf(r)'
  <2>1. CASE v = Rest
    BY <1>1, <1>4, <2>1, RestShape
  <2>2. CASE v # Rest /\ found = {}
    <3>1. v.todo = <<>> /\ v.pc = "list" /\ v.now = actor[r].now /\ v.job \in DOMAIN ActOf
      BY <1>2, <2>2 DEF ActOf
    <3>2. Ahead(r)' = {} /\ IsInjective(v.todo)
      BY <3>1, NoneOnList DEF Ahead
    <3>3. RunShape(r)'
      BY <1>1, <1>3, <3>1, <3>2 DEF RunShape, On
    <3> QED BY <1>1, <3>1, <3>2, <3>3 DEF ShapeOf, ClaimOf, Calls, On
  <2>3. CASE found # {}
    <3>1. /\ IsInjective(v.todo) /\ Range(v.todo) = found /\ v.todo # <<>>
          /\ v.act = ActOf[job] /\ v.job = job /\ v.now = actor[r].now
          /\ v.pc = IF job = "invoice" THEN "issue" ELSE "call"
          /\ v.saw \in Fors /\ DOMAIN v.saw = found
      BY <1>2, <2>3
    <3>2. Ahead(r)' = found
      BY <3>1 DEF Ahead
    <3>3. job \in {"invoice", "suspend", "terminate", "leave"}
      BY <1>1 DEF ActOf
    <3>4. RunShape(r)'
      BY <1>1, <1>3, <1>5, <3>1, <3>2, <3>3 DEF RunShape, On
    <3>5. ClaimOf(r)'
      <4>1. v.act = "suspend" /\ v.pc \in {"call", "write"} => job = "suspend"
        BY <3>1, <3>3 DEF ActOf
      <4> QED BY <1>1, <1>3, <1>5, <3>2, <4>1 DEF ClaimOf
    <3> QED BY <1>1, <3>1, <3>4, <3>5 DEF ShapeOf, On
  <2> QED BY <1>2, <2>1, <2>2, <2>3
<1> QED BY <1>1, <1>2, <1>3, <1>4, <1>6, BillsAsTheyAre, HoldGoesOn

LEMMA IssueHolds ==
  ASSUME HoldInv, NEW r \in Actor, Issue(r)
  PROVE  HoldInv'
<1>1. SubTypes /\ r \in Run /\ r \notin Hand /\ RunShape(r) /\ actor[r].pc = "issue"
  <2>1. actor[r].pc = "issue"
    BY DEF Issue, On
  <2>2. r \in Run /\ r \notin Hand /\ RunShape(r)
    BY <2>1, RunAt
  <2> QED BY <2>1, <2>2 DEF HoldInv
<1>2. actor[r].job = "invoice" /\ actor[r].saw \in Fors /\ DOMAIN actor[r].saw = Ahead(r) /\ actor[r].todo # <<>>
  BY <1>1 DEF RunShape, On
<1>3. Ahead(r) # {} /\ Ahead(r) \in SUBSET Service
  BY <1>1, <1>2, ItemIsAhead
<1>4. PICK f \in Fors : f = actor[r].saw
  BY <1>2
<1>5. PICK kind \in {"new", "renewal", "upgrade"} : kind = "renewal"
  OBVIOUS
<1>6. bill' = Append(bill, Invoice(kind, f)) /\ UNCHANGED <<made, day, misfires, stale>>
  BY <1>4, <1>5 DEF Issue
<1>7. /\ bill' \in Seq(BillKind) /\ Len(bill') = Len(bill) + 1 /\ Len(bill) \in Nat
      /\ DOMAIN bill = 1 .. Len(bill) /\ DOMAIN bill' = 1 .. Len(bill) + 1
      /\ \A i \in DOMAIN bill : bill'[i] = bill[i]
      /\ bill'[Len(bill) + 1].status = "unpaid" /\ bill'[Len(bill) + 1].for = f
  BY <1>1, <1>6, BillAdded
<1>8. BillsStay /\ \A i \in DOMAIN bill' : bill'[i].status = "unpaid" => DOMAIN bill'[i].for # {}
  <2>1. \A i \in DOMAIN bill' : i \notin DOMAIN bill => i = Len(bill) + 1
    BY <1>7
  <2>2. \A i \in DOMAIN bill : i \in DOMAIN bill'
    BY <1>7
  <2>3. Len(bill) <= Len(bill')
    BY <1>7
  <2>4. \A i \in DOMAIN bill : bill[i].status = "unpaid" => DOMAIN bill[i].for # {}
    BY DEF HoldInv
  <2> QED BY <1>2, <1>3, <1>4, <1>7, <2>1, <2>2, <2>3, <2>4 DEF BillsStay
<1>9. /\ svc' \in [Service -> SvcKind]
      /\ \A s \in Service :
           /\ svc'[s].status = svc[s].status /\ svc'[s].reason = svc[s].reason
           /\ svc'[s].pending = svc[s].pending /\ svc'[s].site = svc[s].site
  BY <1>1, <1>2, IssueIs
<1>10. PICK w : w = actor'[r]
  OBVIOUS
<1>11. /\ Moves(r) /\ w.todo = <<>> /\ w.pc = "list" /\ w.now = actor[r].now /\ w.job \in {"suspend", "terminate", "leave"}
  <2>1. PICK v \in ActorKind : v = actor[r]
    BY <1>1 DEF SubTypes, Actor
  <2>2. PICK x : x = NextPhase(v)
    OBVIOUS
  <2>3. x \in ActorKind /\ x.todo = <<>> /\ x.pc = "list" /\ x.now = v.now /\ x.job \in {"suspend", "terminate", "leave"}
    BY <1>2, <2>1, <2>2, NextPhaseIs
  <2>4. actor' = [actor EXCEPT ![r] = x]
    BY <2>1, <2>2 DEF Issue
  <2>5. Moves(r) /\ actor'[r] = x
    BY <1>1, <2>3, <2>4, MovesTo
  <2> QED BY <1>10, <2>1, <2>3, <2>5
<1>12. SubTypes' /\ RowsGoOn /\ \A b \in Actor : Untouched(b)
  <2>1. Len(made) \in Nat /\ day \in Nat
    BY <1>1 DEF SubTypes
  <2>2. SubTypes'
    BY <1>1, <1>6, <1>7, <1>8, <1>9, <1>11, <2>1, TypesGoOn DEF SubTypes, Moves, BillsStay
  <2> QED BY <1>6, <1>9, <2>1, <2>2 DEF RowsGoOn, Untouched
<1>13. ShapeOf(r)' /\ ClaimOf(r)'
  <2>1. Ahead(r)' = {} /\ IsInjective(w.todo)
    BY <1>10, <1>11, NoneOnList DEF Ahead
  <2>2. w.job \in DOMAIN ActOf
    BY <1>11 DEF ActOf
  <2>3. RunShape(r)'
    BY <1>1, <1>6, <1>10, <1>11, <2>1, <2>2 DEF RunShape, On
  <2> QED BY <1>1, <1>10, <1>11, <2>1, <2>3 DEF ShapeOf, ClaimOf, Calls, On
<1> QED BY <1>8, <1>11, <1>12, <1>13, HoldGoesOn

LEMMA HoldStep == HoldInv /\ [SubscriptionsNext]_subVars => HoldInv'
<1> SUFFICES ASSUME HoldInv, [SubscriptionsNext]_subVars PROVE HoldInv'
  OBVIOUS
<1>1. ASSUME NEW ss \in (SUBSET Service) \ {{}}, Order(ss) PROVE HoldInv'
  BY <1>1, OrderHolds
<1>2. ASSUME NEW h \in Hand, NEW i \in DOMAIN bill, Pay(h, i) PROVE HoldInv'
  BY <1>2, PayHolds
<1>3. ASSUME NEW i \in DOMAIN bill, Void(i) PROVE HoldInv'
  BY <1>3, VoidHolds
<1>4. ASSUME NEW h \in Hand, NEW s \in Service, Leave(h, s) \/ Undo(h, s) \/ Switch(h, s) PROVE HoldInv'
  BY <1>4, BeginHolds
<1>5. ASSUME NEW h \in Hand, NEW s \in Service, NEW act \in {"create", "suspend", "unsuspend", "terminate"}, Command(h, act, s)
      PROVE HoldInv'
  BY <1>5, CommandHolds DEF Calling
<1>6. ASSUME NEW r \in Run, StartRun(r) PROVE HoldInv'
  BY <1>6, StartRunHolds
<1>7. ASSUME NEW a \in Actor, Goes(a) PROVE HoldInv'
  BY <1>7, LeaveLinesHolds, UndoBilledHolds, SwitchPlanHolds, FulfilLineHolds, CallHolds, CallFailsHolds, WriteHolds,
     ListHolds, IssueHolds DEF Goes
<1>8. ASSUME NextDay PROVE HoldInv'
  BY <1>8, NextDayHolds
<1>9. ASSUME UNCHANGED subVars PROVE HoldInv'
  <2>1. actor' = actor /\ UNCHANGED <<svc, bill, made, day, misfires, stale>>
    BY <1>9 DEF subVars
  <2>2. SubTypes
    BY DEF HoldInv
  <2>3. Len(bill) \in Nat /\ Len(made) \in Nat /\ day \in Nat
    BY <2>2 DEF SubTypes
  <2>4. SubTypes'
    BY <2>1, <2>2 DEF SubTypes
  <2>5. RowsGoOn /\ \A b \in Actor : Untouched(b)
    BY <2>1, <2>3 DEF RowsGoOn, Untouched
  <2> QED BY <2>1, <2>4, <2>5, BillsAsTheyAre, HoldStays
<1> QED BY <1>1, <1>2, <1>3, <1>4, <1>5, <1>6, <1>7, <1>8, <1>9 DEF SubscriptionsNext

\* A suspension by staff is not ended by a payment or a run.
LEMMA StaffHoldStep ==
  ASSUME HoldInv, SubscriptionsNext, NEW s \in Service \ stale',
         svc[s].status = "suspended", svc[s].reason = ByStaff, svc'[s].reason # ByStaff
  PROVE  \E h \in Hand : actor[h].job = "staff" /\ Item(h) = s
<1>1. SubTypes
  BY DEF HoldInv
<1>2. ByStaff # OVERDUE
  BY DEF ByStaff, OVERDUE
<1>3. ASSUME NEW ss \in (SUBSET Service) \ {{}}, Order(ss) PROVE FALSE
  BY <1>1, <1>3, OrderIs
<1>4. ASSUME NEW h \in Hand, NEW x \in Service, Leave(h, x) \/ Undo(h, x) PROVE FALSE
  <2>1. PICK f \in BOOLEAN : svc' = [svc EXCEPT ![x].leaving = f]
    BY <1>4 DEF Leave, Undo
  <2>2. RowMoves(x) /\ svc'[x].reason = svc[x].reason
    BY <1>1, <2>1, FlagIs
  <2> QED BY <2>2 DEF RowMoves
<1>5. ASSUME NEW a \in Actor, UndoBilled(a) \/ SwitchPlan(a) PROVE FALSE
  <2>1. a \in Hand /\ Item(a) \in Service
    <3>1. actor[a].pc \in {"undo", "switch"}
      BY <1>5 DEF UndoBilled, SwitchPlan, On
    <3> QED BY <3>1, HandAt
  <2>2. PICK x \in Service : x = Item(a)
    BY <2>1
  <2>3. RowMoves(x) /\ svc'[x].reason = svc[x].reason
    BY <1>1, <1>5, <2>1, <2>2, UndoBilledIs, SwitchPlanIs
  <2> QED BY <2>3 DEF RowMoves
<1>6. ASSUME NEW a \in Actor, FulfilLine(a) PROVE FALSE
  <2>1. \E x \in Service : RowMoves(x) /\ svc'[x].reason = svc[x].reason
    BY <1>6, FulfilLineIs
  <2> QED BY <2>1 DEF RowMoves
<1>7. ASSUME NEW r \in Actor, Issue(r) PROVE FALSE
  <2>1. r \in Run /\ actor[r].saw \in Fors
    <3>1. actor[r].pc = "issue"
      BY <1>7 DEF Issue, On
    <3>2. r \in Run /\ RunShape(r)
      BY <3>1, RunAt
    <3> QED BY <3>1, <3>2 DEF RunShape, On
  <2> QED BY <1>1, <1>7, <2>1, IssueIs
<1>8. ASSUME NEW a \in Actor, Write(a) PROVE \E h \in Hand : actor[h].job = "staff" /\ Item(h) = s
  <2>1. PICK x \in Service :
        /\ x = Item(a) /\ actor[a].pc = "write" /\ actor[a].act \in Calling
        /\ x \in Ahead(a)
        /\ RowMoves(x)
        /\ svc'[x].reason = IF actor[a].act = "suspend" THEN (IF a \in Run THEN OVERDUE ELSE ByStaff) ELSE
                            IF actor[a].act = "terminate" THEN svc[x].reason ELSE "none"
        /\ stale' = Touched(a, x)
    BY <1>8, WriteIs
  <2>2. x = s
    BY <2>1 DEF RowMoves
  <2>3. s \in Service \ stale /\ ClaimOf(a)
    BY <2>1, TouchedIs DEF HoldInv
  <2>4. /\ a \in Hand => actor[a].job \in {"staff", "fulfil"} /\ HandShape(a)
        /\ a \notin Hand => a \in Run /\ actor[a].act \in {"suspend", "terminate"}
    BY <2>1, Caller1
  <2>5. a \in Hand
    BY <1>2, <2>1, <2>2, <2>3, <2>4 DEF ClaimOf
  <2>6. actor[a].job = "staff"
    <3> SUFFICES ASSUME actor[a].job = "fulfil" PROVE FALSE
      BY <2>4, <2>5
    <3>1. actor[a].act \in {"create", "unsuspend"}
      BY <2>1, <2>4, <2>5 DEF HandShape
    <3>2. Calls(a, s)
      BY <2>1, <2>2 DEF Calls
    <3> QED BY <1>2, <2>3, <2>5, <3>1, <3>2 DEF ClaimOf
  <2> QED BY <2>1, <2>2, <2>5, <2>6
<1>9. svc' = svc => FALSE
  OBVIOUS
<1>10. ASSUME NEW a \in Actor, LeaveLines(a) \/ Call(a) \/ CallFails(a) \/ List(a) PROVE FALSE
  BY <1>9, <1>10 DEF LeaveLines, Call, CallFails, List
<1>11. ASSUME NEW h \in Hand, NEW i \in DOMAIN bill, Pay(h, i) PROVE FALSE
  BY <1>9, <1>11 DEF Pay
<1>12. ASSUME NEW i \in DOMAIN bill, Void(i) PROVE FALSE
  BY <1>9, <1>12 DEF Void
<1>13. ASSUME NEW h \in Hand, NEW x \in Service, Switch(h, x) PROVE FALSE
  BY <1>9, <1>13 DEF Switch
<1>14. ASSUME NEW h \in Hand, NEW x \in Service, NEW act, Command(h, act, x) PROVE FALSE
  BY <1>9, <1>14 DEF Command
<1>15. ASSUME NEW r \in Run, StartRun(r) PROVE FALSE
  BY <1>9, <1>15 DEF StartRun
<1>16. NextDay => FALSE
  BY <1>9 DEF NextDay
<1> QED BY <1>3, <1>4, <1>5, <1>6, <1>7, <1>8, <1>10, <1>11, <1>12, <1>13, <1>14, <1>15, <1>16 DEF SubscriptionsNext, Goes

LEMMA PanelMovesServices ==
  ASSUME [PanelNext]_panelVars
  PROVE  [SubscriptionsNext]_subVars
BY DEF PanelNext, panelVars

\* A suspension by staff ends by staff or with the service, whatever is paid and
\* whenever the cron runs: for any number of services, invoices, requests and runs.
THEOREM StaffHoldsAreKept == PanelSpec => StaffHoldStays
<1>1. PanelInit => HoldInv
  BY HoldInvInit DEF PanelInit
<1>2. HoldInv /\ [PanelNext]_panelVars => HoldInv'
  BY PanelMovesServices, HoldStep
<1>3. HoldInv /\ [PanelNext]_panelVars =>
        [\A s \in Service \ stale' :
           svc[s].status = "suspended" /\ svc[s].reason = ByStaff /\ svc'[s].reason # ByStaff
             => \E h \in Hand : actor[h].job = "staff" /\ Item(h) = s]_subVars
  <2> SUFFICES ASSUME HoldInv, [PanelNext]_panelVars
               PROVE  [\A s \in Service \ stale' :
                         svc[s].status = "suspended" /\ svc[s].reason = ByStaff /\ svc'[s].reason # ByStaff
                           => \E h \in Hand : actor[h].job = "staff" /\ Item(h) = s]_subVars
    OBVIOUS
  <2>1. SubscriptionsNext \/ UNCHANGED subVars
    BY PanelMovesServices
  <2> QED BY <2>1, StaffHoldStep
<1> QED BY <1>1, <1>2, <1>3, PTL DEF PanelSpec, StaffHoldStays

(* What is billed, held and due, with one request and one run at a time.   *)

OneAtATime == (\A g, h \in Hand : g = h) /\ (\A q, r \in Run : q = r)

\* h activates s.
Creating(h, s) == Calls(h, s) /\ actor[h].act = "create"

\* Who was never active has no workload and no renewal; a workload is that of
\* its service's row, or of the activation that will write it there.
NeverActive(s) ==
  svc[s].status \in {"none", "pending"} => svc[s].site = 0 /\ \A i \in DOMAIN bill : ~Bills(i, "renewal", s)
SetsUp(h, s) ==
  Creating(h, s) =>
    /\ svc[s].status = "pending" /\ svc[s].due # 0
    /\ On(h, "write") => /\ actor[h].saw.site \in DOMAIN made
                         /\ made[actor[h].saw.site].of = s /\ made[actor[h].saw.site].is # "gone"
                         /\ actor[h].saw.pending = svc[s].pending
Accounted(w) ==
  \/ svc[made[w].of].site = w
  \/ \E h \in Hand : Creating(h, made[w].of) /\ On(h, "write") /\ actor[h].saw.site = w
SitesKnown ==
  /\ \A s \in Service : NeverActive(s) /\ (svc[s].site # 0 => made[svc[s].site].of = s)
  /\ \A h \in Hand, s \in Service : SetsUp(h, s)
  /\ \A w \in DOMAIN made : Accounted(w)

\* An upgrade that is still to be paid is the one the service waits for.
UpgradeKnown(s) ==
  /\ \A i \in DOMAIN bill : Bills(i, "upgrade", s) /\ bill[i].status = "unpaid" => svc[s].pending = i
  /\ \A h \in Hand : On(h, "switch") /\ Item(h) = s /\ svc[s].pending # 0 => bill[svc[s].pending].status # "unpaid"

\* What b read about the dates of s still holds.
Fresh(b, s) ==
  /\ b \in Hand /\ Calls(b, s) /\ actor[b].job = "staff" => svc[s].status \in Alive
  /\ b \in Run /\ On(b, "issue") /\ s \in Ahead(b) =>
       /\ svc[s].status \in Alive /\ ~svc[s].leaving
       /\ actor[b].saw[s] = svc[s].due /\ svc[s].billedFor < svc[s].due
  /\ b \in Run /\ actor[b].pc \in {"call", "write"} /\ s \in Ahead(b) =>
       /\ svc[s].status \in Alive
       /\ actor[b].act = "suspend" => svc[s].due < day

Dated(s) == svc[s].status \in Alive => svc[s].due # 0

\* Someone is about to write that s ended; a payment is lifting its suspension.
Ends(b, s)  == On(b, "write") /\ actor[b].act = "terminate" /\ Item(b) = s
Ending(s)   == \E b \in Actor : Ends(b, s)
Unlocks(h, s) == Calls(h, s) /\ actor[h].job = "fulfil" /\ actor[h].act = "unsuspend"
Lifting(s)  == \E h \in Hand : Unlocks(h, s)

GoneEnds(s) == svc[s].status \in Alive /\ svc[s].site # 0 /\ made[svc[s].site].is = "gone" => Ending(s)
HeldRight(s) ==
  misfires = 0 /\ svc[s].status = "suspended" /\ svc[s].reason = OVERDUE =>
    svc[s].due < day \/ Lifting(s) \/ Ending(s)

\* Who leaves has no renewal to pay, or is being relieved of it.
LeavesLine(h, s) == On(h, "leave") /\ Item(h) = s
Released(s) == svc[s].leaving => ~StillBilled(s) \/ \E h \in Hand : LeavesLine(h, s)

\* h has still to move the date of s by invoice i.
Owes(h, i, s) == /\ actor[h].job = "fulfil" /\ actor[h].inv = i /\ s \in Ahead(h)
                 /\ On(h, "line") \/ Item(h) # s
Owed(i, s) == \E h \in Hand : Owes(h, i, s)

\* A renewal is of a period before the due date, or of the next one, which
\* is then marked as billed, and not paid or being worked through.
Renewal(i, s) == Bills(i, "renewal", s) /\ bill[i].status # "cancelled"
RenewalPast(i, s) ==
  \/ svc[s].due = 0
  \/ bill[i].for[s] < svc[s].due
  \/ bill[i].for[s] = svc[s].due /\ svc[s].due <= svc[s].billedFor /\ (bill[i].status = "unpaid" \/ Owed(i, s))
BilledOnce(s) ==
  /\ \A i \in DOMAIN bill : Renewal(i, s) => RenewalPast(i, s)
  /\ \A i, j \in DOMAIN bill : Renewal(i, s) /\ Renewal(j, s) /\ bill[i].for[s] = bill[j].for[s] => i = j

Agreed(s) ==
  /\ Dated(s) /\ \A b \in Actor : Fresh(b, s)
  /\ GoneEnds(s) /\ HeldRight(s)
  /\ Released(s)
  /\ BilledOnce(s)

BilledInv ==
  /\ HoldInv
  /\ SitesKnown
  /\ \A s \in Service : UpgradeKnown(s)
  /\ \A s \in Service \ stale : Agreed(s)

-----------------------------------------------------------------------------
\* A step that activates nobody.
LEMMA SitesGoOn ==
  ASSUME HoldInv, SitesKnown, made' = made,
         \A s \in Service : svc'[s].site = svc[s].site,
         \A s \in Service : svc'[s].status \in {"none", "pending"} => svc[s].status \in {"none", "pending"},
         \A s \in Service, i \in DOMAIN bill' : Bills(i, "renewal", s)' =>
             svc[s].status \notin {"none", "pending"} \/ (i \in DOMAIN bill /\ Bills(i, "renewal", s)),
         \A h \in Hand : actor'[h].pc \in {"call", "write"} /\ actor'[h].act = "create" => actor'[h] = actor[h],
         \A h \in Hand : On(h, "write") /\ actor[h].act = "create" => actor'[h] = actor[h],
         \A h \in Hand, s \in Service : Creating(h, s) /\ actor'[h] = actor[h] =>
             svc'[s].status = "pending" /\ svc'[s].due = svc[s].due /\ svc'[s].pending = svc[s].pending
  PROVE  SitesKnown'
<1>1. ASSUME NEW s \in Service PROVE NeverActive(s)' /\ (svc'[s].site # 0 => made'[svc'[s].site].of = s)
  <2>1. NeverActive(s) /\ (svc[s].site # 0 => made[svc[s].site].of = s)
    BY DEF SitesKnown
  <2>2. ASSUME svc'[s].status \in {"none", "pending"}, NEW i \in DOMAIN bill' PROVE ~Bills(i, "renewal", s)'
    BY <2>1, <2>2 DEF NeverActive
  <2> QED BY <2>1, <2>2 DEF NeverActive
<1>2. ASSUME NEW h \in Hand, NEW s \in Service PROVE SetsUp(h, s)'
  <2> SUFFICES ASSUME Creating(h, s)' PROVE SetsUp(h, s)'
    BY DEF SetsUp
  <2>1. actor'[h] = actor[h]
    BY DEF Creating, Calls
  <2>2. Creating(h, s) /\ SetsUp(h, s)
    BY <2>1 DEF Creating, Calls, Item, SitesKnown
  <2>3. svc'[s].status = "pending" /\ svc'[s].due = svc[s].due /\ svc'[s].pending = svc[s].pending
    BY <2>1, <2>2
  <2> QED BY <2>1, <2>2, <2>3 DEF SetsUp, On
<1>3. ASSUME NEW w \in DOMAIN made' PROVE Accounted(w)'
  <2>1. made[w] \in MadeKind /\ w \in DOMAIN made
    BY DEF HoldInv, SubTypes
  <2>2. PICK s \in Service : s = made[w].of
    BY <2>1 DEF MadeKind
  <2>3. CASE svc[s].site = w
    BY <2>2, <2>3 DEF Accounted
  <2>4. CASE svc[s].site # w
    <3>1. PICK h \in Hand : Creating(h, s) /\ On(h, "write") /\ actor[h].saw.site = w
      BY <2>1, <2>2, <2>4 DEF SitesKnown, Accounted
    <3>2. actor'[h] = actor[h]
      BY <3>1 DEF Creating
    <3>3. Creating(h, s)' /\ On(h, "write")' /\ actor'[h].saw.site = w
      BY <3>1, <3>2 DEF Creating, Calls, Item, On
    <3>4. made'[w].of = s
      BY <2>2
    <3> QED BY <3>3, <3>4 DEF Accounted
  <2> QED BY <2>3, <2>4
<1> QED BY <1>1, <1>2, <1>3 DEF SitesKnown

\* The request that moves is the only one, and so is the run.
LEMMA OnlyHand ==
  ASSUME OneAtATime, NEW h \in Hand
  PROVE  \A g \in Hand : g = h
BY DEF OneAtATime

LEMMA OnlyRun ==
  ASSUME OneAtATime, NEW r \in Run
  PROVE  \A q \in Run : q = r
BY DEF OneAtATime

-----------------------------------------------------------------------------
\* Upgrades: no other is made, and none comes to life.
LEMMA UpgradeGoesOn ==
  ASSUME NEW s \in Service, UpgradeKnown(s), svc'[s].pending = svc[s].pending,
         \A i \in DOMAIN bill' : Bills(i, "upgrade", s)' /\ bill'[i].status = "unpaid" =>
             i \in DOMAIN bill /\ Bills(i, "upgrade", s) /\ bill[i].status = "unpaid",
         svc[s].pending # 0 /\ bill[svc[s].pending].status # "unpaid" => bill'[svc[s].pending].status # "unpaid",
         \A h \in Hand : actor'[h].pc = "switch" => actor'[h] = actor[h]
  PROVE  UpgradeKnown(s)'
<1>1. \A i \in DOMAIN bill' : Bills(i, "upgrade", s)' /\ bill'[i].status = "unpaid" => svc'[s].pending = i
  BY DEF UpgradeKnown
<1>2. ASSUME NEW h \in Hand, (On(h, "switch") /\ Item(h) = s)', svc'[s].pending # 0
      PROVE  bill'[svc'[s].pending].status # "unpaid"
  <2>1. actor'[h] = actor[h] /\ On(h, "switch") /\ Item(h) = s
    BY <1>2 DEF On, Item
  <2> QED BY <2>1, <1>2 DEF UpgradeKnown
<1> QED BY <1>1, <1>2 DEF UpgradeKnown

-----------------------------------------------------------------------------
\* What the step changes in the row of s leaves what b read of it.
Kept(b, s) ==
  s \in Ahead(b) /\ actor[b].pc \in {"issue", "call", "write"} /\ svc[s].status \in Alive =>
    /\ svc'[s].status \in Alive /\ svc'[s].due = svc[s].due /\ svc'[s].leaving = svc[s].leaving
    /\ b \in Run => svc'[s].billedFor = svc[s].billedFor \/ svc'[s].billedFor = 0

LEMMA FreshGoesOn ==
  ASSUME HoldInv, HoldInv', NEW b \in Actor, NEW s \in Service, Fresh(b, s), actor'[b] = actor[b], day <= day', Kept(b, s)
  PROVE  Fresh(b, s)'
<1>1. Ahead(b)' = Ahead(b) /\ Item(b)' = Item(b) /\ On(b, "issue")' = On(b, "issue")
  BY DEF Ahead, Item, On
<1>2. Calls(b, s)' = Calls(b, s) /\ (Calls(b, s) => s \in Ahead(b))
  BY <1>1, Caller1 DEF Calls
<1>3. /\ svc[s].due \in Nat /\ svc'[s].due \in Nat /\ day \in Nat /\ day' \in Nat
      /\ svc[s].billedFor \in Nat /\ svc'[s].billedFor \in Nat
  BY DEF HoldInv, SubTypes, SvcKind
<1>4. (b \in Hand /\ Calls(b, s) /\ actor[b].job = "staff" => svc[s].status \in Alive)'
  BY <1>1, <1>2 DEF Fresh, Kept, Calls
<1>5. (b \in Run /\ On(b, "issue") /\ s \in Ahead(b) =>
         /\ svc[s].status \in Alive /\ ~svc[s].leaving
         /\ actor[b].saw[s] = svc[s].due /\ svc[s].billedFor < svc[s].due)'
  <2> SUFFICES ASSUME b \in Run, On(b, "issue"), s \in Ahead(b)
               PROVE  /\ svc'[s].status \in Alive /\ ~svc'[s].leaving
                      /\ actor'[b].saw[s] = svc'[s].due /\ svc'[s].billedFor < svc'[s].due
    BY <1>1
  <2>1. /\ svc[s].status \in Alive /\ ~svc[s].leaving
        /\ actor[b].saw[s] = svc[s].due /\ svc[s].billedFor < svc[s].due
    BY DEF Fresh
  <2>2. /\ svc'[s].status \in Alive /\ svc'[s].due = svc[s].due /\ svc'[s].leaving = svc[s].leaving
        /\ svc'[s].billedFor = svc[s].billedFor \/ svc'[s].billedFor = 0
    BY <2>1 DEF Kept, On
  <2> QED BY <1>3, <2>1, <2>2
<1>6. (b \in Run /\ actor[b].pc \in {"call", "write"} /\ s \in Ahead(b) =>
         /\ svc[s].status \in Alive
         /\ actor[b].act = "suspend" => svc[s].due < day)'
  <2> SUFFICES ASSUME b \in Run, actor[b].pc \in {"call", "write"}, s \in Ahead(b)
               PROVE  svc'[s].status \in Alive /\ (actor[b].act = "suspend" => svc'[s].due < day')
    BY <1>1
  <2>1. svc[s].status \in Alive /\ (actor[b].act = "suspend" => svc[s].due < day)
    BY DEF Fresh
  <2>2. svc'[s].status \in Alive /\ svc'[s].due = svc[s].due
    BY <2>1 DEF Kept
  <2> QED BY <1>3, <2>1, <2>2
<1> QED BY <1>4, <1>5, <1>6 DEF Fresh

\* What keeps s right stays so, but for what b lets go.
LEMMA EndingGoesOn ==
  ASSUME NEW s, Ending(s), \A b \in Actor : Ends(b, s) => actor'[b] = actor[b]
  PROVE  Ending(s)'
<1>1. PICK b \in Actor : Ends(b, s) /\ actor'[b] = actor[b]
  BY DEF Ending
<1>2. Ends(b, s)'
  BY <1>1 DEF Ends, On, Item
<1> QED BY <1>2 DEF Ending

LEMMA LiftingGoesOn ==
  ASSUME NEW s, Lifting(s), \A h \in Hand : Unlocks(h, s) => actor'[h] = actor[h] \/ Unlocks(h, s)'
  PROVE  Lifting(s)'
<1>1. PICK h \in Hand : Unlocks(h, s) /\ (actor'[h] = actor[h] \/ Unlocks(h, s)')
  BY DEF Lifting
<1>2. Unlocks(h, s)'
  BY <1>1 DEF Unlocks, Calls, Item
<1> QED BY <1>2 DEF Lifting

LEMMA OwedGoesOn ==
  ASSUME NEW i, NEW s, Owed(i, s), \A h \in Hand : Owes(h, i, s) => actor'[h] = actor[h] \/ Owes(h, i, s)'
  PROVE  Owed(i, s)'
<1>1. PICK h \in Hand : Owes(h, i, s) /\ (actor'[h] = actor[h] \/ Owes(h, i, s)')
  BY DEF Owed
<1>2. Owes(h, i, s)'
  BY <1>1 DEF Owes, On, Item, Ahead
<1> QED BY <1>2 DEF Owed

LEMMA ReleasedGoesOn ==
  ASSUME NEW s, Released(s), svc'[s].leaving => svc[s].leaving, StillBilled(s)' => StillBilled(s),
         \A h \in Hand : LeavesLine(h, s) => actor'[h] = actor[h]
  PROVE  Released(s)'
<1> SUFFICES ASSUME svc'[s].leaving, StillBilled(s)' PROVE \E h \in Hand : LeavesLine(h, s)'
  BY DEF Released
<1>1. PICK h \in Hand : LeavesLine(h, s) /\ actor'[h] = actor[h]
  BY DEF Released
<1>2. LeavesLine(h, s)'
  BY <1>1 DEF LeavesLine, On, Item
<1> QED BY <1>2

\* The renewals of s: nothing is added to them.
RenewalsAge(s) ==
  \A i \in DOMAIN bill' : Renewal(i, s)' =>
    /\ i \in DOMAIN bill /\ Renewal(i, s) /\ bill'[i].for[s] = bill[i].for[s]
    /\ bill'[i].status = bill[i].status \/ (bill'[i].status # "unpaid" /\ Owed(i, s)')

LEMMA StillBilledBefore ==
  ASSUME NEW s, RenewalsAge(s), StillBilled(s)'
  PROVE  StillBilled(s)
<1>1. PICK i \in DOMAIN bill' : (Bills(i, "renewal", s) /\ bill[i].status = "unpaid")'
  BY DEF StillBilled
<1>2. Renewal(i, s)'
  BY <1>1 DEF Renewal
<1> QED BY <1>1, <1>2 DEF RenewalsAge, Renewal, StillBilled

LEMMA OnceGoesOn ==
  ASSUME NEW s, BilledOnce(s), RenewalsAge(s), svc'[s].due = svc[s].due,
         svc'[s].billedFor = svc[s].billedFor \/ \A i \in DOMAIN bill : Renewal(i, s) /\ bill[i].for[s] = svc[s].due => svc[s].due = 0,
         \A i \in DOMAIN bill : Owed(i, s) => Owed(i, s)'
  PROVE  BilledOnce(s)'
<1>1. ASSUME NEW i \in DOMAIN bill', Renewal(i, s)' PROVE RenewalPast(i, s)'
  <2>1. /\ i \in DOMAIN bill /\ Renewal(i, s) /\ bill'[i].for[s] = bill[i].for[s]
        /\ bill'[i].status = bill[i].status \/ (bill'[i].status # "unpaid" /\ Owed(i, s)')
    BY <1>1 DEF RenewalsAge
  <2>2. RenewalPast(i, s)
    BY <2>1 DEF BilledOnce
  <2> QED BY <2>1, <2>2 DEF RenewalPast
<1>2. ASSUME NEW i \in DOMAIN bill', NEW j \in DOMAIN bill', Renewal(i, s)', Renewal(j, s)', bill'[i].for[s] = bill'[j].for[s]
      PROVE  i = j
  BY <1>2 DEF RenewalsAge, BilledOnce
<1> QED BY <1>1, <1>2 DEF BilledOnce

\* The step changes nothing of s that anybody relies on, and b goes on.
SameDates(s) ==
  /\ svc'[s].status = svc[s].status \/ (svc[s].status \notin Alive /\ svc'[s].status \notin Alive)
  /\ svc'[s].due = svc[s].due /\ svc'[s].reason = svc[s].reason /\ svc'[s].site = svc[s].site
SameRow(s) == SameDates(s) /\ svc'[s].billedFor = svc[s].billedFor /\ svc'[s].leaving = svc[s].leaving
SameSite(s) == svc[s].site # 0 /\ made'[svc[s].site].is = "gone" => made[svc[s].site].is = "gone"
CallsOn(b, s) ==
  /\ Fresh(b, s)'
  /\ ~Ends(b, s)
  /\ b \in Hand /\ Unlocks(b, s) => Unlocks(b, s)' \/ misfires' # 0 \/ Ending(s)'
Parts(b, s) ==
  /\ CallsOn(b, s)
  /\ b \in Hand => ~LeavesLine(b, s) /\ \A i \in DOMAIN bill : Owes(b, i, s) => Owes(b, i, s)'

\* But for what is billed.
LEMMA AgreedBut ==
  ASSUME BilledInv, HoldInv', NEW s \in Service, s \notin stale, SameDates(s), SameSite(s) \/ Ending(s)', day <= day', misfires <= misfires',
         Released(s)', BilledOnce(s)',
         \A b \in Actor : (actor'[b] = actor[b] /\ Kept(b, s)) \/ CallsOn(b, s)
  PROVE  Agreed(s)'
<1>1. Agreed(s) /\ HoldInv
  BY DEF BilledInv
<1>2. Dated(s)'
  BY <1>1 DEF Agreed, Dated, SameDates
<1>3. ASSUME NEW b \in Actor PROVE Fresh(b, s)'
  <2>1. CASE actor'[b] = actor[b] /\ Kept(b, s)
    <3>1. Fresh(b, s)
      BY <1>1 DEF Agreed
    <3> QED BY <1>1, <2>1, <3>1, FreshGoesOn
  <2>2. CASE CallsOn(b, s)
    BY <2>2 DEF CallsOn
  <2> QED BY <2>1, <2>2
<1>4. Ending(s) => Ending(s)'
  BY EndingGoesOn DEF CallsOn
<1>5. GoneEnds(s)'
  BY <1>1, <1>4 DEF Agreed, GoneEnds, SameDates, SameSite
<1>6. HeldRight(s)'
  <2> SUFFICES ASSUME misfires' = 0, svc'[s].status = "suspended", svc'[s].reason = OVERDUE
               PROVE  svc'[s].due < day' \/ Lifting(s)' \/ Ending(s)'
    BY DEF HeldRight
  <2>1. misfires \in Nat /\ misfires' \in Nat /\ day \in Nat /\ day' \in Nat /\ svc[s].due \in Nat
    BY <1>1 DEF HoldInv, SubTypes, SvcKind
  <2>2. misfires = 0
    BY <2>1
  <2>3. svc[s].status = "suspended" /\ svc[s].reason = OVERDUE
    BY DEF SameDates, Alive
  <2>4. svc[s].due < day \/ Lifting(s) \/ Ending(s)
    BY <1>1, <2>2, <2>3 DEF Agreed, HeldRight
  <2>5. CASE svc[s].due < day
    BY <2>1, <2>5 DEF SameDates
  <2>6. CASE Lifting(s) /\ ~Ending(s)'
    <3>1. \A h \in Hand : Unlocks(h, s) => actor'[h] = actor[h] \/ Unlocks(h, s)'
      BY <2>6 DEF CallsOn, Actor
    <3> QED BY <2>6, <3>1, LiftingGoesOn
  <2> QED BY <1>4, <2>4, <2>5, <2>6
<1> QED BY <1>2, <1>3, <1>5, <1>6 DEF Agreed

LEMMA OnceBut ==
  ASSUME BilledInv, NEW s \in Service, s \notin stale, RenewalsAge(s), svc'[s].due = svc[s].due, svc'[s].billedFor = svc[s].billedFor,
         \A h \in Hand : actor'[h] = actor[h] \/ \A i \in DOMAIN bill : Owes(h, i, s) => Owes(h, i, s)'
  PROVE  BilledOnce(s)'
<1>1. ASSUME NEW i \in DOMAIN bill, Owed(i, s) PROVE Owed(i, s)'
  <2>1. \A h \in Hand : Owes(h, i, s) => actor'[h] = actor[h] \/ Owes(h, i, s)'
    OBVIOUS
  <2> QED BY <1>1, <2>1, OwedGoesOn
<1> QED BY <1>1, OnceGoesOn DEF BilledInv, Agreed

LEMMA AgreedGoesOn ==
  ASSUME BilledInv, HoldInv', NEW s \in Service, s \notin stale, SameRow(s), SameSite(s) \/ Ending(s)', day <= day', misfires <= misfires',
         RenewalsAge(s), \A b \in Actor : actor'[b] = actor[b] \/ Parts(b, s)
  PROVE  Agreed(s)'
<1>1. Agreed(s) /\ HoldInv
  BY DEF BilledInv
<1>2. Released(s)'
  <2>1. \A h \in Hand : LeavesLine(h, s) => actor'[h] = actor[h]
    BY DEF Parts, Actor
  <2> QED BY <1>1, <2>1, StillBilledBefore, ReleasedGoesOn DEF Agreed, SameRow
<1>3. BilledOnce(s)'
  <2>1. \A h \in Hand : actor'[h] = actor[h] \/ \A i \in DOMAIN bill : Owes(h, i, s) => Owes(h, i, s)'
    BY DEF Parts, Actor
  <2> QED BY <2>1, OnceBut DEF SameRow, SameDates
<1>4. \A b \in Actor : (actor'[b] = actor[b] /\ Kept(b, s)) \/ CallsOn(b, s)
  BY DEF Parts, Kept, SameRow, SameDates
<1> QED BY <1>2, <1>3, <1>4, AgreedBut DEF SameRow

\* One who had nothing to do for s: nothing of s relied on it.
LEMMA PartsOfIdle ==
  ASSUME HoldInv, NEW a \in Actor, actor[a].pc \in {"idle", "list"}, NEW s \in Service, Fresh(a, s)'
  PROVE  Parts(a, s)
<1>1. a \in Hand => Ahead(a) = {}
  <2> SUFFICES ASSUME a \in Hand PROVE Ahead(a) = {}
    OBVIOUS
  <2>1. HandShape(a)
    BY DEF HoldInv, ShapeOf
  <2>2. actor[a].todo = <<>>
    BY <2>1 DEF HandShape, On
  <2> QED BY <2>2, NoneOnList DEF Ahead
<1> QED BY <1>1 DEF Parts, CallsOn, Ends, On, Unlocks, Calls, LeavesLine, Owes

\* One that does not call anything, is clear of dates.
LEMMA FreshOfQuiet ==
  ASSUME NEW a \in Actor, NEW s \in Service, actor'[a].pc \notin {"issue", "call", "write"}
  PROVE  Fresh(a, s)'
BY DEF Fresh, Calls, On

\* One that goes on to the next of its list, for those that are not the first.
LEMMA PartsOfFollow ==
  ASSUME BilledInv, HoldInv', NEW a \in Actor, actor[a].pc \in {"line", "call", "write"}, Follow(a, actor'[a]),
         NEW s \in Service, s \notin stale, s # Item(a), SameRow(s), day <= day'
  PROVE  Parts(a, s)
<1>1. Agreed(s) /\ HoldInv
  BY DEF BilledInv
<1>2. Ahead(a)' = Ahead(a) \ {Item(a)}
  BY DEF Follow, Ahead
<1>3. Fresh(a, s)'
  <2>1. CASE actor'[a].pc \notin {"issue", "call", "write"}
    BY <2>1, FreshOfQuiet
  <2>2. CASE actor'[a].pc \in {"issue", "call", "write"}
    <3>1. a \notin Hand /\ actor'[a].pc = "call" /\ actor'[a].act = actor[a].act
      BY <2>2, RestIs DEF Follow
    <3>2. a \in Run
      BY <3>1 DEF Actor
    <3>3. actor[a].pc \in {"call", "write"}
      BY <1>1, <3>1, HandAt
    <3>4. s \in Ahead(a) => svc[s].status \in Alive /\ (actor[a].act = "suspend" => svc[s].due < day)
      BY <1>1, <3>2, <3>3 DEF Agreed, Fresh
    <3>5. day \in Nat /\ day' \in Nat /\ svc[s].due \in Nat
      BY <1>1 DEF HoldInv, SubTypes, SvcKind
    <3>6. s \in Ahead(a)' => svc'[s].status \in Alive /\ (actor'[a].act = "suspend" => svc'[s].due < day')
      BY <1>2, <3>1, <3>4, <3>5 DEF SameRow, SameDates
    <3> QED BY <3>1, <3>6 DEF Fresh, On
  <2> QED BY <2>1, <2>2
<1>4. ASSUME NEW i \in DOMAIN bill, a \in Hand, Owes(a, i, s) PROVE Owes(a, i, s)'
  <2>1. s \in Ahead(a) /\ s \in Ahead(a)' /\ Ahead(a) # {Item(a)}
    BY <1>2, <1>4 DEF Owes
  <2> QED BY <1>4, <2>1 DEF Follow, Owes, On
<1> QED BY <1>3, <1>4 DEF Parts, CallsOn, Ends, Unlocks, Calls, LeavesLine

-----------------------------------------------------------------------------
\* Invoices that stay as they are, but one that is settled, and one that is new.
LEMMA RenewalsAsTheyAre ==
  ASSUME NEW s, \A i \in DOMAIN bill' : \/ i \in DOMAIN bill /\ bill'[i] = bill[i]
                                        \/ bill'[i].kind # "renewal"
  PROVE  RenewalsAge(s)
BY DEF RenewalsAge, Renewal, Bills

LEMMA UpgradesAsTheyAre ==
  ASSUME NEW s \in Service, UpgradeKnown(s), svc'[s].pending = svc[s].pending, HoldInv,
         \A i \in DOMAIN bill' : \/ i \in DOMAIN bill /\ bill'[i] = bill[i]
                                 \/ bill'[i].kind # "upgrade"
                                 \/ bill'[i].status # "unpaid",
         DOMAIN bill \subseteq DOMAIN bill',
         \A i \in DOMAIN bill : bill[i].status # "unpaid" => bill'[i].status # "unpaid",
         \A h \in Hand : actor'[h].pc = "switch" => actor'[h] = actor[h]
  PROVE  UpgradeKnown(s)'
<1>1. \A i \in DOMAIN bill' : Bills(i, "upgrade", s)' /\ bill'[i].status = "unpaid" =>
             i \in DOMAIN bill /\ Bills(i, "upgrade", s) /\ bill[i].status = "unpaid"
  BY DEF Bills
<1>2. svc[s].pending # 0 => svc[s].pending \in DOMAIN bill
  <2>1. svc[s].pending \in Nat /\ svc[s].pending <= Len(bill) /\ Len(bill) \in Nat /\ DOMAIN bill = 1 .. Len(bill)
    BY DEF HoldInv, SubTypes, SvcKind
  <2> QED BY <2>1
<1>3. svc[s].pending # 0 /\ bill[svc[s].pending].status # "unpaid" => bill'[svc[s].pending].status # "unpaid"
  BY <1>2
<1> QED BY <1>1, <1>3, UpgradeGoesOn

\* What does not change, as one fact.
LEMMA Clocks ==
  ASSUME HoldInv, day' = day, misfires' = misfires
  PROVE  day <= day' /\ misfires <= misfires'
BY DEF HoldInv, SubTypes

LEMMA TouchedKept ==
  ASSUME HoldInv, NEW a, NEW s \in Service, stale' = Touched(a, s), s \notin stale'
  PROVE  s \notin stale /\ \A b \in Actor : b # a => Kept(b, s)
BY TouchedIs DEF Kept

\* a moves, and neither was nor is at the activation of a service.
LEMMA SitesOfTurn ==
  ASSUME BilledInv, OneAtATime, made' = made, NEW a \in Actor, Moves(a),
         a \in Hand => actor[a].pc \notin {"call", "write"} /\ (actor'[a].pc \in {"call", "write"} => actor'[a].act # "create"),
         \A s \in Service : svc'[s].site = svc[s].site,
         \A s \in Service : svc'[s].status \in {"none", "pending"} => svc[s].status \in {"none", "pending"},
         a \in Hand \/ \A s \in Service : svc[s].status = "pending" =>
                         svc'[s].status = "pending" /\ svc'[s].due = svc[s].due /\ svc'[s].pending = svc[s].pending,
         \A s \in Service, i \in DOMAIN bill' : Bills(i, "renewal", s)' =>
             svc[s].status \notin {"none", "pending"} \/ (i \in DOMAIN bill /\ Bills(i, "renewal", s))
  PROVE  SitesKnown'
<1>1. \A h \in Hand : h = a \/ actor'[h] = actor[h]
  BY DEF Moves, Actor
<1>2. \A h \in Hand : actor'[h].pc \in {"call", "write"} /\ actor'[h].act = "create" => actor'[h] = actor[h]
  BY <1>1
<1>3. \A h \in Hand : On(h, "write") /\ actor[h].act = "create" => actor'[h] = actor[h]
  BY <1>1 DEF On
<1>4. ASSUME NEW h \in Hand, NEW s \in Service, Creating(h, s)
      PROVE  svc'[s].status = "pending" /\ svc'[s].due = svc[s].due /\ svc'[s].pending = svc[s].pending
  <2>1. svc[s].status = "pending"
    BY <1>4 DEF BilledInv, SitesKnown, SetsUp
  <2>2. a \notin Hand
    BY <1>4, OnlyHand DEF Creating, Calls
  <2> QED BY <2>1, <2>2
<1> QED BY <1>2, <1>3, <1>4, SitesGoOn DEF BilledInv

LEMMA RenewalsStay ==
  ASSUME \A i \in DOMAIN bill' : \/ i \in DOMAIN bill /\ bill'[i].kind = bill[i].kind /\ DOMAIN bill'[i].for \subseteq DOMAIN bill[i].for
                                 \/ bill'[i].kind # "renewal"
  PROVE  \A s \in Service, i \in DOMAIN bill' : Bills(i, "renewal", s)' =>
             svc[s].status \notin {"none", "pending"} \/ (i \in DOMAIN bill /\ Bills(i, "renewal", s))
BY DEF Bills

-----------------------------------------------------------------------------
LEMMA OrderBilled ==
  ASSUME BilledInv, NEW ss \in SUBSET Service, ss # {}, Order(ss)
  PROVE  BilledInv'
<1>1. HoldInv /\ HoldInv' /\ SubTypes
  BY OrderHolds DEF BilledInv, HoldInv
<1>2. PICK f : f = [s \in ss |-> 0]
  OBVIOUS
<1>3. f \in Fors /\ DOMAIN f = ss
  <2>1. f \in [ss -> Nat]
    BY <1>2
  <2> QED BY <2>1, MakesFors
<1>4. bill' = Append(bill, Invoice("new", f)) /\ actor' = actor /\ UNCHANGED <<made, day, misfires, stale>>
      /\ \A s \in ss : svc[s].status = "none"
  BY <1>2 DEF Order
<1>5. /\ DOMAIN bill = 1 .. Len(bill) /\ DOMAIN bill' = 1 .. Len(bill) + 1 /\ Len(bill) \in Nat
      /\ \A i \in DOMAIN bill : bill'[i] = bill[i]
      /\ bill'[Len(bill) + 1].kind = "new"
  BY <1>1, <1>3, <1>4, BillAdded
<1>6. /\ \A i \in DOMAIN bill' : (i \in DOMAIN bill /\ bill'[i] = bill[i]) \/ bill'[i].kind = "new"
      /\ DOMAIN bill \subseteq DOMAIN bill'
  BY <1>5
<1>7. \A s \in Service :
         /\ svc'[s].status = IF s \in ss THEN "pending" ELSE svc[s].status
         /\ svc'[s].due = svc[s].due /\ svc'[s].billedFor = svc[s].billedFor /\ svc'[s].leaving = svc[s].leaving
         /\ svc'[s].reason = svc[s].reason /\ svc'[s].pending = svc[s].pending /\ svc'[s].site = svc[s].site
  BY <1>1, OrderIs
<1>8. SitesKnown'
  <2>1. \A s \in Service, i \in DOMAIN bill' : Bills(i, "renewal", s)' =>
             svc[s].status \notin {"none", "pending"} \/ (i \in DOMAIN bill /\ Bills(i, "renewal", s))
    BY <1>6, RenewalsStay
  <2>2. ASSUME NEW h \in Hand, NEW s \in Service, Creating(h, s)
        PROVE  svc'[s].status = "pending" /\ svc'[s].due = svc[s].due /\ svc'[s].pending = svc[s].pending
    <3>1. svc[s].status = "pending"
      BY <2>2 DEF BilledInv, SitesKnown, SetsUp
    <3> QED BY <1>4, <1>7, <3>1
  <2>3. \A s \in Service : svc'[s].status \in {"none", "pending"} => svc[s].status \in {"none", "pending"}
    BY <1>4, <1>7
  <2> QED BY <1>1, <1>4, <1>7, <2>1, <2>2, <2>3, SitesGoOn DEF BilledInv
<1>9. ASSUME NEW s \in Service PROVE UpgradeKnown(s)'
  <2>1. UpgradeKnown(s)
    BY DEF BilledInv
  <2> QED BY <1>1, <1>4, <1>6, <1>7, <2>1, UpgradesAsTheyAre
<1>10. ASSUME NEW s \in Service, s \notin stale' PROVE Agreed(s)'
  <2>1. SameRow(s) /\ SameSite(s)
    BY <1>4, <1>7 DEF SameRow, SameDates, SameSite, Alive
  <2>2. RenewalsAge(s)
    BY <1>6, RenewalsAsTheyAre
  <2> QED BY <1>1, <1>4, <1>10, <2>1, <2>2, Clocks, AgreedGoesOn
<1> QED BY <1>1, <1>8, <1>9, <1>10 DEF BilledInv

LEMMA PayBilled ==
  ASSUME BilledInv, OneAtATime, NEW h \in Hand, NEW k \in DOMAIN bill, Pay(h, k)
  PROVE  BilledInv'
<1>1. HoldInv /\ HoldInv' /\ SubTypes /\ h \in Actor /\ h \notin Run
  BY PayHolds, HandsAreNoRuns DEF BilledInv, HoldInv
<1>2. /\ Moves(h)
      /\ actor'[h].pc = "line" /\ actor'[h].job = "fulfil" /\ actor'[h].inv = k
      /\ Range(actor'[h].todo) = DOMAIN bill[k].for
  BY <1>1, PayIs
<1>3. bill' = [bill EXCEPT ![k].status = "paid"] /\ UNCHANGED <<svc, made, day, misfires, stale>> /\ bill[k].status = "unpaid"
      /\ actor[h].pc = "idle"
  BY DEF Pay, On
<1>4. PICK st \in {"unpaid", "paid", "cancelled"}, f \in BOOLEAN : st = "paid" /\ f = bill[k].settled
  <2>1. bill[k] \in BillKind
    BY <1>1 DEF SubTypes
  <2>2. bill[k].settled \in BOOLEAN
    BY <2>1 DEF BillKind
  <2>3. PICK f \in BOOLEAN : f = bill[k].settled
    BY <2>2
  <2>4. PICK st \in {"unpaid", "paid", "cancelled"} : st = "paid"
    OBVIOUS
  <2> QED BY <2>3, <2>4
<1>5. /\ DOMAIN bill' = DOMAIN bill
      /\ \A i \in DOMAIN bill : /\ bill'[i].kind = bill[i].kind /\ bill'[i].for = bill[i].for
                                /\ i # k => bill'[i] = bill[i]
      /\ bill'[k].status = st
  BY <1>1, <1>3, <1>4, BillSettled
<1>6. SitesKnown'
  <2>1. \A s \in Service, i \in DOMAIN bill' : Bills(i, "renewal", s)' =>
             svc[s].status \notin {"none", "pending"} \/ (i \in DOMAIN bill /\ Bills(i, "renewal", s))
    BY <1>5, RenewalsStay
  <2> QED BY <1>1, <1>2, <1>3, <2>1, SitesOfTurn
<1>7. ASSUME NEW s \in Service PROVE UpgradeKnown(s)'
  <2>1. UpgradeKnown(s)
    BY DEF BilledInv
  <2>2. \A g \in Hand : actor'[g].pc = "switch" => actor'[g] = actor[g]
    BY <1>2 DEF Moves, Actor
  <2>3. \A i \in DOMAIN bill' : (i \in DOMAIN bill /\ bill'[i] = bill[i]) \/ bill'[i].kind # "upgrade" \/ bill'[i].status # "unpaid"
    BY <1>4, <1>5
  <2>4. \A i \in DOMAIN bill : bill[i].status # "unpaid" => bill'[i].status # "unpaid"
    BY <1>4, <1>5
  <2> QED BY <1>1, <1>3, <1>5, <2>1, <2>2, <2>3, <2>4, UpgradesAsTheyAre
<1>8. ASSUME NEW s \in Service, s \notin stale' PROVE Agreed(s)'
  <2>1. SameRow(s) /\ SameSite(s)
    BY <1>3 DEF SameRow, SameDates, SameSite
  <2>2. RenewalsAge(s)
    <3> SUFFICES ASSUME NEW i \in DOMAIN bill', Renewal(i, s)'
                 PROVE  /\ i \in DOMAIN bill /\ Renewal(i, s) /\ bill'[i].for[s] = bill[i].for[s]
                        /\ bill'[i].status = bill[i].status \/ (bill'[i].status # "unpaid" /\ Owed(i, s)')
      BY DEF RenewalsAge
    <3>1. i \in DOMAIN bill /\ Renewal(i, s) /\ bill'[i].for[s] = bill[i].for[s]
      BY <1>3, <1>5 DEF Renewal, Bills
    <3>2. i = k => Owes(h, i, s)'
      BY <1>2, <3>1 DEF Renewal, Bills, Owes, Ahead, On
    <3> QED BY <1>4, <1>5, <3>1, <3>2 DEF Owed
  <2>3. Parts(h, s)
    BY <1>1, <1>2, <1>3, FreshOfQuiet, PartsOfIdle
  <2>4. \A b \in Actor : actor'[b] = actor[b] \/ Parts(b, s)
    BY <1>2, <2>3 DEF Moves
  <2> QED BY <1>1, <1>3, <1>8, <2>1, <2>2, <2>4, Clocks, AgreedGoesOn
<1> QED BY <1>1, <1>6, <1>7, <1>8 DEF BilledInv

LEMMA VoidBilled ==
  ASSUME BilledInv, NEW k \in DOMAIN bill, Void(k)
  PROVE  BilledInv'
<1>1. HoldInv /\ HoldInv' /\ SubTypes
  BY VoidHolds DEF BilledInv, HoldInv
<1>2. bill' = [bill EXCEPT ![k].status = "cancelled"] /\ UNCHANGED <<svc, made, actor, day, misfires, stale>>
      /\ bill[k].status = "unpaid" /\ bill[k].kind = "upgrade"
  BY DEF Void
<1>3. PICK st \in {"unpaid", "paid", "cancelled"}, f \in BOOLEAN : st = "cancelled" /\ f = bill[k].settled
  <2>1. bill[k] \in BillKind
    BY <1>1 DEF SubTypes
  <2>2. bill[k].settled \in BOOLEAN
    BY <2>1 DEF BillKind
  <2>3. PICK f \in BOOLEAN : f = bill[k].settled
    BY <2>2
  <2>4. PICK st \in {"unpaid", "paid", "cancelled"} : st = "cancelled"
    OBVIOUS
  <2> QED BY <2>3, <2>4
<1>4. /\ DOMAIN bill' = DOMAIN bill
      /\ \A i \in DOMAIN bill : /\ bill'[i].kind = bill[i].kind /\ bill'[i].for = bill[i].for
                                /\ i # k => bill'[i] = bill[i]
      /\ bill'[k].status = st
  BY <1>1, <1>2, <1>3, BillSettled
<1>5. SitesKnown'
  <2>1. \A s \in Service, i \in DOMAIN bill' : Bills(i, "renewal", s)' =>
             svc[s].status \notin {"none", "pending"} \/ (i \in DOMAIN bill /\ Bills(i, "renewal", s))
    BY <1>4, RenewalsStay
  <2>2. ASSUME NEW h \in Hand, NEW s \in Service, Creating(h, s)
        PROVE  svc'[s].status = "pending" /\ svc'[s].due = svc[s].due /\ svc'[s].pending = svc[s].pending
    BY <1>2, <2>2 DEF BilledInv, SitesKnown, SetsUp
  <2> QED BY <1>1, <1>2, <2>1, <2>2, SitesGoOn DEF BilledInv
<1>6. ASSUME NEW s \in Service PROVE UpgradeKnown(s)'
  <2>1. UpgradeKnown(s)
    BY DEF BilledInv
  <2>3. \A i \in DOMAIN bill' : (i \in DOMAIN bill /\ bill'[i] = bill[i]) \/ bill'[i].kind # "upgrade" \/ bill'[i].status # "unpaid"
    BY <1>3, <1>4
  <2>4. \A i \in DOMAIN bill : bill[i].status # "unpaid" => bill'[i].status # "unpaid"
    BY <1>3, <1>4
  <2> QED BY <1>1, <1>2, <1>4, <2>1, <2>3, <2>4, UpgradesAsTheyAre
<1>7. ASSUME NEW s \in Service, s \notin stale' PROVE Agreed(s)'
  <2>1. SameRow(s) /\ SameSite(s)
    BY <1>2 DEF SameRow, SameDates, SameSite
  <2>2. \A i \in DOMAIN bill' : (i \in DOMAIN bill /\ bill'[i] = bill[i]) \/ bill'[i].kind # "renewal"
    BY <1>2, <1>4
  <2>3. RenewalsAge(s)
    BY <2>2, RenewalsAsTheyAre
  <2> QED BY <1>1, <1>2, <1>7, <2>1, <2>3, Clocks, AgreedGoesOn
<1> QED BY <1>1, <1>5, <1>6, <1>7 DEF BilledInv

LEMMA NextDayBilled ==
  ASSUME BilledInv, NextDay
  PROVE  BilledInv'
<1>1. HoldInv /\ HoldInv' /\ SubTypes
  BY NextDayHolds DEF BilledInv, HoldInv
<1>2. UNCHANGED <<svc, bill, made, actor, misfires, stale>> /\ day' = day + 1
  BY DEF NextDay
<1>3. day <= day' /\ misfires <= misfires'
  BY <1>1, <1>2 DEF SubTypes
<1>4. SitesKnown'
  <2>1. \A s \in Service, i \in DOMAIN bill' : Bills(i, "renewal", s)' =>
             svc[s].status \notin {"none", "pending"} \/ (i \in DOMAIN bill /\ Bills(i, "renewal", s))
    BY <1>2, RenewalsStay
  <2>2. ASSUME NEW h \in Hand, NEW s \in Service, Creating(h, s)
        PROVE  svc'[s].status = "pending" /\ svc'[s].due = svc[s].due /\ svc'[s].pending = svc[s].pending
    BY <1>2, <2>2 DEF BilledInv, SitesKnown, SetsUp
  <2> QED BY <1>1, <1>2, <2>1, <2>2, SitesGoOn DEF BilledInv
<1>5. ASSUME NEW s \in Service PROVE UpgradeKnown(s)'
  BY <1>2 DEF BilledInv, UpgradeKnown, Bills, On, Item
<1>6. ASSUME NEW s \in Service, s \notin stale' PROVE Agreed(s)'
  <2>1. SameRow(s) /\ SameSite(s)
    BY <1>2 DEF SameRow, SameDates, SameSite
  <2>2. RenewalsAge(s)
    BY <1>2, RenewalsAsTheyAre
  <2> QED BY <1>1, <1>2, <1>3, <1>6, <2>1, <2>2, AgreedGoesOn
<1> QED BY <1>1, <1>4, <1>5, <1>6 DEF BilledInv

\* A step of a that changes neither rows nor invoices.
LEMMA TurnBilled ==
  ASSUME BilledInv, HoldInv', SitesKnown', NEW a \in Actor, Moves(a), UNCHANGED <<svc, bill, made, day, stale>>,
         misfires <= misfires', a \in Hand => actor'[a].pc # "switch",
         \A s \in Service \ stale : Parts(a, s)
  PROVE  BilledInv'
<1>1. HoldInv
  BY DEF BilledInv
<1>2. ASSUME NEW s \in Service PROVE UpgradeKnown(s)'
  <2>1. UpgradeKnown(s)
    BY DEF BilledInv
  <2>2. \A g \in Hand : actor'[g].pc = "switch" => actor'[g] = actor[g]
    BY DEF Moves, Actor
  <2> QED BY <1>1, <2>1, <2>2, UpgradesAsTheyAre
<1>3. ASSUME NEW s \in Service, s \notin stale' PROVE Agreed(s)'
  <2>1. SameRow(s) /\ SameSite(s)
    BY DEF SameRow, SameDates, SameSite
  <2>2. RenewalsAge(s)
    BY RenewalsAsTheyAre
  <2>3. \A b \in Actor : actor'[b] = actor[b] \/ Parts(b, s)
    BY <1>3 DEF Moves
  <2>4. day <= day'
    BY <1>1 DEF HoldInv, SubTypes
  <2> QED BY <1>3, <2>1, <2>2, <2>3, <2>4, AgreedGoesOn
<1> QED BY <1>2, <1>3 DEF BilledInv

LEMMA NoRenewalAdded ==
  ASSUME bill' = bill
  PROVE  \A s \in Service, i \in DOMAIN bill' : Bills(i, "renewal", s)' =>
             svc[s].status \notin {"none", "pending"} \/ (i \in DOMAIN bill /\ Bills(i, "renewal", s))
BY DEF Bills

LEMMA CommandBilled ==
  ASSUME BilledInv, OneAtATime, ~Eager, NEW h \in Hand, NEW s \in Service, NEW act \in Calling, Command(h, act, s)
  PROVE  BilledInv'
<1>1. HoldInv /\ HoldInv' /\ SubTypes /\ h \in Actor /\ h \notin Run
  BY CommandHolds, HandsAreNoRuns DEF BilledInv, HoldInv
<1>2. /\ Moves(h)
      /\ actor'[h].pc = "call" /\ actor'[h].todo = <<s>> /\ actor'[h].act = act
  BY <1>1, CommandIs
<1>3. UNCHANGED <<svc, bill, made, day, misfires, stale>> /\ actor[h].pc = "idle"
      /\ act # "create" /\ svc[s].status \in Alive
  BY DEF Command, Wished, On, Calling, Alive
<1>4. SitesKnown'
  BY <1>1, <1>2, <1>3, NoRenewalAdded, SitesOfTurn
<1>5. ASSUME NEW x \in Service PROVE Parts(h, x)
  <2>1. Calls(h, x)' => x = s
    BY <1>2, OneAhead DEF Calls, Item
  <2>2. Fresh(h, x)'
    BY <1>1, <1>3, <2>1 DEF Fresh
  <2> QED BY <1>1, <1>3, <2>2, PartsOfIdle
<1> QED BY <1>1, <1>2, <1>3, <1>4, <1>5, Clocks, TurnBilled

LEMMA StartRunBilled ==
  ASSUME BilledInv, OneAtATime, NEW r \in Run, StartRun(r)
  PROVE  BilledInv'
<1>1. HoldInv /\ HoldInv' /\ SubTypes /\ r \in Actor /\ r \notin Hand
  BY StartRunHolds, HandsAreNoRuns DEF BilledInv, HoldInv, Actor
<1>2. Moves(r) /\ actor'[r].pc = "list"
  BY <1>1, StartRunIs
<1>3. UNCHANGED <<svc, bill, made, day, misfires, stale>> /\ actor[r].pc = "idle"
  BY DEF StartRun, On
<1>4. SitesKnown'
  BY <1>1, <1>2, <1>3, NoRenewalAdded, SitesOfTurn
<1>5. ASSUME NEW x \in Service PROVE Parts(r, x)
  BY <1>1, <1>2, <1>3, FreshOfQuiet, PartsOfIdle
<1> QED BY <1>1, <1>2, <1>3, <1>4, <1>5, Clocks, TurnBilled

LEMMA ListBilled ==
  ASSUME BilledInv, OneAtATime, NEW r \in Actor, List(r)
  PROVE  BilledInv'
<1>1. HoldInv /\ HoldInv' /\ SubTypes
  BY ListHolds DEF BilledInv, HoldInv
<1>2. r \in Run /\ r \notin Hand /\ RunShape(r) /\ actor[r].pc = "list"
  <2>1. actor[r].pc = "list"
    BY DEF List, On
  <2> QED BY <1>1, <2>1, RunAt
<1>3. actor[r].job \in DOMAIN ActOf /\ actor[r].now <= day
  BY <1>2 DEF RunShape, On
<1>4. PICK job, found, v : job = actor[r].job /\ found = Selected(job, actor[r].now) /\ v = actor'[r]
  OBVIOUS
<1>5. /\ Moves(r)
      /\ \/ v.pc \in {"idle", "list"}
         \/ /\ v.pc = IF job = "invoice" THEN "issue" ELSE "call"
            /\ Range(v.todo) = found /\ v.act = ActOf[job]
            /\ \A s \in found : v.saw[s] = svc[s].due
  BY <1>1, <1>2, <1>3, <1>4, ListIs, RestIs
<1>6. UNCHANGED <<svc, bill, made, day, misfires, stale>>
  BY DEF List
<1>7. SitesKnown'
  BY <1>1, <1>2, <1>5, <1>6, NoRenewalAdded, SitesOfTurn
<1>8. ASSUME NEW s \in Service PROVE Parts(r, s)
  <2>1. Fresh(r, s)'
    <3>1. CASE v.pc \in {"idle", "list"}
      BY <1>4, <3>1, FreshOfQuiet
    <3>2. CASE /\ v.pc = IF job = "invoice" THEN "issue" ELSE "call"
               /\ Range(v.todo) = found /\ v.act = ActOf[job]
               /\ \A x \in found : v.saw[x] = svc[x].due
      <4>1. Ahead(r)' = found
        BY <1>4, <3>2 DEF Ahead
      <4>2. /\ svc[s].due \in Nat /\ svc[s].billedFor \in Nat /\ day \in Nat /\ actor[r].now \in Nat
            /\ SuspendAfter \in Nat
        BY <1>1, SubscriptionsBounds DEF SubTypes, SvcKind, ActorKind
      <4>3. CASE job = "invoice"
        <5>1. s \in found => svc[s].status \in Alive /\ ~svc[s].leaving /\ svc[s].billedFor < svc[s].due
          BY <1>4, <4>3 DEF Selected, Stays
        <5>2. v.pc = "issue"
          BY <3>2, <4>3
        <5> QED BY <1>2, <1>4, <1>6, <3>2, <4>1, <5>1, <5>2 DEF Fresh, On, Calls
      <4>4. CASE job # "invoice"
        <5>1. v.pc = "call"
          BY <3>2, <4>4
        <5>2. CASE job = "suspend"
          <6>1. s \in found => svc[s].status = "active" /\ svc[s].due + SuspendAfter < actor[r].now
            BY <1>4, <5>2 DEF Selected
          <6>2. s \in found => svc[s].status \in Alive /\ svc[s].due < day
            BY <1>3, <4>2, <6>1 DEF Alive
          <6> QED BY <1>2, <1>4, <1>6, <4>1, <5>1, <6>2 DEF Fresh, On, Calls
        <5>3. CASE job \in {"terminate", "leave"}
          <6>1. s \in found => svc[s].status \in Alive
            BY <1>4, <5>3 DEF Selected, EndsLeft, Alive
          <6>2. v.act # "suspend"
            BY <3>2, <5>3 DEF ActOf
          <6> QED BY <1>2, <1>4, <1>6, <4>1, <5>1, <6>1, <6>2 DEF Fresh, On, Calls
        <5> QED BY <1>3, <1>4, <4>4, <5>2, <5>3 DEF ActOf
      <4> QED BY <4>3, <4>4
    <3> QED BY <1>5, <3>1, <3>2
  <2> QED BY <1>1, <1>2, <2>1, PartsOfIdle
<1> QED BY <1>1, <1>2, <1>5, <1>6, <1>7, <1>8, Clocks, TurnBilled

\* A call that fails: the suspension it was to lift stays, unless the
\* workload is gone, and then the service is ending.
LEMMA CallFailsBilled ==
  ASSUME BilledInv, OneAtATime, NEW a \in Actor, CallFails(a)
  PROVE  BilledInv'
<1>1. HoldInv /\ HoldInv' /\ SubTypes
  BY CallFailsHolds DEF BilledInv, HoldInv
<1>2. /\ actor[a].pc = "call" /\ actor[a].act # "terminate" /\ NextItem(a)
      /\ UNCHANGED <<svc, bill, made, day, stale>>
      /\ \/ svc[Item(a)].site # 0 /\ made[svc[Item(a)].site].is = "gone" /\ actor[a].act # "create" /\ misfires' = misfires
         \/ misfires' = misfires + 1
  BY DEF CallFails, On
<1>3. actor[a].todo # <<>> /\ Item(a) \in Service /\ Item(a) \in Ahead(a)
  BY <1>1, <1>2, Caller1
<1>4. Follow(a, actor'[a])
  <2>1. IsInjective(actor[a].todo)
    BY <1>1 DEF HoldInv, ShapeOf
  <2> QED BY <1>1, <1>2, <1>3, <2>1, NextItemIs
<1>5. Moves(a) /\ (a \in Hand => actor'[a].pc \in {"line", "idle"}) /\ misfires <= misfires' /\ day <= day'
  BY <1>1, <1>2, <1>4, RestIs, HandAt, Caller1 DEF Follow, SubTypes
<1>6. SitesKnown'
  <2>1. \A h \in Hand : h # a => actor'[h] = actor[h]
    BY <1>5 DEF Moves, Actor
  <2>2. \A h \in Hand : actor'[h].pc \in {"call", "write"} /\ actor'[h].act = "create" => actor'[h] = actor[h]
    BY <1>5, <2>1
  <2>3. \A h \in Hand : On(h, "write") /\ actor[h].act = "create" => actor'[h] = actor[h]
    BY <1>2, <2>1 DEF On
  <2>4. ASSUME NEW h \in Hand, NEW s \in Service, Creating(h, s)
        PROVE  svc'[s].status = "pending" /\ svc'[s].due = svc[s].due /\ svc'[s].pending = svc[s].pending
    BY <1>2, <2>4 DEF BilledInv, SitesKnown, SetsUp
  <2> QED BY <1>1, <1>2, <2>2, <2>3, <2>4, NoRenewalAdded, SitesGoOn DEF BilledInv
<1>7. ASSUME NEW s \in Service, s \notin stale PROVE Parts(a, s)
  <2>0. Agreed(s) /\ ClaimOf(a)
    BY <1>1, <1>7 DEF BilledInv, HoldInv
  <2>1. CASE s # Item(a)
    <3>1. SameRow(s)
      BY <1>2 DEF SameRow, SameDates
    <3> QED BY <1>1, <1>2, <1>4, <1>5, <1>7, <2>1, <3>1, PartsOfFollow
  <2>2. CASE s = Item(a)
    <3>1. s \notin Ahead(a)'
      BY <1>4, <2>2 DEF Follow, Ahead
    <3>2. Fresh(a, s)'
      <4>1. CASE a \in Hand
        BY <1>5, <4>1, FreshOfQuiet
      <4>2. CASE a \notin Hand
        BY <3>1, <4>2 DEF Fresh
      <4> QED BY <4>1, <4>2
    <3>3. ASSUME a \in Hand, Unlocks(a, s) PROVE misfires' # 0 \/ Ending(s)'
      <4>1. CASE misfires' = misfires + 1
        BY <1>1, <4>1 DEF SubTypes
      <4>2. CASE svc[s].site # 0 /\ made[svc[s].site].is = "gone"
        <5>1. svc[s].status = "suspended"
          BY <1>7, <2>0, <3>3 DEF ClaimOf, Unlocks, Calls
        <5>2. Ending(s)
          BY <2>0, <4>2, <5>1 DEF Agreed, GoneEnds, Alive
        <5>3. \A b \in Actor : Ends(b, s) => actor'[b] = actor[b]
          BY <1>2, <1>5 DEF Ends, Moves
        <5> QED BY <5>2, <5>3, EndingGoesOn
      <4> QED BY <1>2, <2>2, <4>1, <4>2
    <3>4. \A i \in DOMAIN bill : ~Owes(a, i, s)
      BY <1>2, <2>2 DEF Owes, On
    <3> QED BY <1>2, <3>2, <3>3, <3>4 DEF Parts, CallsOn, Ends, On, LeavesLine
  <2> QED BY <2>1, <2>2
<1> QED BY <1>1, <1>2, <1>5, <1>6, <1>7, TurnBilled

LEMMA LeaveBilled ==
  ASSUME BilledInv, OneAtATime, NEW h \in Hand, NEW s \in Service, Leave(h, s) \/ Undo(h, s)
  PROVE  BilledInv'
<1>1. HoldInv /\ HoldInv' /\ SubTypes /\ h \in Actor /\ h \notin Run
  BY BeginHolds, HandsAreNoRuns DEF BilledInv, HoldInv
<1>2. PICK jb \in {"leave", "undo", "switch"} :
        Begins(h, jb, jb, s, 0) /\ jb \in {"leave", "undo"} /\ (jb = "leave" <=> svc'[s].leaving)
  <2>1. CASE Leave(h, s)
    <3>1. svc'[s].leaving = TRUE
      <4>1. PICK f \in BOOLEAN : f = TRUE
        OBVIOUS
      <4>2. svc' = [svc EXCEPT ![s].leaving = f]
        BY <2>1, <4>1 DEF Leave
      <4> QED BY <1>1, <4>1, <4>2, FlagIs
    <3>2. Begins(h, "leave", "leave", s, 0)
      BY <2>1 DEF Leave
    <3> QED BY <3>1, <3>2
  <2>2. CASE Undo(h, s)
    <3>1. svc'[s].leaving = FALSE
      <4>1. PICK f \in BOOLEAN : f = FALSE
        OBVIOUS
      <4>2. svc' = [svc EXCEPT ![s].leaving = f]
        BY <2>2, <4>1 DEF Undo
      <4> QED BY <1>1, <4>1, <4>2, FlagIs
    <3>2. Begins(h, "undo", "undo", s, 0)
      BY <2>2 DEF Undo
    <3> QED BY <3>1, <3>2
  <2> QED BY <2>1, <2>2
<1>3. Moves(h) /\ actor'[h].pc = jb /\ actor'[h].todo = <<s>>
  BY <1>1, <1>2, BeginsIs
<1>4. UNCHANGED <<bill, made, day, misfires>> /\ actor[h].pc = "idle" /\ stale' = Touched(h, s)
  BY DEF Leave, Undo, Wished, On
<1>5. /\ RowMoves(s)
      /\ svc'[s].status = svc[s].status /\ svc'[s].due = svc[s].due
      /\ svc'[s].billedFor = svc[s].billedFor /\ svc'[s].reason = svc[s].reason
      /\ svc'[s].pending = svc[s].pending /\ svc'[s].site = svc[s].site
  <2>1. PICK f \in BOOLEAN : svc' = [svc EXCEPT ![s].leaving = f]
    BY DEF Leave, Undo
  <2> QED BY <1>1, <2>1, FlagIs
<1>6. \A x \in Service : /\ svc'[x].status = svc[x].status /\ svc'[x].pending = svc[x].pending /\ svc'[x].site = svc[x].site
                         /\ x # s => svc'[x] = svc[x]
  BY <1>5 DEF RowMoves
<1>7. SitesKnown'
  BY <1>1, <1>2, <1>3, <1>4, <1>6, NoRenewalAdded, SitesOfTurn
<1>8. ASSUME NEW x \in Service PROVE UpgradeKnown(x)'
  <2>1. UpgradeKnown(x)
    BY DEF BilledInv
  <2>2. \A g \in Hand : actor'[g].pc = "switch" => actor'[g] = actor[g]
    BY <1>2, <1>3 DEF Moves, Actor
  <2> QED BY <1>1, <1>4, <1>6, <2>1, <2>2, UpgradesAsTheyAre
<1>9. ASSUME NEW x \in Service, x \notin stale' PROVE Agreed(x)'
  <2>1. x \notin stale
    BY <1>1, <1>4, <1>9, TouchedIs
  <2>2. RenewalsAge(x) /\ SameSite(x)
    BY <1>4, RenewalsAsTheyAre DEF SameSite
  <2>3. Parts(h, x)
    BY <1>1, <1>2, <1>3, <1>4, FreshOfQuiet, PartsOfIdle
  <2>4. CASE x # s
    <3>1. SameRow(x)
      BY <1>6, <2>4 DEF SameRow, SameDates
    <3>2. \A b \in Actor : actor'[b] = actor[b] \/ Parts(b, x)
      BY <1>3, <2>3 DEF Moves
    <3> QED BY <1>1, <1>4, <2>1, <2>2, <3>1, <3>2, Clocks, AgreedGoesOn
  <2>5. CASE x = s
    <3>1. SameDates(x)
      BY <1>5, <2>5 DEF SameDates
    <3>2. \A b \in Actor : (actor'[b] = actor[b] /\ Kept(b, x)) \/ CallsOn(b, x)
      BY <1>1, <1>3, <1>4, <1>9, <2>3, <2>5, TouchedKept DEF Moves, Parts
    <3>3. BilledOnce(x)'
      <4>1. \A g \in Hand : actor'[g] = actor[g] \/ \A i \in DOMAIN bill : Owes(g, i, x) => Owes(g, i, x)'
        BY <1>3, <2>3 DEF Moves, Actor, Parts
      <4> QED BY <1>5, <2>1, <2>2, <2>5, <4>1, OnceBut
    <3>4. Released(x)'
      <4>1. jb = "leave" => LeavesLine(h, x)'
        BY <1>3, <2>5, OneAhead DEF LeavesLine, On, Item
      <4> QED BY <1>2, <2>5, <4>1 DEF Released
    <3> QED BY <1>1, <1>4, <2>1, <2>2, <3>1, <3>2, <3>3, <3>4, Clocks, AgreedBut
  <2> QED BY <2>4, <2>5
<1> QED BY <1>1, <1>7, <1>8, <1>9 DEF BilledInv

LEMMA SwitchBilled ==
  ASSUME BilledInv, OneAtATime, NEW h \in Hand, NEW s \in Service, Switch(h, s)
  PROVE  BilledInv'
<1>1. HoldInv /\ HoldInv' /\ SubTypes /\ h \in Actor /\ h \notin Run
  BY BeginHolds, HandsAreNoRuns DEF BilledInv, HoldInv
<1>2. PICK jb \in {"leave", "undo", "switch"} : Begins(h, jb, jb, s, 0) /\ jb = "switch"
  BY DEF Switch
<1>3. Moves(h) /\ actor'[h].pc = "switch" /\ actor'[h].todo = <<s>>
  BY <1>1, <1>2, BeginsIs
<1>4. UNCHANGED <<svc, bill, made, day, misfires, stale>> /\ actor[h].pc = "idle"
      /\ (svc[s].pending # 0 => bill[svc[s].pending].status # "unpaid")
  BY DEF Switch, Wished, On, MaySwitch
<1>5. SitesKnown'
  BY <1>1, <1>3, <1>4, NoRenewalAdded, SitesOfTurn
<1>6. ASSUME NEW x \in Service PROVE UpgradeKnown(x)'
  <2>1. UpgradeKnown(x)
    BY DEF BilledInv
  <2>2. \A i \in DOMAIN bill' : Bills(i, "upgrade", x)' /\ bill'[i].status = "unpaid" => svc'[x].pending = i
    BY <1>4, <2>1 DEF UpgradeKnown, Bills
  <2>3. ASSUME NEW g \in Hand, On(g, "switch")', Item(g)' = x, svc'[x].pending # 0
        PROVE  bill'[svc'[x].pending].status # "unpaid"
    <3>1. g = h
      BY OnlyHand
    <3>2. x = s
      BY <1>3, <2>3, <3>1, OneAhead DEF Item
    <3> QED BY <1>4, <2>3, <3>2
  <2> QED BY <2>2, <2>3 DEF UpgradeKnown
<1>7. ASSUME NEW x \in Service, x \notin stale' PROVE Agreed(x)'
  <2>1. SameRow(x) /\ SameSite(x) /\ RenewalsAge(x)
    BY <1>4, RenewalsAsTheyAre DEF SameRow, SameDates, SameSite
  <2>2. Parts(h, x)
    BY <1>1, <1>3, <1>4, FreshOfQuiet, PartsOfIdle
  <2>3. \A b \in Actor : actor'[b] = actor[b] \/ Parts(b, x)
    BY <1>3, <2>2 DEF Moves
  <2> QED BY <1>1, <1>4, <1>7, <2>1, <2>3, Clocks, AgreedGoesOn
<1> QED BY <1>1, <1>5, <1>6, <1>7 DEF BilledInv

-----------------------------------------------------------------------------
\* The last step of a request about one service.
LEMMA PartsOfLast ==
  ASSUME HoldInv, NEW h \in Actor, actor[h].pc \in {"leave", "undo", "switch"}, actor'[h] = Rest, NEW s \in Service
  PROVE  /\ h \in Hand /\ h \notin Run /\ Item(h) \in Service
         /\ CallsOn(h, s) /\ \A i \in DOMAIN bill : ~Owes(h, i, s)
         /\ LeavesLine(h, s) => actor[h].pc = "leave" /\ s = Item(h)
<1>1. h \in Hand /\ h \notin Run /\ HandShape(h) /\ Item(h) \in Service /\ actor[h].todo # <<>>
  BY HandAt
<1>2. actor'[h].pc = "idle"
  BY RestIs
<1>3. Ahead(h) = {Item(h)}
  <2>1. actor[h].todo \in Seq(Service) /\ IsInjective(actor[h].todo) /\ Len(actor[h].todo) = 1
    BY <1>1 DEF HoldInv, SubTypes, ActorKind, ShapeOf, HandShape
  <2> QED BY <1>1, <2>1, RestOfList DEF Ahead, Item
<1>4. CallsOn(h, s)
  BY <1>2, FreshOfQuiet DEF CallsOn, Ends, Unlocks, Calls, On
<1> QED BY <1>1, <1>3, <1>4 DEF Owes, LeavesLine, On

LEMMA LeaveLinesBilled ==
  ASSUME BilledInv, OneAtATime, NEW h \in Actor, LeaveLines(h)
  PROVE  BilledInv'
<1>1. HoldInv /\ HoldInv' /\ SubTypes /\ actor[h].pc = "leave"
  BY LeaveLinesHolds DEF BilledInv, HoldInv, LeaveLines, On
<1>2. actor' = [actor EXCEPT ![h] = Rest] /\ UNCHANGED <<svc, made, day, misfires, stale>>
  BY DEF LeaveLines
<1>3. Moves(h) /\ actor'[h] = Rest
  BY <1>1, <1>2, RestsIs
<1>4. h \in Hand /\ h \notin Run /\ Item(h) \in Service
  BY <1>1, HandAt
<1>5. PICK s \in Service : s = Item(h)
  BY <1>4
<1>6. /\ DOMAIN bill' = DOMAIN bill
      /\ \A i \in DOMAIN bill :
           \/ ~(Bills(i, "renewal", s) /\ bill[i].status = "unpaid") /\ bill'[i] = bill[i]
           \/ /\ Bills(i, "renewal", s) /\ bill[i].status = "unpaid"
              /\ bill'[i].kind = bill[i].kind /\ bill'[i].status \in {"unpaid", "cancelled"}
              /\ DOMAIN bill'[i].for = DOMAIN bill[i].for \ {s}
              /\ \A x \in DOMAIN bill'[i].for : bill'[i].for[x] = bill[i].for[x]
  BY <1>1, <1>4, <1>5, LinesLeft
<1>7. actor'[h].pc = "idle"
  BY <1>3, RestIs
<1>8. SitesKnown'
  <2>1. \A i \in DOMAIN bill' : i \in DOMAIN bill /\ bill'[i].kind = bill[i].kind /\ DOMAIN bill'[i].for \subseteq DOMAIN bill[i].for
    BY <1>6
  <2>2. \A x \in Service, i \in DOMAIN bill' : Bills(i, "renewal", x)' =>
             svc[x].status \notin {"none", "pending"} \/ (i \in DOMAIN bill /\ Bills(i, "renewal", x))
    BY <2>1, RenewalsStay
  <2> QED BY <1>1, <1>2, <1>3, <1>7, <2>2, SitesOfTurn
<1>9. ASSUME NEW x \in Service PROVE UpgradeKnown(x)'
  <2>1. UpgradeKnown(x)
    BY DEF BilledInv
  <2>2. \A g \in Hand : actor'[g].pc = "switch" => actor'[g] = actor[g]
    BY <1>3, <1>7 DEF Moves, Actor
  <2>3. \A i \in DOMAIN bill' : (i \in DOMAIN bill /\ bill'[i] = bill[i]) \/ bill'[i].kind # "upgrade" \/ bill'[i].status # "unpaid"
    BY <1>6 DEF Bills
  <2>4. \A i \in DOMAIN bill : bill[i].status # "unpaid" => bill'[i].status # "unpaid"
    BY <1>6
  <2> QED BY <1>1, <1>2, <1>6, <2>1, <2>2, <2>3, <2>4, UpgradesAsTheyAre
<1>10. ASSUME NEW x \in Service, x \notin stale' PROVE Agreed(x)'
  <2>1. SameRow(x) /\ SameDates(x) /\ SameSite(x) /\ x \notin stale
    BY <1>2, <1>10 DEF SameRow, SameDates, SameSite
  <2>2. RenewalsAge(x)
    <3> SUFFICES ASSUME NEW i \in DOMAIN bill', Renewal(i, x)'
                 PROVE  /\ i \in DOMAIN bill /\ Renewal(i, x) /\ bill'[i].for[x] = bill[i].for[x]
                        /\ bill'[i].status = bill[i].status
      BY DEF RenewalsAge
    <3> QED BY <1>6 DEF Renewal, Bills
  <2>3. /\ CallsOn(h, x) /\ \A i \in DOMAIN bill : ~Owes(h, i, x)
        /\ LeavesLine(h, x) => x = Item(h)
    BY <1>1, <1>3, PartsOfLast
  <2>4. CASE x # s
    <3>1. Parts(h, x)
      BY <1>5, <2>3, <2>4 DEF Parts
    <3>2. \A b \in Actor : actor'[b] = actor[b] \/ Parts(b, x)
      BY <1>3, <3>1 DEF Moves
    <3> QED BY <1>1, <1>2, <2>1, <2>2, <3>2, Clocks, AgreedGoesOn
  <2>5. CASE x = s
    <3>1. \A b \in Actor : (actor'[b] = actor[b] /\ Kept(b, x)) \/ CallsOn(b, x)
      BY <1>2, <1>3, <2>3 DEF Moves, Kept
    <3>2. BilledOnce(x)'
      <4>1. \A g \in Hand : actor'[g] = actor[g] \/ \A i \in DOMAIN bill : Owes(g, i, x) => Owes(g, i, x)'
        BY <1>3, <2>3 DEF Moves, Actor
      <4> QED BY <1>2, <2>1, <2>2, <4>1, OnceBut
    <3>3. Released(x)'
      <4>1. ~StillBilled(x)'
        <5> SUFFICES ASSUME NEW i \in DOMAIN bill', Bills(i, "renewal", x)', bill'[i].status = "unpaid" PROVE FALSE
          BY DEF StillBilled
        <5> QED BY <1>6, <2>5 DEF Bills
      <4> QED BY <4>1 DEF Released
    <3> QED BY <1>1, <1>2, <2>1, <3>1, <3>2, <3>3, Clocks, AgreedBut
  <2> QED BY <2>4, <2>5
<1> QED BY <1>1, <1>8, <1>9, <1>10 DEF BilledInv

LEMMA UndoBilledBilled ==
  ASSUME BilledInv, OneAtATime, NEW h \in Actor, UndoBilled(h)
  PROVE  BilledInv'
<1>1. HoldInv /\ HoldInv' /\ SubTypes /\ actor[h].pc = "undo"
  BY UndoBilledHolds DEF BilledInv, HoldInv, UndoBilled, On
<1>2. actor' = [actor EXCEPT ![h] = Rest] /\ UNCHANGED <<bill, made, day, misfires, stale>>
  BY DEF UndoBilled
<1>3. Moves(h) /\ actor'[h] = Rest
  BY <1>1, <1>2, RestsIs
<1>4. h \in Hand /\ h \notin Run /\ Item(h) \in Service
  BY <1>1, HandAt
<1>5. PICK s \in Service : s = Item(h)
  BY <1>4
<1>6. /\ RowMoves(s)
      /\ svc'[s].billedFor = IF StillBilled(s) THEN svc[s].billedFor ELSE 0
      /\ svc'[s].leaving = svc[s].leaving /\ svc'[s].status = svc[s].status /\ svc'[s].due = svc[s].due
      /\ svc'[s].reason = svc[s].reason
      /\ svc'[s].pending = svc[s].pending /\ svc'[s].site = svc[s].site
  BY <1>1, <1>4, <1>5, UndoBilledIs
<1>7. actor'[h].pc = "idle"
  BY <1>3, RestIs
<1>8. \A x \in Service : /\ svc'[x].status = svc[x].status /\ svc'[x].pending = svc[x].pending /\ svc'[x].site = svc[x].site
                         /\ svc'[x].leaving = svc[x].leaving /\ svc'[x].due = svc[x].due /\ svc'[x].reason = svc[x].reason
                         /\ svc'[x].billedFor = svc[x].billedFor \/ (x = s /\ ~StillBilled(s) /\ svc'[x].billedFor = 0)
  BY <1>6 DEF RowMoves
<1>9. SitesKnown'
  BY <1>1, <1>2, <1>3, <1>4, <1>7, <1>8, NoRenewalAdded, SitesOfTurn
<1>10. ASSUME NEW x \in Service PROVE UpgradeKnown(x)'
  <2>1. UpgradeKnown(x)
    BY DEF BilledInv
  <2>2. \A g \in Hand : actor'[g].pc = "switch" => actor'[g] = actor[g]
    BY <1>3, <1>7 DEF Moves, Actor
  <2> QED BY <1>1, <1>2, <1>8, <2>1, <2>2, UpgradesAsTheyAre
<1>11. ASSUME NEW x \in Service, x \notin stale' PROVE Agreed(x)'
  <2>1. SameDates(x) /\ SameSite(x) /\ x \notin stale /\ RenewalsAge(x) /\ Agreed(x)
    BY <1>2, <1>8, <1>11, RenewalsAsTheyAre DEF SameDates, SameSite, BilledInv
  <2>2. /\ CallsOn(h, x) /\ \A i \in DOMAIN bill : ~Owes(h, i, x)
        /\ ~LeavesLine(h, x)
    BY <1>1, <1>3, PartsOfLast
  <2>3. \A b \in Actor : (actor'[b] = actor[b] /\ Kept(b, x)) \/ CallsOn(b, x)
    BY <1>3, <1>8, <2>2 DEF Moves, Kept
  <2>4. Released(x)'
    <3>1. \A g \in Hand : LeavesLine(g, x) => actor'[g] = actor[g]
      BY <1>3, <2>2 DEF Moves, Actor
    <3> QED BY <1>8, <2>1, <3>1, StillBilledBefore, ReleasedGoesOn DEF Agreed
  <2>5. BilledOnce(x)'
    <3>1. ASSUME NEW i \in DOMAIN bill, Owed(i, x) PROVE Owed(i, x)'
      <4>1. \A g \in Hand : Owes(g, i, x) => actor'[g] = actor[g] \/ Owes(g, i, x)'
        BY <1>3, <2>2 DEF Moves, Actor
      <4> QED BY <3>1, <4>1, OwedGoesOn
    <3>2. ASSUME svc'[x].billedFor # svc[x].billedFor, NEW i \in DOMAIN bill, Renewal(i, x), bill[i].for[x] = svc[x].due
          PROVE  svc[x].due = 0
      <4>1. ~StillBilled(x)
        BY <1>8, <3>2
      <4>2. ~Owed(i, x)
        BY <1>4, <2>2, OnlyHand DEF Owed
      <4>3. RenewalPast(i, x) /\ bill[i].status # "unpaid"
        BY <2>1, <3>2, <4>1 DEF Agreed, BilledOnce, StillBilled, Renewal
      <4>4. svc[x].due \in Nat
        BY <1>1 DEF SubTypes, SvcKind
      <4> QED BY <3>2, <4>2, <4>3, <4>4 DEF RenewalPast
    <3> QED BY <1>8, <2>1, <3>1, <3>2, OnceGoesOn DEF Agreed
  <2> QED BY <1>1, <1>2, <2>1, <2>3, <2>4, <2>5, Clocks, AgreedBut
<1> QED BY <1>1, <1>9, <1>10, <1>11 DEF BilledInv

LEMMA SwitchPlanBilled ==
  ASSUME BilledInv, OneAtATime, NEW h \in Actor, SwitchPlan(h)
  PROVE  BilledInv'
<1>1. HoldInv /\ HoldInv' /\ SubTypes /\ actor[h].pc = "switch"
  BY SwitchPlanHolds DEF BilledInv, HoldInv, SwitchPlan, On
<1>2. actor' = [actor EXCEPT ![h] = Rest] /\ UNCHANGED <<made, day, misfires, stale>>
  BY DEF SwitchPlan
<1>3. Moves(h) /\ actor'[h] = Rest
  BY <1>1, <1>2, RestsIs
<1>4. h \in Hand /\ h \notin Run /\ Item(h) \in Service
  BY <1>1, HandAt
<1>5. PICK s \in Service : s = Item(h)
  BY <1>4
<1>6. /\ RowMoves(s)
      /\ svc'[s].billedFor = svc[s].billedFor
      /\ svc'[s].leaving = svc[s].leaving /\ svc'[s].status = svc[s].status /\ svc'[s].due = svc[s].due
      /\ svc'[s].reason = svc[s].reason /\ svc'[s].site = svc[s].site
      /\ \/ /\ svc'[s].pending = Len(bill) + 1
            /\ \E f \in Fors : DOMAIN f = {s} /\ bill' = Append(bill, Invoice("upgrade", f))
         \/ svc'[s].pending = 0 /\ bill' = bill
  BY <1>1, <1>4, <1>5, SwitchPlanIs
<1>7. actor'[h].pc = "idle" /\ \A g \in Hand : actor'[g].pc = "idle"
  BY <1>3, <1>4, RestIs, OnlyHand
<1>8. \A x \in Service : /\ svc'[x].status = svc[x].status /\ svc'[x].site = svc[x].site
                         /\ svc'[x].leaving = svc[x].leaving /\ svc'[x].due = svc[x].due /\ svc'[x].reason = svc[x].reason
                         /\ svc'[x].billedFor = svc[x].billedFor
                         /\ x # s => svc'[x] = svc[x]
  BY <1>6 DEF RowMoves
<1>9. PICK n \in Nat : /\ svc'[s].pending = n
                       /\ \A i \in DOMAIN bill' : \/ i \in DOMAIN bill /\ bill'[i] = bill[i]
                                                  \/ i = n /\ bill'[i].kind = "upgrade" /\ DOMAIN bill'[i].for = {s}
                       /\ \A i \in DOMAIN bill : i \in DOMAIN bill' /\ bill'[i] = bill[i]
  <2>1. CASE svc'[s].pending = 0 /\ bill' = bill
    <3>1. PICK n \in Nat : n = 0
      OBVIOUS
    <3> QED BY <2>1, <3>1
  <2>2. CASE /\ svc'[s].pending = Len(bill) + 1
             /\ \E f \in Fors : DOMAIN f = {s} /\ bill' = Append(bill, Invoice("upgrade", f))
    <3>1. PICK f \in Fors : DOMAIN f = {s} /\ bill' = Append(bill, Invoice("upgrade", f))
      BY <2>2
    <3>2. PICK kind \in {"new", "renewal", "upgrade"} : kind = "upgrade"
      OBVIOUS
    <3>3. bill' = Append(bill, Invoice(kind, f))
      BY <3>1, <3>2
    <3>4. /\ Len(bill) \in Nat
          /\ DOMAIN bill = 1 .. Len(bill) /\ DOMAIN bill' = 1 .. Len(bill) + 1
          /\ \A i \in DOMAIN bill : bill'[i] = bill[i]
          /\ bill'[Len(bill) + 1].kind = kind /\ bill'[Len(bill) + 1].for = f
      BY <1>1, <3>3, BillAdded
    <3>5. PICK n \in Nat : n = Len(bill) + 1
      BY <3>4
    <3>6. \A i \in DOMAIN bill' : i \in DOMAIN bill \/ i = n
      BY <3>4, <3>5
    <3>7. \A i \in DOMAIN bill : i \in DOMAIN bill'
      BY <3>4
    <3> QED BY <2>2, <3>1, <3>2, <3>4, <3>5, <3>6, <3>7
  <2> QED BY <1>6, <2>1, <2>2
<1>10. SitesKnown'
  <2>1. \A i \in DOMAIN bill' : \/ i \in DOMAIN bill /\ bill'[i].kind = bill[i].kind /\ DOMAIN bill'[i].for \subseteq DOMAIN bill[i].for
                                \/ bill'[i].kind # "renewal"
    BY <1>9
  <2>2. \A x \in Service, i \in DOMAIN bill' : Bills(i, "renewal", x)' =>
             svc[x].status \notin {"none", "pending"} \/ (i \in DOMAIN bill /\ Bills(i, "renewal", x))
    BY <2>1, RenewalsStay
  <2> QED BY <1>1, <1>2, <1>3, <1>4, <1>7, <1>8, <2>2, SitesOfTurn
<1>11. ASSUME NEW x \in Service PROVE UpgradeKnown(x)'
  <2>1. UpgradeKnown(x)
    BY DEF BilledInv
  <2>2. \A g \in Hand : ~On(g, "switch")'
    BY <1>7 DEF On
  <2>3. ASSUME NEW i \in DOMAIN bill', Bills(i, "upgrade", x)', bill'[i].status = "unpaid" PROVE svc'[x].pending = i
    <3>1. CASE x = s
      <4>1. CASE i \in DOMAIN bill /\ bill'[i] = bill[i]
        <5>1. svc[s].pending = i
          BY <2>1, <2>3, <3>1, <4>1 DEF UpgradeKnown, Bills
        <5>2. i # 0
          <6>1. Len(bill) \in Nat /\ DOMAIN bill = 1 .. Len(bill)
            BY <1>1 DEF SubTypes
          <6> QED BY <4>1, <6>1
        <5>3. bill[i].status # "unpaid"
          BY <1>1, <1>4, <1>5, <2>1, <3>1, <5>1, <5>2 DEF UpgradeKnown, On
        <5> QED BY <2>3, <4>1, <5>3
      <4> QED BY <1>9, <3>1, <4>1
    <3>2. CASE x # s
      BY <1>8, <1>9, <2>1, <2>3, <3>2 DEF UpgradeKnown, Bills
    <3> QED BY <3>1, <3>2
  <2> QED BY <2>2, <2>3 DEF UpgradeKnown
<1>12. ASSUME NEW x \in Service, x \notin stale' PROVE Agreed(x)'
  <2>1. SameRow(x) /\ SameSite(x) /\ x \notin stale
    BY <1>2, <1>8, <1>12 DEF SameRow, SameDates, SameSite
  <2>2. RenewalsAge(x)
    <3>1. \A i \in DOMAIN bill' : (i \in DOMAIN bill /\ bill'[i] = bill[i]) \/ bill'[i].kind # "renewal"
      BY <1>9
    <3> QED BY <3>1, RenewalsAsTheyAre
  <2>3. CallsOn(h, x) /\ (\A i \in DOMAIN bill : ~Owes(h, i, x)) /\ ~LeavesLine(h, x)
    BY <1>1, <1>3, PartsOfLast
  <2>4. \A b \in Actor : actor'[b] = actor[b] \/ Parts(b, x)
    BY <1>3, <2>3 DEF Moves, Parts
  <2> QED BY <1>1, <1>2, <2>1, <2>2, <2>4, Clocks, AgreedGoesOn
<1> QED BY <1>1, <1>10, <1>11, <1>12 DEF BilledInv

LEMMA FulfilLineBilled ==
  ASSUME BilledInv, OneAtATime, NEW h \in Actor, FulfilLine(h)
  PROVE  BilledInv'
<1>1. HoldInv /\ HoldInv' /\ SubTypes
  BY FulfilLineHolds DEF BilledInv, HoldInv
<1>2. PICK s \in Service, i \in DOMAIN bill, act \in Calling \cup {"none"} :
        /\ s = Item(h) /\ i = actor[h].inv /\ h \in Hand /\ h \notin Run
        /\ actor[h].job = "fulfil" /\ bill[i].status = "paid" /\ s \in DOMAIN bill[i].for
        /\ actor[h].pc = "line" /\ actor[h].todo # <<>>
        /\ RowMoves(s)
        /\ svc'[s].status = svc[s].status /\ svc'[s].billedFor = svc[s].billedFor /\ svc'[s].leaving = svc[s].leaving
        /\ svc'[s].reason = svc[s].reason /\ svc'[s].site = svc[s].site
        /\ svc'[s].due = IF StartsLine(svc[s], i) THEN day + Cycle ELSE
                         IF RenewsLine(svc[s], i) THEN svc[s].due + Cycle ELSE svc[s].due
        /\ svc'[s].pending = IF UpgradesLine(svc[s], i) THEN 0 ELSE svc[s].pending
        /\ act = IF StartsLine(svc[s], i) THEN "create" ELSE
                 IF RenewsLine(svc[s], i) /\ svc[s].status = "suspended" /\ svc[s].reason = OVERDUE THEN "unsuspend" ELSE "none"
        /\ svc'[s] # svc[s] => stale' = Touched(h, s)
        /\ svc'[s] = svc[s] => stale' = stale
        /\ IF act = "none" THEN NextItem(h) ELSE actor' = [actor EXCEPT ![h].pc = "call", ![h].act = act]
        /\ bill' = [bill EXCEPT ![i].settled = Len(actor[h].todo) = 1]
  BY <1>1, FulfilLineIs
<1>3. PICK f : f = (Len(actor[h].todo) = 1) /\ f \in BOOLEAN
  OBVIOUS
<1>4. /\ DOMAIN bill' = DOMAIN bill
      /\ \A k \in DOMAIN bill : /\ bill'[k].kind = bill[k].kind /\ bill'[k].for = bill[k].for
                                /\ bill'[k].status = bill[k].status
  BY <1>1, <1>2, <1>3, SettledIs
<1>5. UNCHANGED <<made, day, misfires>>
  BY DEF FulfilLine
<1>6. Moves(h) /\ (act = "none" => Follow(h, actor'[h]) /\ actor'[h].pc \in {"line", "idle"}) /\
      (act # "none" => /\ actor'[h].pc = "call" /\ actor'[h].act = act /\ actor'[h].todo = actor[h].todo
                       /\ actor'[h].job = actor[h].job /\ actor'[h].inv = actor[h].inv)
  <2>1. CASE act = "none"
    <3>1. Follow(h, actor'[h])
      BY <1>1, <1>2, <2>1, NextItemIs DEF HoldInv, ShapeOf
    <3> QED BY <1>2, <2>1, <3>1, RestIs DEF Follow
  <2>2. CASE act # "none"
    BY <1>1, <1>2, <2>2, LineCalls
  <2> QED BY <2>1, <2>2
<1>7. \A x \in Service : /\ svc'[x].status = svc[x].status /\ svc'[x].site = svc[x].site
                         /\ x # s => svc'[x] = svc[x]
  BY <1>2 DEF RowMoves
<1>8. \A g \in Hand : g = h
  BY <1>2, OnlyHand
<1>9. /\ svc[s].due \in Nat /\ svc'[s].due \in Nat /\ day \in Nat /\ Cycle \in Nat /\ Cycle # 0 /\ day # 0
      /\ StartsLine(svc[s], i) => svc'[s].due # 0 /\ svc[s].status = "pending"
      /\ ~StartsLine(svc[s], i) => svc[s].due <= svc'[s].due
      /\ ~StartsLine(svc[s], i) /\ RenewsLine(svc[s], i) => svc[s].due < svc'[s].due /\ svc[s].due # 0
      /\ ~StartsLine(svc[s], i) /\ ~RenewsLine(svc[s], i) => svc'[s].due = svc[s].due
  <2>1. svc[s].due \in Nat /\ svc'[s].due \in Nat /\ day \in Nat /\ Cycle \in Nat /\ Cycle # 0 /\ day # 0
    BY <1>1, SubscriptionsBounds DEF HoldInv, SubTypes, SvcKind
  <2>2. StartsLine(svc[s], i) => svc'[s].due = day + Cycle
    BY <1>2
  <2>3. ~StartsLine(svc[s], i) /\ RenewsLine(svc[s], i) => svc'[s].due = svc[s].due + Cycle
    BY <1>2
  <2>4. ~StartsLine(svc[s], i) /\ ~RenewsLine(svc[s], i) => svc'[s].due = svc[s].due
    BY <1>2
  <2> QED BY <2>1, <2>2, <2>3, <2>4 DEF StartsLine, RenewsLine
<1>10. SitesKnown'
  <2>1. \A k \in DOMAIN bill' : k \in DOMAIN bill /\ bill'[k].kind = bill[k].kind /\ DOMAIN bill'[k].for \subseteq DOMAIN bill[k].for
    BY <1>4
  <2>2. \A x \in Service, k \in DOMAIN bill' : Bills(k, "renewal", x)' =>
             svc[x].status \notin {"none", "pending"} \/ (k \in DOMAIN bill /\ Bills(k, "renewal", x))
    BY <2>1, RenewalsStay
  <2>3. CASE act # "create"
    BY <1>2, <1>5, <1>6, <1>7, <2>2, <2>3, SitesOfTurn
  <2>4. CASE act = "create"
    <3>0. StartsLine(svc[s], i)
      BY <1>2, <2>4
    <3>1. ASSUME NEW x \in Service PROVE NeverActive(x)' /\ (svc'[x].site # 0 => made'[svc'[x].site].of = x)
      <4>1. NeverActive(x) /\ (svc[x].site # 0 => made[svc[x].site].of = x)
        BY DEF BilledInv, SitesKnown
      <4>2. ASSUME svc'[x].status \in {"none", "pending"}, NEW k \in DOMAIN bill' PROVE ~Bills(k, "renewal", x)'
        BY <1>7, <2>2, <4>1, <4>2 DEF NeverActive
      <4> QED BY <1>5, <1>7, <4>1, <4>2 DEF NeverActive
    <3>2. ASSUME NEW g \in Hand, NEW x \in Service PROVE SetsUp(g, x)'
      <4>1. g = h
        BY <1>8
      <4>2. Calls(h, x)' => x = s
        BY <1>2, <1>6, <2>4 DEF Calls, Item
      <4>3. ~On(h, "write")'
        BY <1>6, <2>4 DEF On
      <4> QED BY <1>2, <1>7, <1>9, <3>0, <4>1, <4>2, <4>3 DEF SetsUp, Creating
    <3>3. ASSUME NEW w \in DOMAIN made' PROVE Accounted(w)'
      <4>1. made[w] \in MadeKind /\ w \in DOMAIN made
        BY <1>1, <1>5 DEF SubTypes
      <4>2. made[w].of \in Service
        BY <4>1 DEF MadeKind
      <4>3. Accounted(w)
        BY <4>1 DEF BilledInv, SitesKnown
      <4>4. \A g \in Hand : ~On(g, "write")
        BY <1>2, <1>8 DEF On
      <4> QED BY <1>5, <1>7, <4>2, <4>3, <4>4 DEF Accounted
    <3> QED BY <3>1, <3>2, <3>3 DEF SitesKnown
  <2> QED BY <2>3, <2>4
<1>11. ASSUME NEW x \in Service PROVE UpgradeKnown(x)'
  <2>1. UpgradeKnown(x)
    BY DEF BilledInv
  <2>2. \A g \in Hand : ~On(g, "switch")'
    BY <1>6, <1>8 DEF On
  <2>3. ASSUME NEW k \in DOMAIN bill', Bills(k, "upgrade", x)', bill'[k].status = "unpaid" PROVE svc'[x].pending = k
    <3>1. k \in DOMAIN bill /\ Bills(k, "upgrade", x) /\ bill[k].status = "unpaid"
      BY <1>4, <2>3 DEF Bills
    <3>2. svc[x].pending = k
      BY <2>1, <3>1 DEF UpgradeKnown
    <3>3. x = s => ~UpgradesLine(svc[s], i)
      BY <1>2, <3>1, <3>2 DEF UpgradesLine
    <3> QED BY <1>2, <1>7, <3>2, <3>3
  <2> QED BY <2>2, <2>3 DEF UpgradeKnown
<1>12. ASSUME NEW x \in Service, x \notin stale' PROVE Agreed(x)'
  <2>1. x \notin stale
    BY <1>1, <1>2, <1>12, TouchedIs
  <2>2. RenewalsAge(x) /\ Agreed(x)
    BY <1>4, <2>1 DEF RenewalsAge, Renewal, Bills, BilledInv
  <2>3. ~Ends(h, x) /\ ~Unlocks(h, x) /\ ~LeavesLine(h, x)
    BY <1>2 DEF Ends, Unlocks, Calls, LeavesLine, On
  <2>4. Fresh(h, x)'
    <3>1. act = "none" => actor'[h].pc \notin {"issue", "call", "write"}
      BY <1>6
    <3>2. act # "none" => Fresh(h, x)'
      BY <1>2, <1>6 DEF Fresh
    <3> QED BY <3>1, <3>2, FreshOfQuiet
  <2>5. CASE x # s
    <3>1. SameRow(x) /\ SameSite(x)
      BY <1>5, <1>7, <2>5 DEF SameRow, SameDates, SameSite
    <3>2. ASSUME NEW k \in DOMAIN bill, Owes(h, k, x) PROVE Owes(h, k, x)'
      <4>1. CASE act # "none"
        BY <1>2, <1>6, <2>5, <3>2, <4>1 DEF Owes, Ahead, Item, On
      <4>2. CASE act = "none"
        <5>1. Ahead(h)' = Ahead(h) \ {Item(h)}
          BY <1>6, <4>2 DEF Follow, Ahead
        <5>2. x \in Ahead(h)' /\ Ahead(h) # {Item(h)}
          BY <1>2, <2>5, <3>2, <5>1 DEF Owes
        <5> QED BY <1>2, <1>6, <3>2, <4>2, <5>2 DEF Follow, Owes, On
      <4> QED BY <4>1, <4>2
    <3>3. Parts(h, x)
      BY <2>3, <2>4, <3>2 DEF Parts, CallsOn
    <3>4. \A b \in Actor : actor'[b] = actor[b] \/ Parts(b, x)
      BY <1>6, <3>3 DEF Moves
    <3> QED BY <1>1, <1>5, <2>1, <2>2, <3>1, <3>4, Clocks, AgreedGoesOn
  <2>6. CASE x = s
    <3>1. Dated(s)'
      BY <1>2, <1>9, <2>2, <2>6 DEF Agreed, Dated
    <3>2. ASSUME NEW b \in Actor PROVE Fresh(b, s)'
      <4>1. CASE b = h
        BY <2>4, <2>6, <4>1
      <4>2. CASE b # h
        <5>1. Kept(b, s)
          <6>1. CASE svc'[s] = svc[s]
            BY <6>1 DEF Kept
          <6>2. CASE svc'[s] # svc[s]
            BY <1>1, <1>2, <1>12, <2>6, <4>2, <6>2, TouchedKept
          <6> QED BY <6>1, <6>2
        <5>2. actor'[b] = actor[b] /\ Fresh(b, s)
          BY <1>6, <2>2, <2>6, <4>2 DEF Moves, Agreed
        <5> QED BY <1>1, <1>5, <5>1, <5>2, Clocks, FreshGoesOn
      <4> QED BY <4>1, <4>2
    <3>3. Ending(s) => Ending(s)'
      <4>1. \A b \in Actor : Ends(b, s) => actor'[b] = actor[b]
        BY <1>6, <2>3, <2>6 DEF Moves
      <4> QED BY <4>1, EndingGoesOn
    <3>4. GoneEnds(s)'
      BY <1>2, <1>5, <2>2, <2>6, <3>3 DEF Agreed, GoneEnds
    <3>5. HeldRight(s)'
      <4> SUFFICES ASSUME misfires' = 0, svc'[s].status = "suspended", svc'[s].reason = OVERDUE
                   PROVE  svc'[s].due < day' \/ Lifting(s)' \/ Ending(s)'
        BY DEF HeldRight
      <4>1. svc[s].status = "suspended" /\ svc[s].reason = OVERDUE /\ ~StartsLine(svc[s], i)
        BY <1>2 DEF StartsLine
      <4>2. CASE RenewsLine(svc[s], i)
        <5>1. act = "unsuspend"
          BY <1>2, <4>1, <4>2
        <5>2. Unlocks(h, s)'
          BY <1>2, <1>6, <5>1 DEF Unlocks, Calls, Item
        <5> QED BY <1>2, <5>2 DEF Lifting
      <4>3. CASE ~RenewsLine(svc[s], i)
        <5>1. svc'[s].due = svc[s].due
          BY <1>9, <4>1, <4>3
        <5>2. ~Lifting(s)
          BY <1>8, <2>3, <2>6 DEF Lifting
        <5> QED BY <1>5, <2>2, <2>6, <3>3, <4>1, <5>1, <5>2 DEF Agreed, HeldRight
      <4> QED BY <4>2, <4>3
    <3>6. Released(s)'
      <4>1. \A g \in Hand : LeavesLine(g, s) => actor'[g] = actor[g]
        BY <1>8, <2>3, <2>6
      <4> QED BY <1>2, <2>2, <2>6, <4>1, StillBilledBefore, ReleasedGoesOn DEF Agreed
    <3>7. BilledOnce(s)'
      <4>1. ASSUME NEW k \in DOMAIN bill', Renewal(k, s)' PROVE RenewalPast(k, s)'
        <5>1. k \in DOMAIN bill /\ Renewal(k, s) /\ bill'[k].for = bill[k].for /\ bill'[k].status = bill[k].status
              /\ bill'[k].kind = bill[k].kind
          BY <1>4, <4>1 DEF Renewal, Bills
        <5>2. RenewalPast(k, s)
          BY <2>2, <2>6, <5>1 DEF Agreed, BilledOnce
        <5>3. ~StartsLine(svc[s], i)
          BY <1>9, <5>1 DEF BilledInv, SitesKnown, NeverActive, Renewal
        <5>4. bill[k].for[s] \in Nat
          <6>1. bill[k] \in BillKind
            BY <1>1, <5>1 DEF SubTypes
          <6>2. bill[k].for \in Fors
            BY <6>1 DEF BillKind
          <6> QED BY <5>1, <6>2, ForsAre DEF Renewal, Bills
        <5>5. CASE RenewsLine(svc[s], i)
          <6>1. bill[k].for[s] <= svc[s].due
            BY <1>9, <5>2, <5>4, <5>5 DEF RenewalPast, RenewsLine
          <6> QED BY <1>9, <5>1, <5>3, <5>4, <5>5, <6>1 DEF RenewalPast
        <5>6. CASE ~RenewsLine(svc[s], i)
          <6>1. svc'[s].due = svc[s].due /\ svc'[s].billedFor = svc[s].billedFor
            BY <1>2, <1>9, <5>3, <5>6
          <6>2. ASSUME Owed(k, s), svc[s].due # 0 PROVE FALSE
            <7>1. actor[h].inv = k
              BY <1>8, <6>2 DEF Owed, Owes
            <7> QED BY <1>2, <5>1, <5>6, <6>2, <7>1 DEF RenewsLine, Renewal, Bills
          <6> QED BY <5>1, <5>2, <6>1, <6>2 DEF RenewalPast
        <5> QED BY <5>5, <5>6
      <4>2. ASSUME NEW j \in DOMAIN bill', NEW k \in DOMAIN bill', Renewal(j, s)', Renewal(k, s)', bill'[j].for[s] = bill'[k].for[s]
            PROVE  j = k
        BY <2>2, <2>6, <4>2 DEF RenewalsAge, Agreed, BilledOnce
      <4> QED BY <4>1, <4>2 DEF BilledOnce
    <3> QED BY <2>6, <3>1, <3>2, <3>4, <3>5, <3>6, <3>7 DEF Agreed
  <2> QED BY <2>5, <2>6
<1> QED BY <1>1, <1>10, <1>11, <1>12 DEF BilledInv

LEMMA CallBilled ==
  ASSUME BilledInv, OneAtATime, NEW a \in Actor, Call(a)
  PROVE  BilledInv'
<1>1. HoldInv /\ HoldInv' /\ SubTypes /\ actor[a].pc = "call"
  BY CallHolds DEF BilledInv, HoldInv, Call, On
<1>2. /\ actor[a].act \in Calling
      /\ a \notin Hand => a \in Run /\ actor[a].act \in {"suspend", "terminate"}
      /\ a \in Hand => a \notin Run
      /\ Item(a) \in Service /\ Item(a) \in Ahead(a)
  BY <1>1, Caller1
<1>3. PICK s \in Service : s = Item(a)
  BY <1>2
<1>4. /\ Moves(a)
      /\ actor'[a].pc = "write" /\ actor'[a].todo = actor[a].todo /\ actor'[a].job = actor[a].job
      /\ actor'[a].inv = actor[a].inv /\ actor'[a].act = actor[a].act
      /\ actor'[a].saw.pending = svc[s].pending
      /\ actor'[a].saw.site = IF actor[a].act = "create" /\ svc[s].site = 0 THEN Len(made) + 1 ELSE svc[s].site
  BY <1>1, <1>3, CallIs
<1>5. /\ \A w \in DOMAIN made : /\ w \in DOMAIN made' /\ made'[w].of = made[w].of
                                /\ w # svc[s].site => made'[w] = made[w]
      /\ IF actor[a].act = "create" /\ svc[s].site = 0
         THEN DOMAIN made' = DOMAIN made \cup {Len(made) + 1} /\ made'[Len(made) + 1] = [of |-> s, is |-> "up"]
         ELSE DOMAIN made' = DOMAIN made
      /\ \A w \in DOMAIN made : actor[a].act # "terminate" => (made'[w].is = "gone" <=> made[w].is = "gone")
  BY <1>1, <1>2, <1>3, CallMakes
<1>6. UNCHANGED <<svc, bill, day, misfires, stale>>
  BY DEF Call
<1>7. \A x \in Service : Calls(a, x) <=> x = s
  BY <1>1, <1>3 DEF Calls
<1>8. \A x \in Service : Calls(a, x)' <=> x = s
  BY <1>3, <1>4 DEF Calls, Item
<1>9. \A x \in Service : svc[x].site # 0 => svc[x].site \in DOMAIN made /\ made[svc[x].site].of = x
  <2> SUFFICES ASSUME NEW x \in Service, svc[x].site # 0 PROVE svc[x].site \in DOMAIN made /\ made[svc[x].site].of = x
    OBVIOUS
  <2>1. svc[x].site \in Nat /\ svc[x].site <= Len(made) /\ Len(made) \in Nat /\ DOMAIN made = 1 .. Len(made)
    BY <1>1 DEF SubTypes, SvcKind
  <2>2. svc[x].site \in DOMAIN made
    BY <2>1
  <2> QED BY <2>2 DEF BilledInv, SitesKnown
<1>10. SitesKnown'
  <2>1. ASSUME NEW x \in Service PROVE NeverActive(x)' /\ (svc'[x].site # 0 => made'[svc'[x].site].of = x)
    <3>1. NeverActive(x)
      BY DEF BilledInv, SitesKnown
    <3> QED BY <1>5, <1>6, <1>9, <3>1 DEF NeverActive, Bills
  <2>2. ASSUME NEW g \in Hand, NEW x \in Service PROVE SetsUp(g, x)'
    <3> SUFFICES ASSUME Creating(g, x)' PROVE SetsUp(g, x)'
      BY DEF SetsUp
    <3>1. CASE g = a
      <4>1. x = s /\ Creating(a, s) /\ actor[a].act = "create"
        BY <1>4, <1>7, <1>8, <3>1 DEF Creating
      <4>2. svc[s].status = "pending" /\ svc[s].due # 0 /\ svc[s].site = 0
        BY <3>1, <4>1 DEF BilledInv, SitesKnown, SetsUp, NeverActive
      <4>3. actor'[a].saw.site = Len(made) + 1 /\ Len(made) + 1 \in DOMAIN made' /\ made'[Len(made) + 1] = [of |-> s, is |-> "up"]
        BY <1>4, <1>5, <4>1, <4>2
      <4>4. made'[Len(made) + 1].of = s /\ made'[Len(made) + 1].is # "gone"
        BY <4>3
      <4> QED BY <1>4, <1>6, <3>1, <4>1, <4>2, <4>3, <4>4 DEF SetsUp
    <3>2. CASE g # a
      <4>1. actor'[g] = actor[g]
        BY <1>4, <3>2 DEF Moves, Actor
      <4>2. Creating(g, x)
        BY <4>1 DEF Creating, Calls, Item
      <4>3. SetsUp(g, x) /\ NeverActive(x)
        BY DEF BilledInv, SitesKnown
      <4>4. svc[x].status = "pending" /\ svc[x].due # 0 /\ svc[x].site = 0
        BY <4>2, <4>3 DEF SetsUp, NeverActive
      <4>5. ASSUME On(g, "write") PROVE actor[g].saw.site # svc[s].site
        <5>1. actor[g].saw.site \in DOMAIN made /\ made[actor[g].saw.site].of = x
          BY <4>2, <4>3, <4>5 DEF SetsUp
        <5>2. actor[g].saw.site # 0
          <6>1. DOMAIN made = 1 .. Len(made) /\ Len(made) \in Nat
            BY <1>1 DEF SubTypes
          <6> QED BY <5>1, <6>1
        <5> QED BY <1>9, <4>4, <5>1, <5>2
      <4> QED BY <1>5, <1>6, <4>1, <4>2, <4>3, <4>5 DEF SetsUp, On
    <3> QED BY <3>1, <3>2
  <2>3. ASSUME NEW w \in DOMAIN made' PROVE Accounted(w)'
    <3>1. CASE w \in DOMAIN made
      <4>1. made[w] \in MadeKind
        BY <1>1, <3>1 DEF SubTypes
      <4>2. PICK x \in Service : x = made[w].of /\ x = made'[w].of
        BY <1>5, <3>1, <4>1 DEF MadeKind
      <4>3. Accounted(w)
        BY <3>1 DEF BilledInv, SitesKnown
      <4>4. CASE svc[x].site = w
        BY <1>6, <4>2, <4>4 DEF Accounted
      <4>5. CASE svc[x].site # w
        <5>1. PICK g \in Hand : Creating(g, x) /\ On(g, "write") /\ actor[g].saw.site = w
          BY <4>2, <4>3, <4>5 DEF Accounted
        <5>2. g # a
          BY <1>1, <5>1 DEF On
        <5>3. actor'[g] = actor[g]
          BY <1>4, <5>2 DEF Moves, Actor
        <5>4. Creating(g, x)' /\ On(g, "write")' /\ actor'[g].saw.site = w
          BY <5>1, <5>3 DEF Creating, Calls, Item, On
        <5> QED BY <4>2, <5>4 DEF Accounted
      <4> QED BY <4>4, <4>5
    <3>2. CASE w \notin DOMAIN made
      <4>1. actor[a].act = "create" /\ svc[s].site = 0 /\ w = Len(made) + 1 /\ made'[w] = [of |-> s, is |-> "up"]
        BY <1>5, <3>2
      <4>2. a \in Hand /\ made'[w].of = s /\ actor'[a].saw.site = w
        BY <1>2, <1>4, <4>1
      <4>3. Creating(a, s)' /\ On(a, "write")'
        BY <1>4, <1>8, <4>1 DEF Creating, On
      <4> QED BY <4>2, <4>3 DEF Accounted
    <3> QED BY <3>1, <3>2
  <2> QED BY <2>1, <2>2, <2>3 DEF SitesKnown
<1>11. ASSUME NEW x \in Service PROVE UpgradeKnown(x)'
  <2>1. UpgradeKnown(x)
    BY DEF BilledInv
  <2>2. \A g \in Hand : actor'[g].pc = "switch" => actor'[g] = actor[g]
    BY <1>4 DEF Moves, Actor
  <2> QED BY <1>1, <1>6, <2>1, <2>2, UpgradesAsTheyAre
<1>12. ASSUME NEW x \in Service, x \notin stale' PROVE Agreed(x)'
  <2>1. SameRow(x) /\ RenewalsAge(x) /\ x \notin stale /\ Agreed(x)
    BY <1>6, <1>12, RenewalsAsTheyAre DEF SameRow, SameDates, BilledInv
  <2>2. SameSite(x) \/ Ending(x)'
    <3>1. CASE x # s
      <4>1. svc[x].site # 0 => svc[x].site \in DOMAIN made /\ svc[x].site # svc[s].site
        BY <1>9, <3>1
      <4> QED BY <1>5, <4>1 DEF SameSite
    <3>2. CASE actor[a].act # "terminate"
      BY <1>5, <1>9, <3>2 DEF SameSite
    <3>3. CASE x = s /\ actor[a].act = "terminate"
      <4>1. Ends(a, x)'
        BY <1>3, <1>4, <3>3 DEF Ends, On, Item
      <4> QED BY <4>1 DEF Ending
    <3> QED BY <3>1, <3>2, <3>3
  <2>3. Ahead(a)' = Ahead(a)
    BY <1>4 DEF Ahead
  <2>4. Fresh(a, x)'
    <3>1. Fresh(a, x)
      BY <2>1 DEF Agreed
    <3> QED BY <1>1, <1>4, <1>6, <1>7, <1>8, <2>3, <3>1 DEF Fresh, On
  <2>5. Parts(a, x)
    <3>1. ~Ends(a, x) /\ ~LeavesLine(a, x)
      BY <1>1 DEF Ends, LeavesLine, On
    <3>2. Unlocks(a, x) => Unlocks(a, x)'
      BY <1>4, <1>7, <1>8 DEF Unlocks
    <3>3. ASSUME NEW k \in DOMAIN bill, Owes(a, k, x) PROVE Owes(a, k, x)'
      BY <1>1, <1>4, <2>3, <3>3 DEF Owes, On, Item
    <3> QED BY <2>4, <3>1, <3>2, <3>3 DEF Parts, CallsOn
  <2>6. \A b \in Actor : actor'[b] = actor[b] \/ Parts(b, x)
    BY <1>4, <2>5 DEF Moves
  <2> QED BY <1>1, <1>6, <2>1, <2>2, <2>6, Clocks, AgreedGoesOn
<1> QED BY <1>1, <1>10, <1>11, <1>12 DEF BilledInv

LEMMA WriteBilled ==
  ASSUME BilledInv, OneAtATime, NEW a \in Actor, Write(a)
  PROVE  BilledInv'
<1>1. HoldInv /\ HoldInv' /\ SubTypes
  BY WriteHolds DEF BilledInv, HoldInv
<1>2. PICK s \in Service :
        /\ s = Item(a) /\ actor[a].pc = "write" /\ actor[a].act \in Calling
        /\ actor[a].todo # <<>> /\ s \in Ahead(a)
        /\ RowMoves(s)
        /\ svc'[s].billedFor = svc[s].billedFor /\ svc'[s].leaving = svc[s].leaving
        /\ svc'[s].due = IF actor[a].act = "terminate" THEN 0 ELSE svc[s].due
        /\ svc'[s].status = IF actor[a].act = "suspend" THEN "suspended" ELSE
                            IF actor[a].act = "terminate" THEN "terminated" ELSE "active"
        /\ svc'[s].reason = IF actor[a].act = "suspend" THEN (IF a \in Run THEN OVERDUE ELSE ByStaff) ELSE
                            IF actor[a].act = "terminate" THEN svc[s].reason ELSE "none"
        /\ svc'[s].pending = IF actor[a].act = "create" THEN actor[a].saw.pending ELSE svc[s].pending
        /\ svc'[s].site = IF actor[a].act = "create" THEN actor[a].saw.site ELSE svc[s].site
        /\ stale' = Touched(a, s)
        /\ Follow(a, actor'[a])
  BY <1>1, WriteIs
<1>3. UNCHANGED <<bill, made, day, misfires>>
  BY DEF Write
<1>4. /\ a \notin Hand => a \in Run /\ RunShape(a) /\ actor[a].act \in {"suspend", "terminate"}
      /\ a \in Hand => a \notin Run /\ HandShape(a) /\ actor[a].job \in {"staff", "fulfil"}
  BY <1>1, <1>2, Caller1
<1>5. Moves(a) /\ (a \in Hand => actor'[a].pc \in {"line", "idle"}) /\ Ahead(a)' = Ahead(a) \ {s}
  BY <1>2, <1>4, RestIs DEF Follow, Ahead
<1>6. \A x \in Service : x # s => svc'[x] = svc[x]
  BY <1>2 DEF RowMoves
<1>7. Calls(a, s)
  BY <1>2 DEF Calls
<1>8. actor[a].act = "create" =>
        /\ a \in Hand /\ svc[s].status = "pending" /\ svc[s].due # 0 /\ svc[s].site = 0
        /\ actor[a].saw.site \in DOMAIN made /\ made[actor[a].saw.site].of = s /\ made[actor[a].saw.site].is # "gone"
        /\ actor[a].saw.pending = svc[s].pending
  <2> SUFFICES ASSUME actor[a].act = "create"
               PROVE  /\ a \in Hand /\ svc[s].status = "pending" /\ svc[s].due # 0 /\ svc[s].site = 0
                      /\ actor[a].saw.site \in DOMAIN made /\ made[actor[a].saw.site].of = s /\ made[actor[a].saw.site].is # "gone"
                      /\ actor[a].saw.pending = svc[s].pending
    OBVIOUS
  <2>1. a \in Hand
    BY <1>4
  <2>2. SetsUp(a, s) /\ NeverActive(s) /\ Creating(a, s) /\ On(a, "write")
    BY <1>2, <1>7, <2>1 DEF BilledInv, SitesKnown, Creating, On
  <2> QED BY <2>1, <2>2 DEF SetsUp, NeverActive
<1>9. svc'[s].pending = svc[s].pending
  BY <1>2, <1>8
<1>10. SitesKnown'
  <2>1. CASE actor[a].act = "create"
    <3>1. ASSUME NEW x \in Service PROVE NeverActive(x)' /\ (svc'[x].site # 0 => made'[svc'[x].site].of = x)
      <4>1. NeverActive(x) /\ (svc[x].site # 0 => made[svc[x].site].of = x)
        BY DEF BilledInv, SitesKnown
      <4>2. CASE x # s
        BY <1>3, <1>6, <4>1, <4>2 DEF NeverActive, Bills
      <4>3. CASE x = s
        BY <1>2, <1>3, <1>8, <2>1, <4>3 DEF NeverActive
      <4> QED BY <4>2, <4>3
    <3>2. ASSUME NEW g \in Hand, NEW x \in Service PROVE SetsUp(g, x)'
      <4>1. g = a
        BY <1>8, <2>1, OnlyHand
      <4> QED BY <1>5, <4>1 DEF SetsUp, Creating, Calls
    <3>3. ASSUME NEW w \in DOMAIN made' PROVE Accounted(w)'
      <4>1. made[w] \in MadeKind /\ w \in DOMAIN made /\ w # 0
        <5>1. DOMAIN made = 1 .. Len(made) /\ Len(made) \in Nat
          BY <1>1 DEF SubTypes
        <5>2. w \in DOMAIN made
          BY <1>3
        <5> QED BY <1>1, <5>1, <5>2 DEF SubTypes
      <4>2. PICK x \in Service : x = made[w].of
        BY <4>1 DEF MadeKind
      <4>3. Accounted(w)
        BY <4>1 DEF BilledInv, SitesKnown
      <4>4. CASE svc[x].site = w
        <5>1. x # s
          BY <1>8, <2>1, <4>1, <4>4
        <5> QED BY <1>3, <1>6, <4>2, <4>4, <5>1 DEF Accounted
      <4>5. CASE svc[x].site # w
        <5>1. PICK g \in Hand : Creating(g, x) /\ actor[g].saw.site = w
          BY <4>2, <4>3, <4>5 DEF Accounted
        <5>2. g = a /\ x = s
          BY <1>2, <1>8, <2>1, <5>1, OnlyHand DEF Creating, Calls
        <5> QED BY <1>2, <1>3, <2>1, <4>2, <5>1, <5>2 DEF Accounted
      <4> QED BY <4>4, <4>5
    <3> QED BY <3>1, <3>2, <3>3 DEF SitesKnown
  <2>2. CASE actor[a].act # "create"
    <3>1. \A x \in Service : svc'[x].site = svc[x].site
      BY <1>2, <1>6, <2>2
    <3>2. \A x \in Service : svc'[x].status \in {"none", "pending"} => svc[x].status \in {"none", "pending"}
      BY <1>2, <1>6
    <3>3. \A g \in Hand : g # a => actor'[g] = actor[g]
      BY <1>5 DEF Moves, Actor
    <3>4. \A g \in Hand : actor'[g].pc \in {"call", "write"} /\ actor'[g].act = "create" => actor'[g] = actor[g]
      BY <1>5, <3>3
    <3>5. \A g \in Hand : On(g, "write") /\ actor[g].act = "create" => actor'[g] = actor[g]
      BY <2>2, <3>3
    <3>6. ASSUME NEW g \in Hand, NEW x \in Service, Creating(g, x)
          PROVE  svc'[x].status = "pending" /\ svc'[x].due = svc[x].due /\ svc'[x].pending = svc[x].pending
      <4>1. svc[x].status = "pending"
        BY <3>6 DEF BilledInv, SitesKnown, SetsUp
      <4>2. a \notin Hand
        BY <2>2, <3>6, OnlyHand DEF Creating
      <4>3. x # s
        BY <1>2, <1>4, <4>1, <4>2 DEF RunShape
      <4> QED BY <1>6, <4>1, <4>3
    <3> QED BY <1>1, <1>3, <3>1, <3>2, <3>4, <3>5, <3>6, NoRenewalAdded, SitesGoOn DEF BilledInv
  <2> QED BY <2>1, <2>2
<1>11. ASSUME NEW x \in Service PROVE UpgradeKnown(x)'
  <2>1. UpgradeKnown(x)
    BY DEF BilledInv
  <2>2. \A g \in Hand : actor'[g].pc = "switch" => actor'[g] = actor[g]
    BY <1>5 DEF Moves, Actor
  <2>3. svc'[x].pending = svc[x].pending
    BY <1>6, <1>9
  <2> QED BY <1>1, <1>3, <2>1, <2>2, <2>3, UpgradesAsTheyAre
<1>12. ASSUME NEW x \in Service, x \notin stale' PROVE Agreed(x)'
  <2>1. x \notin stale
    BY <1>1, <1>2, <1>12, TouchedIs
  <2>2. RenewalsAge(x) /\ Agreed(x) /\ SameSite(x)
    BY <1>3, <2>1, RenewalsAsTheyAre DEF SameSite, BilledInv
  <2>3. CASE x # s
    <3>1. SameRow(x)
      BY <1>6, <2>3 DEF SameRow, SameDates
    <3>2. Parts(a, x)
      BY <1>1, <1>2, <1>3, <2>1, <2>3, <3>1, Clocks, PartsOfFollow
    <3>3. \A b \in Actor : actor'[b] = actor[b] \/ Parts(b, x)
      BY <1>5, <3>2 DEF Moves
    <3> QED BY <1>1, <1>3, <2>1, <2>2, <3>1, <3>3, Clocks, AgreedGoesOn
  <2>4. CASE x = s
    <3>1. actor[a].act # "create" => svc[s].status \in Alive
      <4>1. CASE a \in Hand /\ actor[a].job = "staff"
        BY <1>7, <2>2, <2>4, <4>1 DEF Agreed, Fresh
      <4>2. CASE a \in Hand /\ actor[a].job = "fulfil"
        <5>1. actor[a].act \in {"create", "unsuspend"}
          BY <1>2, <1>4, <4>2 DEF HandShape
        <5>2. ClaimOf(a)
          BY <1>1 DEF HoldInv
        <5> QED BY <1>7, <2>1, <2>4, <4>2, <5>1, <5>2 DEF ClaimOf, Alive
      <4>3. CASE a \notin Hand
        BY <1>2, <1>4, <2>2, <2>4, <4>3 DEF Agreed, Fresh
      <4> QED BY <1>4, <4>1, <4>2, <4>3
    <3>2. Dated(s)'
      BY <1>2, <1>8, <2>2, <2>4, <3>1 DEF Agreed, Dated, Alive
    <3>3. ASSUME NEW b \in Actor PROVE Fresh(b, s)'
      <4>1. CASE b # a
        <5>1. actor'[b] = actor[b] /\ Fresh(b, s)
          BY <1>5, <2>2, <2>4, <4>1 DEF Moves, Agreed
        <5>2. Kept(b, s)
          BY <1>1, <1>2, <1>12, <2>4, <4>1, TouchedKept
        <5> QED BY <1>1, <1>3, <5>1, <5>2, Clocks, FreshGoesOn
      <4>2. CASE b = a /\ a \in Hand
        BY <1>5, <4>2, FreshOfQuiet
      <4>3. CASE b = a /\ a \notin Hand
        <5>1. s \notin Ahead(a)'
          BY <1>5
        <5> QED BY <4>3, <5>1 DEF Fresh
      <4> QED BY <4>1, <4>2, <4>3
    <3>4. actor[a].act # "terminate" /\ Ending(s) => Ending(s)'
      <4>1. actor[a].act # "terminate" => \A b \in Actor : Ends(b, s) => actor'[b] = actor[b]
        BY <1>5 DEF Ends, Moves
      <4> QED BY <4>1, EndingGoesOn
    <3>5. GoneEnds(s)'
      <4> SUFFICES ASSUME svc'[s].status \in Alive, svc'[s].site # 0, made'[svc'[s].site].is = "gone" PROVE Ending(s)'
        BY DEF GoneEnds
      <4>1. actor[a].act # "terminate" /\ actor[a].act # "create"
        BY <1>2, <1>3, <1>8 DEF Alive
      <4>2. Ending(s)
        BY <1>2, <1>3, <2>2, <2>4, <3>1, <4>1 DEF Agreed, GoneEnds
      <4> QED BY <3>4, <4>1, <4>2
    <3>6. HeldRight(s)'
      <4> SUFFICES ASSUME svc'[s].status = "suspended", svc'[s].reason = OVERDUE PROVE svc'[s].due < day'
        BY DEF HeldRight
      <4>1. actor[a].act = "suspend" /\ svc'[s].due = svc[s].due
        BY <1>2
      <4>2. a \in Run
        BY <1>2, <4>1 DEF OVERDUE, ByStaff
      <4>3. svc[s].due < day
        BY <1>2, <2>2, <2>4, <4>1, <4>2 DEF Agreed, Fresh
      <4> QED BY <1>3, <4>1, <4>3
    <3>7. Released(s)'
      <4>1. \A g \in Hand : LeavesLine(g, s) => actor'[g] = actor[g]
        BY <1>2, <1>5 DEF LeavesLine, On, Moves, Actor
      <4> QED BY <1>2, <2>2, <2>4, <4>1, StillBilledBefore, ReleasedGoesOn DEF Agreed
    <3>8. BilledOnce(s)'
      <4>1. CASE actor[a].act # "terminate"
        <5>1. \A k \in DOMAIN bill : ~Owes(a, k, s)
          BY <1>2 DEF Owes, On
        <5>2. \A g \in Hand : actor'[g] = actor[g] \/ \A k \in DOMAIN bill : Owes(g, k, s) => Owes(g, k, s)'
          BY <1>5, <5>1 DEF Moves, Actor
        <5> QED BY <1>2, <2>1, <2>2, <2>4, <4>1, <5>2, OnceBut
      <4>2. CASE actor[a].act = "terminate"
        <5>1. svc'[s].due = 0
          BY <1>2, <4>2
        <5>2. \A k \in DOMAIN bill' : Renewal(k, s)' => RenewalPast(k, s)'
          BY <5>1 DEF RenewalPast
        <5>3. \A j, k \in DOMAIN bill' : Renewal(j, s)' /\ Renewal(k, s)' /\ bill'[j].for[s] = bill'[k].for[s] => j = k
          BY <2>2, <2>4 DEF RenewalsAge, Agreed, BilledOnce
        <5> QED BY <5>2, <5>3 DEF BilledOnce
      <4> QED BY <4>1, <4>2
    <3> QED BY <2>4, <3>2, <3>3, <3>5, <3>6, <3>7, <3>8 DEF Agreed
  <2> QED BY <2>3, <2>4
<1> QED BY <1>1, <1>10, <1>11, <1>12 DEF BilledInv

LEMMA IssueBilled ==
  ASSUME BilledInv, OneAtATime, NEW r \in Actor, Issue(r)
  PROVE  BilledInv'
<1>1. HoldInv /\ HoldInv' /\ SubTypes /\ actor[r].pc = "issue"
  BY IssueHolds DEF BilledInv, HoldInv, Issue, On
<1>2. r \in Run /\ r \notin Hand /\ RunShape(r)
  BY <1>1, RunAt
<1>3. actor[r].job = "invoice" /\ actor[r].saw \in Fors /\ DOMAIN actor[r].saw = Ahead(r)
  BY <1>1, <1>2 DEF RunShape, On
<1>4. PICK f \in Fors : f = actor[r].saw
  BY <1>3
<1>5. PICK kind \in {"new", "renewal", "upgrade"} : kind = "renewal"
  OBVIOUS
<1>6. bill' = Append(bill, Invoice(kind, f)) /\ UNCHANGED <<made, day, misfires, stale>>
  BY <1>4, <1>5 DEF Issue
<1>7. PICK n \in Nat : n = Len(bill) + 1
  BY <1>1 DEF SubTypes
<1>8. /\ \A i \in DOMAIN bill : i \in DOMAIN bill' /\ bill'[i] = bill[i]
      /\ \A i \in DOMAIN bill' : i \in DOMAIN bill \/ i = n
      /\ n \in DOMAIN bill' /\ bill'[n].kind = "renewal" /\ bill'[n].status = "unpaid" /\ bill'[n].for = f
  <2>1. /\ Len(bill) \in Nat
        /\ DOMAIN bill = 1 .. Len(bill) /\ DOMAIN bill' = 1 .. Len(bill) + 1
        /\ \A i \in DOMAIN bill : bill'[i] = bill[i]
        /\ bill'[Len(bill) + 1].kind = kind
        /\ bill'[Len(bill) + 1].status = "unpaid" /\ bill'[Len(bill) + 1].for = f
    BY <1>1, <1>6, BillAdded
  <2> QED BY <1>5, <1>7, <2>1
<1>9. \A s \in Service :
        /\ svc'[s].billedFor = IF s \in Ahead(r) THEN f[s] ELSE svc[s].billedFor
        /\ svc'[s].status = svc[s].status /\ svc'[s].due = svc[s].due /\ svc'[s].leaving = svc[s].leaving
        /\ svc'[s].reason = svc[s].reason /\ svc'[s].pending = svc[s].pending /\ svc'[s].site = svc[s].site
  BY <1>1, <1>2, <1>3, <1>4, IssueIs
<1>10. PICK w : w = actor'[r]
  OBVIOUS
<1>11. Moves(r) /\ w.pc = "list"
  <2>1. PICK v \in ActorKind : v = actor[r]
    BY <1>1 DEF SubTypes, Actor
  <2>2. PICK x : x = NextPhase(v)
    OBVIOUS
  <2>3. x \in ActorKind /\ x.pc = "list"
    BY <1>3, <2>1, <2>2, NextPhaseIs
  <2>4. actor' = [actor EXCEPT ![r] = x]
    BY <2>1, <2>2 DEF Issue
  <2>5. Moves(r) /\ actor'[r] = x
    BY <1>1, <2>3, <2>4, MovesTo
  <2> QED BY <1>10, <2>3, <2>5
<1>12. SitesKnown'
  <2>1. ASSUME NEW x \in Service, NEW i \in DOMAIN bill', Bills(i, "renewal", x)'
        PROVE  svc[x].status \notin {"none", "pending"} \/ (i \in DOMAIN bill /\ Bills(i, "renewal", x))
    <3>1. CASE i \in DOMAIN bill
      BY <1>8, <2>1, <3>1 DEF Bills
    <3>2. CASE i = n
      <4>1. x \in Ahead(r)
        BY <1>3, <1>4, <1>8, <2>1, <3>2 DEF Bills
      <4> QED BY <1>2, <4>1 DEF RunShape
    <3> QED BY <1>8, <3>1, <3>2
  <2> QED BY <1>2, <1>6, <1>9, <1>11, <2>1, SitesOfTurn
<1>13. ASSUME NEW x \in Service PROVE UpgradeKnown(x)'
  <2>1. UpgradeKnown(x)
    BY DEF BilledInv
  <2>2. \A g \in Hand : actor'[g].pc = "switch" => actor'[g] = actor[g]
    BY <1>2, <1>11 DEF Moves, Actor
  <2>3. \A i \in DOMAIN bill' : (i \in DOMAIN bill /\ bill'[i] = bill[i]) \/ bill'[i].kind # "upgrade"
    BY <1>8
  <2>4. DOMAIN bill \subseteq DOMAIN bill' /\ \A i \in DOMAIN bill : bill[i].status # "unpaid" => bill'[i].status # "unpaid"
    BY <1>8
  <2> QED BY <1>1, <1>9, <2>1, <2>2, <2>3, <2>4, UpgradesAsTheyAre
<1>14. ASSUME NEW x \in Service, x \notin stale' PROVE Agreed(x)'
  <2>1. x \notin stale /\ Agreed(x) /\ SameSite(x) /\ SameDates(x)
    BY <1>6, <1>9, <1>14 DEF SameSite, SameDates, BilledInv
  <2>2. CallsOn(r, x) /\ Parts(r, x)
    <3>1. Fresh(r, x)'
      BY <1>10, <1>11, FreshOfQuiet
    <3> QED BY <1>1, <1>2, <3>1 DEF Parts, CallsOn, Ends, On
  <2>3. CASE x \notin Ahead(r)
    <3>1. SameRow(x)
      BY <1>9, <2>1, <2>3 DEF SameRow
    <3>2. ASSUME NEW i \in DOMAIN bill', Renewal(i, x)' PROVE i \in DOMAIN bill /\ bill'[i] = bill[i]
      <4>1. i # n
        BY <1>3, <1>4, <1>8, <2>3, <3>2 DEF Renewal, Bills
      <4> QED BY <1>8, <4>1
    <3>3. RenewalsAge(x)
      BY <3>2 DEF RenewalsAge, Renewal, Bills
    <3>4. \A b \in Actor : actor'[b] = actor[b] \/ Parts(b, x)
      BY <1>11, <2>2 DEF Moves
    <3> QED BY <1>1, <1>6, <2>1, <3>1, <3>3, <3>4, Clocks, AgreedGoesOn
  <2>4. CASE x \in Ahead(r)
    <3>1. /\ svc[x].status \in Alive /\ ~svc[x].leaving
          /\ f[x] = svc[x].due /\ svc[x].billedFor < svc[x].due
      BY <1>1, <1>2, <1>4, <2>1, <2>4 DEF Agreed, Fresh, On
    <3>2. svc[x].due \in Nat /\ svc[x].billedFor \in Nat /\ svc[x].due # 0
      BY <1>1, <2>1, <3>1 DEF SubTypes, SvcKind, Agreed, Dated
    <3>3. Released(x)'
      BY <1>9, <3>1 DEF Released
    <3>4. ASSUME NEW b \in Actor PROVE (actor'[b] = actor[b] /\ Kept(b, x)) \/ CallsOn(b, x)
      <4>1. CASE b = r
        BY <2>2, <4>1
      <4>2. CASE b # r
        <5>1. b \notin Run /\ actor'[b] = actor[b]
          BY <1>2, <1>11, <4>2, OnlyRun DEF Moves
        <5>2. Kept(b, x)
          BY <1>9, <5>1 DEF Kept
        <5> QED BY <5>1, <5>2
      <4> QED BY <4>1, <4>2
    <3>5. \A i \in DOMAIN bill : Renewal(i, x) => bill[i].for[x] < svc[x].due
      BY <2>1, <3>1, <3>2 DEF Agreed, BilledOnce, RenewalPast
    <3>6. \A i \in DOMAIN bill' : Renewal(i, x)' => \/ i \in DOMAIN bill /\ Renewal(i, x) /\ bill'[i] = bill[i]
                                                    \/ i = n
      BY <1>8 DEF Renewal, Bills
    <3>7. BilledOnce(x)'
      <4>1. ASSUME NEW i \in DOMAIN bill', Renewal(i, x)' PROVE RenewalPast(i, x)'
        <5>1. CASE i \in DOMAIN bill /\ Renewal(i, x) /\ bill'[i] = bill[i]
          BY <1>9, <3>5, <5>1 DEF RenewalPast
        <5>2. CASE i = n
          BY <1>8, <1>9, <2>4, <3>1, <3>2, <5>2 DEF RenewalPast
        <5> QED BY <3>6, <4>1, <5>1, <5>2
      <4>2. ASSUME NEW i \in DOMAIN bill', NEW j \in DOMAIN bill', Renewal(i, x)', Renewal(j, x)', bill'[i].for[x] = bill'[j].for[x]
            PROVE  i = j
        <5>1. CASE i # n /\ j # n
          BY <2>1, <3>6, <4>2, <5>1 DEF Agreed, BilledOnce
        <5>2. CASE i = n /\ j # n
          BY <1>8, <3>1, <3>2, <3>5, <3>6, <4>2, <5>2
        <5>3. CASE i # n /\ j = n
          BY <1>8, <3>1, <3>2, <3>5, <3>6, <4>2, <5>3
        <5> QED BY <5>1, <5>2, <5>3
      <4> QED BY <4>1, <4>2 DEF BilledOnce
    <3> QED BY <1>1, <1>6, <2>1, <3>3, <3>4, <3>7, Clocks, AgreedBut
  <2> QED BY <2>3, <2>4
<1> QED BY <1>1, <1>12, <1>13, <1>14 DEF BilledInv

-----------------------------------------------------------------------------
LEMMA BilledInvInit == SubscriptionsInit => BilledInv
<1> SUFFICES ASSUME SubscriptionsInit PROVE BilledInv
  OBVIOUS
<1>1. HoldInv
  BY HoldInvInit
<1>2. \A a \in Actor : actor[a] = Rest
  BY DEF SubscriptionsInit
<1>3. \A a \in Actor : actor[a].pc = "idle"
  BY <1>2, RestIs
<1>4. DOMAIN bill = {} /\ DOMAIN made = {} /\ stale = {}
  BY DEF SubscriptionsInit
<1>5. PICK v : v = [status |-> "none", due |-> 0, billedFor |-> 0, leaving |-> FALSE,
                    reason |-> "none", plan |-> "small", pending |-> 0, site |-> 0]
  OBVIOUS
<1>6. v.status = "none" /\ v.leaving = FALSE /\ v.site = 0 /\ \A s \in Service : svc[s] = v
  BY <1>5 DEF SubscriptionsInit
<1>7. \A a \in Actor, s \in Service : ~Calls(a, s)
  BY <1>3 DEF Calls
<1>8. SitesKnown
  BY <1>4, <1>6, <1>7 DEF SitesKnown, NeverActive, SetsUp, Creating, Actor
<1>9. ASSUME NEW s \in Service PROVE UpgradeKnown(s)
  BY <1>3, <1>4 DEF UpgradeKnown, On, Actor
<1>10. ASSUME NEW s \in Service PROVE Agreed(s)
  <2>1. Dated(s) /\ GoneEnds(s) /\ HeldRight(s)
    BY <1>6 DEF Dated, GoneEnds, HeldRight, Alive
  <2>2. Released(s) /\ BilledOnce(s)
    BY <1>4, <1>6 DEF Released, BilledOnce
  <2>3. \A b \in Actor : Fresh(b, s)
    BY <1>3, <1>7 DEF Fresh, On
  <2> QED BY <2>1, <2>2, <2>3 DEF Agreed
<1> QED BY <1>1, <1>8, <1>9, <1>10 DEF BilledInv

LEMMA BilledInvStep ==
  ASSUME OneAtATime, ~Eager, BilledInv, [SubscriptionsNext]_subVars
  PROVE  BilledInv'
<1>1. ASSUME NEW ss \in (SUBSET Service) \ {{}}, Order(ss) PROVE BilledInv'
  BY <1>1, OrderBilled
<1>2. ASSUME NEW h \in Hand, NEW i \in DOMAIN bill, Pay(h, i) PROVE BilledInv'
  BY <1>2, PayBilled
<1>3. ASSUME NEW i \in DOMAIN bill, Void(i) PROVE BilledInv'
  BY <1>3, VoidBilled
<1>4. ASSUME NEW h \in Hand, NEW s \in Service, Leave(h, s) \/ Undo(h, s) PROVE BilledInv'
  BY <1>4, LeaveBilled
<1>5. ASSUME NEW h \in Hand, NEW s \in Service, Switch(h, s) PROVE BilledInv'
  BY <1>5, SwitchBilled
<1>6. ASSUME NEW h \in Hand, NEW s \in Service, NEW act \in {"create", "suspend", "unsuspend", "terminate"}, Command(h, act, s)
      PROVE  BilledInv'
  BY <1>6, CommandBilled DEF Calling
<1>7. ASSUME NEW r \in Run, StartRun(r) PROVE BilledInv'
  BY <1>7, StartRunBilled
<1>8. ASSUME NEW a \in Actor, Goes(a) PROVE BilledInv'
  BY <1>8, LeaveLinesBilled, UndoBilledBilled, SwitchPlanBilled, FulfilLineBilled, CallBilled, CallFailsBilled, WriteBilled,
     ListBilled, IssueBilled DEF Goes
<1>9. CASE NextDay
  BY <1>9, NextDayBilled
<1>10. CASE UNCHANGED subVars
  <2>1. HoldInv'
    BY <1>10, HoldStep DEF BilledInv
  <2>2. UNCHANGED <<svc, bill, made, actor, day, misfires, stale>>
    BY <1>10 DEF subVars
  <2>3. SitesKnown'
    <3>1. ASSUME NEW h \in Hand, NEW s \in Service, Creating(h, s)
          PROVE  svc'[s].status = "pending" /\ svc'[s].due = svc[s].due /\ svc'[s].pending = svc[s].pending
      BY <2>2, <3>1 DEF BilledInv, SitesKnown, SetsUp
    <3> QED BY <2>2, <3>1, NoRenewalAdded, SitesGoOn DEF BilledInv
  <2>4. ASSUME NEW s \in Service PROVE UpgradeKnown(s)'
    BY <2>2 DEF BilledInv, UpgradeKnown, Bills, On, Item
  <2>5. ASSUME NEW s \in Service, s \notin stale' PROVE Agreed(s)'
    <3>1. SameRow(s) /\ SameSite(s) /\ RenewalsAge(s)
      BY <2>2, RenewalsAsTheyAre DEF SameRow, SameDates, SameSite
    <3> QED BY <2>1, <2>2, <2>5, <3>1, Clocks, AgreedGoesOn DEF BilledInv
  <2> QED BY <2>1, <2>3, <2>4, <2>5 DEF BilledInv
<1> QED BY <1>1, <1>2, <1>3, <1>4, <1>5, <1>6, <1>7, <1>8, <1>9, <1>10 DEF SubscriptionsNext

\* What is agreed follows.
LEMMA BilledInvSuffices ==
  ASSUME OneAtATime, BilledInv
  PROVE  BilledAsAgreed
<1>1. HoldInv
  BY DEF BilledInv
<1>2. ASSUME NEW s \in Service, NEW a \in Actor, ~Handled(s) PROVE ~Ends(a, s) /\ ~Calls(a, s) /\ ~LeavesLine(a, s)
  <2>1. s \notin Ahead(a)
    BY <1>2 DEF Handled, Ahead
  <2>2. actor[a].pc \in {"call", "write", "leave"} => Item(a) \in Ahead(a)
    BY <1>1, Caller1, HandAt
  <2> QED BY <2>1, <2>2 DEF Ends, Calls, LeavesLine, On
<1>3. OverdueOnly
  <2> SUFFICES ASSUME NEW s \in Service \ stale, svc[s].status = "suspended", svc[s].reason = OVERDUE, ~Handled(s), misfires = 0
               PROVE  svc[s].due < day
    BY DEF OverdueOnly
  <2>1. ~Ending(s) /\ ~Lifting(s)
    BY <1>2 DEF Ending, Lifting, Unlocks, Actor
  <2> QED BY <2>1 DEF BilledInv, Agreed, HeldRight
<1>4. RenewalOnce
  <2> SUFFICES ASSUME NEW s \in Service \ stale, NEW i \in DOMAIN bill, NEW j \in DOMAIN bill,
                      Bills(i, "renewal", s), Bills(j, "renewal", s), bill[i].for[s] = bill[j].for[s],
                      "cancelled" \notin {bill[i].status, bill[j].status}
               PROVE  i = j
    BY DEF RenewalOnce
  <2> QED BY DEF BilledInv, Agreed, BilledOnce, Renewal
<1>5. LeavingNotInvoiced
  <2> SUFFICES ASSUME NEW s \in Service \ stale, svc[s].leaving, ~Handled(s) PROVE ~StillBilled(s)
    BY DEF LeavingNotInvoiced
  <2>1. ~\E h \in Hand : LeavesLine(h, s)
    BY <1>2 DEF Actor
  <2> QED BY <2>1 DEF BilledInv, Agreed, Released
<1>6. OneUpgrade
  BY DEF OneUpgrade, BilledInv, UpgradeKnown
<1>7. ActiveIsDue
  BY DEF ActiveIsDue, BilledInv, Agreed, Dated, Alive
<1>8. OneSite
  <2> SUFFICES ASSUME NEW v \in DOMAIN made, NEW w \in DOMAIN made, made[v].of = made[w].of PROVE v = w
    BY DEF OneSite
  <2>1. PICK s \in Service : s = made[v].of /\ s = made[w].of
    <3>1. made[v] \in MadeKind
      BY <1>1 DEF HoldInv, SubTypes
    <3> QED BY <3>1 DEF MadeKind
  <2>2. Accounted(v) /\ Accounted(w)
    BY DEF BilledInv, SitesKnown
  <2>3. v # 0 /\ w # 0
    <3>1. DOMAIN made = 1 .. Len(made) /\ Len(made) \in Nat
      BY <1>1 DEF HoldInv, SubTypes
    <3> QED BY <3>1
  <2>4. \A h \in Hand : Creating(h, s) => svc[s].site = 0
    BY DEF BilledInv, SitesKnown, SetsUp, NeverActive
  <2>5. \A g, h \in Hand : g = h
    BY DEF OneAtATime
  <2> QED BY <2>1, <2>2, <2>3, <2>4, <2>5 DEF Accounted
<1> QED BY <1>3, <1>4, <1>5, <1>6, <1>7, <1>8 DEF BilledAsAgreed

\* What is billed, held and due is what was agreed: a service is held for
\* overdue payment only after its due date, no period is billed twice, who
\* leaves is not billed again, of two upgrades one can be paid, what is in use
\* has a due date and one workload.  Staff activates nothing before it is paid
\* for, and one request and one run are at work at a time.
THEOREM AgreementIsKept ==
  ASSUME OneAtATime, ~Eager
  PROVE  PanelSpec => []BilledAsAgreed
<1>1. PanelInit => BilledInv
  BY BilledInvInit DEF PanelInit
<1>2. BilledInv /\ [PanelNext]_panelVars => BilledInv'
  BY PanelMovesServices, BilledInvStep
<1>3. BilledInv => BilledAsAgreed
  BY BilledInvSuffices
<1> QED BY <1>1, <1>2, <1>3, PTL DEF PanelSpec
=============================================================================
