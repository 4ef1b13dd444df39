--------------------------- MODULE WorkloadsProofs ---------------------------
(***************************************************************************)
(* What the rows of sites and their copies say of the node, for any number *)
(* of them, of requests and of failed jobs, as long as requests and reports*)
(* come one after another and people ask what the panel offers.            *)
(***************************************************************************)
EXTENDS Workloads, FiniteSetTheorems, SequenceTheorems, TLAPS

-----------------------------------------------------------------------------
(* The invariant.                                                          *)

\* What a handler may be doing.
Requests  == [op : DOMAIN JobOf, pc : {"load", "count", "insert", "write", "queue"}, todo : Seq(WorkloadId)]
Reading   == [op : {"fold"}, pc : {"read"}, todo : Seq(WorkloadId), kind : JobKind, ok : BOOLEAN]
Deciding  == [op : {"fold"}, pc : {"fold"}, todo : Seq(WorkloadId), kind : JobKind, ok : BOOLEAN,
              saw : RowStatus \cup {"none"}]

WlTypes ==
  /\ row \in [WorkloadId -> RowStatus \cup {"none"}]
  /\ parent \in [WorkloadId -> Site \cup {NoSite}]
  /\ work \in [WorkloadId -> Seq(JobKind)]
  /\ site \in [WorkloadId -> Container]
  /\ doing \in SUBSET WorkloadId
  /\ \A w \in doing : work[w] # <<>>
  /\ handler \in [Handler -> {Idle} \cup Requests \cup Reading \cup Deciding]
  /\ \A h \in Handler : handler[h] # Idle => handler[h].todo # <<>>
  /\ failed \in SUBSET WorkloadId /\ leaving \in SUBSET WorkloadId
  /\ asked \in Nat /\ failures \in Nat

Has(w, kind)  == \E i \in DOMAIN work[w] : work[w][i] = kind
OnlyEnds(w)   == \A i \in DOMAIN work[w] : work[w][i] \in {"stop", "delete"}
LastIs(w, kind) == work[w] # <<>> /\ work[w][Len(work[w])] = kind
Tends(h, w)    == \E i \in DOMAIN handler[h].todo : handler[h].todo[i] = w
Writing(w, op) == \E h \in Handler : At(h, "queue") /\ handler[h].op = op /\ Target(h) = w
RowWritten(w) == Writing(w, "create") \/ Writing(w, "copy")
Folding(h)    == handler[h].pc \in {"read", "fold"}
BeingTold(w)  == \E h \in Handler : Folding(h) /\ Target(h) = w

\* Nothing is known of a workload before its row is inserted.
Unborn ==
  \A w \in WorkloadId :
    /\ row[w] = "none" => work[w] = <<>> /\ site[w] = "absent" /\ w \notin leaving /\ parent[w] = NoSite
    /\ w \in Site => parent[w] = NoSite

\* What a request has seen of its workload is still so when it goes on.
Usual(w) == row[w] \in {"running", "stopped"} /\ w \notin leaving
Born(w)  == row[w] \notin {"none", "deleted"}
RequestHolds(h) ==
  LET op == handler[h].op  pc == handler[h].pc  w == Target(h)
  IN  /\ op = "create" => pc = "queue" /\ Len(handler[h].todo) = 1
      /\ op = "copy" => Len(handler[h].todo) = 1 /\ pc # "write"
      /\ op \in {"create", "copy"} /\ pc = "queue" =>
           row[w] = "creating" /\ work[w] = <<>> /\ w \notin leaving
      /\ op = "copy" /\ pc # "queue" => Usual(w) /\ w \in Site
      /\ op \in {"start", "stop", "update", "deploy", "push"} =>
           Usual(w) /\ pc \in {"load", "queue"} /\ Len(handler[h].todo) = 1
      /\ op \in {"suspend", "unsuspend", "delete"} => pc \in {"load", "write", "queue"}
      /\ op = "suspend" =>
           /\ \A x \in WorkloadId : Tends(h, x) => Born(x) /\ (x \in leaving => x \in Copy)
           /\ pc = "queue" => row[w] = "suspended"
           /\ w \in Site => Len(handler[h].todo) = 1
           /\ \A i \in DOMAIN handler[h].todo : i > 1 => handler[h].todo[i] \in Copy
      /\ op = "unsuspend" =>
           /\ Len(handler[h].todo) = 1
           /\ w \notin leaving /\ w \in Site
           /\ row[w] = IF pc = "queue" THEN "stopped" ELSE "suspended"
      /\ op = "delete" =>
           /\ \A x \in WorkloadId : Tends(h, x) => Born(x) /\ x \in leaving
           /\ pc = "queue" => row[w] = "deleting"

\* What the end of a job told, which is about to be written into the row.
OutcomeHolds(h) ==
  LET kind == handler[h].kind  w == Target(h)
  IN  /\ Len(handler[h].todo) = 1
      /\ row[w] # "none"
      /\ ~handler[h].ok => w \in failed
      /\ kind = "delete" => w \in leaving
      /\ handler[h].ok =>
           /\ kind \in {"create", "clone", "push", "update", "deploy"} => site[w] = "up"
           /\ kind = "start" /\ w \notin failed => site[w] = "up"
           /\ kind = "stop" => site[w] # "up"
           /\ kind = "delete" => site[w] = "absent"
      /\ handler[h].pc = "fold" => handler[h].saw = row[w]
HandlersHold ==
  \A h \in Handler :
    /\ handler[h].pc \in {"load", "count", "insert", "write", "queue"} => RequestHolds(h)
    /\ Folding(h) => OutcomeHolds(h)

\* Once its deletion is queued, a workload is only stopped or deleted again,
\* and goes with its copies.
Order ==
  /\ \A w \in WorkloadId : \A i, j \in DOMAIN work[w] :
       i < j /\ work[w][i] = "delete" => work[w][j] \in {"stop", "delete"}
  /\ \A w \in WorkloadId : Has(w, "delete") \/ row[w] \in {"deleting", "deleted"} => w \in leaving
  /\ \A c \in Copy : parent[c] \in leaving => c \in leaving

\* Where the node has no container, one is yet to be made, or was removed.
Made ==
  \A w \in WorkloadId : site[w] = "absent" /\ w \notin failed =>
    \/ row[w] = "none" \/ RowWritten(w)
    \/ work[w] # <<>> /\ Head(work[w]) \in {"create", "clone"}
    \/ w \in leaving /\ OnlyEnds(w)

\* A suspended site that is up has its stop queued, and nothing behind it.
StopComes ==
  \A w \in WorkloadId : row[w] = "suspended" =>
    /\ w \notin failed => site[w] # "up" \/ work[w] # <<>> \/ Writing(w, "suspend")
    /\ work[w] # <<>> => LastIs(w, "stop") \/ Writing(w, "suspend")

\* Between two jobs the row tells what the node has, or a job is on its way.
RowIsTrue ==
  \A w \in WorkloadId : w \notin failed /\ ~BeingTold(w) =>
    /\ row[w] = "running" => site[w] = "up"
    /\ row[w] = "stopped" => site[w] # "up" \/ work[w] # <<>> \/ Writing(w, "unsuspend")
    /\ row[w] = "deleted" => site[w] = "absent"

\* As long as nothing failed: what is to be deleted is, and copies follow their site.
NoneFailed == failures = 0 => failed = {}
Leaves ==
  failures = 0 => \A w \in leaving :
    \/ \E h \in Handler : handler[h].op = "delete" /\ Tends(h, w)
    \/ Has(w, "delete")
    \/ site[w] = "absent" /\ OnlyEnds(w)
CopiesHalt ==
  failures = 0 => \A c \in Copy : row[c] # "none" /\ parent[c] # NoSite /\ row[parent[c]] = "suspended" =>
    \/ c \in leaving \/ row[c] = "suspended"
    \/ \E h \in Handler : handler[h].op = "suspend" /\ (Tends(h, c) \/ (At(h, "queue") /\ Target(h) = parent[c]))

WlInv ==
  /\ WlTypes /\ Unborn /\ HandlersHold /\ Order /\ Made /\ StopComes /\ RowIsTrue
  /\ NoneFailed /\ Leaves /\ CopiesHalt

-----------------------------------------------------------------------------
(* Sequences.                                                              *)

LEMMA HeadAndTail ==
  ASSUME NEW S, NEW s \in Seq(S), s # <<>>
  PROVE  /\ Head(s) = s[1] /\ s[1] \in S /\ Tail(s) \in Seq(S)
         /\ Len(s) \in Nat /\ Len(s) >= 1 /\ Len(Tail(s)) = Len(s) - 1
         /\ DOMAIN s = 1..Len(s) /\ DOMAIN Tail(s) = 1..Len(s) - 1
         /\ \A i \in 1..Len(s) - 1 : Tail(s)[i] = s[i + 1]
         /\ Tail(s) # <<>> => Len(s) >= 2 /\ Tail(s)[Len(Tail(s))] = s[Len(s)]
BY HeadTailProperties, LenProperties, EmptySeq

LEMMA OneAppended ==
  ASSUME NEW S, NEW s \in Seq(S), NEW e \in S
  PROVE  /\ Append(s, e) \in Seq(S) /\ Append(s, e) # <<>>
         /\ Len(s) \in Nat /\ Len(Append(s, e)) = Len(s) + 1
         /\ DOMAIN s = 1..Len(s) /\ DOMAIN Append(s, e) = 1..Len(s) + 1
         /\ \A i \in 1..Len(s) : Append(s, e)[i] = s[i]
         /\ Append(s, e)[Len(s) + 1] = e
         /\ Head(Append(s, e)) = IF s = <<>> THEN e ELSE Head(s)
BY AppendProperties, LenProperties, HeadTailProperties, EmptySeq

LEMMA OneAlone ==
  ASSUME NEW e
  PROVE  /\ Len(<<e>>) = 1 /\ DOMAIN <<e>> = {1} /\ <<e>>[1] = e /\ Head(<<e>>) = e
         /\ <<e>> # <<>> /\ Tail(<<e>>) = <<>>
OBVIOUS

\* The copies of a site as a sequence.
LEMMA CopiesInOrder ==
  ASSUME NEW w
  PROVE  /\ SetToSeq(CopiesOf(w)) \in Seq(CopiesOf(w))
         /\ \A c : c \in CopiesOf(w)
              <=> \E i \in DOMAIN SetToSeq(CopiesOf(w)) : SetToSeq(CopiesOf(w))[i] = c
<1> DEFINE S == CopiesOf(w)  n == Cardinality(S)  f == SetToSeq(S)
<1>1. IsFiniteSet(S) /\ n \in Nat /\ ExistsBijection(1..n, S)
  <2>1. S \in SUBSET Copy
    BY DEF CopiesOf
  <2>2. IsFiniteSet(S)
    BY <2>1, FS_Subset, WorkloadsNames
  <2> QED BY <2>2, FS_CardinalityType
<1> HIDE DEF S
<1>2. \E g \in [1..n -> S] : IsInjective(g)
  BY <1>1 DEF ExistsBijection, Bijection, Injection
<1>3. f \in [1..n -> S] /\ IsInjective(f)
  BY <1>2 DEF SetToSeq
<1>4. f \in Surjection(1..n, S)
  <2>1. f \in Injection(1..n, S)
    BY <1>3 DEF Injection
  <2>2. Cardinality(1..n) = n
    BY <1>1, FS_Interval
  <2> QED BY <1>1, <2>1, <2>2, FS_Injection
<1>5. f \in Seq(S) /\ DOMAIN f = 1..n
  BY <1>1, <1>3, SeqDef
<1>6. \A c : c \in S <=> \E i \in DOMAIN f : f[i] = c
  <2>1. ASSUME NEW c \in S PROVE \E i \in DOMAIN f : f[i] = c
    BY <1>4, <1>5 DEF Surjection
  <2>2. ASSUME NEW i \in DOMAIN f PROVE f[i] \in S
    BY <1>3
  <2> QED BY <2>1, <2>2
<1> QED BY <1>5, <1>6 DEF S

-----------------------------------------------------------------------------
(* The invariant holds at first ...                                        *)

LEMMA WlInvInit ==
  ASSUME WorkloadsInit
  PROVE  WlInv
<1> USE DEF WorkloadsInit
<1>1. WlTypes
  BY EmptySeq DEF WlTypes, RowStatus, Container
<1>2. \A h \in Handler : handler[h].pc = "idle"
  BY DEF Idle
<1>3. HandlersHold
  BY <1>2 DEF HandlersHold, Folding
<1>4. \A w \in WorkloadId : ~Has(w, "delete")
  BY DEF Has
<1>5. Order
  <2>1. \A w \in WorkloadId : DOMAIN work[w] = {}
    OBVIOUS
  <2>2. \A c \in Copy : parent[c] \notin leaving
    OBVIOUS
  <2> QED BY <1>4, <2>1, <2>2 DEF Order
<1>6. Unborn /\ Made /\ StopComes /\ RowIsTrue /\ NoneFailed /\ Leaves
  BY DEF Unborn, Made, StopComes, RowIsTrue, NoneFailed, Leaves
<1>7. CopiesHalt
  BY DEF CopiesHalt, WorkloadId
<1> QED BY <1>1, <1>3, <1>5, <1>6, <1>7 DEF WlInv

-----------------------------------------------------------------------------
(* ... and each step keeps it.                                             *)

Single == \A g, h \in Handler : g = h

LEMMA Turned ==
  ASSUME WlTypes, Single, NEW h \in Handler, NEW x, handler' = [handler EXCEPT ![h] = x]
  PROVE  /\ handler'[h] = x
         /\ \A g \in Handler : g = h
         /\ x \in {Idle} \cup Requests \cup Reading \cup Deciding
              => handler' \in [Handler -> {Idle} \cup Requests \cup Reading \cup Deciding]
BY DEF WlTypes, Single

LEMMA StartStep ==
  ASSUME WlInv, NEW w \in WorkloadId, Start(w)
  PROVE  WlInv'
<1>1. UNCHANGED <<row, parent, work, site, handler, failed, leaving, asked, failures>>
  BY DEF Start
<1>2. WlTypes'
  BY DEF Start, WlInv, WlTypes
<1>3. (Unborn /\ NoneFailed)'
  BY <1>1 DEF WlInv, Unborn, NoneFailed
<1>4. HandlersHold'
  BY <1>1 DEF WlInv, HandlersHold, RequestHolds, OutcomeHolds, Folding, Target, Usual, Born, Tends
<1>5. Order'
  BY <1>1 DEF WlInv, Order, Has
<1>6. (Made /\ StopComes /\ RowIsTrue)'
  BY <1>1 DEF WlInv, Made, StopComes, RowIsTrue, RowWritten, Writing, OnlyEnds, LastIs, BeingTold, Folding, Target, At
<1>7. (Leaves /\ CopiesHalt)'
  BY <1>1 DEF WlInv, Leaves, CopiesHalt, Tends, Has, OnlyEnds, Target, At
<1> QED BY <1>2, <1>3, <1>4, <1>5, <1>6, <1>7 DEF WlInv

\* A new workload: its row, and a handler about to queue its job.
LEMMA CreateStep ==
  ASSUME WlInv, Single, NEW h \in Handler, NEW w \in Site, CreateWorkload(h, w)
  PROVE  WlInv'
<1> USE DEF WlInv
<1> DEFINE x == [op |-> "create", pc |-> "queue", todo |-> <<w>>]
<1>1. /\ handler[h].pc = "idle" /\ handler[h] = Idle
      /\ handler'[h] = x /\ \A g \in Handler : g = h
      /\ handler' \in [Handler -> {Idle} \cup Requests \cup Reading \cup Deciding]
  <2>1. handler[h].pc = "idle"
    BY DEF CreateWorkload, Free
  <2>2. handler[h] = Idle
    BY <2>1 DEF WlTypes, Requests, Reading, Deciding
  <2>3. handler' = [handler EXCEPT ![h] = x]
    BY DEF CreateWorkload, Turns
  <2>4. x \in Requests
    BY DEF Requests, WorkloadId, JobOf
  <2> QED BY <2>1, <2>2, <2>3, <2>4, Turned
<1>2. /\ row[w] = "none" /\ row' = [row EXCEPT ![w] = "creating"] /\ w \in WorkloadId
      /\ UNCHANGED <<parent, work, site, doing, failed, leaving, asked, failures>>
  BY DEF CreateWorkload, WorkloadId
<1>3. \A u \in WorkloadId : row'[u] = IF u = w THEN "creating" ELSE row[u]
  BY <1>2 DEF WlTypes
<1>4. x.op = "create" /\ x.pc = "queue" /\ x.todo = <<w>> /\ Len(x.todo) = 1 /\ Head(x.todo) = w /\ x.todo # <<>>
  BY OneAlone
<1> HIDE DEF x
<1>5. WlTypes'
  BY <1>1, <1>2, <1>4 DEF WlTypes, RowStatus
<1>6. (Unborn /\ NoneFailed /\ Order)'
  BY <1>2, <1>3 DEF Unborn, NoneFailed, Order, Has
<1>7. HandlersHold'
  <2>1. RequestHolds(h)'
    BY <1>1, <1>2, <1>3, <1>4 DEF RequestHolds, Target, Unborn
  <2> QED BY <1>1, <1>4, <2>1 DEF HandlersHold, Folding
<1>8. RowWritten(w)' /\ \A u \in WorkloadId : ~Writing(u, "suspend") /\ ~Writing(u, "unsuspend") /\ ~BeingTold(u) /\ ~RowWritten(u)
  BY <1>1, <1>4 DEF RowWritten, Writing, BeingTold, Folding, At, Target, Idle
<1>9. Made'
  BY <1>2, <1>3, <1>8 DEF Made, OnlyEnds
<1>10. (StopComes /\ RowIsTrue)'
  BY <1>2, <1>3, <1>8 DEF StopComes, RowIsTrue, LastIs
<1>11. Leaves'
  BY <1>1, <1>2, <1>4 DEF Leaves, Has, OnlyEnds, Idle
<1>12. CopiesHalt'
  BY <1>1, <1>2, <1>3, <1>4, WorkloadsNames DEF CopiesHalt, WorkloadId, WlTypes, Idle
<1> QED BY <1>5, <1>6, <1>7, <1>9, <1>10, <1>11, <1>12

\* What people ask for is still offered when the request comes.
LEMMA RequestStep ==
  ASSUME WlInv, Single, ~Rash, NEW h \in Handler, NEW w \in WorkloadId,
         NEW op \in DOMAIN JobOf \ {"create"}, Request(h, op, w)
  PROVE  WlInv'
<1> USE DEF WlInv
<1> DEFINE t == IF op = "delete" THEN Append(SetToSeq(CopiesOf(w)), w) ELSE <<w>>
           x == [op |-> op, pc |-> "load", todo |-> t]
<1>0. row[w] # "none" /\ w \notin leaving /\ Offered(op, w)
  BY DEF Request
<1>1. /\ t \in Seq(WorkloadId) /\ t # <<>>
      /\ op # "delete" => Len(t) = 1 /\ t[1] = w
      /\ \A u : (\E i \in DOMAIN t : t[i] = u) <=> u = w \/ (op = "delete" /\ u \in CopiesOf(w))
  <2>1. CASE op # "delete"
    BY <2>1, OneAlone
  <2>2. CASE op = "delete"
    <3> DEFINE s == SetToSeq(CopiesOf(w))
    <3>1. s \in Seq(WorkloadId) /\ \A c : c \in CopiesOf(w) <=> \E i \in DOMAIN s : s[i] = c
      <4>1. CopiesOf(w) \subseteq WorkloadId
        BY DEF CopiesOf, WorkloadId
      <4> QED BY <4>1, CopiesInOrder, SeqMonotonic
    <3>2. t = Append(s, w)
      BY <2>2
    <3> HIDE DEF s, t
    <3>3. /\ t \in Seq(WorkloadId) /\ t # <<>>
          /\ Len(s) \in Nat /\ DOMAIN s = 1..Len(s) /\ DOMAIN t = 1..Len(s) + 1
          /\ \A i \in 1..Len(s) : t[i] = s[i]
          /\ t[Len(s) + 1] = w
      BY <3>1, <3>2, OneAppended
    <3>4. \A u : (\E i \in DOMAIN t : t[i] = u) <=> u = w \/ (\E i \in DOMAIN s : s[i] = u)
      BY <3>3
    <3> QED BY <2>2, <3>1, <3>3, <3>4
  <2> QED BY <2>1, <2>2
<1> HIDE DEF t
<1>2. /\ handler[h].pc = "idle" /\ handler[h] = Idle
      /\ handler'[h] = x /\ \A g \in Handler : g = h
      /\ handler' \in [Handler -> {Idle} \cup Requests \cup Reading \cup Deciding]
      /\ x.op = op /\ x.pc = "load" /\ x.todo = t
  <2>1. handler[h].pc = "idle"
    BY DEF Request, Free
  <2>2. handler[h] = Idle
    BY <2>1 DEF WlTypes, Requests, Reading, Deciding
  <2>3. handler' = [handler EXCEPT ![h] = x]
    BY DEF Request, Turns, t
  <2>4. x \in Requests
    BY <1>1 DEF Requests
  <2> QED BY <2>1, <2>2, <2>3, <2>4, Turned, ZenonT(60)
<1> HIDE DEF x
<1>3. /\ UNCHANGED <<row, parent, work, site, doing, failed, failures>>
      /\ leaving' = IF op = "delete" THEN leaving \cup {w} \cup CopiesOf(w) ELSE leaving
      /\ asked' = asked + 1
      /\ w \in Copy => op \notin {"copy", "push", "suspend", "unsuspend"}
  BY DEF Request
<1>4. leaving \subseteq leaving' /\ leaving' \subseteq WorkloadId /\ \A u \in leaving' : u \in leaving \/ (op = "delete" /\ (u = w \/ u \in CopiesOf(w)))
  BY <1>3 DEF CopiesOf, WlTypes, WorkloadId
<1>5. WlTypes'
  BY <1>1, <1>2, <1>3, <1>4 DEF WlTypes
<1>6. (Unborn /\ NoneFailed)'
  BY <1>0, <1>3, <1>4, WorkloadsNames DEF Unborn, NoneFailed, CopiesOf, WorkloadId
<1>7. \A u : Tends(h, u)' <=> u = w \/ (op = "delete" /\ u \in CopiesOf(w))
  BY <1>1, <1>2 DEF Tends
<1>8. HandlersHold'
  <2>1. Target(h)' = Head(t) /\ Head(t) = t[1] /\ (op # "delete" => Target(h)' = w) /\ handler'[h].op = op
        /\ handler'[h].pc = "load" /\ handler'[h].todo = t
    BY <1>1, <1>2, HeadAndTail DEF Target
  <2>2. \A u \in CopiesOf(w) : Born(u) /\ u \in WorkloadId
    <3>1. \A u \in CopiesOf(w) : row[u] # "none"
      BY <1>0, WorkloadsNames DEF Unborn, CopiesOf, WlTypes, WorkloadId
    <3> QED BY <3>1 DEF Born, CopiesOf, WorkloadId
  <2>3. Born(w) /\ (op \notin {"suspend", "unsuspend", "delete"} => Usual(w))
        /\ (op = "unsuspend" => row[w] = "suspended")
    BY <1>0, <1>3 DEF Born, Usual, Offered, JobOf
  <2>4. op \in {"copy", "start", "stop", "update", "deploy", "push"} => Usual(w)'
    BY <1>0, <1>3, <2>3 DEF Usual
  <2>5. op \in {"copy", "push", "suspend", "unsuspend"} => w \in Site
    BY <1>3 DEF WorkloadId
  <2>6. \A u \in WorkloadId : Tends(h, u)' => Born(u)' /\ (op = "delete" => u \in leaving') /\ (op = "suspend" => u \notin leaving')
    BY <1>0, <1>3, <1>7, <2>2, <2>3 DEF Born
  <2>7. op \in {"copy", "start", "stop", "update", "deploy", "push", "suspend", "unsuspend", "delete"}
    BY DEF JobOf
  <2>8. RequestHolds(h)'
    BY <1>0, <1>1, <1>3, <2>1, <2>3, <2>4, <2>5, <2>6, <2>7 DEF RequestHolds
  <2> QED BY <1>2, <2>8 DEF HandlersHold, Folding
<1>9. Order'
  <2>1. \A c \in Copy : parent[c] \in leaving' => c \in leaving'
    <3>1. ASSUME NEW c \in Copy, parent[c] = w, op = "delete" PROVE c \in leaving'
      <4>1. CASE row[c] = "deleted"
        BY <1>4, <4>1 DEF Order, WorkloadId
      <4>2. CASE row[c] # "deleted"
        BY <1>3, <3>1, <4>2 DEF CopiesOf
      <4> QED BY <4>1, <4>2
    <3>2. ASSUME NEW c \in Copy PROVE parent[c] \notin CopiesOf(w)
      BY WorkloadsNames DEF WlTypes, CopiesOf, WorkloadId
    <3> QED BY <1>4, <3>1, <3>2 DEF Order
  <2> QED BY <1>3, <1>4, <2>1 DEF Order, Has
<1>10. \A u : RowWritten(u)' = FALSE /\ Writing(u, "suspend")' = FALSE /\ Writing(u, "unsuspend")' = FALSE
              /\ BeingTold(u)' = FALSE
              /\ ~RowWritten(u) /\ ~Writing(u, "suspend") /\ ~Writing(u, "unsuspend") /\ ~BeingTold(u)
  BY <1>2 DEF RowWritten, Writing, BeingTold, Folding, At
<1>11. (Made /\ StopComes /\ RowIsTrue)'
  BY <1>3, <1>4, <1>10 DEF Made, StopComes, RowIsTrue, OnlyEnds, LastIs
<1>12. Leaves'
  <2>1. ASSUME failures = 0, NEW u \in leaving' PROVE (handler'[h].op = "delete" /\ Tends(h, u)') \/ Has(u, "delete") \/ (site[u] = "absent" /\ OnlyEnds(u))
    <3>1. CASE u \in leaving
      BY <1>2, <2>1, <3>1 DEF Leaves, Idle
    <3>2. CASE u \notin leaving
      BY <1>2, <1>4, <1>7, <3>2
    <3> QED BY <3>1, <3>2
  <2> QED BY <1>3, <2>1 DEF Leaves, Has, OnlyEnds
<1>13. CopiesHalt'
  BY <1>2, <1>3, <1>4 DEF CopiesHalt, At, Idle
<1> QED BY <1>5, <1>6, <1>8, <1>9, <1>11, <1>12, <1>13

\* What a handler is at says which record it is.
LEMMA BusyHandler ==
  ASSUME WlTypes, NEW h \in Handler
  PROVE  /\ handler[h].pc \in {"load", "count", "insert", "write", "queue"} =>
              /\ handler[h] \in Requests /\ handler[h].todo # <<>>
              /\ handler[h].todo \in Seq(WorkloadId) /\ handler[h].op \in DOMAIN JobOf
              /\ Target(h) = handler[h].todo[1] /\ Target(h) \in WorkloadId /\ Tends(h, Target(h))
         /\ handler[h].pc = "read" => handler[h] \in Reading /\ handler[h].todo # <<>>
         /\ handler[h].pc = "fold" => handler[h] \in Deciding /\ handler[h].todo # <<>>
         /\ Folding(h) =>
              /\ handler[h].todo \in Seq(WorkloadId) /\ handler[h].op = "fold"
              /\ handler[h].kind \in JobKind /\ handler[h].ok \in BOOLEAN
              /\ Target(h) = handler[h].todo[1] /\ Target(h) \in WorkloadId /\ Tends(h, Target(h))
         /\ handler[h].pc = "idle" => handler[h] = Idle
         /\ handler[h].pc \in {"idle", "load", "count", "insert", "write", "queue", "read", "fold"}
<1> USE DEF WlTypes, Requests, Reading, Deciding, Idle
<1>1. handler[h] \in {Idle} \cup Requests \cup Reading \cup Deciding
  OBVIOUS
<1>2. handler[h] \in Requests \cup Reading \cup Deciding => handler[h].todo # <<>> /\ handler[h].todo \in Seq(WorkloadId)
  BY <1>1
<1>3. handler[h] \in Requests \cup Reading \cup Deciding =>
        Target(h) = handler[h].todo[1] /\ Target(h) \in WorkloadId /\ Tends(h, Target(h))
  BY <1>2, HeadAndTail DEF Target, Tends
<1>4. Folding(h) => handler[h] \in Reading \cup Deciding
  BY <1>1 DEF Folding
<1>5. handler[h].pc \in {"load", "count", "insert", "write", "queue"} => handler[h] \in Requests
  BY <1>1
<1>6. /\ handler[h].pc = "read" => handler[h] \in Reading
      /\ handler[h].pc = "fold" => handler[h] \in Deciding
      /\ handler[h].pc = "idle" => handler[h] = Idle
      /\ handler[h].pc \in {"idle", "load", "count", "insert", "write", "queue", "read", "fold"}
  BY <1>1
<1> QED BY <1>2, <1>3, <1>4, <1>5, <1>6

\* Ending a request that has neither written nor queued anything ...
LEMMA EndsStep ==
  ASSUME WlInv, Single, NEW h \in Handler, Ends(h),
         handler[h].op \notin {"suspend", "delete"},
         handler[h].pc \in {"load", "count", "insert"},
         UNCHANGED <<row, parent, work, site, doing, failed, leaving, asked, failures>>
  PROVE  WlInv'
<1> USE DEF WlInv
<1>1. /\ handler'[h] = Idle /\ \A g \in Handler : g = h
      /\ handler' \in [Handler -> {Idle} \cup Requests \cup Reading \cup Deciding]
  BY Turned DEF Ends
<1>2. WlTypes'
  BY <1>1 DEF WlTypes
<1>3. (Unborn /\ NoneFailed /\ Order)'
  BY DEF Unborn, NoneFailed, Order, Has
<1>4. HandlersHold'
  BY <1>1 DEF HandlersHold, Folding, Idle
<1>5. \A u : /\ ~RowWritten(u) /\ ~Writing(u, "suspend") /\ ~Writing(u, "unsuspend") /\ ~BeingTold(u)
  BY <1>1 DEF RowWritten, Writing, BeingTold, Folding, At
<1>6. (Made /\ StopComes /\ RowIsTrue)'
  BY <1>5 DEF Made, StopComes, RowIsTrue, OnlyEnds, LastIs
<1>7. (Leaves /\ CopiesHalt)'
  BY <1>1 DEF Leaves, CopiesHalt, Has, OnlyEnds
<1> QED BY <1>2, <1>3, <1>4, <1>6, <1>7

\* ... and going on with it.
LEMMA GoesOnStep ==
  ASSUME WlInv, Single, NEW h \in Handler,
         NEW pc \in {"count", "insert", "write", "queue"}, Goto(h, pc),
         handler[h].pc \in {"load", "count", "insert"},
         pc = "queue" => handler[h].op \in {"start", "stop", "update", "deploy", "push"},
         pc = "write" => handler[h].op \in {"suspend", "unsuspend", "delete"},
         pc \in {"count", "insert"} => handler[h].op = "copy",
         UNCHANGED <<row, parent, work, site, doing, failed, leaving, asked, failures>>
  PROVE  WlInv'
<1> USE DEF WlInv
<1> DEFINE x == [op |-> handler[h].op, pc |-> pc, todo |-> handler[h].todo]
<1>1. handler[h] \in Requests /\ handler[h].todo # <<>> /\ handler[h].todo \in Seq(WorkloadId)
      /\ handler[h].op \in DOMAIN JobOf
  BY BusyHandler
<1>2. /\ handler'[h] = x /\ \A g \in Handler : g = h
      /\ handler' \in [Handler -> {Idle} \cup Requests \cup Reading \cup Deciding]
      /\ x.op = handler[h].op /\ x.pc = pc /\ x.todo = handler[h].todo
  <2>1. x \in Requests
    BY <1>1 DEF Requests
  <2> QED BY <2>1, Turned, ZenonT(60) DEF Goto, Turns
<1> HIDE DEF x
<1>3. WlTypes'
  BY <1>1, <1>2 DEF WlTypes
<1>4. (Unborn /\ NoneFailed /\ Order)'
  BY DEF Unborn, NoneFailed, Order, Has
<1>5. HandlersHold'
  <2>1. RequestHolds(h)
    BY DEF HandlersHold
  <2>2. /\ handler'[h].op = handler[h].op /\ handler'[h].todo = handler[h].todo /\ handler'[h].pc = pc
        /\ Target(h)' = Target(h) /\ \A u : Tends(h, u)' = Tends(h, u)
    BY <1>2 DEF Target, Tends
  <2>3. RequestHolds(h)'
    BY <2>1, <2>2 DEF RequestHolds, Usual, Born
  <2> QED BY <1>2, <2>3 DEF HandlersHold, Folding
<1>6. \A u : /\ ~RowWritten(u) /\ ~Writing(u, "suspend") /\ ~Writing(u, "unsuspend") /\ ~BeingTold(u)
             /\ ~Writing(u, "suspend")' /\ ~Writing(u, "unsuspend")' /\ ~BeingTold(u)'
  BY <1>2 DEF RowWritten, Writing, BeingTold, Folding, At
<1>7. (Made /\ StopComes /\ RowIsTrue)'
  BY <1>6 DEF Made, StopComes, RowIsTrue, OnlyEnds, LastIs
<1>8. (Leaves /\ CopiesHalt)'
  BY <1>1, <1>2 DEF Leaves, CopiesHalt, Has, OnlyEnds, Tends, At
<1> QED BY <1>3, <1>4, <1>5, <1>7, <1>8

LEMMA LoadStep ==
  ASSUME WlInv, Single, NEW h \in Handler, Load(h)
  PROVE  WlInv'
<1> DEFINE op == handler[h].op
<1>1. /\ handler[h].pc = "load" /\ RequestHolds(h) /\ op \in DOMAIN JobOf
      /\ Target(h) \in WorkloadId /\ Tends(h, Target(h))
      /\ UNCHANGED <<row, parent, work, site, doing, failed, leaving, asked, failures>>
  BY BusyHandler DEF Load, At, WlInv, HandlersHold
<1>2. CASE Refused(h)
  <2>1. op \notin {"suspend", "delete"}
    BY <1>1, <1>2 DEF Refused, RequestHolds, Born
  <2> QED BY <1>1, <1>2, <2>1, EndsStep DEF Load
<1>3. CASE ~Refused(h)
  <2>1. CASE op \in {"suspend", "unsuspend", "delete"}
    BY <1>1, <1>3, <2>1, GoesOnStep DEF Load, Writes
  <2>2. CASE op = "copy"
    BY <1>1, <1>3, <2>2, GoesOnStep DEF Load, Writes
  <2>3. CASE op \in {"start", "stop", "update", "deploy", "push"}
    BY <1>1, <1>3, <2>3, GoesOnStep DEF Load, Writes
  <2>4. op \in {"copy", "start", "stop", "update", "deploy", "push", "suspend", "unsuspend", "delete"}
    BY <1>1 DEF JobOf, RequestHolds
  <2> QED BY <2>1, <2>2, <2>3, <2>4
<1> QED BY <1>2, <1>3

LEMMA CountStep ==
  ASSUME WlInv, Single, NEW h \in Handler, CountCopies(h)
  PROVE  WlInv'
<1>1. /\ handler[h].pc = "count" /\ RequestHolds(h) /\ handler[h].op \in DOMAIN JobOf
      /\ UNCHANGED <<row, parent, work, site, doing, failed, leaving, asked, failures>>
      /\ Ends(h) \/ Goto(h, "insert")
  BY BusyHandler DEF CountCopies, At, WlInv, HandlersHold
<1>2. handler[h].op = "copy"
  BY <1>1 DEF RequestHolds, JobOf
<1> QED BY <1>1, <1>2, EndsStep, GoesOnStep

LEMMA InsertStep ==
  ASSUME WlInv, Single, NEW h \in Handler, NEW c \in Copy, InsertCopy(h, c)
  PROVE  WlInv'
<1> USE DEF WlInv
<1> DEFINE x == [op |-> "copy", pc |-> "queue", todo |-> <<c>>]
           w == Target(h)
<1>1. handler[h].pc = "insert" /\ RequestHolds(h) /\ handler[h].op = "copy"
  <2>1. handler[h].pc = "insert" /\ RequestHolds(h) /\ handler[h].op \in DOMAIN JobOf
    BY BusyHandler DEF InsertCopy, At, HandlersHold
  <2> QED BY <2>1 DEF RequestHolds, JobOf
<1>2. Usual(w) /\ w \in Site /\ w # c /\ c \in WorkloadId /\ w \in WorkloadId
  BY <1>1, WorkloadsNames DEF RequestHolds, WorkloadId
<1>3. /\ row[c] = "none" /\ row' = [row EXCEPT ![c] = "creating"]
      /\ parent' = [parent EXCEPT ![c] = w]
      /\ UNCHANGED <<work, site, doing, failed, leaving, asked, failures>>
  BY DEF InsertCopy
<1>4. /\ handler'[h] = x /\ \A g \in Handler : g = h
      /\ handler' \in [Handler -> {Idle} \cup Requests \cup Reading \cup Deciding]
      /\ x.op = "copy" /\ x.pc = "queue" /\ x.todo = <<c>> /\ Len(x.todo) = 1 /\ Head(x.todo) = c /\ x.todo # <<>>
  <2>1. x \in Requests
    BY <1>2 DEF Requests, JobOf
  <2> QED BY <2>1, OneAlone, Turned DEF InsertCopy, Turns
<1> HIDE DEF x, w
<1>5. \A u \in WorkloadId : row'[u] = IF u = c THEN "creating" ELSE row[u]
  BY <1>3 DEF WlTypes
<1>6. \A u \in WorkloadId : parent'[u] = IF u = c THEN w ELSE parent[u]
  BY <1>3 DEF WlTypes
<1>7. WlTypes'
  BY <1>2, <1>3, <1>4 DEF WlTypes, RowStatus
<1>8. (Unborn /\ NoneFailed)'
  BY <1>2, <1>3, <1>5, <1>6, WorkloadsNames DEF Unborn, NoneFailed
<1>9. Order'
  <2>1. \A d \in Copy : parent'[d] \in leaving => d \in leaving
    BY <1>2, <1>6 DEF Order, Usual, WorkloadId
  <2> QED BY <1>3, <1>5, <2>1 DEF Order, Has
<1>10. HandlersHold'
  <2>1. RequestHolds(h)'
    BY <1>2, <1>3, <1>4, <1>5 DEF RequestHolds, Target, Unborn
  <2> QED BY <1>4, <2>1 DEF HandlersHold, Folding
<1>11. RowWritten(c)' /\ \A u : ~RowWritten(u) /\ ~Writing(u, "suspend") /\ ~Writing(u, "unsuspend") /\ ~BeingTold(u)
  BY <1>1, <1>4 DEF RowWritten, Writing, BeingTold, Folding, At, Target
<1>12. Made'
  BY <1>3, <1>5, <1>11 DEF Made, OnlyEnds
<1>13. (StopComes /\ RowIsTrue)'
  BY <1>3, <1>5, <1>11 DEF StopComes, RowIsTrue, LastIs
<1>14. Leaves'
  BY <1>1, <1>3, <1>4 DEF Leaves, Has, OnlyEnds
<1>15. CopiesHalt'
  <2>1. ASSUME failures = 0, NEW d \in Copy, row'[d] # "none", parent'[d] # NoSite, row'[parent'[d]] = "suspended"
        PROVE  d \in leaving \/ row'[d] = "suspended"
    <3>1. d # c
      BY <1>2, <1>5, <1>6, <2>1 DEF Usual
    <3>2. d \in WorkloadId /\ parent[d] \in WorkloadId /\ parent[d] # c
      BY <1>6, <2>1, <3>1, WorkloadsNames DEF WlTypes, WorkloadId
    <3> QED BY <1>1, <1>4, <1>5, <1>6, <2>1, <3>1, <3>2 DEF CopiesHalt
  <2> QED BY <1>3, <2>1 DEF CopiesHalt
<1> QED BY <1>7, <1>8, <1>9, <1>10, <1>12, <1>13, <1>14, <1>15

\* The status that a suspension, its end or a deletion writes first.
LEMMA WriteStep ==
  ASSUME WlInv, Single, NEW h \in Handler, SetStatus(h)
  PROVE  WlInv'
<1> USE DEF WlInv
<1> DEFINE op == handler[h].op
           w == Target(h)
           x == [op |-> op, pc |-> "queue", todo |-> handler[h].todo]
<1>1. /\ handler[h].pc = "write" /\ RequestHolds(h) /\ handler[h] \in Requests
      /\ w \in WorkloadId /\ Tends(h, w) /\ op \in DOMAIN JobOf /\ handler[h].todo # <<>>
  BY BusyHandler DEF SetStatus, At, HandlersHold
<1>2. op \in {"suspend", "unsuspend", "delete"} /\ row[w] # "none"
  BY <1>1 DEF RequestHolds, JobOf, Born
<1>3. /\ row' = [row EXCEPT ![w] = Writes[op]]
      /\ UNCHANGED <<parent, work, site, doing, failed, leaving, asked, failures>>
  BY DEF SetStatus
<1>4. /\ handler'[h] = x /\ \A g \in Handler : g = h
      /\ handler' \in [Handler -> {Idle} \cup Requests \cup Reading \cup Deciding]
      /\ x.op = op /\ x.pc = "queue" /\ x.todo = handler[h].todo
  <2>1. x \in Requests
    BY <1>1 DEF Requests
  <2> QED BY <2>1, Turned DEF SetStatus, Goto, Turns
<1>5. \A u \in WorkloadId : row'[u] = IF u = w THEN Writes[op] ELSE row[u]
  BY <1>3 DEF WlTypes
<1>6. /\ op = "suspend" => row'[w] = "suspended"
      /\ op = "unsuspend" => row'[w] = "stopped"
      /\ op = "delete" => row'[w] = "deleting"
  BY <1>1, <1>5 DEF Writes
<1>7. Target(h)' = w /\ (\A u : Tends(h, u)' = Tends(h, u)) /\ (\A u, k : Writing(u, k)' <=> u = w /\ k = op)
      /\ \A u : ~BeingTold(u)' /\ ~BeingTold(u) /\ \A k : ~Writing(u, k)
  BY <1>1, <1>4 DEF Target, Tends, Writing, At, BeingTold, Folding
<1> HIDE DEF x, w, op
<1>8. WlTypes'
  BY <1>1, <1>2, <1>3, <1>4, <1>5 DEF WlTypes, Writes, RowStatus
<1>9. (Unborn /\ NoneFailed)'
  BY <1>2, <1>3, <1>5, <1>6 DEF Unborn, NoneFailed
<1>10. HandlersHold'
  <2>1. \A u \in WorkloadId : Born(u) => Born(u)'
    BY <1>2, <1>5, <1>6 DEF Born
  <2>2. RequestHolds(h)'
    BY <1>1, <1>2, <1>3, <1>4, <1>6, <1>7, <2>1 DEF RequestHolds, w, op
  <2> QED BY <1>4, <2>2 DEF HandlersHold, Folding
<1>11. Order'
  <2>1. op = "delete" => w \in leaving
    BY <1>1 DEF RequestHolds, op, w
  <2> QED BY <1>2, <1>3, <1>5, <1>6, <2>1 DEF Order, Has
<1>12. Made'
  BY <1>2, <1>3, <1>5, <1>7 DEF Made, RowWritten, OnlyEnds
<1>13. StopComes'
  BY <1>2, <1>3, <1>5, <1>6, <1>7 DEF StopComes, LastIs
<1>14. RowIsTrue'
  BY <1>2, <1>3, <1>5, <1>6, <1>7 DEF RowIsTrue
<1>15. Leaves'
  BY <1>3, <1>4, <1>7 DEF Leaves, Has, OnlyEnds, op
<1>16. CopiesHalt'
  <2>1. ASSUME failures = 0, NEW c \in Copy, row'[c] # "none", parent[c] # NoSite, row'[parent[c]] = "suspended"
        PROVE  c \in leaving \/ row'[c] = "suspended"
                 \/ (handler'[h].op = "suspend" /\ (Tends(h, c)' \/ (At(h, "queue")' /\ Target(h)' = parent[c])))
    <3>1. c \in WorkloadId /\ parent[c] \in WorkloadId /\ row[c] # "none"
      BY <1>2, <1>5, <2>1 DEF WlTypes, WorkloadId
    <3>2. CASE parent[c] = w
      BY <1>2, <1>4, <1>6, <1>7, <2>1, <3>2 DEF At
    <3>3. CASE parent[c] # w
      <4>1. row[parent[c]] = "suspended"
        BY <1>5, <2>1, <3>1, <3>3
      <4>2. c \in leaving \/ row[c] = "suspended" \/ (op = "suspend" /\ Tends(h, c))
        BY <1>1, <1>4, <2>1, <3>1, <4>1 DEF CopiesHalt, At, op
      <4>3. c = w /\ op = "unsuspend" => FALSE
        BY <1>1, WorkloadsNames DEF RequestHolds, op, w
      <4>4. c = w /\ op = "delete" => c \in leaving
        BY <1>1 DEF RequestHolds, op, w
      <4> QED BY <1>2, <1>4, <1>5, <1>6, <1>7, <3>1, <4>2, <4>3, <4>4
    <3> QED BY <3>2, <3>3
  <2> QED BY <1>3, <2>1 DEF CopiesHalt
<1> QED BY <1>8, <1>9, <1>10, <1>11, <1>12, <1>13, <1>14, <1>15, <1>16

\* applyOutcome reads the row ...
LEMMA ReadStep ==
  ASSUME WlInv, Single, NEW h \in Handler, FoldRead(h)
  PROVE  WlInv'
<1> USE DEF WlInv
<1> DEFINE x == [op |-> "fold", pc |-> "fold", todo |-> handler[h].todo, kind |-> handler[h].kind,
                 ok |-> handler[h].ok, saw |-> row[Target(h)]]
<1>1. /\ handler[h].pc = "read" /\ Folding(h) /\ OutcomeHolds(h) /\ handler[h] \in Reading
      /\ handler[h].todo # <<>> /\ Target(h) \in WorkloadId /\ handler[h].op = "fold"
      /\ UNCHANGED <<row, parent, work, site, doing, failed, leaving, asked, failures>>
  BY BusyHandler DEF FoldRead, At, HandlersHold, Folding
<1>2. /\ handler'[h] = x /\ \A g \in Handler : g = h
      /\ handler' \in [Handler -> {Idle} \cup Requests \cup Reading \cup Deciding]
      /\ x.op = "fold" /\ x.pc = "fold" /\ x.todo = handler[h].todo /\ x.kind = handler[h].kind
      /\ x.ok = handler[h].ok /\ x.saw = row[Target(h)]
  <2>1. x \in Deciding
    BY <1>1 DEF Reading, Deciding, WlTypes
  <2>2. handler' = [handler EXCEPT ![h] = x]
    BY DEF FoldRead
  <2> QED BY <2>1, <2>2, Turned, ZenonT(60)
<1> HIDE DEF x
<1>3. WlTypes'
  BY <1>1, <1>2 DEF WlTypes
<1>4. (Unborn /\ NoneFailed /\ Order)'
  BY <1>1 DEF Unborn, NoneFailed, Order, Has
<1>5. Target(h)' = Target(h)
  BY <1>2 DEF Target
<1>6. HandlersHold'
  <2>1. OutcomeHolds(h)'
    BY <1>1, <1>2, <1>5 DEF OutcomeHolds
  <2> QED BY <1>2, <2>1 DEF HandlersHold
<1>7. \A u : /\ ~RowWritten(u) /\ ~Writing(u, "suspend") /\ ~Writing(u, "unsuspend")
             /\ BeingTold(u)' <=> BeingTold(u)
  BY <1>1, <1>2, <1>5 DEF RowWritten, Writing, BeingTold, Folding, At
<1>8. (Made /\ StopComes /\ RowIsTrue)'
  BY <1>1, <1>7 DEF Made, StopComes, RowIsTrue, OnlyEnds, LastIs
<1>9. (Leaves /\ CopiesHalt)'
  BY <1>1, <1>2 DEF Leaves, CopiesHalt, Has, OnlyEnds
<1> QED BY <1>3, <1>4, <1>6, <1>8, <1>9

\* ... and writes what it makes of the outcome.
LEMMA FoldStep ==
  ASSUME WlInv, Single, NEW h \in Handler, Fold(h)
  PROVE  WlInv'
<1> USE DEF WlInv
<1> DEFINE w == Target(h)
           new == Folded(handler[h].kind, handler[h].ok, handler[h].saw, row[w])
<1>1. /\ handler[h].pc = "fold" /\ Folding(h) /\ OutcomeHolds(h) /\ handler[h] \in Deciding
      /\ w \in WorkloadId /\ handler[h].op = "fold" /\ handler[h].kind \in JobKind /\ handler[h].ok \in BOOLEAN
      /\ row' = [row EXCEPT ![w] = new]
      /\ UNCHANGED <<parent, work, site, doing, failed, leaving, asked, failures>>
  BY BusyHandler DEF Fold, At, HandlersHold, Folding
<1>2. /\ handler'[h] = Idle /\ \A g \in Handler : g = h
      /\ handler' \in [Handler -> {Idle} \cup Requests \cup Reading \cup Deciding]
  BY Turned DEF Fold, Ends
<1>3. \A u \in WorkloadId : row'[u] = IF u = w THEN new ELSE row[u]
  BY <1>1 DEF WlTypes
<1>4. handler[h].saw = row[w] /\ row[w] # "none" /\ row[w] \in RowStatus
  BY <1>1 DEF OutcomeHolds, WlTypes
<1>5. /\ new \in RowStatus
      /\ new = "suspended" => row[w] = "suspended"
      /\ row[w] = "suspended" /\ new # "suspended" => handler[h].kind = "delete" \/ ~handler[h].ok
      /\ new \in {"deleting", "deleted"} => w \in leaving
      /\ handler[h].ok /\ w \notin failed =>
           /\ new = "running" => site[w] = "up"
           /\ new = "stopped" => site[w] # "up"
           /\ new = "deleted" => site[w] = "absent"
  <2>1. handler[h].kind \in {"create", "clone", "start", "stop", "update", "deploy", "push", "delete"}
    BY <1>1 DEF JobKind
  <2>2. row[w] \in {"deleting", "deleted"} => w \in leaving
    BY <1>1 DEF Order
  <2>3. CASE handler[h].kind \in {"create", "clone", "push"}
    BY <1>1, <1>4, <2>3 DEF Folded, RowStatus, OutcomeHolds
  <2>4. CASE handler[h].kind \in {"start", "update", "deploy"} /\ handler[h].ok /\ row[w] # "suspended"
    BY <1>1, <1>4, <2>4 DEF Folded, RowStatus, OutcomeHolds
  <2>5. CASE handler[h].kind = "stop" /\ handler[h].ok /\ row[w] # "suspended"
    BY <1>1, <1>4, <2>5 DEF Folded, RowStatus, OutcomeHolds
  <2>6. CASE handler[h].kind = "delete"
    BY <1>1, <1>4, <2>6 DEF Folded, RowStatus, OutcomeHolds
  <2>7. CASE handler[h].kind \in {"start", "update", "deploy", "stop"} /\ ~(handler[h].ok /\ row[w] # "suspended")
    <3>1. new = row[w]
      BY <1>4, <2>7 DEF Folded
    <3> QED BY <1>4, <2>2, <2>7, <3>1
  <2> QED BY <2>1, <2>3, <2>4, <2>5, <2>6, <2>7
<1>6. ~handler[h].ok => w \in failed
  BY <1>1 DEF OutcomeHolds
<1>7. \A u : /\ ~RowWritten(u) /\ ~Writing(u, "suspend") /\ ~Writing(u, "unsuspend")
             /\ u # w => ~BeingTold(u)
  BY <1>1, <1>2 DEF RowWritten, Writing, BeingTold, Folding, At
<1> HIDE DEF w, new
<1>8. WlTypes'
  BY <1>1, <1>2, <1>5 DEF WlTypes
<1>9. (Unborn /\ NoneFailed)'
  BY <1>1, <1>3, <1>4, <1>5 DEF Unborn, NoneFailed, RowStatus
<1>10. HandlersHold'
  BY <1>2 DEF HandlersHold, Folding, Idle
<1>11. Order'
  BY <1>1, <1>3, <1>5 DEF Order, Has
<1>12. Made'
  BY <1>1, <1>3, <1>4, <1>7 DEF Made, OnlyEnds
<1>13. StopComes'
  BY <1>1, <1>3, <1>5, <1>7 DEF StopComes, LastIs
<1>14. RowIsTrue'
  BY <1>1, <1>3, <1>5, <1>6, <1>7 DEF RowIsTrue
<1>15. Leaves'
  BY <1>1, <1>2 DEF Leaves, Has, OnlyEnds
<1>16. CopiesHalt'
  <2>1. ASSUME failures = 0, NEW c \in Copy, row'[c] # "none", parent[c] # NoSite, row'[parent[c]] = "suspended"
        PROVE  c \in leaving \/ row'[c] = "suspended"
    <3>1. c \in WorkloadId /\ parent[c] \in WorkloadId /\ row[c] # "none" /\ row[parent[c]] = "suspended"
      BY <1>3, <1>4, <1>5, <2>1 DEF WlTypes, WorkloadId
    <3>2. c \in leaving \/ row[c] = "suspended"
      BY <1>1, <1>2, <2>1, <3>1 DEF CopiesHalt
    <3>3. handler[h].ok
      BY <1>6, <2>1 DEF NoneFailed
    <3>4. handler[h].kind = "delete" => w \in leaving
      BY <1>1 DEF OutcomeHolds, w
    <3> QED BY <1>3, <1>5, <3>1, <3>2, <3>3, <3>4
  <2> QED BY <1>1, <2>1 DEF CopiesHalt
<1> QED BY <1>8, <1>9, <1>10, <1>11, <1>12, <1>13, <1>14, <1>15, <1>16

\* What is left of a request and the workloads it goes on to.
LEMMA GoingOn ==
  ASSUME NEW S, NEW s \in Seq(S), s # <<>>, NEW t \in Seq(S), NEW r, r = Tail(s) \o t,
         NEW m, m = Len(s) - 1
  PROVE  /\ r \in Seq(S) /\ m \in Nat /\ Len(t) \in Nat
         /\ Len(r) = m + Len(t) /\ DOMAIN r = 1..m + Len(t)
         /\ DOMAIN s = 1..m + 1 /\ DOMAIN t = 1..Len(t)
         /\ \A i \in 1..m + Len(t) : r[i] = IF i <= m THEN s[i + 1] ELSE t[i - m]
<1> DEFINE u == Tail(s)
<1>1. /\ u \in Seq(S) /\ Len(s) \in Nat \ {0} /\ Len(u) = Len(s) - 1
      /\ \A i \in 1..Len(u) : u[i] = s[i + 1]
  BY HeadAndTail
<1> HIDE DEF u
<1>2. /\ u \o t \in Seq(S) /\ Len(u \o t) = Len(u) + Len(t)
      /\ \A i \in 1..Len(u) + Len(t) : (u \o t)[i] = IF i <= Len(u) THEN u[i] ELSE t[i - Len(u)]
  BY <1>1, ConcatProperties
<1>3. DOMAIN (u \o t) = 1..Len(u \o t) /\ DOMAIN s = 1..Len(s) /\ DOMAIN t = 1..Len(t) /\ Len(t) \in Nat
  BY <1>2, LenProperties
<1>4. r = u \o t
  BY DEF u
<1> QED BY <1>1, <1>2, <1>3, <1>4

\* The job is queued, and the request goes on to the next workload, if any.
LEMMA EnqueueStep ==
  ASSUME WlInv, Single, NEW h \in Handler, Enqueue(h)
  PROVE  WlInv'
<1> USE DEF WlInv
<1>0. SUFFICES ASSUME NEW op, op = handler[h].op, NEW w, w = Target(h), NEW k, k = JobOf[op],
                      NEW todo, todo = handler[h].todo, NEW more, more = GoesOnTo(op, w),
                      NEW left, left = Tail(todo) \o more, NEW n, n = Len(work[w])
               PROVE  WlInv'
  OBVIOUS
<1>1. /\ handler[h].pc = "queue" /\ RequestHolds(h) /\ handler[h] \in Requests
      /\ w \in WorkloadId /\ w = todo[1] /\ Tends(h, w) /\ op \in DOMAIN JobOf
      /\ todo # <<>> /\ todo \in Seq(WorkloadId)
  BY <1>0, BusyHandler DEF Enqueue, At, HandlersHold
<1>2. /\ work' = [work EXCEPT ![w] = Append(@, k)]
      /\ UNCHANGED <<row, parent, site, doing, failed, leaving, asked, failures>>
      /\ IF left = <<>> THEN Ends(h) ELSE Turns(h, op, "load", left)
  BY <1>0 DEF Enqueue
<1>3. /\ k \in JobKind
      /\ k = "delete" <=> op = "delete"
      /\ op = "suspend" => k = "stop"
      /\ op = "create" => k = "create"
      /\ op = "copy" => k = "clone"
  BY <1>0, <1>1 DEF JobOf, JobKind
\* What the request has seen of the workload.
<1>4. /\ row[w] # "none"
      /\ w \in leaving => op \in {"suspend", "delete"}
      /\ row[w] = "suspended" => op = "suspend"
      /\ op = "suspend" => row[w] = "suspended"
      /\ op \in {"create", "copy"} => work[w] = <<>>
      /\ op = "delete" => w \in leaving
  BY <1>0, <1>1 DEF RequestHolds, Born, Usual, JobOf
\* Where it goes on.
<1>5. /\ left \in Seq(WorkloadId)
      /\ \A u : Tends(h, u) /\ u # w => \E i \in DOMAIN left : left[i] = u
      /\ \A i \in DOMAIN left : Tends(h, left[i]) \/ (op = "suspend" /\ left[i] \in CopiesOf(w))
      /\ op = "suspend" => \A u \in CopiesOf(w) : \E i \in DOMAIN left : left[i] = u
      /\ op \notin {"suspend", "delete"} => left = <<>>
      /\ op = "suspend" => \A i \in DOMAIN left : left[i] \in Copy
  <2>1. more \in Seq(WorkloadId) /\ DOMAIN more = 1..Len(more) /\ Len(more) \in Nat
        /\ (op = "suspend" => \A u : u \in CopiesOf(w) <=> \E i \in 1..Len(more) : more[i] = u)
        /\ (op # "suspend" => more = <<>> /\ Len(more) = 0)
    <3>1. CASE op = "suspend"
      <4>1. CopiesOf(w) \subseteq WorkloadId
        BY DEF CopiesOf, WorkloadId
      <4>2. more = SetToSeq(CopiesOf(w))
        BY <1>0, <3>1 DEF GoesOnTo
      <4>3. more \in Seq(WorkloadId) /\ \A u : u \in CopiesOf(w) <=> \E i \in DOMAIN more : more[i] = u
        BY <4>1, <4>2, CopiesInOrder, SeqMonotonic
      <4> QED BY <3>1, <4>3, LenProperties
    <3>2. CASE op # "suspend"
      BY <1>0, <3>2, EmptySeq, LenProperties DEF GoesOnTo
    <3> QED BY <3>1, <3>2
  <2>2. PICK m : m = Len(todo) - 1
    OBVIOUS
  <2>3. /\ left \in Seq(WorkloadId) /\ m \in Nat /\ Len(more) \in Nat
        /\ Len(left) = m + Len(more) /\ DOMAIN left = 1..m + Len(more)
        /\ DOMAIN todo = 1..m + 1 /\ DOMAIN more = 1..Len(more)
        /\ \A i \in 1..m + Len(more) : left[i] = IF i <= m THEN todo[i + 1] ELSE more[i - m]
    <3>1. todo \in Seq(WorkloadId) /\ todo # <<>> /\ more \in Seq(WorkloadId)
          /\ left = Tail(todo) \o more /\ m = Len(todo) - 1
      BY <1>0, <1>1, <2>1, <2>2
    <3> QED BY <3>1, GoingOn, SMTT(30)
  <2>4. ASSUME NEW u, Tends(h, u), u # w PROVE \E i \in DOMAIN left : left[i] = u
    <3>1. PICK j \in 1..m + 1 : todo[j] = u
      BY <1>0, <2>3, <2>4 DEF Tends
    <3>2. j # 1 /\ j - 1 \in 1..m + Len(more) /\ j - 1 <= m
      BY <1>1, <2>1, <2>2, <2>3, <2>4, <3>1
    <3>3. left[j - 1] = u
      BY <2>3, <3>1, <3>2
    <3> QED BY <2>3, <3>2, <3>3
  <2>5. ASSUME NEW i \in DOMAIN left PROVE Tends(h, left[i]) \/ (op = "suspend" /\ left[i] \in CopiesOf(w))
    <3>1. CASE i <= m
      <4>1. i + 1 \in DOMAIN todo /\ left[i] = todo[i + 1]
        BY <2>1, <2>3, <2>5, <3>1
      <4> QED BY <1>0, <4>1 DEF Tends
    <3>2. CASE ~(i <= m)
      <4>1. i - m \in 1..Len(more) /\ left[i] = more[i - m]
        BY <2>1, <2>2, <2>3, <2>5, <3>2, SMTT(30)
      <4> QED BY <2>1, <4>1
    <3> QED BY <3>1, <3>2
  <2>6. ASSUME op = "suspend", NEW u \in CopiesOf(w) PROVE \E i \in DOMAIN left : left[i] = u
    <3>1. PICK j \in 1..Len(more) : more[j] = u
      BY <2>1, <2>6
    <3>2. m + j \in 1..m + Len(more) /\ ~(m + j <= m) /\ (m + j) - m = j
      BY <2>1, <2>3
    <3> QED BY <2>3, <3>1, <3>2
  <2>7. op \notin {"suspend", "delete"} => left = <<>>
    <3>1. ASSUME op \notin {"suspend", "delete"} PROVE left = <<>>
      <4>1. Len(todo) = 1
        BY <1>0, <1>1, <3>1 DEF RequestHolds, JobOf
      <4>2. Len(left) = 0
        BY <2>1, <2>2, <2>3, <3>1, <4>1
      <4> QED BY <2>3, <4>2, EmptySeq
    <3> QED BY <3>1
  <2>8. ASSUME op = "suspend", NEW i \in DOMAIN left PROVE left[i] \in Copy
    <3>1. CASE i <= m
      <4>1. i + 1 \in DOMAIN todo /\ i + 1 > 1 /\ left[i] = todo[i + 1]
        BY <2>1, <2>2, <2>3, <2>8, <3>1
      <4> QED BY <1>0, <1>1, <2>8, <4>1 DEF RequestHolds
    <3>2. CASE ~(i <= m)
      <4>1. i - m \in 1..Len(more) /\ left[i] = more[i - m]
        <5>1. i \in 1..m + Len(more) /\ m \in Nat /\ Len(more) \in Nat
          BY <2>3, <2>8
        <5>2. i - m \in 1..Len(more)
          BY <3>2, <5>1
        <5> QED BY <2>3, <3>2, <5>1, <5>2
      <4> QED BY <2>1, <2>8, <4>1 DEF CopiesOf
    <3> QED BY <3>1, <3>2
  <2> QED BY <2>3, <2>4, <2>5, <2>6, <2>7, <2>8
<1>6. /\ \A g \in Handler : g = h
      /\ handler' \in [Handler -> {Idle} \cup Requests \cup Reading \cup Deciding]
      /\ left = <<>> => handler'[h] = Idle
      /\ left # <<>> => handler'[h] = [op |-> op, pc |-> "load", todo |-> left]
  <2>1. [op |-> op, pc |-> "load", todo |-> left] \in Requests
    BY <1>1, <1>5 DEF Requests
  <2>2. PICK x : x = IF left = <<>> THEN Idle ELSE [op |-> op, pc |-> "load", todo |-> left]
    OBVIOUS
  <2>3. handler' = [handler EXCEPT ![h] = x]
    BY <1>2, <2>2 DEF Ends, Turns
  <2>4. x \in {Idle} \cup Requests \cup Reading \cup Deciding
    BY <2>1, <2>2
  <2> QED BY <2>2, <2>3, <2>4, Turned
<1>7. /\ left # <<>> => handler'[h].op = op /\ handler'[h].pc = "load" /\ handler'[h].todo = left
      /\ left = <<>> => handler'[h].pc = "idle"
      /\ \A u : left # <<>> => (Tends(h, u)' <=> \E i \in DOMAIN left : left[i] = u)
  BY <1>6 DEF Idle, Tends
\* The queue of the workload.
<1>8. /\ work[w] \in Seq(JobKind) /\ work'[w] \in Seq(JobKind) /\ work'[w] # <<>>
      /\ \A u \in WorkloadId : u # w => work'[u] = work[u]
      /\ n \in Nat /\ Len(work'[w]) = n + 1 /\ DOMAIN work[w] = 1..n /\ DOMAIN work'[w] = 1..n + 1
      /\ \A i \in 1..n : work'[w][i] = work[w][i]
      /\ work'[w][n + 1] = k
      /\ Head(work'[w]) = IF work[w] = <<>> THEN k ELSE Head(work[w])
  <2>1. work[w] \in Seq(JobKind) /\ work'[w] = Append(work[w], k)
    BY <1>0, <1>1, <1>2 DEF WlTypes
  <2>2. \A u \in WorkloadId : u # w => work'[u] = work[u]
    BY <1>2 DEF WlTypes
  <2> QED BY <1>0, <1>3, <2>1, <2>2, OneAppended
<1>9. /\ \A i \in DOMAIN work'[w] : i \in DOMAIN work[w] \/ (i = n + 1 /\ work'[w][i] = k)
      /\ \A kind : Has(w, kind) => Has(w, kind)'
      /\ Has(w, k)'
      /\ \A kind : Has(w, kind)' => kind = k \/ Has(w, kind)
      /\ \A u \in WorkloadId : u # w => \A kind : Has(u, kind)' = Has(u, kind)
      /\ w \in leaving /\ OnlyEnds(w) => OnlyEnds(w)'
      /\ \A u \in WorkloadId : u # w => OnlyEnds(u)' = OnlyEnds(u)
      /\ LastIs(w, k)'
      /\ \A u \in WorkloadId : u # w => \A kind : LastIs(u, kind)' = LastIs(u, kind)
  <2>1. \A i \in DOMAIN work'[w] : i \in DOMAIN work[w] \/ (i = n + 1 /\ work'[w][i] = k)
    BY <1>8
  <2>2. /\ \A kind : Has(w, kind) => Has(w, kind)'
        /\ Has(w, k)'
        /\ \A kind : Has(w, kind)' => kind = k \/ Has(w, kind)
    BY <1>8 DEF Has
  <2>3. w \in leaving => k \in {"stop", "delete"}
    BY <1>3, <1>4
  <2>4. w \in leaving /\ OnlyEnds(w) => OnlyEnds(w)'
    BY <1>8, <2>3 DEF OnlyEnds
  <2>5. LastIs(w, k)'
    BY <1>8 DEF LastIs
  <2>6. /\ \A u \in WorkloadId : u # w => \A kind : Has(u, kind)' = Has(u, kind)
        /\ \A u \in WorkloadId : u # w => OnlyEnds(u)' = OnlyEnds(u)
        /\ \A u \in WorkloadId : u # w => \A kind : LastIs(u, kind)' = LastIs(u, kind)
    BY <1>8 DEF Has, OnlyEnds, LastIs
  <2> QED BY <2>1, <2>2, <2>4, <2>5, <2>6
<1>10. \A u : /\ ~BeingTold(u) /\ ~BeingTold(u)'
              /\ \A kind : ~Writing(u, kind)' /\ (Writing(u, kind) <=> u = w /\ kind = op)
  <2>1. \A u : ~BeingTold(u) /\ \A kind : (Writing(u, kind) <=> u = w /\ kind = op)
    BY <1>0, <1>1, <1>6 DEF Writing, BeingTold, Folding, At
  <2>2. \A u : ~BeingTold(u)' /\ \A kind : ~Writing(u, kind)'
    BY <1>6, <1>7 DEF Writing, BeingTold, Folding, At
  <2> QED BY <2>1, <2>2
<1>11. WlTypes'
  <2>1. work' \in [WorkloadId -> Seq(JobKind)]
    BY <1>2, <1>8 DEF WlTypes
  <2>2. \A u \in doing' : work'[u] # <<>>
    BY <1>2, <1>8 DEF WlTypes
  <2>3. \A g \in Handler : handler'[g] # Idle => handler'[g].todo # <<>>
    BY <1>6, <1>7
  <2> QED BY <1>2, <1>6, <2>1, <2>2, <2>3 DEF WlTypes
<1>12. (Unborn /\ NoneFailed)'
  BY <1>1, <1>2, <1>4, <1>8 DEF Unborn, NoneFailed
<1>13. HandlersHold'
  <2>1. CASE left = <<>>
    BY <1>6, <1>7, <2>1 DEF HandlersHold, Folding
  <2>2. CASE left # <<>>
    <3>1. op \in {"suspend", "delete"}
      BY <1>5, <2>2
    <3>2. \A u \in CopiesOf(w) : row[u] \notin {"none", "deleted"} /\ u \in Copy
      BY <1>1, WorkloadsNames DEF CopiesOf, Unborn, WorkloadId
    <3>3. Target(h)' = left[1] /\ 1 \in DOMAIN left
      BY <1>5, <1>7, <2>2, HeadAndTail DEF Target
    <3>4. CASE op = "suspend"
      <4>1. \A u \in WorkloadId : Tends(h, u)' => Born(u)' /\ (u \in leaving' => u \in Copy)
        <5>1. \A u \in WorkloadId : Tends(h, u) => Born(u) /\ (u \in leaving => u \in Copy)
          BY <1>0, <1>1, <3>4 DEF RequestHolds
        <5>2. \A u \in WorkloadId : Tends(h, u)' => Tends(h, u) \/ u \in CopiesOf(w)
          BY <1>5, <1>7, <2>2
        <5> QED BY <1>2, <3>2, <5>1, <5>2 DEF Born
      <4>2. Target(h)' \notin Site
        BY <1>5, <3>3, <3>4, WorkloadsNames
      <4>3. RequestHolds(h)'
        BY <1>5, <1>7, <2>2, <3>4, <4>1, <4>2 DEF RequestHolds
      <4> QED BY <1>6, <1>7, <2>2, <4>3 DEF HandlersHold, Folding
    <3>5. CASE op = "delete"
      <4>1. \A u \in WorkloadId : Tends(h, u)' => Born(u)' /\ u \in leaving'
        <5>1. \A u \in WorkloadId : Tends(h, u) => Born(u) /\ u \in leaving
          BY <1>0, <1>1, <3>5 DEF RequestHolds
        <5>2. \A u \in WorkloadId : Tends(h, u)' => Tends(h, u)
          BY <1>5, <1>7, <2>2, <3>5
        <5> QED BY <1>2, <5>1, <5>2 DEF Born
      <4>2. RequestHolds(h)'
        BY <1>5, <1>7, <2>2, <3>5, <4>1 DEF RequestHolds
      <4> QED BY <1>6, <1>7, <2>2, <4>2 DEF HandlersHold, Folding
    <3> QED BY <3>1, <3>4, <3>5
  <2> QED BY <2>1, <2>2
<1>14. Order'
  <2>1. ASSUME NEW i \in DOMAIN work'[w], NEW j \in DOMAIN work'[w], i < j, work'[w][i] = "delete"
        PROVE  work'[w][j] \in {"stop", "delete"}
    <3>1. i \in 1..n /\ i \in DOMAIN work[w] /\ work[w][i] = "delete"
      BY <1>8, <2>1
    <3>2. CASE j \in 1..n
      BY <1>1, <1>8, <2>1, <3>1, <3>2 DEF Order
    <3>3. CASE j = n + 1
      <4>1. w \in leaving
        BY <1>1, <3>1 DEF Order, Has
      <4> QED BY <1>3, <1>4, <1>8, <3>3, <4>1
    <3> QED BY <1>8, <3>2, <3>3
  <2>2. \A u \in WorkloadId : \A i, j \in DOMAIN work'[u] :
          i < j /\ work'[u][i] = "delete" => work'[u][j] \in {"stop", "delete"}
    BY <1>8, <2>1 DEF Order
  <2>3. \A u \in WorkloadId : Has(u, "delete")' \/ row[u] \in {"deleting", "deleted"} => u \in leaving
    BY <1>3, <1>4, <1>9 DEF Order
  <2> QED BY <1>2, <2>2, <2>3 DEF Order
<1>15. Made'
  <2>1. ASSUME NEW u \in WorkloadId, site[u] = "absent", u \notin failed
        PROVE  \/ row[u] = "none"
               \/ work'[u] # <<>> /\ Head(work'[u]) \in {"create", "clone"}
               \/ u \in leaving /\ OnlyEnds(u)'
    <3>1. \/ row[u] = "none" \/ RowWritten(u)
          \/ work[u] # <<>> /\ Head(work[u]) \in {"create", "clone"}
          \/ u \in leaving /\ OnlyEnds(u)
      BY <2>1 DEF Made
    <3>2. CASE u # w
      BY <1>8, <1>9, <1>10, <3>1, <3>2 DEF RowWritten
    <3>3. CASE u = w /\ RowWritten(u)
      BY <1>3, <1>4, <1>8, <1>10, <3>3 DEF RowWritten
    <3>4. CASE u = w /\ ~RowWritten(u)
      BY <1>4, <1>8, <1>9, <3>1, <3>4
    <3> QED BY <3>2, <3>3, <3>4
  <2> QED BY <1>2, <2>1 DEF Made
<1>16. StopComes'
  <2>1. ASSUME NEW u \in WorkloadId, row[u] = "suspended"
        PROVE  /\ u \notin failed => site[u] # "up" \/ work'[u] # <<>>
               /\ work'[u] # <<>> => LastIs(u, "stop")'
    <3>1. CASE u = w
      BY <1>3, <1>4, <1>8, <1>9, <2>1, <3>1
    <3>2. CASE u # w
      BY <1>8, <1>9, <1>10, <2>1, <3>2 DEF StopComes
    <3> QED BY <3>1, <3>2
  <2> QED BY <1>2, <2>1 DEF StopComes
<1>17. RowIsTrue'
  BY <1>2, <1>8, <1>10 DEF RowIsTrue
<1>18. Leaves'
  <2>1. ASSUME failures = 0, NEW u \in leaving
        PROVE  \/ handler'[h].op = "delete" /\ Tends(h, u)'
               \/ Has(u, "delete")'
               \/ site[u] = "absent" /\ OnlyEnds(u)'
    <3>0. u \in WorkloadId
      BY <2>1 DEF WlTypes
    <3>1. (op = "delete" /\ Tends(h, u)) \/ Has(u, "delete") \/ (site[u] = "absent" /\ OnlyEnds(u))
      BY <1>0, <1>6, <2>1 DEF Leaves
    <3>2. CASE op = "delete" /\ Tends(h, u) /\ u # w
      <4>1. PICK i \in DOMAIN left : left[i] = u
        BY <1>5, <3>2
      <4>2. left # <<>>
        BY <4>1
      <4> QED BY <1>7, <3>2, <4>1, <4>2
    <3>3. CASE u = w
      BY <1>3, <1>9, <2>1, <3>1, <3>3
    <3>4. CASE u # w /\ ~(op = "delete" /\ Tends(h, u))
      BY <1>9, <3>0, <3>1, <3>4
    <3> QED BY <3>2, <3>3, <3>4
  <2> QED BY <1>2, <2>1 DEF Leaves
<1>19. CopiesHalt'
  <2>1. ASSUME failures = 0, NEW c \in Copy, row[c] # "none", parent[c] # NoSite, row[parent[c]] = "suspended"
        PROVE  c \in leaving \/ row[c] = "suspended" \/ (handler'[h].op = "suspend" /\ Tends(h, c)')
    <3>1. c \in leaving \/ row[c] = "suspended" \/ (op = "suspend" /\ (Tends(h, c) \/ w = parent[c]))
      BY <1>0, <1>6, <2>1 DEF CopiesHalt
    <3>2. row[c] = "deleted" => c \in leaving
      BY <2>1 DEF Order, WorkloadId
    <3>3. CASE op = "suspend" /\ (\E i \in DOMAIN left : left[i] = c)
      <4>1. PICK i \in DOMAIN left : left[i] = c
        BY <3>3
      <4>2. left # <<>>
        BY <4>1
      <4> QED BY <1>7, <3>3, <4>1, <4>2
    <3>4. CASE op = "suspend" /\ w = parent[c] /\ row[c] # "deleted"
      BY <1>5, <3>3, <3>4 DEF CopiesOf
    <3>5. CASE op = "suspend" /\ Tends(h, c)
      BY <1>4, <1>5, <3>3, <3>5
    <3> QED BY <3>1, <3>2, <3>4, <3>5
  <2> QED BY <1>2, <2>1 DEF CopiesHalt
<1> QED BY <1>11, <1>12, <1>13, <1>14, <1>15, <1>16, <1>17, <1>18, <1>19

\* The end of a job: the node has what the job left, and the report tells of it.
LEMMA ReportStep ==
  ASSUME WlInv, Single, NEW h \in Handler, NEW w \in WorkloadId, NEW ok \in BOOLEAN, Report(h, w, ok)
  PROVE  WlInv'
<1> USE DEF WlInv
<1>0. SUFFICES ASSUME NEW k, k = Head(work[w])
               PROVE  WlInv'
  OBVIOUS
<1> DEFINE x == [op |-> "fold", pc |-> "read", todo |-> <<w>>, kind |-> k, ok |-> ok]
<1>1. /\ work[w] # <<>> /\ row[w] # "none" /\ handler[h].pc = "idle" /\ handler[h] = Idle
      /\ work[w] \in Seq(JobKind) /\ k \in JobKind
  <2>1. work[w] # <<>> /\ work[w] \in Seq(JobKind)
    BY DEF Report, WlTypes
  <2>2. handler[h].pc = "idle"
    BY DEF Report, Free
  <2>3. handler[h] = Idle
    BY <2>2 DEF WlTypes, Requests, Reading, Deciding
  <2> QED BY <1>0, <2>1, <2>2, <2>3, HeadAndTail DEF Unborn
<1>2. UNCHANGED <<row, parent, leaving, asked>>
  BY DEF Report
<1>3. /\ site' \in [WorkloadId -> Container]
      /\ \A u \in WorkloadId : u # w => site'[u] = site[u]
      /\ ok => site'[w] = Effect(k, site[w])
  <2>1. PICK s \in IF ok THEN {Effect(k, site[w])} ELSE MayLeave(k, site[w]) : site' = [site EXCEPT ![w] = s]
    BY <1>0 DEF Report
  <2>2. s \in Container
    BY <2>1 DEF Effect, MayLeave, Container
  <2> QED BY <2>1, <2>2 DEF WlTypes
<1>4. /\ failed' \in SUBSET WorkloadId
      /\ \A u \in WorkloadId : u # w => (u \in failed' <=> u \in failed)
      /\ ~ok => w \in failed'
      /\ ok /\ w \in failed' => w \in failed
      /\ ok /\ k \in {"start", "stop"} /\ site[w] = "absent" /\ w \in failed => w \in failed'
      /\ ok => failed' \subseteq failed
      /\ failures' \in Nat /\ (failures' = 0 => ok /\ failures = 0)
  BY <1>0 DEF Report, WlTypes
<1>5. /\ handler'[h] = x /\ \A g \in Handler : g = h
      /\ handler' \in [Handler -> {Idle} \cup Requests \cup Reading \cup Deciding]
  <2>1. x \in Reading
    BY <1>1 DEF Reading
  <2>2. handler' = [handler EXCEPT ![h] = x]
    BY <1>0 DEF Report
  <2> QED BY <2>1, <2>2, Turned
<1>6. /\ x.op = "fold" /\ x.pc = "read" /\ x.todo = <<w>> /\ x.kind = k /\ x.ok = ok
      /\ Len(x.todo) = 1 /\ Head(x.todo) = w /\ x.todo # <<>>
  BY OneAlone
<1> HIDE DEF x
\* The queue of the workload.
<1>7. PICK n \in Nat :
        /\ DOMAIN work[w] = 1..n + 1 /\ DOMAIN work'[w] = 1..n /\ work'[w] \in Seq(JobKind)
        /\ work[w][1] = k /\ Len(work[w]) = n + 1 /\ Len(work'[w]) = n
        /\ \A i \in 1..n : work'[w][i] = work[w][i + 1]
        /\ work'[w] # <<>> => n >= 1
        /\ work'[w] = <<>> => n = 0
  <2>1. work'[w] = Tail(work[w])
    BY DEF Report, WlTypes
  <2>2. PICK n : n = Len(work[w]) - 1
    OBVIOUS
  <2>3. /\ work[w][1] = k /\ Tail(work[w]) \in Seq(JobKind)
        /\ Len(work[w]) \in Nat /\ Len(work[w]) >= 1 /\ Len(Tail(work[w])) = Len(work[w]) - 1
        /\ DOMAIN work[w] = 1..Len(work[w]) /\ DOMAIN Tail(work[w]) = 1..Len(work[w]) - 1
        /\ \A i \in 1..Len(work[w]) - 1 : Tail(work[w])[i] = work[w][i + 1]
        /\ Tail(work[w]) # <<>> => Len(work[w]) >= 2
    BY <1>0, <1>1, HeadAndTail
  <2>4. n \in Nat /\ Len(work[w]) = n + 1
    BY <2>2, <2>3
  <2>5. work'[w] = <<>> => n = 0
    BY <2>1, <2>2, <2>3, EmptySeq
  <2> QED BY <2>1, <2>2, <2>3, <2>4, <2>5
<1>8. \A u \in WorkloadId : u # w => work'[u] = work[u]
  BY DEF Report, WlTypes
<1>9. /\ \A kind : Has(w, kind)' => Has(w, kind)
      /\ \A kind : Has(w, kind) /\ kind # k => Has(w, kind)'
      /\ OnlyEnds(w) => OnlyEnds(w)' /\ k \in {"stop", "delete"}
      /\ \A kind : LastIs(w, kind) /\ work'[w] # <<>> => LastIs(w, kind)'
      /\ \A kind : LastIs(w, kind) /\ work'[w] = <<>> => k = kind
      /\ Has(w, k)
  <2>1. ASSUME NEW kind, Has(w, kind)' PROVE Has(w, kind)
    <3>1. PICK i \in 1..n : work'[w][i] = kind
      BY <1>7, <2>1 DEF Has
    <3>2. i + 1 \in 1..n + 1
      OBVIOUS
    <3> QED BY <1>7, <3>1, <3>2 DEF Has
  <2>2. ASSUME NEW kind, Has(w, kind), kind # k PROVE Has(w, kind)'
    <3>1. PICK i \in 1..n + 1 : work[w][i] = kind
      BY <1>7, <2>2 DEF Has
    <3>2. i # 1 /\ i - 1 \in 1..n /\ (i - 1) + 1 = i
      BY <1>7, <2>2, <3>1
    <3> QED BY <1>7, <3>1, <3>2 DEF Has
  <2>3. OnlyEnds(w) => OnlyEnds(w)' /\ k \in {"stop", "delete"}
    <3>1. 1 \in 1..n + 1 /\ \A i \in 1..n : i + 1 \in 1..n + 1
      OBVIOUS
    <3> QED BY <1>7, <3>1 DEF OnlyEnds
  <2>4. \A kind : LastIs(w, kind) /\ work'[w] # <<>> => LastIs(w, kind)'
    BY <1>7 DEF LastIs
  <2>5. \A kind : LastIs(w, kind) /\ work'[w] = <<>> => k = kind
    BY <1>7 DEF LastIs
  <2>6. Has(w, k)
    BY <1>7 DEF Has
  <2> QED BY <2>1, <2>2, <2>3, <2>4, <2>5, <2>6
<1>10. \A u \in WorkloadId : u # w =>
         /\ \A kind : Has(u, kind)' = Has(u, kind) /\ LastIs(u, kind)' = LastIs(u, kind)
         /\ OnlyEnds(u)' = OnlyEnds(u)
  BY <1>8 DEF Has, OnlyEnds, LastIs
\* Behind a deletion only ends are queued, and of what is to be deleted.
<1>11. k = "delete" => w \in leaving /\ OnlyEnds(w)'
  <2>1. ASSUME k = "delete", NEW i \in 1..n PROVE work'[w][i] \in {"stop", "delete"}
    <3>1. 1 \in DOMAIN work[w] /\ i + 1 \in DOMAIN work[w] /\ 1 < i + 1
      BY <1>7, <2>1
    <3> QED BY <1>7, <2>1, <3>1 DEF Order
  <2>2. k = "delete" => w \in leaving
    BY <1>9 DEF Order
  <2> QED BY <1>7, <2>1, <2>2 DEF OnlyEnds
<1>12. \A u : /\ ~RowWritten(u) /\ ~Writing(u, "suspend") /\ ~BeingTold(u) /\ (BeingTold(u)' <=> u = w)
  BY <1>1, <1>5, <1>6 DEF RowWritten, Writing, BeingTold, Folding, At, Target
\* A start finds what it starts, unless the creation failed.
<1>13. site[w] = "absent" /\ w \notin failed =>
         k \in {"create", "clone"} \/ (w \in leaving /\ OnlyEnds(w))
  BY <1>0, <1>1, <1>12 DEF Made
<1>14. WlTypes'
  <2>1. work' \in [WorkloadId -> Seq(JobKind)]
    BY <1>7 DEF Report, WlTypes
  <2>2. doing' \in SUBSET WorkloadId /\ \A u \in doing' : work'[u] # <<>>
    BY <1>8 DEF Report, WlTypes
  <2>3. \A g \in Handler : handler'[g] # Idle => handler'[g].todo # <<>>
    BY <1>5, <1>6
  <2> QED BY <1>2, <1>3, <1>4, <1>5, <2>1, <2>2, <2>3 DEF WlTypes
<1>15. Unborn'
  BY <1>1, <1>2, <1>3, <1>8 DEF Unborn
<1>16. HandlersHold'
  <2>1. OutcomeHolds(h)'
    <3>1. Target(h)' = w /\ handler'[h].kind = k /\ handler'[h].ok = ok /\ Len(handler'[h].todo) = 1
          /\ handler'[h].pc = "read"
      BY <1>5, <1>6 DEF Target
    <3>2. ok => /\ k \in {"create", "clone", "push", "update", "deploy"} => site'[w] = "up"
                /\ k = "stop" => site'[w] # "up"
                /\ k = "delete" => site'[w] = "absent"
      BY <1>3 DEF Effect
    <3>3. ok /\ k = "start" /\ w \notin failed' => site'[w] = "up"
      BY <1>3, <1>4, <1>9, <1>13 DEF Effect
    <3> QED BY <1>1, <1>2, <1>4, <1>11, <3>1, <3>2, <3>3 DEF OutcomeHolds
  <2> QED BY <1>5, <1>6, <2>1 DEF HandlersHold, Folding
<1>17. Order'
  <2>1. ASSUME NEW i \in 1..n, NEW j \in 1..n, i < j, work'[w][i] = "delete"
        PROVE  work'[w][j] \in {"stop", "delete"}
    <3>1. i + 1 \in 1..n + 1 /\ j + 1 \in 1..n + 1 /\ i + 1 < j + 1
      BY <2>1
    <3>2. i + 1 \in DOMAIN work[w] /\ j + 1 \in DOMAIN work[w] /\ work[w][i + 1] = "delete"
      BY <1>7, <2>1, <3>1
    <3>3. work[w][j + 1] \in {"stop", "delete"}
      BY <3>1, <3>2 DEF Order
    <3> QED BY <1>7, <2>1, <3>3
  <2>2. \A u \in WorkloadId : \A i, j \in DOMAIN work'[u] :
          i < j /\ work'[u][i] = "delete" => work'[u][j] \in {"stop", "delete"}
    BY <1>7, <1>8, <2>1 DEF Order
  <2>3. \A u \in WorkloadId : Has(u, "delete")' \/ row[u] \in {"deleting", "deleted"} => u \in leaving
    BY <1>9, <1>10 DEF Order
  <2> QED BY <1>2, <2>2, <2>3 DEF Order
<1>18. Made'
  <2>1. ASSUME NEW u \in WorkloadId, site'[u] = "absent", u \notin failed', row[u] # "none"
        PROVE  (work'[u] # <<>> /\ Head(work'[u]) \in {"create", "clone"}) \/ (u \in leaving /\ OnlyEnds(u)')
    <3>1. CASE u # w
      BY <1>3, <1>4, <1>8, <1>10, <1>12, <2>1, <3>1 DEF Made
    <3>2. CASE u = w /\ k = "delete"
      BY <1>11, <3>2
    <3>3. CASE u = w /\ k # "delete"
      <4>1. ok /\ Effect(k, site[w]) = "absent"
        BY <1>3, <1>4, <2>1, <3>3
      <4>2. k \in {"start", "stop"} /\ site[w] = "absent"
        BY <3>3, <4>1 DEF Effect
      <4> QED BY <1>4, <1>9, <1>13, <2>1, <3>3, <4>1, <4>2
    <3> QED BY <3>1, <3>2, <3>3
  <2> QED BY <1>2, <2>1 DEF Made
<1>19. StopComes'
  <2>1. ASSUME NEW u \in WorkloadId, row[u] = "suspended"
        PROVE  /\ u \notin failed' => site'[u] # "up" \/ work'[u] # <<>>
               /\ work'[u] # <<>> => LastIs(u, "stop")'
    <3>1. CASE u # w
      BY <1>3, <1>4, <1>8, <1>10, <1>12, <2>1, <3>1 DEF StopComes
    <3>2. CASE u = w
      <4>1. LastIs(w, "stop")
        BY <1>1, <1>12, <2>1, <3>2 DEF StopComes
      <4>2. k = "stop" /\ ok => site'[w] # "up"
        BY <1>3 DEF Effect
      <4> QED BY <1>4, <1>9, <3>2, <4>1, <4>2
    <3> QED BY <3>1, <3>2
  <2> QED BY <1>2, <2>1 DEF StopComes
<1>20. RowIsTrue'
  <2>1. ASSUME NEW u \in WorkloadId, u # w, u \notin failed'
        PROVE  /\ row[u] = "running" => site'[u] = "up"
               /\ row[u] = "stopped" => site'[u] # "up" \/ work'[u] # <<>>
               /\ row[u] = "deleted" => site'[u] = "absent"
    <3>1. ~Writing(u, "unsuspend")
      BY <1>1, <1>5 DEF Writing, At
    <3> QED BY <1>3, <1>4, <1>8, <1>12, <2>1, <3>1 DEF RowIsTrue
  <2> QED BY <1>2, <1>12, <2>1 DEF RowIsTrue
<1>21. NoneFailed'
  BY <1>4 DEF NoneFailed
<1>22. Leaves'
  <2>1. ASSUME failures' = 0, NEW u \in leaving
        PROVE  Has(u, "delete")' \/ (site'[u] = "absent" /\ OnlyEnds(u)')
    <3>1. u \in WorkloadId
      BY <2>1 DEF WlTypes
    <3>2. Has(u, "delete") \/ (site[u] = "absent" /\ OnlyEnds(u))
      BY <1>1, <1>4, <1>5, <2>1 DEF Leaves, Idle
    <3>3. CASE u # w
      BY <1>3, <1>10, <3>1, <3>2, <3>3
    <3>4. CASE u = w /\ Has(w, "delete")
      BY <1>3, <1>4, <1>9, <1>11, <2>1, <3>4 DEF Effect
    <3>5. CASE u = w /\ site[w] = "absent" /\ OnlyEnds(w)
      BY <1>3, <1>4, <1>9, <2>1, <3>5 DEF Effect
    <3> QED BY <3>2, <3>3, <3>4, <3>5
  <2> QED BY <1>2, <2>1 DEF Leaves
<1>23. CopiesHalt'
  <2>1. ASSUME failures' = 0, NEW c \in Copy, row[c] # "none", parent[c] # NoSite, row[parent[c]] = "suspended"
        PROVE  c \in leaving \/ row[c] = "suspended"
    BY <1>1, <1>4, <1>5, <2>1 DEF CopiesHalt, Idle, At
  <2> QED BY <1>2, <2>1 DEF CopiesHalt
<1> QED BY <1>14, <1>15, <1>16, <1>17, <1>18, <1>19, <1>20, <1>21, <1>22, <1>23

-----------------------------------------------------------------------------
(* What follows.                                                           *)

LEMMA WlStep ==
  ASSUME WlInv, Single, ~Rash, [WorkloadsNext]_wlVars
  PROVE  WlInv'
<1>1. ASSUME NEW h \in Handler, NEW w \in Site, CreateWorkload(h, w) PROVE WlInv'
  BY <1>1, CreateStep
<1>2. ASSUME NEW h \in Handler, NEW w \in WorkloadId, NEW op \in DOMAIN JobOf \ {"create"}, Request(h, op, w)
      PROVE  WlInv'
  BY <1>2, RequestStep
<1>3. ASSUME NEW h \in Handler, Handle(h) PROVE WlInv'
  BY <1>3, LoadStep, CountStep, WriteStep, EnqueueStep, ReadStep, FoldStep, InsertStep DEF Handle
<1>4. ASSUME NEW w \in WorkloadId, Works(w) PROVE WlInv'
  BY <1>4, StartStep, ReportStep DEF Works
<1>5. CASE UNCHANGED wlVars
  <2>1. /\ UNCHANGED <<row, parent, work, site, doing, handler, failed, leaving, asked, failures>>
    BY <1>5 DEF wlVars
  <2>2. (WlTypes /\ Unborn /\ Order /\ NoneFailed)'
    BY <2>1 DEF WlInv, WlTypes, Unborn, Order, NoneFailed, Has
  <2>3. HandlersHold'
    BY <2>1 DEF WlInv, HandlersHold, RequestHolds, OutcomeHolds, Folding, Target, Usual, Born, Tends
  <2>4. (Made /\ StopComes /\ RowIsTrue)'
    BY <2>1 DEF WlInv, Made, StopComes, RowIsTrue, RowWritten, Writing, OnlyEnds, LastIs, BeingTold, Folding, Target, At
  <2>5. (Leaves /\ CopiesHalt)'
    BY <2>1 DEF WlInv, Leaves, CopiesHalt, Tends, Has, OnlyEnds, Target, At
  <2> QED BY <2>2, <2>3, <2>4, <2>5 DEF WlInv
<1> QED BY <1>1, <1>2, <1>3, <1>4, <1>5 DEF WorkloadsNext

\* The invariant at rest: nothing concerning the workload is in progress.
LEMMA AtRest ==
  ASSUME WlInv
  PROVE  NodeFollowsRow
<1> USE DEF WlInv
<1>1. ASSUME NEW w \in WorkloadId, Quiet(w)
      PROVE  /\ work[w] = <<>> /\ ~BeingTold(w) /\ \A op : ~Writing(w, op)
             /\ \A h \in Handler : handler[h].op \notin {"suspend", "delete"}
  <2>1. ASSUME NEW h \in Handler, ~At(h, "idle") PROVE Target(h) # w
    <3>1. handler[h] # Idle /\ handler[h].todo # <<>> /\ handler[h].todo \in Seq(WorkloadId)
      BY <2>1 DEF WlTypes, At, Idle, Requests, Reading, Deciding
    <3>2. 1 \in DOMAIN handler[h].todo /\ Target(h) = handler[h].todo[1]
      BY <3>1, HeadAndTail DEF Target
    <3> QED BY <1>1, <3>2 DEF Quiet, Range
  <2>2. ASSUME NEW h \in Handler, At(h, "idle") PROVE handler[h].op \notin {"suspend", "delete"}
    <3>1. handler[h] = Idle
      BY <2>2 DEF WlTypes, At, Requests, Reading, Deciding
    <3> QED BY <3>1 DEF Idle
  <2>3. ~BeingTold(w) /\ \A op : ~Writing(w, op)
    BY <2>1 DEF BeingTold, Folding, Writing, At
  <2> QED BY <1>1, <2>2, <2>3 DEF Quiet
<1>2. SuspendedStaysDown
  BY <1>1 DEF SuspendedStaysDown, StopComes
<1>3. RowTellsNode
  BY <1>1 DEF RowTellsNode, RowIsTrue
<1>4. CopiesFollow
  <2>1. ASSUME NEW c \in Copy, parent[c] # NoSite, Quiet(parent[c]), Quiet(c), failures = 0,
               row[parent[c]] \in {"suspended", "deleted"}
        PROVE  site[c] # "up"
    <3>1. c \in WorkloadId /\ parent[c] \in WorkloadId
      BY <2>1 DEF WlTypes, WorkloadId
    <3>2. work[c] = <<>> /\ \A h \in Handler : handler[h].op \notin {"suspend", "delete"}
      BY <1>1, <2>1, <3>1
    <3>3. CASE c \in leaving
      BY <2>1, <3>2, <3>3 DEF Leaves, Has
    <3>4. CASE row[c] = "suspended"
      BY <1>2, <2>1, <3>1, <3>4 DEF NoneFailed, SuspendedStaysDown
    <3>5. CASE row[c] = "none"
      BY <3>1, <3>5 DEF Unborn
    <3>6. row[parent[c]] = "deleted" => c \in leaving
      BY <3>1 DEF Order
    <3>7. row[parent[c]] = "suspended" /\ row[c] # "none" => c \in leaving \/ row[c] = "suspended"
      BY <2>1, <3>2 DEF CopiesHalt
    <3> QED BY <2>1, <3>3, <3>4, <3>5, <3>6, <3>7
  <2> QED BY <2>1 DEF CopiesFollow
<1> QED BY <1>2, <1>3, <1>4 DEF NodeFollowsRow

\* Whenever nothing concerning them is in progress, a suspended site is down and the
\* rows tell what the node runs, save where the last job failed; and as long as no job
\* failed, the copies of a suspended or deleted site do not serve: suspendWorkload,
\* deleteWorkload and applyOutcome, while requests and reports come one after another.
THEOREM NodeRunsWhatRowsSay ==
  ASSUME Single, ~Rash
  PROVE  WorkloadsSpec => []NodeFollowsRow
<1>1. WorkloadsInit => WlInv
  BY WlInvInit
<1>2. WlInv /\ [WorkloadsNext]_wlVars => WlInv'
  BY WlStep
<1>3. WlInv => NodeFollowsRow
  BY AtRest
<1> QED BY <1>1, <1>2, <1>3, PTL DEF WorkloadsSpec

LEMMA SuspensionStep ==
  ASSUME WlInv, Single, [WorkloadsNext]_wlVars, NEW w \in WorkloadId, row[w] = "suspended", row'[w] # "suspended"
  PROVE  \E h \in Handler : /\ Target(h) = w
                            /\ \/ At(h, "write")
                               \/ At(h, "fold") /\ (~handler[h].ok \/ handler[h].kind = "delete")
<1> USE DEF WlInv
<1>1. row' # row
  OBVIOUS
<1>2. PICK h \in Handler :
        (\E u \in Site : CreateWorkload(h, u)) \/ (\E c \in Copy : InsertCopy(h, c)) \/ SetStatus(h) \/ Fold(h)
  <2>1. ASSUME NEW h \in Handler, Handle(h)
        PROVE  (\E c \in Copy : InsertCopy(h, c)) \/ SetStatus(h) \/ Fold(h)
    BY <1>1, <2>1 DEF Handle, Load, CountCopies, Enqueue, FoldRead
  <2>2. ASSUME NEW u \in WorkloadId PROVE ~Works(u)
    BY <1>1 DEF Works, Start, Report
  <2>3. ASSUME NEW h \in Handler, NEW u, NEW op PROVE ~Request(h, op, u)
    BY <1>1 DEF Request
  <2>4. ~UNCHANGED wlVars
    BY <1>1 DEF wlVars
  <2>5. \E h \in Handler : (\E u \in Site : CreateWorkload(h, u)) \/ Handle(h)
    BY <2>2, <2>3, <2>4 DEF WorkloadsNext
  <2> QED BY <2>1, <2>5
<1>3. ~(\E u \in Site : CreateWorkload(h, u)) /\ ~(\E c \in Copy : InsertCopy(h, c))
  <2>1. ASSUME NEW u \in WorkloadId, row[u] = "none", row' = [row EXCEPT ![u] = "creating"] PROVE FALSE
    BY <2>1 DEF WlTypes
  <2> QED BY <2>1 DEF CreateWorkload, InsertCopy, WorkloadId
<1>4. CASE SetStatus(h)
  BY <1>4 DEF SetStatus, WlTypes
<1>5. CASE Fold(h)
  <2>1. At(h, "fold") /\ OutcomeHolds(h) /\ handler[h] \in Deciding
    BY <1>5, BusyHandler DEF Fold, At, HandlersHold, Folding
  <2>2. Target(h) = w /\ row'[w] = Folded(handler[h].kind, handler[h].ok, handler[h].saw, row[w])
    BY <1>5 DEF Fold, WlTypes
  <2>3. handler[h].saw = "suspended"
    BY <2>1, <2>2 DEF OutcomeHolds, At
  <2>4. handler[h].kind \in {"create", "clone", "start", "stop", "update", "deploy", "push", "delete"}
    BY <2>1 DEF Deciding, JobKind
  <2>5. ~handler[h].ok \/ handler[h].kind = "delete"
    BY <2>2, <2>3, <2>4 DEF Folded
  <2> QED BY <2>1, <2>2, <2>5
<1> QED BY <1>2, <1>3, <1>4, <1>5

\* applyOutcome never ends a suspension with a job that succeeded: only the request that
\* lifts it, a deletion or a failed job does, under the same assumptions.
THEOREM SuspensionOutlivesSuccess ==
  ASSUME Single, ~Rash
  PROVE  WorkloadsSpec => SuccessKeepsSuspension
<1> DEFINE A == \A w \in WorkloadId : row[w] = "suspended" /\ row'[w] # "suspended" =>
                  \E h \in Handler : Target(h) = w /\ (At(h, "write") \/ (At(h, "fold") /\ (~handler[h].ok \/ handler[h].kind = "delete")))
<1>1. WorkloadsInit => WlInv
  BY WlInvInit
<1>2. WlInv /\ [WorkloadsNext]_wlVars => WlInv'
  BY WlStep
<1>3. WlInv /\ [WorkloadsNext]_wlVars => A
  BY SuspensionStep
<1> QED BY <1>1, <1>2, <1>3, PTL DEF WorkloadsSpec, SuccessKeepsSuspension

-----------------------------------------------------------------------------
(* Types, whatever people ask and however many requests are served at once.*)

Aimed ==
  \A h \in Handler :
    /\ handler[h].pc = "write" => handler[h].op \in {"suspend", "unsuspend", "delete"}
    /\ handler[h].pc \in {"count", "insert"} => handler[h].op = "copy"
    /\ handler[h].op = "copy" => Len(handler[h].todo) = 1 /\ (handler[h].pc # "queue" => Target(h) \in Site)

LEMMA HandlerAimed ==
  ASSUME WlTypes, Aimed, NEW h \in Handler, NEW x \in {Idle} \cup Requests \cup Reading \cup Deciding,
         handler' = [handler EXCEPT ![h] = x], x # Idle => x.todo # <<>>,
         x.pc = "write" => x.op \in {"suspend", "unsuspend", "delete"},
         x.pc \in {"count", "insert"} => x.op = "copy",
         x.op = "copy" => Len(x.todo) = 1 /\ (x.pc # "queue" => Head(x.todo) \in Site)
  PROVE  /\ handler' \in [Handler -> {Idle} \cup Requests \cup Reading \cup Deciding]
         /\ \A g \in Handler : handler'[g] # Idle => handler'[g].todo # <<>>
         /\ Aimed'
<1>1. handler'[h] = x /\ \A g \in Handler : g # h => handler'[g] = handler[g]
  BY DEF WlTypes
<1>2. /\ handler' \in [Handler -> {Idle} \cup Requests \cup Reading \cup Deciding]
      /\ \A g \in Handler : handler'[g] # Idle => handler'[g].todo # <<>>
  BY <1>1 DEF WlTypes
<1>3. ASSUME NEW g \in Handler
      PROVE  /\ handler'[g].pc = "write" => handler'[g].op \in {"suspend", "unsuspend", "delete"}
             /\ handler'[g].pc \in {"count", "insert"} => handler'[g].op = "copy"
             /\ handler'[g].op = "copy" => Len(handler'[g].todo) = 1 /\ (handler'[g].pc # "queue" => Head(handler'[g].todo) \in Site)
  <2>1. CASE g = h
    BY <1>1, <2>1
  <2>2. CASE g # h
    BY <1>1, <2>2 DEF Aimed, Target
  <2> QED BY <2>1, <2>2
<1> QED BY <1>2, <1>3 DEF Aimed, Target

LEMMA EndsAimed ==
  ASSUME WlTypes, Aimed, NEW h \in Handler, Ends(h)
  PROVE  /\ handler' \in [Handler -> {Idle} \cup Requests \cup Reading \cup Deciding]
         /\ \A g \in Handler : handler'[g] # Idle => handler'[g].todo # <<>>
         /\ Aimed'
<1>1. Idle.pc = "idle" /\ Idle.op = "none"
  BY DEF Idle
<1> QED BY <1>1, HandlerAimed DEF Ends

LEMMA TurnAimed ==
  ASSUME WlTypes, Aimed, NEW h \in Handler, NEW op \in DOMAIN JobOf, NEW pc \in {"load", "count", "insert", "write", "queue"},
         NEW todo \in Seq(WorkloadId), todo # <<>>, Turns(h, op, pc, todo),
         pc = "write" => op \in {"suspend", "unsuspend", "delete"}, pc \in {"count", "insert"} => op = "copy",
         op = "copy" => Len(todo) = 1 /\ (pc # "queue" => Head(todo) \in Site)
  PROVE  /\ handler' \in [Handler -> {Idle} \cup Requests \cup Reading \cup Deciding]
         /\ \A g \in Handler : handler'[g] # Idle => handler'[g].todo # <<>>
         /\ Aimed'
<1> DEFINE x == [op |-> op, pc |-> pc, todo |-> todo]
<1>1. x \in Requests /\ x.op = op /\ x.pc = pc /\ x.todo = todo
  BY DEF Requests
<1>2. handler' = [handler EXCEPT ![h] = x]
  BY DEF Turns
<1> HIDE DEF x
<1> QED BY <1>1, <1>2, HandlerAimed

LEMMA CopiesAreIds ==
  ASSUME NEW w
  PROVE  SetToSeq(CopiesOf(w)) \in Seq(WorkloadId)
<1>1. CopiesOf(w) \subseteq WorkloadId
  BY DEF CopiesOf, WorkloadId
<1>2. SetToSeq(CopiesOf(w)) \in Seq(CopiesOf(w))
  BY CopiesInOrder
<1> QED BY <1>1, <1>2, SeqDef

LEMMA TypesStep ==
  ASSUME WlTypes, Aimed, [WorkloadsNext]_wlVars
  PROVE  WlTypes' /\ Aimed'
<1> DEFINE Handlers == /\ handler' \in [Handler -> {Idle} \cup Requests \cup Reading \cup Deciding]
                       /\ \A g \in Handler : handler'[g] # Idle => handler'[g].todo # <<>>
                       /\ Aimed'
<1>1. ASSUME NEW h \in Handler, NEW w \in Site, CreateWorkload(h, w) PROVE WlTypes' /\ Aimed'
  <2>1. w \in WorkloadId /\ <<w>> \in Seq(WorkloadId) /\ <<w>> # <<>> /\ "create" \in DOMAIN JobOf
    BY DEF WorkloadId, JobOf
  <2>2. Handlers
    BY <1>1, <2>1, TurnAimed DEF CreateWorkload
  <2> QED BY <1>1, <2>1, <2>2 DEF CreateWorkload, WlTypes, RowStatus
<1>2. ASSUME NEW h \in Handler, NEW w \in WorkloadId, NEW op \in DOMAIN JobOf \ {"create"}, Request(h, op, w) PROVE WlTypes' /\ Aimed'
  <2> DEFINE todo == IF op = "delete" THEN Append(SetToSeq(CopiesOf(w)), w) ELSE <<w>>
  <2>1. todo \in Seq(WorkloadId) /\ todo # <<>> /\ (op # "delete" => Len(todo) = 1 /\ Head(todo) = w)
    <3>1. Append(SetToSeq(CopiesOf(w)), w) \in Seq(WorkloadId) /\ Append(SetToSeq(CopiesOf(w)), w) # <<>>
      BY CopiesAreIds, OneAppended
    <3> QED BY <3>1
  <2>2. op = "copy" => w \in Site
    BY <1>2 DEF Request, WorkloadId
  <2>3. Turns(h, op, "load", todo)
    BY <1>2 DEF Request
  <2> HIDE DEF todo
  <2>4. Handlers
    BY <2>1, <2>2, <2>3, TurnAimed
  <2>5. CopiesOf(w) \subseteq WorkloadId
    BY DEF CopiesOf, WorkloadId
  <2>6. leaving' \in SUBSET WorkloadId /\ asked' \in Nat
    BY <1>2, <2>5 DEF Request, WlTypes
  <2>7. UNCHANGED <<row, parent, work, site, doing, failed, failures>>
    BY <1>2 DEF Request
  <2> QED BY <2>4, <2>6, <2>7 DEF WlTypes
<1>3. ASSUME NEW h \in Handler, Load(h) \/ CountCopies(h) PROVE WlTypes' /\ Aimed'
  <2>1. /\ handler[h].todo \in Seq(WorkloadId) /\ handler[h].todo # <<>> /\ handler[h].op \in DOMAIN JobOf
        /\ handler[h].op = "copy" => Len(handler[h].todo) = 1 /\ Head(handler[h].todo) \in Site
        /\ handler[h].pc = "count" => handler[h].op = "copy"
    BY <1>3, BusyHandler DEF Load, CountCopies, At, Aimed, Target
  <2>2. Ends(h) \/ \E pc \in {"count", "insert", "write", "queue"} :
                     /\ Goto(h, pc) /\ (pc = "write" => handler[h].op \in {"suspend", "unsuspend", "delete"})
                     /\ (pc \in {"count", "insert"} => handler[h].op = "copy")
    BY <1>3, <2>1 DEF Load, CountCopies, At, Writes
  <2>3. Handlers
    <3>1. CASE Ends(h)
      BY <3>1, EndsAimed
    <3>2. CASE ~Ends(h)
      <4>1. PICK pc \in {"count", "insert", "write", "queue"} :
                     /\ Goto(h, pc) /\ (pc = "write" => handler[h].op \in {"suspend", "unsuspend", "delete"})
                     /\ (pc \in {"count", "insert"} => handler[h].op = "copy")
        BY <2>2, <3>2
      <4> QED BY <2>1, <4>1, TurnAimed DEF Goto
    <3> QED BY <3>1, <3>2
  <2>4. UNCHANGED <<row, parent, work, site, doing, failed, leaving, asked, failures>>
    BY <1>3 DEF Load, CountCopies
  <2> QED BY <2>3, <2>4 DEF WlTypes
<1>4. ASSUME NEW h \in Handler, NEW c \in Copy, InsertCopy(h, c) PROVE WlTypes' /\ Aimed'
  <2>1. Target(h) \in Site
    BY <1>4 DEF InsertCopy, At, Aimed
  <2>2. c \in WorkloadId /\ <<c>> \in Seq(WorkloadId) /\ <<c>> # <<>> /\ Len(<<c>>) = 1 /\ "copy" \in DOMAIN JobOf
    BY DEF WorkloadId, JobOf
  <2>3. Handlers
    BY <1>4, <2>2, TurnAimed DEF InsertCopy
  <2> QED BY <1>4, <2>1, <2>2, <2>3 DEF InsertCopy, WlTypes, RowStatus
<1>5. ASSUME NEW h \in Handler, SetStatus(h) PROVE WlTypes' /\ Aimed'
  <2>1. /\ handler[h].todo \in Seq(WorkloadId) /\ handler[h].todo # <<>> /\ handler[h].op \in DOMAIN JobOf
        /\ handler[h].op \in {"suspend", "unsuspend", "delete"}
    BY <1>5, BusyHandler DEF SetStatus, At, Aimed
  <2>2. Handlers
    BY <1>5, <2>1, TurnAimed DEF SetStatus, Goto
  <2>3. Writes[handler[h].op] \in RowStatus
    BY <2>1 DEF Writes, RowStatus
  <2> QED BY <1>5, <2>2, <2>3 DEF SetStatus, WlTypes
<1>6. ASSUME NEW h \in Handler, Enqueue(h) PROVE WlTypes' /\ Aimed'
  <2> DEFINE left == Tail(handler[h].todo) \o GoesOnTo(handler[h].op, Target(h))
  <2>1. /\ handler[h].todo \in Seq(WorkloadId) /\ handler[h].todo # <<>> /\ handler[h].op \in DOMAIN JobOf
        /\ Target(h) \in WorkloadId /\ (handler[h].op = "copy" => Len(handler[h].todo) = 1)
    BY <1>6, BusyHandler DEF Enqueue, At, Aimed
  <2>2. left \in Seq(WorkloadId)
    <3>1. Tail(handler[h].todo) \in Seq(WorkloadId)
      BY <2>1, HeadAndTail
    <3>2. GoesOnTo(handler[h].op, Target(h)) \in Seq(WorkloadId)
      BY CopiesAreIds DEF GoesOnTo
    <3> QED BY <3>1, <3>2, ConcatProperties
  <2>3. handler[h].op = "copy" => left = <<>>
    <3> SUFFICES ASSUME handler[h].op = "copy" PROVE left = <<>>
      OBVIOUS
    <3>1. Tail(handler[h].todo) = <<>>
      <4>1. Tail(handler[h].todo) \in Seq(WorkloadId) /\ Len(Tail(handler[h].todo)) = 0
        BY <2>1, HeadAndTail
      <4> QED BY <4>1, EmptySeq
    <3>2. GoesOnTo(handler[h].op, Target(h)) = <<>>
      BY DEF GoesOnTo
    <3> QED BY <3>1, <3>2
  <2>4. /\ IF left = <<>> THEN Ends(h) ELSE Turns(h, handler[h].op, "load", left)
        /\ work' = [work EXCEPT ![Target(h)] = Append(@, JobOf[handler[h].op])]
        /\ UNCHANGED <<row, parent, site, doing, failed, leaving, asked, failures>>
    BY <1>6 DEF Enqueue
  <2> HIDE DEF left
  <2>5. Handlers
    BY <2>1, <2>2, <2>3, <2>4, EndsAimed, TurnAimed
  <2>6. JobOf[handler[h].op] \in JobKind
    BY <2>1 DEF JobOf, JobKind
  <2>7. work' \in [WorkloadId -> Seq(JobKind)] /\ \A w \in WorkloadId : work[w] # <<>> => work'[w] # <<>>
    <3>1. work[Target(h)] \in Seq(JobKind)
      BY <2>1 DEF WlTypes
    <3>2. Append(work[Target(h)], JobOf[handler[h].op]) \in Seq(JobKind) /\ Append(work[Target(h)], JobOf[handler[h].op]) # <<>>
      BY <2>6, <3>1, OneAppended
    <3> QED BY <2>1, <2>4, <3>2 DEF WlTypes
  <2> QED BY <2>4, <2>5, <2>7 DEF WlTypes
<1>7. ASSUME NEW h \in Handler, FoldRead(h) PROVE WlTypes' /\ Aimed'
  <2> DEFINE x == [op |-> "fold", pc |-> "fold", todo |-> handler[h].todo, kind |-> handler[h].kind,
                   ok |-> handler[h].ok, saw |-> row[Target(h)]]
  <2>1. handler[h] \in Reading /\ handler[h].todo # <<>> /\ Target(h) \in WorkloadId
    BY <1>7, BusyHandler DEF FoldRead, At, Folding
  <2>2. x \in Deciding /\ x.todo # <<>> /\ x.pc = "fold" /\ x.op = "fold"
    BY <2>1 DEF Reading, Deciding, WlTypes
  <2>3. handler' = [handler EXCEPT ![h] = x]
    BY <1>7 DEF FoldRead
  <2> HIDE DEF x
  <2>4. Handlers
    BY <2>2, <2>3, HandlerAimed
  <2> QED BY <1>7, <2>4 DEF FoldRead, WlTypes
<1>8. ASSUME NEW h \in Handler, Fold(h) PROVE WlTypes' /\ Aimed'
  <2>1. handler[h] \in Deciding /\ Target(h) \in WorkloadId
    BY <1>8, BusyHandler DEF Fold, At, Folding
  <2>2. Folded(handler[h].kind, handler[h].ok, handler[h].saw, row[Target(h)]) \in RowStatus \cup {"none"}
    <3>1. row[Target(h)] \in RowStatus \cup {"none"} /\ handler[h].kind \in JobKind /\ handler[h].ok \in BOOLEAN
      BY <2>1 DEF WlTypes, Deciding
    <3> QED BY <3>1 DEF Folded, RowStatus, JobKind
  <2>3. Handlers
    BY <1>8, EndsAimed DEF Fold
  <2> QED BY <1>8, <2>2, <2>3 DEF Fold, WlTypes
<1>9. ASSUME NEW w \in WorkloadId, Start(w) PROVE WlTypes' /\ Aimed'
  BY <1>9 DEF Start, WlTypes, Aimed, Target
<1>10. ASSUME NEW w \in WorkloadId, NEW h \in Handler, NEW ok \in BOOLEAN, Report(h, w, ok) PROVE WlTypes' /\ Aimed'
  <2> DEFINE x == [op |-> "fold", pc |-> "read", todo |-> <<w>>, kind |-> Head(work[w]), ok |-> ok]
  <2>1. w \in doing /\ work[w] \in Seq(JobKind) /\ work[w] # <<>>
    BY <1>10 DEF Report, WlTypes
  <2>2. Head(work[w]) \in JobKind /\ Tail(work[w]) \in Seq(JobKind)
    BY <2>1, HeadAndTail
  <2>3. x \in Reading /\ x.todo # <<>> /\ x.pc = "read" /\ x.op = "fold"
    BY <2>2 DEF Reading
  <2>4. handler' = [handler EXCEPT ![h] = x]
    BY <1>10 DEF Report
  <2> HIDE DEF x
  <2>5. Handlers
    BY <2>3, <2>4, HandlerAimed
  <2>6. site' \in [WorkloadId -> Container]
    <3>1. site[w] \in Container
      BY DEF WlTypes
    <3>2. Effect(Head(work[w]), site[w]) \in Container
      BY <2>2, <3>1 DEF Effect, Container
    <3>3. MayLeave(Head(work[w]), site[w]) \subseteq Container
      BY DEF MayLeave, Container
    <3>4. PICK s \in IF ok THEN {Effect(Head(work[w]), site[w])} ELSE MayLeave(Head(work[w]), site[w]) : site' = [site EXCEPT ![w] = s]
      BY <1>10 DEF Report
    <3>5. s \in Container
      BY <3>2, <3>3, <3>4
    <3> QED BY <3>4, <3>5 DEF WlTypes
  <2>7. /\ work' \in [WorkloadId -> Seq(JobKind)] /\ doing' \in SUBSET WorkloadId /\ \A u \in doing' : work'[u] # <<>>
    BY <1>10, <2>2 DEF Report, WlTypes
  <2>8. failed' \in SUBSET WorkloadId /\ failures' \in Nat /\ UNCHANGED <<row, parent, leaving, asked>>
    BY <1>10 DEF Report, WlTypes
  <2> QED BY <2>5, <2>6, <2>7, <2>8 DEF WlTypes
<1>11. CASE UNCHANGED wlVars
  BY <1>11 DEF wlVars, WlTypes, Aimed, Target
<1> QED BY <1>1, <1>2, <1>3, <1>4, <1>5, <1>6, <1>7, <1>8, <1>9, <1>10, <1>11 DEF WorkloadsNext, Handle, Works

LEMMA TypesInit == WorkloadsInit => WlTypes /\ Aimed
<1> SUFFICES ASSUME WorkloadsInit PROVE WlTypes /\ Aimed
  OBVIOUS
<1>1. WlTypes
  BY EmptySeq DEF WorkloadsInit, WlTypes, RowStatus, Container
<1>2. Aimed
  BY DEF WorkloadsInit, Aimed, Idle
<1> QED BY <1>1, <1>2

LEMMA TypesShow == WlTypes => WorkloadsTypeOK
<1> SUFFICES ASSUME WlTypes PROVE WorkloadsTypeOK
  OBVIOUS
<1>1. \A h \in Handler : At(h, "idle") \/ Target(h) \in WorkloadId
  BY BusyHandler DEF At, Folding
<1> QED BY <1>1 DEF WlTypes, WorkloadsTypeOK

\* Rows, jobs, containers and handlers are what their columns and queues allow, whatever
\* people ask and however many requests and reports are served at the same time.
THEOREM WorkloadsTyped == WorkloadsSpec => []WorkloadsTypeOK
<1>1. WlTypes /\ Aimed /\ [WorkloadsNext]_wlVars => (WlTypes /\ Aimed)'
  BY TypesStep
<1> QED BY <1>1, TypesInit, TypesShow, PTL DEF WorkloadsSpec
==============================================================================
