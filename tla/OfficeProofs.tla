---------------------------- MODULE OfficeProofs ----------------------------
(***************************************************************************)
(* The parts of the panel beside sites and their bills, for any number of  *)
(* servers, addresses, orders, customers, documents, deliveries, blocks,   *)
(* imports and tasks: what each of them promises follows from what holds   *)
(* in all of its states, and the parts share no variable.                  *)
(***************************************************************************)
EXTENDS MCOffice, Sums

-----------------------------------------------------------------------------
(* The servers at the cloud provider, and their addresses.                *)

Making   == {"lease", "book", "create", "record", "undo"}
Creating == Making \cup {"insert"}
Waiting  == Creating \cup {"wait"}
DeedState ==
  [pc : Waiting \cup {"idle", "place", "retire", "release", "delete"}, on : Server \cup {NoNode},
   ip : Address \cup {NoIp}, todo : SUBSET Server, free : Int]

CapTypes ==
  /\ node \in [Server -> {"none", "starting", "online", "offline"}]
  /\ machine \in [Server -> {"none", NoIp} \cup Address]
  /\ lease \in [Address -> {"none", "free"} \cup Server]
  /\ reserved \subseteq Address
  /\ sites \in [Server -> Nat]
  /\ auto \subseteq Server /\ ghosts \subseteq Server
  /\ idle \in [Server -> {"no", "now", "long"}]
  /\ line \in Seq(Doer)
  /\ deed \in [Doer -> DeedState]
  /\ unheard \in Nat /\ byHand \in Nat

\* Who creates a server in automatic mode is first in the line, the others wait.
LineKnown ==
  /\ \A i, j \in DOMAIN line : line[i] = line[j] => i = j
  /\ \A i \in DOMAIN line :
       /\ line[i] # Staff /\ deed[line[i]].pc \in Waiting
       /\ i # 1 => deed[line[i]].pc = "wait"
  /\ \A d \in Doer : d # Staff /\ deed[d].pc \in Waiting => \E i \in DOMAIN line : line[i] = d

Roles ==
  \A d \in Doer :
    /\ deed[d].pc = "place" => d \in Client
    /\ deed[d].pc = "retire" => d = Keeper
    /\ deed[d].pc \in {"release", "delete"} => d = Staff
    /\ deed[d].pc = "wait" => d # Staff

\* A step of d that leaves the line, joins it, or neither.
LEMMA LineStays ==
  ASSUME LineKnown, NEW d \in Doer, NEW x \in DeedState, deed \in [Doer -> DeedState], line \in Seq(Doer),
         deed' = [deed EXCEPT ![d] = x], line' = line,
         \/ d = Staff
         \/ deed[d].pc \notin Waiting /\ x.pc \notin Waiting
         \/ deed[d].pc \in Creating /\ x.pc \in Creating
         \/ deed[d].pc = "wait" /\ line[1] = d /\ x.pc \in Creating
  PROVE  LineKnown'
<1>1. deed'[d] = x /\ \A e \in Doer : e # d => deed'[e] = deed[e]
  OBVIOUS
<1>2. CASE d = Staff \/ (deed[d].pc \notin Waiting /\ x.pc \notin Waiting)
  <2>1. \A i \in DOMAIN line : line[i] # d
    BY <1>2 DEF LineKnown
  <2>2. \A i \in DOMAIN line : line[i] # Staff /\ deed'[line[i]].pc \in Waiting /\ (i # 1 => deed'[line[i]].pc = "wait")
    BY <1>1, <2>1 DEF LineKnown
  <2>3. \A e \in Doer : e # Staff /\ deed'[e].pc \in Waiting => \E i \in DOMAIN line : line[i] = e
    BY <1>1, <1>2 DEF LineKnown
  <2> QED BY <2>2, <2>3 DEF LineKnown
<1>3. CASE /\ deed[d].pc \in Creating \/ (deed[d].pc = "wait" /\ line[1] = d)
           /\ x.pc \in Creating /\ d # Staff
  <2>1. deed[d].pc \in Waiting /\ x.pc \in Waiting /\ \A i \in DOMAIN line : line[i] = d /\ deed[d].pc # "wait" => i = 1
    BY <1>3 DEF LineKnown, Waiting, Creating, Making
  <2>2. PICK k \in DOMAIN line : line[k] = d
    BY <1>3, <2>1 DEF LineKnown
  <2>3. \A i \in DOMAIN line : line[i] = d => i = 1
    <3>1. CASE deed[d].pc # "wait"
      BY <2>1, <3>1
    <3>2. CASE deed[d].pc = "wait"
      <4>1. line[1] = d
        BY <1>3, <3>2 DEF Creating, Making
      <4>2. 1 \in DOMAIN line
        BY <2>2
      <4> QED BY <4>1, <4>2 DEF LineKnown
    <3> QED BY <3>1, <3>2
  <2>4. \A i \in DOMAIN line : line[i] # Staff /\ deed'[line[i]].pc \in Waiting /\ (i # 1 => deed'[line[i]].pc = "wait")
    BY <1>1, <2>1, <2>3 DEF LineKnown
  <2>5. \A e \in Doer : e # Staff /\ deed'[e].pc \in Waiting => \E i \in DOMAIN line : line[i] = e
    BY <1>1, <2>2 DEF LineKnown
  <2> QED BY <2>4, <2>5 DEF LineKnown
<1> QED BY <1>2, <1>3 DEF Waiting, Creating

LEMMA LineJoined ==
  ASSUME LineKnown, NEW d \in Doer, NEW x \in DeedState, deed \in [Doer -> DeedState], line \in Seq(Doer),
         deed' = [deed EXCEPT ![d] = x], line' = Append(line, d),
         d # Staff, deed[d].pc \notin Waiting, x.pc = "wait"
  PROVE  LineKnown' /\ line' \in Seq(Doer)
<1>1. deed'[d] = x /\ \A e \in Doer : e # d => deed'[e] = deed[e]
  OBVIOUS
<1> DEFINE k == Len(line) + 1
<1>2. /\ DOMAIN line' = DOMAIN line \cup {k} /\ k \notin DOMAIN line /\ line'[k] = d
      /\ \A i \in DOMAIN line : line'[i] = line[i]
      /\ line' \in Seq(Doer)
  <2>1. Len(line) \in Nat /\ DOMAIN line = 1 .. Len(line)
    OBVIOUS
  <2>2. Len(line') = Len(line) + 1 /\ DOMAIN line' = 1 .. Len(line) + 1 /\ line' \in Seq(Doer)
    OBVIOUS
  <2>3. \A i \in 1 .. Len(line) : line'[i] = line[i]
    BY <2>1
  <2>4. line'[Len(line) + 1] = d
    OBVIOUS
  <2> QED BY <2>1, <2>2, <2>3, <2>4
<1> HIDE DEF k
<1>3. \A i \in DOMAIN line : line[i] # d
  BY DEF LineKnown
<1>4. \A i, j \in DOMAIN line' : line'[i] = line'[j] => i = j
  BY <1>2, <1>3 DEF LineKnown
<1>5. \A i \in DOMAIN line' : line'[i] # Staff /\ deed'[line'[i]].pc \in Waiting /\ (i # 1 => deed'[line'[i]].pc = "wait")
  BY <1>1, <1>2, <1>3 DEF LineKnown, Waiting
<1>6. \A e \in Doer : e # Staff /\ deed'[e].pc \in Waiting => \E i \in DOMAIN line' : line'[i] = e
  BY <1>1, <1>2 DEF LineKnown
<1> QED BY <1>2, <1>4, <1>5, <1>6 DEF LineKnown

LEMMA LineLeft ==
  ASSUME LineKnown, NEW d \in Doer, NEW x \in DeedState, deed \in [Doer -> DeedState], line \in Seq(Doer),
         deed' = [deed EXCEPT ![d] = x], line' = Tail(line),
         d # Staff, line # <<>>, line[1] = d, x.pc \notin Waiting
  PROVE  LineKnown' /\ line' \in Seq(Doer)
<1>1. deed'[d] = x /\ \A e \in Doer : e # d => deed'[e] = deed[e]
  OBVIOUS
<1>2. /\ line' \in Seq(Doer)
      /\ 1 \in DOMAIN line /\ DOMAIN line \subseteq Int
      /\ \A i \in DOMAIN line' : i + 1 \in DOMAIN line /\ line'[i] = line[i + 1] /\ i + 1 # 1 /\ i \in Int
      /\ \A i \in DOMAIN line : i # 1 => i - 1 \in DOMAIN line' /\ line'[i - 1] = line[i]
  <2>1. Len(line) \in Nat /\ Len(line) # 0 /\ DOMAIN line = 1 .. Len(line)
    OBVIOUS
  <2>2. Len(line') = Len(line) - 1 /\ DOMAIN line' = 1 .. Len(line) - 1 /\ line' \in Seq(Doer)
    BY <2>1
  <2>3. \A i \in 1 .. Len(line) - 1 : line'[i] = line[i + 1]
    BY <2>1
  <2>4. \A i \in DOMAIN line' : i + 1 \in DOMAIN line /\ line'[i] = line[i + 1] /\ i + 1 # 1 /\ i \in Int
    BY <2>1, <2>2, <2>3
  <2>5. \A i \in DOMAIN line : i # 1 => i - 1 \in DOMAIN line' /\ line'[i - 1] = line[i]
    <3> SUFFICES ASSUME NEW i \in DOMAIN line, i # 1 PROVE i - 1 \in DOMAIN line' /\ line'[i - 1] = line[i]
      OBVIOUS
    <3>1. i - 1 \in 1 .. Len(line) - 1 /\ (i - 1) + 1 = i
      BY <2>1
    <3> QED BY <2>2, <2>3, <3>1
  <2> QED BY <2>1, <2>2, <2>4, <2>5
<1>3. \A i \in DOMAIN line' : line'[i] # d
  BY <1>2 DEF LineKnown
<1>4. \A i, j \in DOMAIN line' : line'[i] = line'[j] => i = j
  <2> SUFFICES ASSUME NEW i \in DOMAIN line', NEW j \in DOMAIN line', line'[i] = line'[j] PROVE i = j
    OBVIOUS
  <2>1. i + 1 = j + 1
    BY <1>2 DEF LineKnown
  <2> QED BY <1>2, <2>1
<1>5. \A i \in DOMAIN line' : line'[i] # Staff /\ deed'[line'[i]].pc = "wait" /\ line'[i] \in Doer
  <2> SUFFICES ASSUME NEW i \in DOMAIN line' PROVE line'[i] # Staff /\ deed'[line'[i]].pc = "wait" /\ line'[i] \in Doer
    OBVIOUS
  <2>1. i + 1 \in DOMAIN line /\ line'[i] = line[i + 1] /\ i + 1 # 1
    BY <1>2
  <2>2. line[i + 1] \in Doer
    BY <2>1
  <2> QED BY <1>1, <1>3, <2>1, <2>2 DEF LineKnown
<1>6. \A e \in Doer : e # Staff /\ deed'[e].pc \in Waiting => \E i \in DOMAIN line' : line'[i] = e
  <2> SUFFICES ASSUME NEW e \in Doer, e # Staff, deed'[e].pc \in Waiting PROVE \E i \in DOMAIN line' : line'[i] = e
    OBVIOUS
  <2>1. e # d /\ deed[e].pc \in Waiting
    BY <1>1
  <2>2. PICK i \in DOMAIN line : line[i] = e
    BY <2>1 DEF LineKnown
  <2>3. i # 1
    BY <2>1, <2>2
  <2> QED BY <1>2, <2>2, <2>3
<1> QED BY <1>2, <1>4, <1>5, <1>6 DEF LineKnown, Waiting

\* Who creates in automatic mode is alone, and first.
LEMMA FirstInLine ==
  ASSUME LineKnown
  PROVE  /\ \A d \in Doer : d # Staff /\ deed[d].pc \in Creating => line[1] = d
         /\ \A d, e \in Doer : d # Staff /\ e # Staff /\ deed[d].pc \in Creating /\ deed[e].pc \in Creating => d = e
         /\ \A d, e \in Doer : d # Staff /\ e # Staff /\ deed[d].pc \in Waiting /\ deed[e].pc \in Creating /\ line[1] = d => d = e
         /\ \A d \in Doer : d # Staff /\ deed[d].pc \in Waiting => line # <<>>
BY DEF LineKnown, Waiting, Creating, Making

-----------------------------------------------------------------------------
(* What the deeds of the others rest on.                                   *)

Makes(d, n) == deed[d].pc \in Making /\ deed[d].on = n
Unmade(n)   == \A d \in Doer : ~Makes(d, n)
IsThere(n)   == node[n] \in {"starting", "online"}

\* A server that is being created is starting, and one creation's; it has a machine
\* when the provider gave it one, or nobody knows.
DeedsKnown ==
  /\ \A d \in Doer : deed[d].pc \in Making => deed[d].on \in Server /\ node[deed[d].on] = "starting"
  /\ \A d \in Doer : deed[d].pc \in {"lease", "book", "create"} => machine[deed[d].on] = "none"
  /\ \A d \in Doer : deed[d].pc = "record" => machine[deed[d].on] # "none"
  /\ \A d \in Doer : deed[d].pc = "undo" /\ unheard = 0 => machine[deed[d].on] = "none"
  /\ \A d, e \in Doer : deed[d].pc \in Making /\ deed[e].pc \in Making /\ deed[d].on = deed[e].on => d = e
  /\ \A d \in Doer : deed[d].pc = "place" => deed[d].on \in Server /\ IsThere(deed[d].on) /\ Unmade(deed[d].on)
  /\ \A d \in Doer : \A n \in deed[d].todo : d = Keeper /\ node[n] \in {"online", "offline"}
  /\ \A d \in Doer : deed[d].pc \in {"idle", "wait", "insert", "lease"} => deed[d].ip = NoIp
  /\ deed[Staff].pc \in Making => deed[Staff].on \notin auto

\* A server that stands and is not being created has its machine; sites are on such
\* servers only; automatic mode counts rows; a machine nobody missed is known.
NodesKnown ==
  /\ \A n \in Server : IsThere(n) /\ Unmade(n) => machine[n] # "none"
  /\ \A n \in Server : sites[n] > 0 => IsThere(n) /\ Unmade(n)
  /\ \A n \in auto : node[n] # "none"
  /\ MachinesKnown

\* Who is about to insert has room for one more.
AutoBounded ==
  /\ Cardinality(auto) <= MaxServers
  /\ \A d \in Doer : d # Staff /\ deed[d].pc = "insert" => Cardinality(auto) < MaxServers

CapInv == CapTypes /\ LineKnown /\ Roles /\ DeedsKnown /\ NodesKnown /\ AutoBounded

\* Another state of a deed.
LEMMA DeedMoves ==
  ASSUME NEW s \in DeedState, NEW pc \in Waiting \cup {"idle", "place", "retire", "release", "delete"}
  PROVE  /\ [s EXCEPT !.pc = pc] \in DeedState
         /\ [s EXCEPT !.pc = pc].pc = pc /\ [s EXCEPT !.pc = pc].on = s.on /\ [s EXCEPT !.pc = pc].ip = s.ip
         /\ [s EXCEPT !.pc = pc].todo = s.todo
BY DEF DeedState

DeedBecomes(d, x) == deed' = [deed EXCEPT ![d] = x]

LEMMA IdlyIs ==
  /\ Idly \in DeedState /\ Idly.pc = "idle" /\ Idly.todo = {} /\ Idly.ip = NoIp /\ Idly.on = NoNode
BY DEF Idly, DeedState

LEMMA Moving ==
  ASSUME deed \in [Doer -> DeedState], NEW d \in Doer,
         NEW pc \in Waiting \cup {"idle", "place", "retire", "release", "delete"}, Moves(d, pc)
  PROVE  \E x \in DeedState : /\ DeedBecomes(d, x) /\ x.pc = pc /\ x.on = deed[d].on
                              /\ x.ip = deed[d].ip /\ x.todo = deed[d].todo
<1> DEFINE x == [deed[d] EXCEPT !.pc = pc]
<1>1. deed[d] \in DeedState
  OBVIOUS
<1>2. x \in DeedState /\ x.pc = pc /\ x.on = deed[d].on /\ x.ip = deed[d].ip /\ x.todo = deed[d].todo
  BY <1>1, DeedMoves
<1>3. DeedBecomes(d, x)
  BY DEF Moves, DeedBecomes
<1> HIDE DEF x
<1> QED BY <1>2, <1>3

LEMMA Placing ==
  ASSUME NEW d \in Doer, NEW n \in Server, Becomes(d, [Idly EXCEPT !.pc = "place", !.on = n])
  PROVE  \E x \in DeedState : DeedBecomes(d, x) /\ x.pc = "place" /\ x.on = n /\ x.todo = {} /\ x.ip = NoIp
<1> DEFINE s == Idly
           x == [s EXCEPT !.pc = "place", !.on = n]
<1>1. s \in DeedState /\ s.todo = {} /\ s.ip = NoIp
  BY IdlyIs
<1>2. DeedBecomes(d, x)
  BY DEF Becomes, DeedBecomes
<1> HIDE DEF s
<1>3. x \in DeedState /\ x.pc = "place" /\ x.on = n /\ x.todo = {} /\ x.ip = NoIp
  BY <1>1 DEF DeedState
<1> HIDE DEF x
<1> QED BY <1>2, <1>3

LEMMA Lining ==
  ASSUME NEW d \in Doer, Becomes(d, [Idly EXCEPT !.pc = "wait"])
  PROVE  \E x \in DeedState : DeedBecomes(d, x) /\ x.pc = "wait" /\ x.todo = {} /\ x.ip = NoIp
<1> DEFINE s == Idly
           x == [s EXCEPT !.pc = "wait"]
<1>1. s \in DeedState /\ s.todo = {} /\ s.ip = NoIp
  BY IdlyIs
<1>2. DeedBecomes(d, x)
  BY DEF Becomes, DeedBecomes
<1> HIDE DEF s
<1>3. x \in DeedState /\ x.pc = "wait" /\ x.todo = {} /\ x.ip = NoIp
  BY <1>1 DEF DeedState, Waiting
<1> HIDE DEF x
<1> QED BY <1>2, <1>3

LEMMA Running ==
  ASSUME NEW d \in Doer, NEW T \in SUBSET Server, NEW f \in Int,
         Becomes(d, [Idly EXCEPT !.pc = "retire", !.free = f, !.todo = T])
  PROVE  \E x \in DeedState : DeedBecomes(d, x) /\ x.pc = "retire" /\ x.todo = T /\ x.ip = NoIp /\ x.free = f
<1> DEFINE s == Idly
           x == [s EXCEPT !.pc = "retire", !.free = f, !.todo = T]
<1>1. s \in DeedState /\ s.ip = NoIp
  BY IdlyIs
<1>2. DeedBecomes(d, x)
  BY DEF Becomes, DeedBecomes
<1> HIDE DEF s
<1>3. x \in DeedState /\ x.pc = "retire" /\ x.todo = T /\ x.ip = NoIp /\ x.free = f
  BY <1>1 DEF DeedState
<1> HIDE DEF x
<1> QED BY <1>2, <1>3

LEMMA Releasing ==
  ASSUME NEW d \in Doer, NEW a \in Address, Becomes(d, [Idly EXCEPT !.pc = "release", !.ip = a])
  PROVE  \E x \in DeedState : DeedBecomes(d, x) /\ x.pc = "release" /\ x.todo = {} /\ x.ip = a
<1> DEFINE s == Idly
           x == [s EXCEPT !.pc = "release", !.ip = a]
<1>1. s \in DeedState /\ s.todo = {}
  BY IdlyIs
<1>2. DeedBecomes(d, x)
  BY DEF Becomes, DeedBecomes
<1> HIDE DEF s
<1>3. x \in DeedState /\ x.pc = "release" /\ x.todo = {} /\ x.ip = a
  BY <1>1 DEF DeedState
<1> HIDE DEF x
<1> QED BY <1>2, <1>3

LEMMA Naming ==
  ASSUME deed \in [Doer -> DeedState], NEW d \in Doer, NEW n \in Server,
         Becomes(d, [deed[d] EXCEPT !.pc = "lease", !.on = n])
  PROVE  \E x \in DeedState : DeedBecomes(d, x) /\ x.pc = "lease" /\ x.on = n /\ x.ip = deed[d].ip /\ x.todo = deed[d].todo
<1> DEFINE s == deed[d]
           x == [s EXCEPT !.pc = "lease", !.on = n]
<1>1. s \in DeedState
  OBVIOUS
<1>2. DeedBecomes(d, x)
  BY DEF Becomes, DeedBecomes
<1> HIDE DEF s
<1>3. x \in DeedState /\ x.pc = "lease" /\ x.on = n /\ x.ip = s.ip /\ x.todo = s.todo
  BY <1>1 DEF DeedState, Waiting, Creating, Making
<1> HIDE DEF x
<1> QED BY <1>2, <1>3 DEF s

LEMMA GoingHome ==
  ASSUME NEW d \in Doer, NEW n \in Server \cup {NoNode}, Becomes(d, Gets(d, n))
  PROVE  \E x \in DeedState :
           /\ DeedBecomes(d, x) /\ x.todo = {} /\ x.ip = NoIp /\ x.pc \in {"idle", "place"}
           /\ x.pc = "place" => d \in Client /\ x.on = n /\ n # NoNode
           /\ d = Staff => x.pc = "idle"
<1>1. CASE d \in Client /\ n # NoNode
  <2> DEFINE s == Idly
             y == [s EXCEPT !.pc = "place", !.on = n]
  <2>1. s \in DeedState /\ s.todo = {} /\ s.ip = NoIp /\ n \in Server
    BY <1>1, IdlyIs
  <2>4. DeedBecomes(d, y)
    BY <1>1 DEF Gets, Becomes, DeedBecomes
  <2> HIDE DEF s
  <2>2. y \in DeedState /\ y.pc = "place" /\ y.on = n /\ y.todo = {} /\ y.ip = NoIp
    BY <2>1 DEF DeedState
  <2> HIDE DEF y
  <2>3. d # Staff
    BY <1>1, CapacityBounds
  <2> QED BY <1>1, <2>2, <2>3, <2>4
<1>2. CASE ~(d \in Client /\ n # NoNode)
  <2>1. DeedBecomes(d, Idly)
    BY <1>2 DEF Gets, Becomes, DeedBecomes
  <2> QED BY <2>1, IdlyIs
<1> QED BY <1>1, <1>2

\* A step of d that leaves the servers alone and creates nothing new: the others'
\* deeds rest on what they did.
LEMMA DeedsKept ==
  ASSUME DeedsKnown, Roles, NEW d \in Doer, NEW x \in DeedState, deed \in [Doer -> DeedState],
         deed' = [deed EXCEPT ![d] = x], UNCHANGED <<node, auto>>, unheard \in Nat, unheard' \in Nat, unheard <= unheard',
         \A e \in Doer : e # d /\ deed[e].pc \in Making => machine'[deed[e].on] = machine[deed[e].on],
         x.pc \in Making => deed[d].pc \in Making /\ x.on = deed[d].on,
         x.pc \in {"lease", "book", "create"} => machine'[x.on] = "none",
         x.pc = "record" => machine'[x.on] # "none",
         x.pc = "undo" /\ unheard' = 0 => machine'[x.on] = "none",
         x.pc = "place" => d \in Client /\ x.on \in Server /\ IsThere(x.on) /\ \A e \in Doer : e # d => ~Makes(e, x.on),
         \A n \in x.todo : d = Keeper /\ node[n] \in {"online", "offline"},
         x.pc \in {"idle", "wait", "insert", "lease"} => x.ip = NoIp,
         x.pc = "retire" => d = Keeper,
         x.pc \in {"release", "delete"} => d = Staff,
         x.pc = "wait" => d # Staff
  PROVE  DeedsKnown' /\ Roles'
<1>1. deed'[d] = x /\ \A e \in Doer : e # d => deed'[e] = deed[e]
  OBVIOUS
<1>2. \A e \in Doer : deed'[e].pc \in Making => deed[e].pc \in Making /\ deed'[e].on = deed[e].on
  BY <1>1
<1>3. \A e \in Doer : deed'[e].pc \in Making => deed'[e].on \in Server /\ node'[deed'[e].on] = "starting"
  BY <1>2 DEF DeedsKnown
<1>4. \A e \in Doer : deed'[e].pc \in {"lease", "book", "create"} => machine'[deed'[e].on] = "none"
  BY <1>1 DEF DeedsKnown, Making
<1>5. \A e \in Doer : deed'[e].pc = "record" => machine'[deed'[e].on] # "none"
  BY <1>1 DEF DeedsKnown, Making
<1>6. \A e \in Doer : deed'[e].pc = "undo" /\ unheard' = 0 => machine'[deed'[e].on] = "none"
  BY <1>1 DEF DeedsKnown, Making
<1>7. \A e, f \in Doer : deed'[e].pc \in Making /\ deed'[f].pc \in Making /\ deed'[e].on = deed'[f].on => e = f
  BY <1>2 DEF DeedsKnown
<1>8. ASSUME NEW e \in Doer, deed'[e].pc = "place"
      PROVE  /\ deed'[e].on \in Server /\ node'[deed'[e].on] \in {"starting", "online"}
             /\ \A f \in Doer : ~(deed'[f].pc \in Making /\ deed'[f].on = deed'[e].on)
  <2>1. CASE e = d
    BY <1>1, <1>8, <2>1 DEF IsThere, Makes, Making
  <2>2. CASE e # d
    BY <1>1, <1>2, <1>8, <2>2 DEF DeedsKnown, IsThere, Unmade, Makes
  <2> QED BY <2>1, <2>2
<1>9. \A e \in Doer : \A n \in deed'[e].todo : e = Keeper /\ node'[n] \in {"online", "offline"}
  BY <1>1 DEF DeedsKnown
<1>10. \A e \in Doer : deed'[e].pc \in {"idle", "wait", "insert", "lease"} => deed'[e].ip = NoIp
  BY <1>1 DEF DeedsKnown
<1>11. deed'[Staff].pc \in Making => deed'[Staff].on \notin auto'
  <2>1. Staff \in Doer
    BY DEF Doer
  <2> QED BY <1>2, <2>1 DEF DeedsKnown
<1>12. DeedsKnown'
  BY <1>3, <1>4, <1>5, <1>6, <1>7, <1>8, <1>9, <1>10, <1>11 DEF DeedsKnown, IsThere, Unmade, Makes
<1>13. Roles'
  BY <1>1 DEF Roles
<1> QED BY <1>12, <1>13

\* The servers are known as before when what stands and is not being created stays so.
LEMMA NodesKept ==
  ASSUME NodesKnown, UNCHANGED <<node, auto, sites, machine>>, unheard \in Nat, unheard' \in Nat, unheard <= unheard',
         \A n \in Server : \/ Unmade(n) /\ Unmade(n)'
                           \/ ~Unmade(n) /\ ~Unmade(n)'
                           \/ ~Unmade(n) /\ machine[n] # "none"
  PROVE  NodesKnown'
BY DEF NodesKnown, IsThere, MachinesKnown

\* A step that creates nothing new and leaves the machines alone.
LEMMA QuietStep ==
  ASSUME CapInv, NEW d \in Doer, NEW x \in DeedState, DeedBecomes(d, x), UNCHANGED <<node, auto, sites, machine, unheard>>,
         CapTypes', LineKnown',
         x.pc \in Making => deed[d].pc \in Making /\ x.on = deed[d].on /\ x.pc # "record",
         x.pc \in {"lease", "book", "create", "undo"} => deed[d].pc \in {"lease", "book", "create"},
         deed[d].pc \in Making /\ x.pc \notin Making => deed[d].pc = "record",
         x.pc = "place" => d \in Client /\ x.on \in Server /\ IsThere(x.on) /\ \A e \in Doer : e # d => ~Makes(e, x.on),
         \A n \in x.todo : d = Keeper /\ node[n] \in {"online", "offline"},
         x.pc \in {"idle", "wait", "insert", "lease"} => x.ip = NoIp,
         x.pc = "retire" => d = Keeper,
         x.pc \in {"release", "delete"} => d = Staff,
         x.pc = "wait" => d # Staff,
         x.pc = "insert" /\ d # Staff => Cardinality(auto) < MaxServers
  PROVE  CapInv'
<1>1. deed \in [Doer -> DeedState] /\ unheard \in Nat
  BY DEF CapInv, CapTypes
<1>2. deed'[d] = x /\ \A e \in Doer : e # d => deed'[e] = deed[e]
  BY <1>1 DEF DeedBecomes
<1>3. DeedsKnown /\ Roles /\ NodesKnown /\ AutoBounded
  BY DEF CapInv
<1>4. x.pc \in {"lease", "book", "create", "undo"} => machine[x.on] = "none"
  BY <1>3 DEF DeedsKnown, Making
<1>5. DeedsKnown' /\ Roles'
  <2>1. deed' = [deed EXCEPT ![d] = x] /\ unheard' = unheard /\ machine' = machine /\ unheard <= unheard' /\ unheard' \in Nat
    BY <1>1 DEF DeedBecomes
  <2>2. x.pc = "record" => machine'[x.on] # "none"
    BY DEF Making
  <2> QED BY <1>1, <1>3, <1>4, <2>1, <2>2, DeedsKept
<1>6. NodesKnown'
  <2>1. ASSUME NEW n \in Server
        PROVE  \/ Unmade(n) /\ Unmade(n)'
               \/ ~Unmade(n) /\ ~Unmade(n)'
               \/ ~Unmade(n) /\ machine[n] # "none"
    <3>1. CASE Makes(d, n) /\ x.pc \in Making
      <4>1. deed'[d].pc \in Making /\ deed'[d].on = n
        BY <1>2, <3>1 DEF Makes
      <4> QED BY <3>1, <4>1 DEF Unmade, Makes
    <3>2. CASE Makes(d, n) /\ x.pc \notin Making
      BY <1>3, <3>2 DEF Unmade, Makes, DeedsKnown
    <3>3. CASE ~Makes(d, n)
      <4>1. ~(x.pc \in Making /\ x.on = n)
        BY <3>3 DEF Makes
      <4>2. \A e \in Doer : (deed'[e].pc \in Making /\ deed'[e].on = n) <=> Makes(e, n)
        BY <1>2, <3>3, <4>1 DEF Makes
      <4> QED BY <4>2 DEF Unmade, Makes
    <3> QED BY <3>1, <3>2, <3>3
  <2> QED BY <1>1, <1>3, <2>1, NodesKept
<1>7. AutoBounded'
  BY <1>2, <1>3 DEF AutoBounded
<1> QED BY <1>5, <1>6, <1>7 DEF CapInv

-----------------------------------------------------------------------------
(* Room.                                                                   *)

Room == [n \in Server |-> PerServer - Min({sites[n], PerServer})]

LEMMA LesserOf ==
  ASSUME NEW a \in Nat, NEW b \in Nat
  PROVE  Min({a, b}) = IF a <= b THEN a ELSE b
<1>1. CASE a <= b
  <2>1. \A x \in {a, b} : (\A y \in {a, b} : x <= y) <=> x = a
    BY <1>1
  <2> QED BY <1>1, <2>1 DEF Min
<1>2. CASE ~(a <= b)
  <2>1. \A x \in {a, b} : (\A y \in {a, b} : x <= y) <=> x = b
    BY <1>2
  <2> QED BY <1>2, <2>1 DEF Min
<1> QED BY <1>1, <1>2

LEMMA RoomIsNat ==
  ASSUME CapTypes
  PROVE  /\ \A n \in Server : Room[n] \in Nat /\ Room[n] <= PerServer
         /\ \A S \in SUBSET Server : IsFiniteSet(S)
         /\ FreePlaces \in Nat /\ FreePlaces = SumFunctionOnSet(Room, Usable) /\ Usable \in SUBSET Server
<1>1. PerServer \in Nat
  BY CapacityBounds
<1>2. ASSUME NEW n \in Server PROVE Room[n] \in Nat /\ Room[n] <= PerServer
  <2>1. sites[n] \in Nat
    BY DEF CapTypes
  <2>2. Min({sites[n], PerServer}) = IF sites[n] <= PerServer THEN sites[n] ELSE PerServer
    BY <1>1, <2>1, LesserOf
  <2>3. Room[n] = PerServer - (IF sites[n] <= PerServer THEN sites[n] ELSE PerServer)
    BY <2>2 DEF Room
  <2> QED BY <1>1, <2>1, <2>3
<1>3. \A S \in SUBSET Server : IsFiniteSet(S)
  BY CapacityBounds, FS_Subset
<1>4. Usable \in SUBSET Server
  BY DEF Usable, Rows
<1>5. FreePlaces = SumFunctionOnSet(Room, Usable)
  BY DEF FreePlaces, Room
<1>6. FreePlaces \in Nat
  BY <1>2, <1>3, <1>4, <1>5, SumIsNat
<1> QED BY <1>2, <1>3, <1>4, <1>5, <1>6

\* The same of the next state, and the greater of zero and a number.
LEMMA RoomThen ==
  ASSUME CapTypes'
  PROVE  FreePlaces' \in Nat
<1> DEFINE R == [n \in Server |-> PerServer - Min({sites'[n], PerServer})]
<1>1. ASSUME NEW n \in Server PROVE R[n] \in Nat
  <2>1. sites'[n] \in Nat /\ PerServer \in Nat
    BY CapacityBounds DEF CapTypes
  <2>2. Min({sites'[n], PerServer}) = IF sites'[n] <= PerServer THEN sites'[n] ELSE PerServer
    BY <2>1, LesserOf
  <2> QED BY <2>1, <2>2
<1>2. IsFiniteSet(Usable') /\ Usable' \subseteq Server
  <2>1. Usable' \subseteq Server
    BY DEF Usable, Rows
  <2> QED BY <2>1, CapacityBounds, FS_Subset
<1>3. FreePlaces' = SumFunctionOnSet(R, Usable')
  BY DEF FreePlaces
<1> HIDE DEF R
<1>4. \A n \in Usable' : R[n] \in Nat
  BY <1>1, <1>2
<1> QED BY <1>2, <1>3, <1>4, SumIsNat

LEMMA GreaterOf ==
  ASSUME NEW a \in Int
  PROVE  Max({0, a}) \in Nat /\ Max({0, a}) >= a /\ (a <= 0 => Max({0, a}) = 0)
BY DEF Max

-----------------------------------------------------------------------------
(* The steps that leave the servers and the machines alone.                *)

LEMMA Known ==
  ASSUME CapInv
  PROVE  /\ CapTypes /\ LineKnown /\ Roles /\ DeedsKnown /\ NodesKnown /\ AutoBounded
         /\ deed \in [Doer -> DeedState] /\ line \in Seq(Doer)
         /\ node \in [Server -> {"none", "starting", "online", "offline"}]
         /\ Staff \in Doer /\ Keeper \in Doer /\ Client \subseteq Doer /\ Keeper # Staff
         /\ \A c \in Client : c # Staff /\ c # Keeper
         /\ \A d \in Doer : deed[d] \in DeedState /\ deed[d].todo \subseteq Server
         /\ \A d \in Doer : deed[d].pc \in Waiting \cup {"idle", "place", "retire", "release", "delete"}
<1>1. deed \in [Doer -> DeedState]
  BY DEF CapInv, CapTypes
<1>2. \A d \in Doer : deed[d] \in DeedState
  BY <1>1
<1>3. \A d \in Doer : deed[d].todo \subseteq Server /\ deed[d].pc \in Waiting \cup {"idle", "place", "retire", "release", "delete"}
  BY <1>2 DEF DeedState
<1> QED BY <1>1, <1>2, <1>3, CapacityBounds DEF CapInv, CapTypes, Doer

LEMMA PickKeeps ==
  ASSUME CapInv, NEW c \in Client, Pick(c)
  PROVE  CapInv'
<1> DEFINE free == {n \in Rows : node[n] = "online" /\ HasRoom(n)}
           best == {n \in free : \A m \in free : sites[n] <= sites[m]}
<1>1. /\ deed[c].pc = "idle" /\ UNCHANGED <<capRows, capIps, machine, removed, unheard, byHand>>
      /\ \/ free = {} /\ line' = Append(line, c) /\ Moves(c, "wait")
         \/ \E n \in best : Becomes(c, [Idly EXCEPT !.pc = "place", !.on = n]) /\ UNCHANGED line
  BY DEF Pick, Does
<1>2. c \in Doer /\ c # Staff /\ deed \in [Doer -> DeedState] /\ line \in Seq(Doer) /\ LineKnown
  BY Known
<1>0. UNCHANGED <<node, auto, idle, sites, ghosts, lease, reserved, machine, unheard, byHand>>
  BY <1>1 DEF capRows, capIps
<1>3. CASE free = {} /\ line' = Append(line, c) /\ Moves(c, "wait")
  <2>1. PICK x \in DeedState : DeedBecomes(c, x) /\ x.pc = "wait" /\ x.on = deed[c].on /\ x.ip = deed[c].ip /\ x.todo = deed[c].todo
    BY <1>2, <1>3, Moving DEF Waiting
  <2>2. LineKnown' /\ line' \in Seq(Doer)
    BY <1>1, <1>2, <1>3, <2>1, LineJoined DEF DeedBecomes, Waiting, Creating, Making
  <2>3. CapTypes'
    BY <1>0, <1>2, <2>1, <2>2, Known DEF CapTypes, DeedBecomes
  <2>4. x.ip = NoIp /\ \A n \in x.todo : c = Keeper /\ node[n] \in {"online", "offline"}
    BY <1>1, <1>2, <2>1, Known DEF DeedsKnown
  <2> QED BY <1>0, <1>1, <1>2, <2>1, <2>2, <2>3, <2>4, QuietStep DEF Making
<1>4. ASSUME NEW n \in best, Becomes(c, [Idly EXCEPT !.pc = "place", !.on = n]), UNCHANGED line
      PROVE  CapInv'
  <2>0. n \in Server /\ node[n] = "online"
    BY DEF Rows
  <2>1. PICK x \in DeedState : DeedBecomes(c, x) /\ x.pc = "place" /\ x.on = n /\ x.todo = {} /\ x.ip = NoIp
    <3> DEFINE s == Idly
               x == [s EXCEPT !.pc = "place", !.on = n]
    <3>1. s \in DeedState /\ s.todo = {} /\ s.ip = NoIp
      BY IdlyIs
    <3>2. DeedBecomes(c, x)
      BY <1>4 DEF Becomes, DeedBecomes
    <3> HIDE DEF s
    <3>3. x \in DeedState /\ x.pc = "place" /\ x.on = n /\ x.todo = {} /\ x.ip = NoIp
      BY <2>0, <3>1 DEF DeedState
    <3> HIDE DEF x
    <3> QED BY <3>2, <3>3
  <2>2. LineKnown'
    BY <1>1, <1>2, <1>4, <2>1, LineStays DEF DeedBecomes, Waiting, Creating, Making
  <2>3. CapTypes'
    BY <1>0, <1>2, <1>4, <2>1, Known DEF CapTypes, DeedBecomes
  <2>4. \A e \in Doer : ~Makes(e, n)
    BY <2>0, Known DEF DeedsKnown, Makes
  <2> QED BY <1>0, <1>1, <1>2, <2>0, <2>1, <2>2, <2>3, <2>4, QuietStep DEF Making, IsThere
<1> QED BY <1>1, <1>3, <1>4

LEMMA ClaimKeeps ==
  ASSUME CapInv, NEW d \in Doer, ClaimAddress(d)
  PROVE  CapInv'
<1>1. PICK a \in Address : /\ lease[a] = "free" /\ lease' = [lease EXCEPT ![a] = deed[d].on]
                           /\ Becomes(d, [deed[d] EXCEPT !.pc = "create", !.ip = a])
  BY DEF ClaimAddress
<1>2. deed[d].pc = "lease" /\ UNCHANGED <<node, auto, idle, sites, ghosts, reserved, machine, line, unheard, byHand>>
  BY DEF ClaimAddress, Does, capRows
<1>3. deed \in [Doer -> DeedState] /\ line \in Seq(Doer) /\ LineKnown /\ deed[d].on \in Server
  BY <1>2, Known DEF DeedsKnown, Making
<1> DEFINE s == deed[d]
           x == [s EXCEPT !.pc = "create", !.ip = a]
<1>0. s \in DeedState /\ DeedBecomes(d, x)
  BY <1>1, <1>3 DEF Becomes, DeedBecomes
<1> HIDE DEF s
<1>8. x \in DeedState /\ x.pc = "create" /\ x.on = s.on /\ x.ip = a /\ x.todo = s.todo
  BY <1>0 DEF DeedState, Waiting, Creating, Making
<1> HIDE DEF x
<1>4. x \in DeedState /\ DeedBecomes(d, x) /\ x.pc = "create" /\ x.on = deed[d].on /\ x.ip = a /\ x.todo = deed[d].todo
  BY <1>0, <1>8 DEF s
<1>5. LineKnown'
  BY <1>2, <1>3, <1>4, LineStays DEF DeedBecomes, Waiting, Creating, Making
<1>6. CapTypes'
  BY <1>1, <1>2, <1>3, <1>4, Known DEF CapTypes, DeedBecomes
<1>7. \A n \in x.todo : d = Keeper /\ node[n] \in {"online", "offline"}
  BY <1>4, Known DEF DeedsKnown
<1> QED BY <1>2, <1>4, <1>5, <1>6, <1>7, QuietStep DEF Making

LEMMA ReserveKeeps ==
  ASSUME CapInv, NEW d \in Doer, ReserveAddress(d)
  PROVE  CapInv'
<1>1. deed[d].pc = "lease" /\ UNCHANGED <<node, auto, idle, sites, ghosts, lease, machine, line, unheard, byHand>>
  BY DEF ReserveAddress, Does, capRows
<1>2. deed \in [Doer -> DeedState] /\ line \in Seq(Doer) /\ LineKnown /\ reserved \subseteq Address
  BY Known DEF CapTypes
<1>3. \E x \in DeedState : /\ DeedBecomes(d, x) /\ x.pc \in {"undo", "book", "create"} /\ x.on = deed[d].on
                            /\ x.todo = deed[d].todo /\ reserved' \subseteq Address
  <2>1. CASE \E a \in Address :
               /\ lease[a] = "none"
               /\ Becomes(d, [deed[d] EXCEPT !.pc = IF a \in reserved THEN "undo" ELSE "book", !.ip = a])
               /\ reserved' = reserved \cup {a}
    <3>1. PICK a \in Address : /\ Becomes(d, [deed[d] EXCEPT !.pc = IF a \in reserved THEN "undo" ELSE "book", !.ip = a])
                               /\ reserved' = reserved \cup {a}
      BY <2>1
    <3> DEFINE pc == IF a \in reserved THEN "undo" ELSE "book"
           s == deed[d]
           x == [s EXCEPT !.pc = pc, !.ip = a]
    <3>2. s \in DeedState /\ DeedBecomes(d, x)
      BY <1>2, <3>1 DEF Becomes, DeedBecomes
    <3>3. pc \in {"undo", "book"}
      OBVIOUS
    <3> HIDE DEF s, pc
    <3>4. x \in DeedState /\ x.pc = pc /\ x.on = s.on /\ x.todo = s.todo
      BY <3>2, <3>3 DEF DeedState, Waiting, Creating, Making
    <3> HIDE DEF x
    <3> QED BY <1>2, <3>1, <3>2, <3>3, <3>4 DEF s
  <2>2. CASE Moves(d, "create") /\ UNCHANGED reserved
    <3>1. PICK x \in DeedState : DeedBecomes(d, x) /\ x.pc = "create" /\ x.on = deed[d].on /\ x.ip = deed[d].ip /\ x.todo = deed[d].todo
      BY <1>2, <2>2, Moving DEF Waiting, Creating, Making
    <3> QED BY <1>2, <2>2, <3>1
  <2> QED BY <2>1, <2>2 DEF ReserveAddress
<1>4. PICK x \in DeedState : /\ DeedBecomes(d, x) /\ x.pc \in {"undo", "book", "create"} /\ x.on = deed[d].on
                             /\ x.todo = deed[d].todo /\ reserved' \subseteq Address
  BY <1>3
<1>5. LineKnown'
  BY <1>1, <1>2, <1>4, LineStays DEF DeedBecomes, Waiting, Creating, Making
<1>6. CapTypes'
  BY <1>1, <1>2, <1>4, Known DEF CapTypes, DeedBecomes
<1>7. \A n \in x.todo : d = Keeper /\ node[n] \in {"online", "offline"}
  BY <1>4, Known DEF DeedsKnown
<1> QED BY <1>1, <1>4, <1>5, <1>6, <1>7, QuietStep DEF Making

LEMMA BookKeeps ==
  ASSUME CapInv, NEW d \in Doer, BookAddress(d)
  PROVE  CapInv'
<1>1. /\ deed[d].pc = "book" /\ UNCHANGED <<node, auto, idle, sites, ghosts, reserved, machine, line, unheard, byHand>>
      /\ lease' = [lease EXCEPT ![deed[d].ip] = deed[d].on] /\ Moves(d, "create")
  BY DEF BookAddress, Does, capRows
<1>2. deed \in [Doer -> DeedState] /\ line \in Seq(Doer) /\ LineKnown /\ deed[d].on \in Server
  BY <1>1, Known DEF DeedsKnown, Making
<1>3. PICK x \in DeedState : DeedBecomes(d, x) /\ x.pc = "create" /\ x.on = deed[d].on /\ x.ip = deed[d].ip /\ x.todo = deed[d].todo
  BY <1>1, <1>2, Moving DEF Waiting, Creating, Making
<1>5. LineKnown'
  BY <1>1, <1>2, <1>3, LineStays DEF DeedBecomes, Waiting, Creating, Making
<1>6. CapTypes'
  BY <1>1, <1>2, <1>3, Known DEF CapTypes, DeedBecomes
<1>7. \A n \in x.todo : d = Keeper /\ node[n] \in {"online", "offline"}
  BY <1>3, Known DEF DeedsKnown
<1> QED BY <1>1, <1>3, <1>5, <1>6, <1>7, QuietStep DEF Making

\* The end of a creation: home, and out of the line.
LEMMA Leaving ==
  ASSUME CapInv, NEW d \in Doer, NEW n \in Server \cup {NoNode}, Leave(d, n),
         \/ deed[d].pc = "wait" /\ MyTurn(d)
         \/ deed[d].pc \in Creating
  PROVE  /\ LineKnown' /\ line' \in Seq(Doer)
         /\ \E x \in DeedState :
              /\ DeedBecomes(d, x) /\ x.todo = {} /\ x.ip = NoIp /\ x.pc \in {"idle", "place"}
              /\ x.pc = "place" => d \in Client /\ x.on = n /\ n # NoNode
<1>1. Becomes(d, Gets(d, n)) /\ line' = (IF d = Staff THEN line ELSE Tail(line))
  BY DEF Leave
<1>2. PICK x \in DeedState :
           /\ DeedBecomes(d, x) /\ x.todo = {} /\ x.ip = NoIp /\ x.pc \in {"idle", "place"}
           /\ x.pc = "place" => d \in Client /\ x.on = n /\ n # NoNode
           /\ d = Staff => x.pc = "idle"
  BY <1>1, GoingHome
<1>3. deed \in [Doer -> DeedState] /\ line \in Seq(Doer) /\ LineKnown /\ deed' = [deed EXCEPT ![d] = x] /\ Staff \in Doer
  BY <1>2, Known DEF DeedBecomes
<1>4. x.pc \notin Waiting
  BY <1>2 DEF Waiting, Creating, Making
<1>5. CASE d = Staff
  BY <1>1, <1>2, <1>3, <1>5, LineStays
<1>6. CASE d # Staff
  <2>1. line # <<>> /\ line[1] = d
    <3>1. line # <<>>
      BY <1>3, <1>6, FirstInLine DEF Waiting
    <3>2. CASE deed[d].pc = "wait" /\ MyTurn(d)
      <4>1. Head(line) = line[1]
        BY <1>3, <3>1
      <4> QED BY <3>1, <3>2, <4>1 DEF MyTurn
    <3>3. CASE deed[d].pc \in Creating
      BY <1>3, <1>6, <3>1, <3>3, FirstInLine
    <3> QED BY <3>2, <3>3
  <2>2. LineKnown' /\ line' \in Seq(Doer)
    BY <1>1, <1>3, <1>4, <1>6, <2>1, LineLeft
  <2> QED BY <1>2, <2>2
<1> QED BY <1>5, <1>6

LEMMA AutoscaleKeeps ==
  ASSUME CapInv, NEW d \in Doer, Autoscale(d)
  PROVE  CapInv'
<1> DEFINE starting == {n \in auto : node[n] = "starting" /\ HasRoom(n)}
           full     == Cardinality(auto) >= MaxServers
<1>1. /\ deed[d].pc = "wait" /\ MyTurn(d)
      /\ UNCHANGED <<node, auto, idle, sites, ghosts, lease, reserved, machine, unheard, byHand>>
      /\ \/ d # Keeper /\ \E n \in starting : Leave(d, n)
         \/ Leave(d, NoNode)
         \/ ~full /\ Moves(d, "insert") /\ UNCHANGED line
  BY DEF Autoscale, Does, capRows, capIps
<1>2. deed \in [Doer -> DeedState] /\ line \in Seq(Doer) /\ LineKnown /\ d # Staff /\ line # <<>> /\ Head(line) = line[1]
  <2>1. deed \in [Doer -> DeedState] /\ line \in Seq(Doer) /\ LineKnown /\ d # Staff
    BY <1>1, Known DEF Roles
  <2>2. line # <<>>
    BY <1>1, <2>1, FirstInLine DEF Waiting
  <2> QED BY <2>1, <2>2
<1>3. ASSUME NEW n \in Server \cup {NoNode}, Leave(d, n),
             n # NoNode => IsThere(n) /\ \A e \in Doer : e # d => ~Makes(e, n)
      PROVE  CapInv'
  <2>1. LineKnown' /\ line' \in Seq(Doer)
    BY <1>1, <1>3, Leaving
  <2>2. PICK x \in DeedState :
              /\ DeedBecomes(d, x) /\ x.todo = {} /\ x.ip = NoIp /\ x.pc \in {"idle", "place"}
              /\ x.pc = "place" => d \in Client /\ x.on = n /\ n # NoNode
    <3>1. Becomes(d, Gets(d, n))
      BY <1>3 DEF Leave
    <3> QED BY <3>1, GoingHome
  <2>3. CapTypes'
    BY <1>1, <1>2, <2>1, <2>2, Known DEF CapTypes, DeedBecomes
  <2> QED BY <1>1, <1>3, <2>1, <2>2, <2>3, QuietStep DEF Making
<1>4. ASSUME NEW n \in starting, d # Keeper, Leave(d, n)
      PROVE  CapInv'
  <2>1. n \in auto /\ n \in Server /\ node[n] = "starting"
    BY Known DEF CapTypes
  <2>2. ASSUME NEW e \in Doer, e # d PROVE ~Makes(e, n)
    <3>1. CASE e = Staff
      BY <2>1, <3>1, Known DEF DeedsKnown, Makes
    <3>2. CASE e # Staff
      <4>1. Head(line) = d
        BY <1>1 DEF MyTurn
      <4> QED BY <1>1, <1>2, <2>2, <3>2, <4>1, FirstInLine DEF Makes, Waiting, Creating
    <3> QED BY <3>1, <3>2
  <2> QED BY <1>3, <1>4, <2>1, <2>2 DEF IsThere
<1>5. ASSUME ~full, Moves(d, "insert"), UNCHANGED line
      PROVE  CapInv'
  <2>1. PICK x \in DeedState : DeedBecomes(d, x) /\ x.pc = "insert" /\ x.on = deed[d].on /\ x.ip = deed[d].ip /\ x.todo = deed[d].todo
    BY <1>2, <1>5, Moving DEF Waiting, Creating
  <2>2. line[1] = d
    BY <1>1, <1>2 DEF MyTurn
  <2>3. LineKnown'
    BY <1>1, <1>2, <1>5, <2>1, <2>2, LineStays DEF DeedBecomes, Creating
  <2>4. CapTypes'
    BY <1>1, <1>2, <1>5, <2>1, Known DEF CapTypes, DeedBecomes
  <2>5. x.ip = NoIp /\ \A n \in x.todo : d = Keeper /\ node[n] \in {"online", "offline"}
    BY <1>1, <2>1, Known DEF DeedsKnown
  <2>6. Cardinality(auto) < MaxServers
    <3>1. IsFiniteSet(auto)
      BY Known, RoomIsNat DEF CapTypes
    <3>2. Cardinality(auto) \in Nat /\ MaxServers \in Nat
      BY <3>1, FS_CardinalityType, CapacityBounds
    <3> QED BY <1>5, <3>2
  <2> QED BY <1>1, <2>1, <2>3, <2>4, <2>5, <2>6, QuietStep DEF Making
<1> QED BY <1>1, <1>3, <1>4, <1>5

LEMMA RecordKeeps ==
  ASSUME CapInv, NEW d \in Doer, RecordNode(d)
  PROVE  CapInv'
<1> DEFINE n == deed[d].on
<1>1. /\ deed[d].pc = "record" /\ Leave(d, n)
      /\ UNCHANGED <<node, auto, idle, sites, ghosts, lease, reserved, machine, unheard, byHand>>
  BY DEF RecordNode, Does, capRows, capIps
<1>2. n \in Server /\ node[n] = "starting" /\ \A e \in Doer : e # d => ~Makes(e, n)
  BY <1>1, Known DEF DeedsKnown, Makes, Making
<1> HIDE DEF n
<1>3. LineKnown' /\ line' \in Seq(Doer)
  BY <1>1, <1>2, Leaving DEF Creating, Making
<1>4. PICK x \in DeedState :
            /\ DeedBecomes(d, x) /\ x.todo = {} /\ x.ip = NoIp /\ x.pc \in {"idle", "place"}
            /\ x.pc = "place" => d \in Client /\ x.on = n /\ n # NoNode
  BY <1>1, <1>2, Leaving DEF Creating, Making
<1>5. CapTypes'
  BY <1>1, <1>3, <1>4, Known DEF CapTypes, DeedBecomes
<1> QED BY <1>1, <1>2, <1>3, <1>4, <1>5, QuietStep DEF Making, IsThere

\* What the run, and staff, do: they are in no line but to wait.
LEMMA AsideKeeps ==
  ASSUME CapInv, NEW d \in Doer, NEW x \in DeedState, DeedBecomes(d, x), UNCHANGED <<node, auto, sites, machine, unheard>>,
         deed[d].pc \notin Waiting,
         \/ x.pc \notin Waiting /\ UNCHANGED line
         \/ x.pc = "wait" /\ line' = Append(line, d) /\ d # Staff
         \/ x.pc = "insert" /\ d = Staff /\ UNCHANGED line,
         lease' \in [Address -> {"none", "free"} \cup Server], reserved' \subseteq Address,
         ghosts' \subseteq Server, idle' \in [Server -> {"no", "now", "long"}], byHand' \in Nat,
         x.pc # "place",
         \A n \in x.todo : d = Keeper /\ node[n] \in {"online", "offline"},
         x.pc \in {"idle", "wait", "insert"} => x.ip = NoIp,
         x.pc = "retire" => d = Keeper,
         x.pc \in {"release", "delete"} => d = Staff
  PROVE  CapInv'
<1>1. deed \in [Doer -> DeedState] /\ line \in Seq(Doer) /\ LineKnown /\ deed' = [deed EXCEPT ![d] = x]
  BY Known DEF DeedBecomes
<1>2. LineKnown' /\ line' \in Seq(Doer)
  <2>1. CASE x.pc \notin Waiting /\ UNCHANGED line
    BY <1>1, <2>1, LineStays
  <2>2. CASE x.pc = "wait" /\ line' = Append(line, d) /\ d # Staff
    BY <1>1, <2>2, LineJoined
  <2>3. CASE d = Staff /\ UNCHANGED line
    BY <1>1, <2>3, LineStays
  <2> QED BY <2>1, <2>2, <2>3
<1>3. CapTypes'
  BY <1>1, <1>2, Known DEF CapTypes
<1>4. x.pc \notin Making /\ deed[d].pc \notin Making
  BY DEF Waiting, Creating, Making
<1>5. x.pc \notin {"lease", "book", "create", "undo"} /\ (x.pc = "wait" => d # Staff)
  BY <1>4 DEF Making, Waiting, Creating
<1>6. x.pc = "insert" => d = Staff
  BY DEF Waiting, Creating
<1> QED BY <1>2, <1>3, <1>4, <1>5, <1>6, QuietStep

LEMMA KeepStartKeeps ==
  ASSUME CapInv, KeepStart
  PROVE  CapInv'
<1> DEFINE T == {n \in auto : node[n] # "starting" /\ sites[n] = 0 /\ idle[n] = "long"}
           f == FreePlaces
<1>1. /\ deed[Keeper].pc = "idle" /\ idle' = [n \in Server |-> IdleNow(n)]
      /\ Becomes(Keeper, [Idly EXCEPT !.pc = "retire", !.free = f, !.todo = T])
      /\ UNCHANGED <<node, auto, sites, ghosts, machine, lease, reserved, line, unheard, byHand>>
  BY DEF KeepStart, Does, capIps
<1>2. T \in SUBSET Server /\ f \in Int /\ Keeper \in Doer /\ \A n \in T : node[n] \in {"online", "offline"}
  <2>1. f \in Nat
    BY RoomIsNat, Known
  <2>2. auto \subseteq Server /\ \A n \in auto : node[n] # "none"
    BY Known DEF CapTypes, NodesKnown
  <2> QED BY <2>1, <2>2, Known
<1>3. idle' \in [Server -> {"no", "now", "long"}]
  <2>1. idle \in [Server -> {"no", "now", "long"}]
    BY Known DEF CapTypes
  <2>2. \A n \in Server : IdleNow(n) \in {"no", "now", "long"}
    BY <2>1 DEF IdleNow
  <2> QED BY <1>1, <2>2
<1> HIDE DEF T, f
<1> DEFINE s == Idly
           x == [s EXCEPT !.pc = "retire", !.free = f, !.todo = T]
<1>4. s \in DeedState /\ DeedBecomes(Keeper, x)
  BY <1>1, IdlyIs DEF Becomes, DeedBecomes
<1> HIDE DEF s
<1>5. x \in DeedState /\ x.pc = "retire" /\ x.todo = T
  BY <1>2, <1>4 DEF DeedState
<1> HIDE DEF x
<1>6. x.pc \notin Waiting /\ deed[Keeper].pc \notin Waiting
  BY <1>1, <1>5 DEF Waiting, Creating, Making
<1>7. /\ lease' \in [Address -> {"none", "free"} \cup Server] /\ reserved' \subseteq Address
      /\ ghosts' \subseteq Server /\ byHand' \in Nat
  BY <1>1, Known DEF CapTypes
<1> QED BY <1>1, <1>2, <1>3, <1>4, <1>5, <1>6, <1>7, AsideKeeps

LEMMA KeepReserveKeeps ==
  ASSUME CapInv, KeepReserve
  PROVE  CapInv'
<1>1. /\ deed[Keeper].pc = "retire"
      /\ \/ line' = Append(line, Keeper) /\ Becomes(Keeper, [Idly EXCEPT !.pc = "wait"])
         \/ Becomes(Keeper, Idly) /\ UNCHANGED line
      /\ UNCHANGED <<node, auto, idle, sites, ghosts, lease, reserved, machine, unheard, byHand>>
  BY DEF KeepReserve, Does, capIps, capRows
<1>2. Keeper \in Doer /\ Keeper # Staff /\ deed[Keeper].pc \notin Waiting
  BY <1>1, Known DEF Waiting, Creating, Making
<1>3. /\ lease' \in [Address -> {"none", "free"} \cup Server] /\ reserved' \subseteq Address
      /\ ghosts' \subseteq Server /\ byHand' \in Nat /\ idle' \in [Server -> {"no", "now", "long"}]
  BY <1>1, Known DEF CapTypes
<1>4. CASE line' = Append(line, Keeper) /\ Becomes(Keeper, [Idly EXCEPT !.pc = "wait"])
  <2> DEFINE s == Idly
             x == [s EXCEPT !.pc = "wait"]
  <2>1. s \in DeedState /\ s.todo = {} /\ s.ip = NoIp /\ DeedBecomes(Keeper, x)
    BY <1>4, IdlyIs DEF Becomes, DeedBecomes
  <2> HIDE DEF s
  <2>2. x \in DeedState /\ x.pc = "wait" /\ x.todo = {} /\ x.ip = NoIp
    BY <2>1 DEF DeedState, Waiting
  <2> HIDE DEF x
  <2> QED BY <1>1, <1>2, <1>3, <1>4, <2>1, <2>2, AsideKeeps
<1>5. CASE Becomes(Keeper, Idly) /\ UNCHANGED line
  <2>1. DeedBecomes(Keeper, Idly) /\ Idly.pc \notin Waiting
    BY <1>5, IdlyIs DEF Becomes, DeedBecomes, Waiting, Creating, Making
  <2> QED BY <1>1, <1>2, <1>3, <1>5, <2>1, IdlyIs, AsideKeeps
<1> QED BY <1>1, <1>4, <1>5

LEMMA ByHandKeeps ==
  ASSUME CapInv, ByHand
  PROVE  CapInv'
<1>1. /\ deed[Staff].pc = "idle" /\ byHand' = byHand + 1
      /\ \/ Moves(Staff, "insert")
         \/ \E a \in Address : Becomes(Staff, [Idly EXCEPT !.pc = "release", !.ip = a])
      /\ UNCHANGED <<node, auto, idle, sites, ghosts, lease, reserved, machine, line, unheard>>
  BY DEF ByHand, Does, capIps, capRows
<1>2. Staff \in Doer /\ deed[Staff].pc \notin Waiting /\ deed \in [Doer -> DeedState]
  BY <1>1, Known DEF Waiting, Creating, Making
<1>3. /\ lease' \in [Address -> {"none", "free"} \cup Server] /\ reserved' \subseteq Address
      /\ ghosts' \subseteq Server /\ byHand' \in Nat /\ idle' \in [Server -> {"no", "now", "long"}]
  <2>1. byHand \in Nat /\ lease' = lease /\ reserved' = reserved /\ ghosts' = ghosts /\ idle' = idle
    BY <1>1, Known DEF CapTypes
  <2>3. byHand' = byHand + 1
    BY DEF ByHand
  <2>2. byHand' \in Nat
    BY <2>1, <2>3
  <2> QED BY <2>1, <2>2, Known DEF CapTypes
<1>4. CASE Moves(Staff, "insert")
  <2>1. PICK x \in DeedState : DeedBecomes(Staff, x) /\ x.pc = "insert" /\ x.on = deed[Staff].on /\ x.ip = deed[Staff].ip /\ x.todo = deed[Staff].todo
    BY <1>2, <1>4, Moving DEF Waiting, Creating
  <2>2. x.ip = NoIp /\ \A n \in x.todo : Staff = Keeper /\ node[n] \in {"online", "offline"}
    BY <1>1, <1>2, <2>1, Known DEF DeedsKnown
  <2> QED BY <1>1, <1>2, <1>3, <2>1, <2>2, AsideKeeps
<1>5. ASSUME NEW a \in Address, Becomes(Staff, [Idly EXCEPT !.pc = "release", !.ip = a])
      PROVE  CapInv'
  <2> DEFINE s == Idly
             x == [s EXCEPT !.pc = "release", !.ip = a]
  <2>1. s \in DeedState /\ s.todo = {} /\ DeedBecomes(Staff, x)
    BY <1>5, IdlyIs DEF Becomes, DeedBecomes
  <2> HIDE DEF s
  <2>2. x \in DeedState /\ x.pc = "release" /\ x.todo = {}
    BY <2>1 DEF DeedState
  <2> HIDE DEF x
  <2>3. x.pc \notin Waiting
    BY <2>2 DEF Waiting, Creating, Making
  <2> QED BY <1>1, <1>2, <1>3, <2>1, <2>2, <2>3, AsideKeeps
<1> QED BY <1>1, <1>4, <1>5

LEMMA ReleaseKeeps ==
  ASSUME CapInv, ReleaseAddress
  PROVE  CapInv'
<1> DEFINE a == deed[Staff].ip
<1>1. /\ deed[Staff].pc = "release"
      /\ \/ reserved' = reserved \ {a} /\ Moves(Staff, "delete")
         \/ Becomes(Staff, Idly) /\ UNCHANGED reserved
      /\ UNCHANGED <<node, auto, idle, sites, ghosts, lease, machine, line, unheard, byHand>>
  BY DEF ReleaseAddress, Does, capRows
<1> HIDE DEF a
<1>2. Staff \in Doer /\ deed[Staff].pc \notin Waiting /\ deed \in [Doer -> DeedState]
  BY <1>1, Known DEF Waiting, Creating, Making
<1>3. /\ lease' \in [Address -> {"none", "free"} \cup Server] /\ reserved' \subseteq Address
      /\ ghosts' \subseteq Server /\ byHand' \in Nat /\ idle' \in [Server -> {"no", "now", "long"}]
  BY <1>1, Known DEF CapTypes
<1>4. CASE Moves(Staff, "delete")
  <2>1. PICK x \in DeedState : DeedBecomes(Staff, x) /\ x.pc = "delete" /\ x.on = deed[Staff].on /\ x.ip = deed[Staff].ip /\ x.todo = deed[Staff].todo
    BY <1>2, <1>4, Moving
  <2>2. x.pc \notin Waiting /\ \A n \in x.todo : Staff = Keeper /\ node[n] \in {"online", "offline"}
    BY <1>2, <2>1, Known DEF DeedsKnown, Waiting, Creating, Making
  <2> QED BY <1>1, <1>2, <1>3, <2>1, <2>2, AsideKeeps
<1>5. CASE Becomes(Staff, Idly)
  <2>1. DeedBecomes(Staff, Idly) /\ Idly.pc \notin Waiting
    BY <1>5, IdlyIs DEF Becomes, DeedBecomes, Waiting, Creating, Making
  <2> QED BY <1>1, <1>2, <1>3, <2>1, IdlyIs, AsideKeeps
<1> QED BY <1>1, <1>4, <1>5

LEMMA DeleteKeeps ==
  ASSUME CapInv, DeleteLease
  PROVE  CapInv'
<1>1. /\ deed[Staff].pc = "delete" /\ Becomes(Staff, Idly)
      /\ lease' = [lease EXCEPT ![deed[Staff].ip] = "none"]
      /\ UNCHANGED <<node, auto, idle, sites, ghosts, reserved, machine, line, unheard, byHand>>
  BY DEF DeleteLease, Does, capRows
<1>2. Staff \in Doer /\ deed[Staff].pc \notin Waiting
  BY <1>1, Known DEF Waiting, Creating, Making
<1>3. /\ lease' \in [Address -> {"none", "free"} \cup Server] /\ reserved' \subseteq Address
      /\ ghosts' \subseteq Server /\ byHand' \in Nat /\ idle' \in [Server -> {"no", "now", "long"}]
  <2>1. lease \in [Address -> {"none", "free"} \cup Server]
    BY Known DEF CapTypes
  <2>2. lease' \in [Address -> {"none", "free"} \cup Server]
    BY <1>1, <2>1
  <2>3. /\ reserved' \subseteq Address /\ ghosts' \subseteq Server /\ byHand' \in Nat
        /\ idle' \in [Server -> {"no", "now", "long"}]
    BY <1>1, Known DEF CapTypes
  <2> QED BY <2>2, <2>3
<1>4. DeedBecomes(Staff, Idly) /\ Idly.pc \notin Waiting
  BY <1>1, IdlyIs DEF Becomes, DeedBecomes, Waiting, Creating, Making
<1> QED BY <1>1, <1>2, <1>3, <1>4, IdlyIs, AsideKeeps

-----------------------------------------------------------------------------
(* The steps that change them.                                             *)

\* Who creates what, after a step that begins and ends no creation.
LEMMA MakersStay ==
  ASSUME deed \in [Doer -> DeedState], NEW d \in Doer, NEW x \in DeedState, DeedBecomes(d, x),
         x.pc \in Making <=> deed[d].pc \in Making,
         x.pc \in Making => x.on = deed[d].on
  PROVE  \A n \in Server : (\A e \in Doer : ~(deed'[e].pc \in Making /\ deed'[e].on = n)) <=> Unmade(n)
<1>1. deed'[d] = x /\ \A e \in Doer : e # d => deed'[e] = deed[e]
  BY DEF DeedBecomes
<1>2. \A n \in Server : \A e \in Doer : (deed'[e].pc \in Making /\ deed'[e].on = n) <=> Makes(e, n)
  BY <1>1 DEF Makes
<1> QED BY <1>2 DEF Unmade

LEMMA PlaceKeeps ==
  ASSUME CapInv, NEW c \in Client, PlaceSite(c)
  PROVE  CapInv'
<1> DEFINE n == deed[c].on
<1>1. /\ deed[c].pc = "place" /\ DeedBecomes(c, Idly)
      /\ sites' = IF node[n] = "none" THEN sites ELSE [sites EXCEPT ![n] = @ + 1]
      /\ UNCHANGED <<node, auto, idle, ghosts, lease, reserved, machine, line, unheard, byHand>>
  BY DEF PlaceSite, Does, Becomes, DeedBecomes, capIps
<1>2. c \in Doer /\ deed \in [Doer -> DeedState] /\ line \in Seq(Doer) /\ LineKnown /\ sites \in [Server -> Nat]
  BY Known DEF CapTypes
<1>3. n \in Server /\ IsThere(n) /\ Unmade(n)
  BY <1>1, <1>2, Known DEF DeedsKnown
<1> HIDE DEF n
<1>4. sites' = [sites EXCEPT ![n] = @ + 1] /\ sites' \in [Server -> Nat]
  BY <1>1, <1>2, <1>3 DEF IsThere
<1>5. LineKnown'
  BY <1>1, <1>2, IdlyIs, LineStays DEF DeedBecomes, Waiting, Creating, Making
<1>6. CapTypes'
  BY <1>1, <1>2, <1>4, IdlyIs, Known DEF CapTypes, DeedBecomes
<1>7. DeedsKnown' /\ Roles'
  <2>1. deed' = [deed EXCEPT ![c] = Idly] /\ unheard \in Nat /\ unheard' = unheard /\ machine' = machine /\ unheard <= unheard' /\ unheard' \in Nat
    BY <1>1, Known DEF CapTypes, DeedBecomes
  <2>2. Idly.pc \notin Making
    BY IdlyIs DEF Making
  <2> QED BY <1>1, <1>2, <2>1, <2>2, IdlyIs, Known, DeedsKept
<1>8. NodesKnown'
  <2>1. Idly.pc \notin Making /\ deed[c].pc \notin Making
    BY <1>1, IdlyIs DEF Making
  <2>2. \A m \in Server : (\A e \in Doer : ~(deed'[e].pc \in Making /\ deed'[e].on = m)) <=> Unmade(m)
    BY <1>1, <1>2, <2>1, IdlyIs, MakersStay
  <2>3. \A m \in Server : sites'[m] > 0 => IsThere(m) /\ Unmade(m)
    BY <1>2, <1>3, <1>4, Known DEF NodesKnown
  <2> QED BY <1>1, <2>2, <2>3, Known DEF NodesKnown, IsThere, MachinesKnown, Unmade, Makes
<1>9. AutoBounded'
  BY <1>1, <1>2, IdlyIs, Known DEF AutoBounded, DeedBecomes
<1> QED BY <1>5, <1>6, <1>7, <1>8, <1>9 DEF CapInv

\* A step that is nobody's deed.
LEMMA NobodysStep ==
  ASSUME CapInv, auto' = auto, machine' = machine, line' = line, deed' = deed, unheard' = unheard, CapTypes',
         NEW m \in Server, \A n \in Server : n # m => node'[n] = node[n],
         \/ node'[m] = node[m]
         \/ node[m] = "starting" /\ node'[m] = "online" /\ \A d \in Doer : deed[d].on # m \/ deed[d].pc = "place",
         \A n \in Server : sites'[n] > 0 => sites[n] > 0
  PROVE  CapInv'
<1>1. LineKnown' /\ Roles' /\ AutoBounded'
  BY Known DEF LineKnown, Roles, AutoBounded
<1>2. \A n \in Server : (node'[n] \in {"starting", "online"}) <=> IsThere(n)
  BY DEF IsThere
<1>3. \A d \in Doer : deed[d].pc \in Making => node'[deed[d].on] = node[deed[d].on]
  BY Known DEF DeedsKnown, Making
<1>4. DeedsKnown'
  <2>1. \A d \in Doer : \A n \in deed[d].todo : d = Keeper /\ node'[n] \in {"online", "offline"}
    BY Known DEF DeedsKnown
  <2>2. \A d \in Doer : deed[d].pc \in Making => deed[d].on \in Server /\ node'[deed[d].on] = "starting"
    BY <1>3, Known DEF DeedsKnown
  <2>3. \A d \in Doer : deed[d].pc = "place" => deed[d].on \in Server /\ node'[deed[d].on] \in {"starting", "online"} /\ Unmade(deed[d].on)
    BY <1>2, Known DEF DeedsKnown
  <2> QED BY <2>1, <2>2, <2>3, Known DEF DeedsKnown, IsThere, Unmade, Makes
<1>5. NodesKnown'
  <2>1. \A n \in auto : node'[n] # "none"
    BY Known DEF NodesKnown, CapTypes
  <2>2. \A n \in Server : node'[n] \in {"starting", "online"} /\ Unmade(n) => machine[n] # "none"
    BY <1>2, Known DEF NodesKnown
  <2>3. \A n \in Server : sites'[n] > 0 => node'[n] \in {"starting", "online"} /\ Unmade(n)
    BY <1>2, Known DEF NodesKnown
  <2>4. \A n \in Server : machine[n] # "none" /\ unheard = 0 => node'[n] \in {"starting", "online"}
    BY <1>2, Known DEF NodesKnown, MachinesKnown, IsThere
  <2> QED BY <2>1, <2>2, <2>3, <2>4 DEF NodesKnown, IsThere, Unmade, Makes, MachinesKnown
<1> QED BY <1>1, <1>4, <1>5 DEF CapInv

LEMMA RemoveKeeps ==
  ASSUME CapInv, NEW n \in Server, RemoveSite(n)
  PROVE  CapInv'
<1>1. /\ sites[n] > 0 /\ sites' = [sites EXCEPT ![n] = @ - 1] /\ ghosts' = ghosts \cup {n}
      /\ UNCHANGED <<node, auto, idle, machine, lease, reserved, line, deed, unheard, byHand>>
  BY DEF RemoveSite, capIps
<1>2. sites \in [Server -> Nat] /\ ghosts \subseteq Server
  BY Known DEF CapTypes
<1>3. sites' \in [Server -> Nat] /\ \A m \in Server : sites'[m] > 0 => sites[m] > 0
  BY <1>1, <1>2
<1>4. CapTypes'
  BY <1>1, <1>2, <1>3, Known DEF CapTypes
<1>8. auto' = auto /\ machine' = machine /\ line' = line /\ deed' = deed /\ unheard' = unheard
  BY <1>1
<1>9. /\ \A m \in Server : m # n => node'[m] = node[m]
      /\ \/ node'[n] = node[n]
         \/ node[n] = "starting" /\ node'[n] = "online" /\ \A d \in Doer : deed[d].on # n \/ deed[d].pc = "place"
  BY <1>1
<1>10. \A m \in Server : sites'[m] > 0 => sites[m] > 0
  BY <1>1, <1>3
<1> QED BY <1>4, <1>8, <1>9, <1>10, NobodysStep

LEMMA HoursKeep ==
  ASSUME CapInv, NEW n \in Server, HoursPass(n)
  PROVE  CapInv'
<1>1. /\ idle' = [idle EXCEPT ![n] = "long"]
      /\ UNCHANGED <<node, auto, sites, ghosts, machine, lease, reserved, line, deed, unheard, byHand>>
  BY DEF HoursPass, capIps
<1>2. idle \in [Server -> {"no", "now", "long"}]
  BY Known DEF CapTypes
<1>3. idle' \in [Server -> {"no", "now", "long"}]
  BY <1>1, <1>2
<1>4. CapTypes'
  BY <1>1, <1>3, Known DEF CapTypes
<1>8. auto' = auto /\ machine' = machine /\ line' = line /\ deed' = deed /\ unheard' = unheard
  BY <1>1
<1>9. /\ \A m \in Server : m # n => node'[m] = node[m]
      /\ \/ node'[n] = node[n]
         \/ node[n] = "starting" /\ node'[n] = "online" /\ \A d \in Doer : deed[d].on # n \/ deed[d].pc = "place"
  BY <1>1
<1>10. \A m \in Server : sites'[m] > 0 => sites[m] > 0
  BY <1>1
<1> QED BY <1>4, <1>8, <1>9, <1>10, NobodysStep

LEMMA OnlineKeeps ==
  ASSUME CapInv, NEW n \in Server, ComesOnline(n)
  PROVE  CapInv'
<1>1. /\ node[n] = "starting" /\ \A d \in Doer : deed[d].on # n \/ deed[d].pc = "place"
      /\ node' = [node EXCEPT ![n] = "online"]
      /\ UNCHANGED <<auto, idle, sites, ghosts, machine, lease, reserved, line, deed, unheard, byHand>>
  BY DEF ComesOnline, Does, capIps
<1>2. node' \in [Server -> {"none", "starting", "online", "offline"}]
      /\ \A m \in Server : m # n => node'[m] = node[m]
      /\ node'[n] = "online"
  BY <1>1, Known
<1>3. CapTypes'
  BY <1>1, <1>2, Known DEF CapTypes
<1>8. auto' = auto /\ machine' = machine /\ line' = line /\ deed' = deed /\ unheard' = unheard
  BY <1>1
<1>9. /\ \A m \in Server : m # n => node'[m] = node[m]
      /\ \/ node'[n] = node[n]
         \/ node[n] = "starting" /\ node'[n] = "online" /\ \A d \in Doer : deed[d].on # n \/ deed[d].pc = "place"
  BY <1>1, <1>2
<1>10. \A m \in Server : sites'[m] > 0 => sites[m] > 0
  BY <1>1
<1> QED BY <1>3, <1>8, <1>9, <1>10, NobodysStep

LEMMA InsertKeeps ==
  ASSUME CapInv, NEW d \in Doer, InsertNode(d)
  PROVE  CapInv'
<1> DEFINE n == NewNode
<1>1. /\ deed[d].pc = "insert" /\ \E m \in Server : node[m] = "none" /\ machine[m] = "none"
      /\ node' = [node EXCEPT ![n] = "starting"] /\ idle' = [idle EXCEPT ![n] = "no"]
      /\ auto' = (IF d = Staff THEN auto ELSE auto \cup {n})
      /\ Becomes(d, [deed[d] EXCEPT !.pc = "lease", !.on = n])
      /\ UNCHANGED <<sites, ghosts, machine, lease, reserved, line, unheard, byHand>>
  BY DEF InsertNode, Does, capIps
<1>2. n \in Server /\ node[n] = "none" /\ machine[n] = "none"
  BY <1>1 DEF NewNode
<1> HIDE DEF n
<1>3. /\ deed \in [Doer -> DeedState] /\ line \in Seq(Doer) /\ LineKnown /\ auto \subseteq Server
      /\ idle \in [Server -> {"no", "now", "long"}]
  BY Known DEF CapTypes
<1> DEFINE s == deed[d]
           x == [s EXCEPT !.pc = "lease", !.on = n]
<1>4. s \in DeedState /\ DeedBecomes(d, x)
  BY <1>1, <1>3 DEF Becomes, DeedBecomes
<1> HIDE DEF s
<1>5. x \in DeedState /\ x.pc = "lease" /\ x.on = n /\ x.ip = s.ip /\ x.todo = s.todo
  BY <1>2, <1>4 DEF DeedState, Waiting, Creating, Making
<1> HIDE DEF x
<1>6. x.ip = NoIp /\ \A m \in x.todo : d = Keeper /\ node[m] \in {"online", "offline"}
  BY <1>1, <1>5, Known DEF DeedsKnown, s
<1>7. deed'[d] = x /\ \A e \in Doer : e # d => deed'[e] = deed[e]
  BY <1>3, <1>4 DEF DeedBecomes
<1>8. LineKnown'
  BY <1>1, <1>3, <1>4, <1>5, LineStays DEF DeedBecomes, Creating, Making
<1>9. /\ node' \in [Server -> {"none", "starting", "online", "offline"}]
      /\ node'[n] = "starting" /\ \A m \in Server : m # n => node'[m] = node[m]
  BY <1>1, <1>2, Known
<1>10. CapTypes'
  <2>1. idle' \in [Server -> {"no", "now", "long"}] /\ auto' \subseteq Server
    BY <1>1, <1>2, <1>3
  <2> QED BY <1>1, <1>3, <1>4, <1>5, <1>9, <2>1, Known DEF CapTypes, DeedBecomes
<1>11. /\ Unmade(n) /\ n \notin auto /\ sites[n] = 0
       /\ \A e \in Doer : n \notin deed[e].todo /\ ~(deed[e].pc = "place" /\ deed[e].on = n)
  <2>1. Unmade(n)
    BY <1>2, Known DEF DeedsKnown, Unmade, Makes
  <2>2. n \notin auto
    BY <1>2, Known DEF NodesKnown
  <2>3. sites[n] = 0
    <3>1. sites[n] \in Nat /\ ~(sites[n] > 0)
      BY <1>2, Known DEF NodesKnown, IsThere, CapTypes
    <3> QED BY <3>1
  <2>4. \A e \in Doer : n \notin deed[e].todo /\ ~(deed[e].pc = "place" /\ deed[e].on = n)
    BY <1>2, Known DEF DeedsKnown, IsThere
  <2> QED BY <2>1, <2>2, <2>3, <2>4
<1>12. DeedsKnown'
  <2>1. \A e \in Doer : e # d /\ deed[e].pc \in Making => deed[e].on \in Server /\ deed[e].on # n
    BY <1>11, Known DEF DeedsKnown, Unmade, Makes
  <2>2. \A e \in Doer : deed'[e].pc \in Making => deed'[e].on \in Server /\ node'[deed'[e].on] = "starting"
    <3>1. ASSUME NEW e \in Doer, e # d, deed'[e].pc \in Making
          PROVE  deed'[e].on \in Server /\ node'[deed'[e].on] = "starting"
      <4>1. deed[e].pc \in Making /\ deed'[e].on = deed[e].on /\ deed[e].on \in Server /\ deed[e].on # n
        BY <1>7, <2>1, <3>1
      <4>2. node[deed[e].on] = "starting"
        BY <4>1, Known DEF DeedsKnown
      <4> QED BY <1>9, <4>1, <4>2
    <3> QED BY <1>2, <1>5, <1>7, <1>9, <3>1
  <2>3. \A e \in Doer : deed'[e].pc \in {"lease", "book", "create"} => machine'[deed'[e].on] = "none"
    BY <1>1, <1>2, <1>5, <1>7, Known DEF DeedsKnown
  <2>4. \A e \in Doer : deed'[e].pc = "record" => machine'[deed'[e].on] # "none"
    BY <1>1, <1>5, <1>7, Known DEF DeedsKnown
  <2>5. \A e \in Doer : deed'[e].pc = "undo" /\ unheard' = 0 => machine'[deed'[e].on] = "none"
    BY <1>1, <1>5, <1>7, Known DEF DeedsKnown
  <2>6. \A e, f \in Doer : deed'[e].pc \in Making /\ deed'[f].pc \in Making /\ deed'[e].on = deed'[f].on => e = f
    BY <1>5, <1>7, <2>1, Known DEF DeedsKnown
  <2>7. ASSUME NEW e \in Doer, deed'[e].pc = "place"
        PROVE  /\ deed'[e].on \in Server /\ node'[deed'[e].on] \in {"starting", "online"}
               /\ \A f \in Doer : ~(deed'[f].pc \in Making /\ deed'[f].on = deed'[e].on)
    <3>1. e # d /\ deed'[e] = deed[e]
      BY <1>5, <1>7, <2>7
    <3>2. deed[e].on \in Server /\ IsThere(deed[e].on) /\ Unmade(deed[e].on) /\ deed[e].on # n
      BY <1>11, <2>7, <3>1, Known DEF DeedsKnown
    <3> QED BY <1>5, <1>7, <1>9, <3>1, <3>2 DEF IsThere, Unmade, Makes
  <2>8. \A e \in Doer : \A m \in deed'[e].todo : e = Keeper /\ node'[m] \in {"online", "offline"}
    <3>1. \A e \in Doer : \A m \in deed'[e].todo : m # n /\ m \in Server /\ e = Keeper /\ node[m] \in {"online", "offline"}
      BY <1>5, <1>6, <1>7, <1>2, <1>11, Known DEF DeedsKnown, DeedState
    <3> QED BY <1>9, <3>1
  <2>9. \A e \in Doer : deed'[e].pc \in {"idle", "wait", "insert", "lease"} => deed'[e].ip = NoIp
    BY <1>6, <1>7, Known DEF DeedsKnown
  <2>10. deed'[Staff].pc \in Making => deed'[Staff].on \notin auto'
    BY <1>1, <1>5, <1>7, <1>11, <2>1, Known DEF DeedsKnown
  <2> QED BY <2>2, <2>3, <2>4, <2>5, <2>6, <2>7, <2>8, <2>9, <2>10 DEF DeedsKnown, IsThere, Unmade, Makes
<1>13. Roles'
  BY <1>5, <1>7, Known DEF Roles
<1>14. NodesKnown'
  <2>1. deed'[d].pc \in Making /\ deed'[d].on = n
    BY <1>5, <1>7 DEF Making
  <2>2. \A m \in Server : m # n => ((\A e \in Doer : ~(deed'[e].pc \in Making /\ deed'[e].on = m)) <=> Unmade(m))
    BY <1>1, <1>5, <1>7 DEF Unmade, Makes, Making
  <2>3. \A m \in auto' : node'[m] # "none"
    BY <1>1, <1>3, <1>9, Known DEF NodesKnown
  <2>4. \A m \in Server : sites'[m] > 0 => m # n
    BY <1>1, <1>11
  <2> QED BY <1>1, <1>2, <1>9, <2>1, <2>2, <2>3, <2>4, Known DEF NodesKnown, IsThere, MachinesKnown, Unmade, Makes
<1>15. AutoBounded'
  <2>1. IsFiniteSet(auto) /\ MaxServers \in Nat
    BY <1>3, Known, RoomIsNat, CapacityBounds
  <2>2. Cardinality(auto) \in Nat /\ Cardinality(auto \cup {n}) = Cardinality(auto) + 1
    BY <1>11, <2>1, FS_CardinalityType, FS_AddElement
  <2>3. CASE d = Staff
    BY <1>1, <1>5, <1>7, <2>3, Known DEF AutoBounded
  <2>4. CASE d # Staff
    <3>1. Cardinality(auto') <= MaxServers
      BY <1>1, <2>1, <2>2, <2>4, Known DEF AutoBounded
    <3>2. \A e \in Doer : e # Staff => deed'[e].pc # "insert"
      BY <1>1, <1>3, <1>5, <1>7, <2>4, FirstInLine DEF Creating
    <3> QED BY <3>1, <3>2 DEF AutoBounded
  <2> QED BY <2>3, <2>4
<1> QED BY <1>8, <1>10, <1>12, <1>13, <1>14, <1>15 DEF CapInv

\* The provider answers, or does not.
LEMMA StartIs ==
  ASSUME CapInv, NEW d \in Doer, MachineStarts(d)
  PROVE  /\ deed[d].pc = "create"
         /\ node' = node /\ auto' = auto /\ idle' = idle /\ sites' = sites /\ ghosts' = ghosts
         /\ lease' = lease /\ reserved' = reserved /\ line' = line /\ byHand' = byHand
         /\ unheard \in Nat /\ unheard' \in Nat /\ unheard <= unheard'
         /\ \E x \in DeedState :
              /\ DeedBecomes(d, x) /\ x.pc \in {"record", "undo"} /\ x.on = deed[d].on /\ x.todo = deed[d].todo
              /\ \/ /\ Attachable(deed[d].ip) /\ machine' = [machine EXCEPT ![deed[d].on] = deed[d].ip]
                    /\ x.pc = "undo" => unheard' # 0
                 \/ machine' = machine /\ x.pc = "undo"
<1>1. /\ deed[d].pc = "create" /\ node' = node /\ auto' = auto /\ idle' = idle /\ sites' = sites /\ ghosts' = ghosts
      /\ lease' = lease /\ reserved' = reserved /\ line' = line /\ byHand' = byHand
  BY DEF MachineStarts, Does, capRows, capIps
<1>2. deed \in [Doer -> DeedState] /\ unheard \in Nat
  BY Known DEF CapTypes
<1>3. CASE Attachable(deed[d].ip) /\ machine' = [machine EXCEPT ![deed[d].on] = deed[d].ip] /\ Moves(d, "record") /\ UNCHANGED unheard
  <2>1. PICK x \in DeedState : DeedBecomes(d, x) /\ x.pc = "record" /\ x.on = deed[d].on /\ x.ip = deed[d].ip /\ x.todo = deed[d].todo
    BY <1>2, <1>3, Moving DEF Waiting, Creating, Making
  <2> QED BY <1>1, <1>2, <1>3, <2>1
<1>4. CASE /\ Moves(d, "undo")
           /\ \/ UNCHANGED <<machine, unheard>>
              \/ /\ unheard' = unheard + 1
                 /\ machine' \in {machine} \cup (IF Attachable(deed[d].ip) THEN {[machine EXCEPT ![deed[d].on] = deed[d].ip]} ELSE {})
  <2>1. PICK x \in DeedState : DeedBecomes(d, x) /\ x.pc = "undo" /\ x.on = deed[d].on /\ x.ip = deed[d].ip /\ x.todo = deed[d].todo
    <3>1. Moves(d, "undo")
      BY <1>4
    <3> QED BY <1>2, <3>1, Moving DEF Waiting, Creating, Making
  <2>2. CASE UNCHANGED <<machine, unheard>>
    BY <1>1, <1>2, <2>1, <2>2
  <2>3. CASE /\ unheard' = unheard + 1
             /\ machine' \in {machine} \cup (IF Attachable(deed[d].ip) THEN {[machine EXCEPT ![deed[d].on] = deed[d].ip]} ELSE {})
    <3>1. unheard' \in Nat /\ unheard <= unheard' /\ unheard' # 0
      BY <1>2, <2>3
    <3>2. machine' = machine \/ (Attachable(deed[d].ip) /\ machine' = [machine EXCEPT ![deed[d].on] = deed[d].ip])
      BY <2>3
    <3> QED BY <1>1, <1>2, <2>1, <3>1, <3>2
  <2> QED BY <1>4, <2>2, <2>3
<1> QED BY <1>3, <1>4 DEF MachineStarts

LEMMA StartKeeps ==
  ASSUME CapInv, NEW d \in Doer, MachineStarts(d)
  PROVE  CapInv'
<1> DEFINE n == deed[d].on
           a == deed[d].ip
<1>1. /\ deed[d].pc = "create"
      /\ node' = node /\ auto' = auto /\ idle' = idle /\ sites' = sites /\ ghosts' = ghosts
      /\ lease' = lease /\ reserved' = reserved /\ line' = line /\ byHand' = byHand
      /\ unheard \in Nat /\ unheard' \in Nat /\ unheard <= unheard'
  BY StartIs
<1>2. PICK x \in DeedState :
              /\ DeedBecomes(d, x) /\ x.pc \in {"record", "undo"} /\ x.on = n /\ x.todo = deed[d].todo
              /\ \/ /\ Attachable(a) /\ machine' = [machine EXCEPT ![n] = a]
                    /\ x.pc = "undo" => unheard' # 0
                 \/ machine' = machine /\ x.pc = "undo"
  BY StartIs
<1>3. /\ deed \in [Doer -> DeedState] /\ line \in Seq(Doer) /\ LineKnown
      /\ machine \in [Server -> {"none", NoIp} \cup Address]
  BY Known DEF CapTypes
<1>4. /\ n \in Server /\ a \in Address \cup {NoIp} /\ machine[n] = "none" /\ node[n] = "starting" /\ a # "none"
      /\ \A e \in Doer : e # d /\ deed[e].pc \in Making => deed[e].on \in Server /\ deed[e].on # n
  <2>1. n \in Server /\ machine[n] = "none" /\ node[n] = "starting"
    BY <1>1, Known DEF DeedsKnown, Making
  <2>2. \A e \in Doer : e # d /\ deed[e].pc \in Making => deed[e].on \in Server /\ deed[e].on # n
    BY <1>1, Known DEF DeedsKnown, Making
  <2>3. a \in Address \cup {NoIp}
    <3>1. deed[d] \in DeedState
      BY <1>3
    <3> QED BY <3>1 DEF DeedState
  <2>4. a # "none"
    BY <2>3, CapacityBounds DEF NoIp
  <2> QED BY <2>1, <2>2, <2>3, <2>4
<1> HIDE DEF n, a
<1>5. /\ machine' \in [Server -> {"none", NoIp} \cup Address]
      /\ \A m \in Server : m # n => machine'[m] = machine[m]
      /\ machine'[n] = a \/ machine'[n] = "none"
      /\ x.pc = "record" => machine'[n] = a
      /\ x.pc = "undo" /\ unheard' = 0 => machine'[n] = "none"
  BY <1>2, <1>3, <1>4
<1>6. LineKnown'
  BY <1>1, <1>2, <1>3, LineStays DEF DeedBecomes, Creating, Making
<1>7. CapTypes'
  BY <1>1, <1>2, <1>3, <1>5, Known DEF CapTypes, DeedBecomes
<1>8. DeedsKnown' /\ Roles'
  <2>1. deed' = [deed EXCEPT ![d] = x]
    BY <1>2 DEF DeedBecomes
  <2>2. \A e \in Doer : e # d /\ deed[e].pc \in Making => machine'[deed[e].on] = machine[deed[e].on]
    BY <1>4, <1>5
  <2>3. \A m \in x.todo : d = Keeper /\ node[m] \in {"online", "offline"}
    BY <1>2, Known DEF DeedsKnown
  <2>4. deed[d].pc \in Making /\ x.on = deed[d].on
    BY <1>1, <1>2 DEF Making, n
  <2> QED BY <1>1, <1>2, <1>3, <1>4, <1>5, <2>1, <2>2, <2>3, <2>4, Known, DeedsKept
<1>9. NodesKnown'
  <2>1. x.pc \in Making /\ deed[d].pc \in Making /\ x.on = deed[d].on
    BY <1>1, <1>2 DEF Making, n
  <2>2. \A m \in Server : (\A e \in Doer : ~(deed'[e].pc \in Making /\ deed'[e].on = m)) <=> Unmade(m)
    BY <1>2, <1>3, <2>1, MakersStay
  <2>3. ~Unmade(n)
    BY <2>1, <1>2 DEF Unmade, Makes
  <2> QED BY <1>1, <1>4, <1>5, <2>2, <2>3, Known DEF NodesKnown, IsThere, MachinesKnown, Unmade, Makes
<1>10. AutoBounded'
  BY <1>1, <1>2, <1>3, Known DEF AutoBounded, DeedBecomes
<1> QED BY <1>6, <1>7, <1>8, <1>9, <1>10 DEF CapInv

LEMMA FewerAreFewer ==
  ASSUME CapTypes, AutoBounded, NEW S, S \subseteq auto
  PROVE  Cardinality(S) <= MaxServers /\ Cardinality(S) <= Cardinality(auto)
         /\ Cardinality(S) \in Nat /\ Cardinality(auto) \in Nat /\ MaxServers \in Nat
<1>1. IsFiniteSet(auto) /\ MaxServers \in Nat
  BY RoomIsNat, CapacityBounds DEF CapTypes
<1>2. IsFiniteSet(S) /\ Cardinality(S) <= Cardinality(auto)
  BY <1>1, FS_Subset
<1>3. Cardinality(auto) \in Nat /\ Cardinality(S) \in Nat
  BY <1>1, <1>2, FS_CardinalityType
<1> QED BY <1>1, <1>2, <1>3 DEF AutoBounded

LEMMA UnleaseTyped ==
  ASSUME lease \in [Address -> {"none", "free"} \cup Server], NEW n
  PROVE  Unlease(n) \in [Address -> {"none", "free"} \cup Server]
BY DEF Unlease

LEMMA UndoKeeps ==
  ASSUME CapInv, NEW d \in Doer, UndoNode(d)
  PROVE  CapInv'
<1> DEFINE n == deed[d].on
<1>1. /\ deed[d].pc = "undo" /\ lease' = Unlease(n) /\ node' = [node EXCEPT ![n] = "none"] /\ auto' = auto \ {n}
      /\ Leave(d, NoNode)
      /\ idle' = [idle EXCEPT ![n] = "no"]
      /\ UNCHANGED <<sites, ghosts, reserved, machine, unheard, byHand>>
  BY DEF UndoNode, Does
<1>2. /\ deed \in [Doer -> DeedState] /\ LineKnown /\ auto \subseteq Server
      /\ node \in [Server -> {"none", "starting", "online", "offline"}]
      /\ lease \in [Address -> {"none", "free"} \cup Server]
  BY Known DEF CapTypes
<1>3. /\ n \in Server /\ node[n] = "starting" /\ ~Unmade(n) /\ (unheard = 0 => machine[n] = "none")
      /\ \A e \in Doer : e # d /\ deed[e].pc \in Making => deed[e].on \in Server /\ deed[e].on # n
  BY <1>1, Known DEF DeedsKnown, Making, Unmade, Makes
<1> HIDE DEF n
<1>4. LineKnown' /\ line' \in Seq(Doer)
  BY <1>1, Leaving DEF Creating, Making
<1>5. PICK x \in DeedState : DeedBecomes(d, x) /\ x.todo = {} /\ x.ip = NoIp /\ x.pc = "idle"
  BY <1>1, Leaving DEF Creating, Making
<1>6. deed'[d] = x /\ \A e \in Doer : e # d => deed'[e] = deed[e]
  BY <1>2, <1>5 DEF DeedBecomes
<1>7. /\ node' \in [Server -> {"none", "starting", "online", "offline"}]
      /\ node'[n] = "none" /\ \A m \in Server : m # n => node'[m] = node[m]
  BY <1>1, <1>2, <1>3
<1>8. CapTypes'
  <2>1. lease' \in [Address -> {"none", "free"} \cup Server]
    BY <1>1, <1>2, UnleaseTyped
  <2> QED BY <1>1, <1>2, <1>4, <1>5, <1>7, <2>1, Known DEF CapTypes, DeedBecomes
<1>9. \A e \in Doer : deed'[e].pc \in Making => e # d /\ deed[e].pc \in Making /\ deed'[e].on = deed[e].on /\ deed[e].on # n /\ deed[e].on \in Server
  BY <1>3, <1>5, <1>6 DEF Making
<1>10. DeedsKnown'
  <2>1. \A e \in Doer : deed'[e].pc \in Making => deed'[e].on \in Server /\ node'[deed'[e].on] = "starting"
    <3> SUFFICES ASSUME NEW e \in Doer, deed'[e].pc \in Making
                 PROVE  deed'[e].on \in Server /\ node'[deed'[e].on] = "starting"
      OBVIOUS
    <3>1. deed[e].pc \in Making /\ deed'[e].on = deed[e].on /\ deed[e].on # n /\ deed[e].on \in Server
      BY <1>9
    <3>2. node[deed[e].on] = "starting"
      BY <3>1, Known DEF DeedsKnown
    <3> QED BY <1>7, <3>1, <3>2
  <2>2. \A e \in Doer : deed'[e].pc \in {"lease", "book", "create"} => machine'[deed'[e].on] = "none"
    BY <1>1, <1>5, <1>6, Known DEF DeedsKnown
  <2>3. \A e \in Doer : deed'[e].pc = "record" => machine'[deed'[e].on] # "none"
    BY <1>1, <1>5, <1>6, Known DEF DeedsKnown
  <2>4. \A e \in Doer : deed'[e].pc = "undo" /\ unheard' = 0 => machine'[deed'[e].on] = "none"
    BY <1>1, <1>5, <1>6, Known DEF DeedsKnown
  <2>5. \A e, f \in Doer : deed'[e].pc \in Making /\ deed'[f].pc \in Making /\ deed'[e].on = deed'[f].on => e = f
    BY <1>9, Known DEF DeedsKnown
  <2>6. ASSUME NEW e \in Doer, deed'[e].pc = "place"
        PROVE  /\ deed'[e].on \in Server /\ node'[deed'[e].on] \in {"starting", "online"}
               /\ \A f \in Doer : ~(deed'[f].pc \in Making /\ deed'[f].on = deed'[e].on)
    <3>1. e # d /\ deed'[e] = deed[e]
      BY <1>5, <1>6, <2>6
    <3>2. deed[e].on \in Server /\ IsThere(deed[e].on) /\ Unmade(deed[e].on) /\ deed[e].on # n
      BY <1>3, <2>6, <3>1, Known DEF DeedsKnown
    <3> QED BY <1>7, <1>9, <3>1, <3>2 DEF IsThere, Unmade, Makes
  <2>7. \A e \in Doer : \A m \in deed'[e].todo : e = Keeper /\ node'[m] \in {"online", "offline"}
    <3>1. \A e \in Doer : \A m \in deed'[e].todo : m # n /\ m \in Server /\ e = Keeper /\ node[m] \in {"online", "offline"}
      BY <1>3, <1>5, <1>6, Known DEF DeedsKnown
    <3> QED BY <1>7, <3>1
  <2>8. \A e \in Doer : deed'[e].pc \in {"idle", "wait", "insert", "lease"} => deed'[e].ip = NoIp
    BY <1>5, <1>6, Known DEF DeedsKnown
  <2>9. deed'[Staff].pc \in Making => deed'[Staff].on \notin auto'
    BY <1>1, <1>9, Known DEF DeedsKnown
  <2> QED BY <2>1, <2>2, <2>3, <2>4, <2>5, <2>6, <2>7, <2>8, <2>9 DEF DeedsKnown, IsThere, Unmade, Makes
<1>11. Roles'
  BY <1>5, <1>6, Known DEF Roles
<1>12. NodesKnown'
  <2>1. \A m \in Server : m # n => ((\A e \in Doer : ~(deed'[e].pc \in Making /\ deed'[e].on = m)) <=> Unmade(m))
    <3> SUFFICES ASSUME NEW m \in Server, m # n
                 PROVE  (\A e \in Doer : ~(deed'[e].pc \in Making /\ deed'[e].on = m)) <=> Unmade(m)
      OBVIOUS
    <3>1. \A e \in Doer : (deed'[e].pc \in Making /\ deed'[e].on = m) <=> Makes(e, m)
      BY <1>1, <1>5, <1>6 DEF Makes, Making, n
    <3> QED BY <3>1 DEF Unmade
  <2>2. \A m \in auto' : m # n /\ m \in auto /\ m \in Server
    BY <1>1, <1>2
  <2>3. \A m \in Server : sites'[m] > 0 => m # n
    BY <1>1, <1>3, Known DEF NodesKnown
  <2> QED BY <1>1, <1>3, <1>7, <2>1, <2>2, <2>3, Known DEF NodesKnown, IsThere, MachinesKnown, Unmade, Makes
<1>13. AutoBounded'
  <2>1. auto' \subseteq auto
    BY <1>1
  <2>2. Cardinality(auto') <= MaxServers /\ Cardinality(auto') <= Cardinality(auto) /\ Cardinality(auto') \in Nat
        /\ Cardinality(auto) \in Nat /\ MaxServers \in Nat
    BY <2>1, Known, FewerAreFewer
  <2>3. \A e \in Doer : e # Staff /\ deed'[e].pc = "insert" => Cardinality(auto) < MaxServers
    BY <1>5, <1>6, Known DEF AutoBounded
  <2> QED BY <2>2, <2>3 DEF AutoBounded
<1> QED BY <1>4, <1>8, <1>10, <1>11, <1>12, <1>13 DEF CapInv

\* The run reads what is empty, and nobody comes to it meanwhile.
LEMMA RetireKeeps ==
  ASSUME CapInv, Retire, ~Hasty
  PROVE  CapInv'
<1> DEFINE K == deed[Keeper]
<1>1. PICK n \in K.todo :
         /\ deed[Keeper].pc = "retire" /\ Undisturbed(n)
         /\ machine' = [machine EXCEPT ![n] = "none"]
         /\ node' = [node EXCEPT ![n] = IF sites[n] > 0 \/ n \in ghosts THEN "offline" ELSE "none"]
         /\ auto' = (IF sites[n] > 0 \/ n \in ghosts THEN auto ELSE auto \ {n})
         /\ lease' = (IF sites[n] > 0 \/ n \in ghosts THEN lease ELSE Unlease(n))
         /\ Becomes(Keeper, [K EXCEPT !.todo = @ \ {n}, !.free = @ - IF sites[n] > 0 \/ n \in ghosts THEN 0 ELSE PerServer])
         /\ idle' \in {idle, [idle EXCEPT ![n] = "no"]}
         /\ UNCHANGED <<sites, ghosts, reserved, line, unheard, byHand>>
  BY DEF Retire, Does
<1>2. /\ deed \in [Doer -> DeedState] /\ LineKnown /\ auto \subseteq Server /\ Keeper \in Doer /\ line \in Seq(Doer)
      /\ node \in [Server -> {"none", "starting", "online", "offline"}]
      /\ lease \in [Address -> {"none", "free"} \cup Server]
      /\ machine \in [Server -> {"none", NoIp} \cup Address]
      /\ sites \in [Server -> Nat]
  BY Known DEF CapTypes
<1>3. n \in Server /\ node[n] \in {"online", "offline"} /\ Unmade(n) /\ sites[n] = 0 /\ \A c \in Client : deed[c].on # n
  <2>1. n \in Server /\ node[n] \in {"online", "offline"}
    BY <1>1, <1>2, Known DEF DeedsKnown
  <2>2. Unmade(n)
    BY <2>1, Known DEF DeedsKnown, Unmade, Makes
  <2>3. sites[n] = 0 /\ \A c \in Client : deed[c].on # n
    BY <1>1 DEF Undisturbed
  <2> QED BY <2>1, <2>2, <2>3
<1> DEFINE f == IF sites[n] > 0 \/ n \in ghosts THEN 0 ELSE PerServer
           x == [K EXCEPT !.todo = @ \ {n}, !.free = @ - f]
<1>4. K \in DeedState /\ f \in Int /\ DeedBecomes(Keeper, x)
  <2>1. PerServer \in Nat
    BY CapacityBounds
  <2>2. f \in Int
    BY <2>1
  <2>3. K \in DeedState
    BY <1>2
  <2> QED BY <1>1, <2>2, <2>3 DEF Becomes, DeedBecomes
<1> HIDE DEF K, f
<1>16. K.todo \ {n} \in SUBSET Server /\ K.free - f \in Int
  BY <1>4 DEF DeedState
<1>5. x \in DeedState /\ x.pc = K.pc /\ x.todo = K.todo \ {n} /\ x.ip = K.ip /\ x.on = K.on
  BY <1>4, <1>16 DEF DeedState
<1> HIDE DEF x
<1>6. /\ deed'[Keeper] = x /\ \A e \in Doer : e # Keeper => deed'[e] = deed[e]
      /\ x.pc = "retire" /\ deed[Keeper].pc = "retire" /\ x.todo = deed[Keeper].todo \ {n}
  BY <1>1, <1>2, <1>4, <1>5 DEF DeedBecomes, K
<1>7. /\ node' \in [Server -> {"none", "starting", "online", "offline"}]
      /\ node'[n] \in {"offline", "none"} /\ \A m \in Server : m # n => node'[m] = node[m]
      /\ node'[n] = "none" => auto' = auto \ {n}
      /\ auto' \subseteq auto
  BY <1>1, <1>2, <1>3
<1>8. /\ machine' \in [Server -> {"none", NoIp} \cup Address]
      /\ machine'[n] = "none" /\ \A m \in Server : m # n => machine'[m] = machine[m]
  BY <1>1, <1>2, <1>3
<1>9. LineKnown'
  <2>1. deed[Keeper].pc \notin Waiting /\ x.pc \notin Waiting
    BY <1>6 DEF Waiting, Creating, Making
  <2> QED BY <1>1, <1>2, <1>4, <1>5, <2>1, LineStays DEF DeedBecomes
<1>10. CapTypes'
  <2>1. lease' \in [Address -> {"none", "free"} \cup Server]
    BY <1>1, <1>2, UnleaseTyped
  <2> QED BY <1>1, <1>2, <1>4, <1>5, <1>7, <1>8, <2>1, Known DEF CapTypes, DeedBecomes
<1>11. \A e \in Doer : deed'[e].pc \in Making => deed[e].pc \in Making /\ deed'[e].on = deed[e].on /\ deed[e].on # n /\ deed[e].on \in Server
  BY <1>3, <1>6, Known DEF Making, Unmade, Makes, DeedsKnown
<1>12. DeedsKnown'
  <2>1. \A e \in Doer : deed'[e].pc \in Making => deed'[e].on \in Server /\ node'[deed'[e].on] = "starting"
    BY <1>7, <1>11, Known DEF DeedsKnown
  <2>0. \A e \in Doer : deed'[e].pc \in Making => machine'[deed'[e].on] = machine[deed[e].on] /\ deed'[e] = deed[e]
    BY <1>6, <1>8, <1>11 DEF Making
  <2>2. \A e \in Doer : deed'[e].pc \in {"lease", "book", "create"} => machine'[deed'[e].on] = "none"
    BY <2>0, Known DEF DeedsKnown, Making
  <2>3. \A e \in Doer : deed'[e].pc = "record" => machine'[deed'[e].on] # "none"
    BY <2>0, Known DEF DeedsKnown, Making
  <2>4. \A e \in Doer : deed'[e].pc = "undo" /\ unheard' = 0 => machine'[deed'[e].on] = "none"
    BY <1>1, <2>0, Known DEF DeedsKnown, Making
  <2>5. \A e, f2 \in Doer : deed'[e].pc \in Making /\ deed'[f2].pc \in Making /\ deed'[e].on = deed'[f2].on => e = f2
    BY <1>11, Known DEF DeedsKnown
  <2>6. ASSUME NEW e \in Doer, deed'[e].pc = "place"
        PROVE  /\ deed'[e].on \in Server /\ node'[deed'[e].on] \in {"starting", "online"}
               /\ \A g \in Doer : ~(deed'[g].pc \in Making /\ deed'[g].on = deed'[e].on)
    <3>1. e # Keeper /\ deed'[e] = deed[e]
      BY <1>6, <2>6
    <3>2. deed[e].on \in Server /\ IsThere(deed[e].on) /\ Unmade(deed[e].on) /\ deed[e].on # n
      BY <1>3, <2>6, <3>1, Known DEF DeedsKnown, Roles
    <3> QED BY <1>7, <1>11, <3>1, <3>2 DEF IsThere, Unmade, Makes
  <2>7. \A e \in Doer : \A m \in deed'[e].todo : e = Keeper /\ node'[m] \in {"online", "offline"}
    <3>1. \A e \in Doer : \A m \in deed'[e].todo : m # n /\ m \in Server /\ e = Keeper /\ node[m] \in {"online", "offline"}
      BY <1>6, Known DEF DeedsKnown
    <3> QED BY <1>7, <3>1
  <2>8. \A e \in Doer : deed'[e].pc \in {"idle", "wait", "insert", "lease"} => deed'[e].ip = NoIp
    BY <1>6, Known DEF DeedsKnown
  <2>9. deed'[Staff].pc \in Making => deed'[Staff].on \notin auto'
    BY <1>7, <1>11, Known DEF DeedsKnown
  <2> QED BY <2>1, <2>2, <2>3, <2>4, <2>5, <2>6, <2>7, <2>8, <2>9 DEF DeedsKnown, IsThere, Unmade, Makes
<1>13. Roles'
  BY <1>6, Known DEF Roles
<1>14. NodesKnown'
  <2>1. \A m \in Server : (\A e \in Doer : ~(deed'[e].pc \in Making /\ deed'[e].on = m)) <=> Unmade(m)
    <3>1. deed[Keeper].pc \notin Making /\ x.pc \notin Making
      BY <1>6 DEF Making
    <3> QED BY <1>2, <1>4, <1>5, <3>1, MakersStay
  <2>2. \A m \in auto' : m \in Server /\ node'[m] # "none"
    BY <1>2, <1>7, Known DEF NodesKnown
  <2>3. \A m \in Server : sites'[m] > 0 => m # n
    BY <1>1, <1>3
  <2> QED BY <1>1, <1>7, <1>8, <2>1, <2>2, <2>3, Known DEF NodesKnown, IsThere, MachinesKnown, Unmade, Makes
<1>15. AutoBounded'
  <2>2. Cardinality(auto') <= MaxServers /\ Cardinality(auto') <= Cardinality(auto) /\ Cardinality(auto') \in Nat
        /\ Cardinality(auto) \in Nat /\ MaxServers \in Nat
    BY <1>7, Known, FewerAreFewer
  <2>3. \A e \in Doer : e # Staff /\ deed'[e].pc = "insert" => Cardinality(auto) < MaxServers
    BY <1>6, Known DEF AutoBounded
  <2> QED BY <2>2, <2>3 DEF AutoBounded
<1> QED BY <1>9, <1>10, <1>12, <1>13, <1>14, <1>15 DEF CapInv

LEMMA CapInvInit ==
  ASSUME CapacityInit
  PROVE  CapInv
<1>1. /\ node = [n \in Server |-> "none"] /\ machine = [n \in Server |-> "none"]
      /\ auto = {} /\ ghosts = {} /\ reserved = {} /\ line = <<>>
      /\ idle = [n \in Server |-> "no"] /\ lease = [a \in Address |-> "none"] /\ sites = [n \in Server |-> 0]
      /\ deed = [d \in Doer |-> Idly] /\ unheard = 0 /\ byHand = 0
  BY DEF CapacityInit
<1>2. line \in Seq(Doer) /\ DOMAIN line = {}
  BY <1>1
<1>3. deed \in [Doer -> DeedState] /\ \A d \in Doer : deed[d] = Idly
  BY <1>1, IdlyIs
<1>4. CapTypes
  BY <1>1, <1>2, <1>3 DEF CapTypes
<1>5. \A d \in Doer : deed[d].pc = "idle" /\ deed[d].todo = {} /\ deed[d].ip = NoIp /\ deed[d].pc \notin Waiting
  BY <1>3, IdlyIs DEF Waiting, Creating, Making
<1>6. LineKnown /\ Roles
  BY <1>2, <1>5 DEF LineKnown, Roles
<1>7. DeedsKnown
  BY <1>5, CapacityBounds DEF DeedsKnown, Making, Doer
<1>8. NodesKnown
  BY <1>1 DEF NodesKnown, IsThere, MachinesKnown
<1>9. AutoBounded
  <2>1. MaxServers \in Nat \ {0}
    BY CapacityBounds
  <2> QED BY <1>1, <1>5, <2>1, FS_EmptySet DEF AutoBounded
<1> QED BY <1>4, <1>6, <1>7, <1>8, <1>9 DEF CapInv

LEMMA CapInvNext ==
  ASSUME CapInv, [CapacityNext]_capVars, ~Hasty
  PROVE  CapInv'
<1>1. CASE UNCHANGED capVars
  BY <1>1 DEF capVars, capState, CapInv, CapTypes, LineKnown, Roles, DeedsKnown, NodesKnown, AutoBounded, IsThere, Unmade, Makes, MachinesKnown
<1>2. ASSUME NEW c \in Client, Pick(c) \/ PlaceSite(c)
      PROVE  CapInv'
  BY <1>2, PickKeeps, PlaceKeeps
<1>3. ASSUME NEW d \in Doer, Creates(d)
      PROVE  CapInv'
  BY <1>3, AutoscaleKeeps, InsertKeeps, ClaimKeeps, ReserveKeeps, BookKeeps, StartKeeps, RecordKeeps, UndoKeeps DEF Creates
<1>4. ASSUME NEW n \in Server, RemoveSite(n) \/ ComesOnline(n) \/ HoursPass(n)
      PROVE  CapInv'
  BY <1>4, RemoveKeeps, OnlineKeeps, HoursKeep
<1>5. CASE KeepStart \/ Retire \/ KeepReserve
  BY <1>5, KeepStartKeeps, RetireKeeps, KeepReserveKeeps
<1>6. CASE ByHand \/ ReleaseAddress \/ DeleteLease
  BY <1>6, ByHandKeeps, ReleaseKeeps, DeleteKeeps
<1> QED BY <1>1, <1>2, <1>3, <1>4, <1>5, <1>6 DEF CapacityNext, CapacityStep

LEMMA CapInvMeans ==
  ASSUME CapInv
  PROVE  MachinesKnown /\ ServersBounded /\ SitesHaveMachines
<1>1. MachinesKnown /\ ServersBounded
  BY Known DEF NodesKnown, AutoBounded, ServersBounded
<1>2. SitesHaveMachines
  BY Known DEF NodesKnown, SitesHaveMachines, IsThere, Unmade, Makes
<1> QED BY <1>1, <1>2

\* No machine of the provider is unseen, automatic mode keeps to its number, and sites
\* have machines, whatever is done by hand.
THEOREM ServersAreKnown ==
  ASSUME ~Hasty
  PROVE  CapacitySpec => [](MachinesKnown /\ ServersBounded /\ SitesHaveMachines)
<1>1. CapacityInit => CapInv
  BY CapInvInit
<1>2. CapInv /\ [CapacityNext]_capVars => CapInv'
  BY CapInvNext
<1>3. CapInv => MachinesKnown /\ ServersBounded /\ SitesHaveMachines
  BY CapInvMeans
<1> QED BY <1>1, <1>2, <1>3, PTL DEF CapacitySpec

-----------------------------------------------------------------------------
(* The addresses.                                                          *)

\* Staff is at no creation.
Around == {"idle", "release", "delete"}

\* Every creation that comes to its machine has the lease of its address.
NoneLost == \A d \in Doer : deed[d].pc = "create" /\ deed[d].ip \in Address => lease[deed[d].ip] = deed[d].on

\* What a machine answers from is leased to it and is nobody else's. An address a
\* creation is about to use is leased to it, or is not reserved any more: staff gave it
\* back, and creates nothing meanwhile. What staff gives back was leased or free when it
\* was read, and nobody can book it before its row is deleted.
Leased ==
  /\ \A m, n \in Server : machine[m] \in Address /\ machine[m] = machine[n] => m = n
  /\ unheard = 0 => \A m \in Server : machine[m] \in Address => lease[machine[m]] = m
  /\ \A d \in Doer : deed[d].pc = "create" /\ deed[d].ip \in Address =>
       \/ lease[deed[d].ip] = deed[d].on
       \/ deed[d].ip \notin reserved /\ deed[Staff].pc \in Around
  /\ \A d \in Doer : deed[d].pc = "book" =>
       deed[d].ip \in Address /\ deed[d].ip \in reserved /\ lease[deed[d].ip] = "none"
  /\ \A d, e \in Doer : deed[d].pc = "book" /\ deed[e].pc = "book" /\ deed[d].ip = deed[e].ip => d = e
  /\ deed[Staff].pc \in {"release", "delete"} =>
       deed[Staff].ip \in Address /\ lease[deed[Staff].ip] # "none"
  /\ deed[Staff].pc = "delete" => deed[Staff].ip \notin reserved /\ \A m \in Server : machine[m] # deed[Staff].ip

\* A step that leaves the addresses alone.
LEMMA LeasesLeft ==
  ASSUME Leased, Staff \in Doer, NEW d \in Doer, NEW x \in DeedState, deed \in [Doer -> DeedState], DeedBecomes(d, x),
         lease' = lease, reserved' = reserved, machine' = machine, unheard' = unheard,
         x.pc = "create" => x.ip \notin Address, x.pc # "book", x.pc # "delete",
         x.pc = "release" => d = Staff /\ x.ip \in Address /\ lease[x.ip] # "none",
         d = Staff /\ deed[Staff].pc \in Around /\ x.pc \notin Around => NoneLost
  PROVE  Leased'
<1>1. deed'[d] = x /\ \A e \in Doer : e # d => deed'[e] = deed[e]
  BY DEF DeedBecomes
<1>2. \A e \in Doer : deed'[e].pc = "create" /\ deed'[e].ip \in Address =>
       \/ lease[deed'[e].ip] = deed'[e].on
       \/ deed'[e].ip \notin reserved /\ deed'[Staff].pc \in Around
  BY <1>1 DEF Leased, NoneLost
<1>3. \A e \in Doer : deed'[e].pc = "book" => e # d /\ deed'[e] = deed[e]
  BY <1>1
<1>4. /\ deed'[Staff].pc \in {"release", "delete"} =>
          deed'[Staff].ip \in Address /\ lease[deed'[Staff].ip] # "none"
      /\ deed'[Staff].pc = "delete" => deed'[Staff].ip \notin reserved /\ \A m \in Server : machine[m] # deed'[Staff].ip
  BY <1>1 DEF Leased
<1> QED BY <1>2, <1>3, <1>4 DEF Leased

\* The steps that do.
LEMMA OthersLeave ==
  ASSUME CapInv, Leased, ~Rushed,
         \/ \E c \in Client : Pick(c) \/ PlaceSite(c)
         \/ \E d \in Doer : Autoscale(d) \/ InsertNode(d) \/ RecordNode(d)
         \/ \E n \in Server : RemoveSite(n) \/ ComesOnline(n) \/ HoursPass(n)
         \/ KeepStart \/ KeepReserve \/ ByHand
  PROVE  Leased'
<1>1. deed \in [Doer -> DeedState] /\ Staff \in Doer /\ Keeper \in Doer /\ Keeper # Staff /\ byHand \in Nat
  BY Known DEF CapTypes
<1>2. ASSUME NEW c \in Client, Pick(c) PROVE Leased'
  <2>1. c \in Doer /\ c # Staff /\ lease' = lease /\ reserved' = reserved /\ machine' = machine /\ unheard' = unheard /\ byHand' = byHand
    BY <1>2, Known DEF Pick, capIps
  <2>2. CASE Moves(c, "wait")
    <3>1. PICK x \in DeedState : DeedBecomes(c, x) /\ x.pc = "wait" /\ x.on = deed[c].on /\ x.ip = deed[c].ip /\ x.todo = deed[c].todo
      BY <1>1, <2>1, <2>2, Moving DEF Waiting
    <3> QED BY <1>1, <2>1, <3>1, LeasesLeft
  <2>3. ASSUME NEW n \in Server, Becomes(c, [Idly EXCEPT !.pc = "place", !.on = n]) PROVE Leased'
    <3>1. PICK x \in DeedState : DeedBecomes(c, x) /\ x.pc = "place" /\ x.on = n /\ x.todo = {} /\ x.ip = NoIp
      <4> DEFINE s == Idly
                 y == [s EXCEPT !.pc = "place", !.on = n]
      <4>1. s \in DeedState /\ s.todo = {} /\ s.ip = NoIp /\ DeedBecomes(c, y)
        BY <2>3, IdlyIs DEF Becomes, DeedBecomes
      <4> HIDE DEF s
      <4>2. y \in DeedState /\ y.pc = "place" /\ y.on = n /\ y.todo = {} /\ y.ip = NoIp
        BY <4>1 DEF DeedState
      <4> HIDE DEF y
      <4> QED BY <4>1, <4>2
    <3> QED BY <1>1, <2>1, <3>1, LeasesLeft
  <2> QED BY <1>2, <2>2, <2>3 DEF Pick, Rows
<1>3. ASSUME NEW c \in Client, PlaceSite(c) PROVE Leased'
  <2>1. c \in Doer /\ c # Staff /\ lease' = lease /\ reserved' = reserved /\ machine' = machine /\ unheard' = unheard /\ byHand' = byHand
        /\ DeedBecomes(c, Idly)
    BY <1>3, Known DEF PlaceSite, capIps, Becomes, DeedBecomes
  <2> QED BY <1>1, <2>1, IdlyIs, LeasesLeft
<1>4. ASSUME NEW d \in Doer, Autoscale(d) PROVE Leased'
  <2>1. lease' = lease /\ reserved' = reserved /\ machine' = machine /\ unheard' = unheard /\ byHand' = byHand
        /\ deed[d].pc = "wait" /\ MyTurn(d)
    BY <1>4 DEF Autoscale, capIps, Does
  <2>2. d # Staff
    BY <2>1, Known DEF Roles
  <2>3. ASSUME NEW n \in Server \cup {NoNode}, Leave(d, n) PROVE Leased'
    <3>1. PICK x \in DeedState :
              /\ DeedBecomes(d, x) /\ x.todo = {} /\ x.ip = NoIp /\ x.pc \in {"idle", "place"}
              /\ x.pc = "place" => d \in Client /\ x.on = n /\ n # NoNode
      BY <2>1, <2>3, Leaving
    <3> QED BY <1>1, <2>1, <2>2, <3>1, LeasesLeft
  <2>4. CASE Moves(d, "insert")
    <3>1. PICK x \in DeedState : DeedBecomes(d, x) /\ x.pc = "insert" /\ x.on = deed[d].on /\ x.ip = deed[d].ip /\ x.todo = deed[d].todo
      BY <1>1, <2>4, Moving DEF Waiting, Creating
    <3> QED BY <1>1, <2>1, <2>2, <3>1, LeasesLeft
  <2> QED BY <1>4, <2>3, <2>4, Known DEF Autoscale, CapTypes
<1>5. ASSUME NEW d \in Doer, InsertNode(d) PROVE Leased'
  <2> DEFINE s == deed[d]
             x == [s EXCEPT !.pc = "lease", !.on = NewNode]
  <2>1. lease' = lease /\ reserved' = reserved /\ machine' = machine /\ unheard' = unheard /\ byHand' = byHand
        /\ deed[d].pc = "insert" /\ DeedBecomes(d, x) /\ \E m \in Server : node[m] = "none" /\ machine[m] = "none"
    BY <1>5 DEF InsertNode, capIps, Does, Becomes, DeedBecomes
  <2>2. s \in DeedState /\ NewNode \in Server
    BY <1>1, <2>1 DEF NewNode
  <2> HIDE DEF s
  <2>3. x \in DeedState /\ x.pc = "lease"
    BY <2>2 DEF DeedState, Waiting, Creating, Making
  <2> HIDE DEF x
  <2> QED BY <1>1, <2>1, <2>3, LeasesLeft DEF Around
<1>6. ASSUME NEW d \in Doer, RecordNode(d) PROVE Leased'
  <2>1. lease' = lease /\ reserved' = reserved /\ machine' = machine /\ unheard' = unheard /\ byHand' = byHand
        /\ deed[d].pc = "record" /\ Leave(d, deed[d].on)
    BY <1>6 DEF RecordNode, capIps, Does
  <2> DEFINE n == deed[d].on
  <2>2. n \in Server
    BY <2>1, Known DEF DeedsKnown, Making
  <2>4. Leave(d, n)
    BY <2>1
  <2> HIDE DEF n
  <2>3. PICK x \in DeedState :
              /\ DeedBecomes(d, x) /\ x.todo = {} /\ x.ip = NoIp /\ x.pc \in {"idle", "place"}
              /\ x.pc = "place" => d \in Client /\ x.on = n /\ n # NoNode
    BY <2>1, <2>2, <2>4, Leaving DEF Creating, Making
  <2> QED BY <1>1, <2>1, <2>3, LeasesLeft DEF Around
<1>7. ASSUME NEW n \in Server, RemoveSite(n) \/ ComesOnline(n) \/ HoursPass(n) PROVE Leased'
  <2>1. lease' = lease /\ reserved' = reserved /\ machine' = machine /\ unheard' = unheard /\ byHand' = byHand /\ deed' = deed
    BY <1>7 DEF RemoveSite, ComesOnline, HoursPass, capIps
  <2> QED BY <2>1 DEF Leased
<1>8. CASE KeepStart
  <2> DEFINE s == Idly
             x == [s EXCEPT !.pc = "retire", !.free = FreePlaces,
                      !.todo = {n \in auto : node[n] # "starting" /\ sites[n] = 0 /\ idle[n] = "long"}]
  <2>1. lease' = lease /\ reserved' = reserved /\ machine' = machine /\ unheard' = unheard /\ byHand' = byHand
        /\ DeedBecomes(Keeper, x)
    BY <1>8 DEF KeepStart, capIps, Becomes, DeedBecomes
  <2>2. s \in DeedState /\ FreePlaces \in Int /\ {n \in auto : node[n] # "starting" /\ sites[n] = 0 /\ idle[n] = "long"} \subseteq Server
    <3>1. CapTypes
      BY Known
    <3>2. FreePlaces \in Nat
      BY <3>1, RoomIsNat
    <3> QED BY <3>1, <3>2, IdlyIs DEF CapTypes
  <2> HIDE DEF s
  <2>3. x \in DeedState /\ x.pc = "retire"
    BY <2>2 DEF DeedState
  <2> HIDE DEF x
  <2> QED BY <1>1, <2>1, <2>3, LeasesLeft
<1>9. CASE KeepReserve
  <2>1. lease' = lease /\ reserved' = reserved /\ machine' = machine /\ unheard' = unheard /\ byHand' = byHand
    BY <1>9 DEF KeepReserve, capIps
  <2>2. CASE Becomes(Keeper, [Idly EXCEPT !.pc = "wait"])
    <3> DEFINE s == Idly
               x == [s EXCEPT !.pc = "wait"]
    <3>1. s \in DeedState /\ DeedBecomes(Keeper, x)
      BY <2>2, IdlyIs DEF Becomes, DeedBecomes
    <3> HIDE DEF s
    <3>2. x \in DeedState /\ x.pc = "wait"
      BY <3>1 DEF DeedState, Waiting
    <3> HIDE DEF x
    <3> QED BY <1>1, <2>1, <3>1, <3>2, LeasesLeft
  <2>3. CASE Becomes(Keeper, Idly)
    <3>1. DeedBecomes(Keeper, Idly)
      BY <2>3 DEF Becomes, DeedBecomes
    <3> QED BY <1>1, <2>1, <3>1, IdlyIs, LeasesLeft
  <2> QED BY <1>9, <2>2, <2>3 DEF KeepReserve
<1>10. CASE ByHand
  <2>1. lease' = lease /\ reserved' = reserved /\ machine' = machine /\ unheard' = unheard /\ deed[Staff].pc = "idle"
    BY <1>10 DEF ByHand, capIps, Does
  <2>4. CASE Settled /\ Moves(Staff, "insert")
    <3>1. PICK x \in DeedState : DeedBecomes(Staff, x) /\ x.pc = "insert" /\ x.on = deed[Staff].on /\ x.ip = deed[Staff].ip /\ x.todo = deed[Staff].todo
      BY <1>1, <2>4, Moving DEF Waiting, Creating
    <3>2. NoneLost
      BY <2>4 DEF Settled, NoneLost, Does
    <3> QED BY <1>1, <2>1, <3>1, <3>2, LeasesLeft
  <2>5. ASSUME NEW a \in Address, lease[a] = "free", Becomes(Staff, [Idly EXCEPT !.pc = "release", !.ip = a]) PROVE Leased'
    <3> DEFINE s == Idly
               x == [s EXCEPT !.pc = "release", !.ip = a]
    <3>1. s \in DeedState /\ DeedBecomes(Staff, x)
      BY <2>5, IdlyIs DEF Becomes, DeedBecomes
    <3> HIDE DEF s
    <3>2. x \in DeedState /\ x.pc = "release" /\ x.ip = a
      BY <3>1 DEF DeedState
    <3> HIDE DEF x
    <3> QED BY <1>1, <2>1, <2>5, <3>1, <3>2, LeasesLeft DEF Around
  <2> QED BY <1>10, <2>4, <2>5 DEF ByHand
<1> QED BY <1>2, <1>3, <1>4, <1>5, <1>6, <1>7, <1>8, <1>9, <1>10

\* Only the first in the line creates besides staff.
LEMMA OneCreator ==
  ASSUME CapInv, NEW d \in Doer, NEW e \in Doer, deed[d].pc \in Making, deed[e].pc \in Making, deed[Staff].pc \in Around
  PROVE  d = e
<1>1. d # Staff /\ e # Staff /\ LineKnown
  BY Known DEF Making, Around
<1> QED BY <1>1, FirstInLine DEF Creating

LEMMA ClaimLeases ==
  ASSUME CapInv, Leased, NEW d \in Doer, ClaimAddress(d)
  PROVE  Leased'
<1>1. PICK a \in Address : /\ lease[a] = "free" /\ lease' = [lease EXCEPT ![a] = deed[d].on]
                           /\ Becomes(d, [deed[d] EXCEPT !.pc = "create", !.ip = a])
  BY DEF ClaimAddress
<1>2. deed[d].pc = "lease" /\ reserved' = reserved /\ machine' = machine /\ unheard' = unheard /\ byHand' = byHand
  BY DEF ClaimAddress, Does
<1>3. /\ deed \in [Doer -> DeedState] /\ lease \in [Address -> {"none", "free"} \cup Server] /\ Staff \in Doer
      /\ deed[d].on \in Server /\ "free" \notin Server /\ "none" \notin Server
  BY <1>2, Known, CapacityBounds DEF DeedsKnown, Making, CapTypes
<1> DEFINE s == deed[d]
           x == [s EXCEPT !.pc = "create", !.ip = a]
<1>4. s \in DeedState /\ DeedBecomes(d, x)
  BY <1>1, <1>3 DEF Becomes, DeedBecomes
<1> HIDE DEF s
<1>5. x \in DeedState /\ x.pc = "create" /\ x.on = s.on /\ x.ip = a
  BY <1>4 DEF DeedState, Waiting, Creating, Making
<1> HIDE DEF x
<1>6. /\ deed'[d] = x /\ \A e \in Doer : e # d => deed'[e] = deed[e]
      /\ x.pc = "create" /\ x.on = deed[d].on /\ x.ip = a
  BY <1>3, <1>4, <1>5 DEF DeedBecomes, s
<1>7. lease'[a] = deed[d].on /\ \A b \in Address : b # a => lease'[b] = lease[b]
  BY <1>1, <1>3
<1>8. unheard = 0 => \A m \in Server : machine[m] \in Address => lease'[machine[m]] = m
  BY <1>1, <1>3, <1>7 DEF Leased
<1>9. \A e \in Doer : deed'[e].pc = "create" /\ deed'[e].ip \in Address =>
       \/ lease'[deed'[e].ip] = deed'[e].on
       \/ deed'[e].ip \notin reserved /\ deed'[Staff].pc \in Around
  <2> SUFFICES ASSUME NEW e \in Doer, deed'[e].pc = "create", deed'[e].ip \in Address
               PROVE  \/ lease'[deed'[e].ip] = deed'[e].on
                      \/ deed'[e].ip \notin reserved /\ deed'[Staff].pc \in Around
    OBVIOUS
  <2>1. CASE e = d
    BY <1>6, <1>7, <2>1
  <2>2. CASE e # d
    <3>1. deed[e].pc = "create" /\ deed[e].ip \in Address /\ deed'[e] = deed[e] /\ deed[e].on \in Server
      BY <1>6, <2>2, Known DEF DeedsKnown, Making
    <3>2. CASE lease[deed[e].ip] = deed[e].on
      BY <1>1, <1>3, <1>7, <3>1, <3>2
    <3>3. CASE deed[e].ip \notin reserved /\ deed[Staff].pc \in Around
      <4>1. deed'[Staff].pc \in Around
        BY <1>2, <1>3, <1>6, <3>3 DEF Around
      <4> QED BY <3>1, <3>3, <4>1
    <3> QED BY <3>1, <3>2, <3>3 DEF Leased
  <2> QED BY <2>1, <2>2
<1>10. \A e \in Doer : deed'[e].pc = "book" =>
         e # d /\ deed'[e] = deed[e] /\ deed'[e].ip \in Address /\ deed'[e].ip \in reserved /\ lease'[deed'[e].ip] = "none"
  BY <1>1, <1>6, <1>7 DEF Leased
<1>11. deed'[Staff].pc \in {"release", "delete"} =>
         deed'[Staff] = deed[Staff] /\ deed'[Staff].ip \in Address /\ lease'[deed'[Staff].ip] # "none"
  BY <1>3, <1>6, <1>7 DEF Leased
<1> QED BY <1>2, <1>8, <1>9, <1>10, <1>11 DEF Leased

LEMMA ReserveLeases ==
  ASSUME CapInv, Leased, NEW d \in Doer, ReserveAddress(d)
  PROVE  Leased'
<1>1. deed[d].pc = "lease" /\ lease' = lease /\ machine' = machine /\ unheard' = unheard /\ byHand' = byHand
  BY DEF ReserveAddress, Does
<1>2. deed \in [Doer -> DeedState] /\ Staff \in Doer /\ deed[d].ip = NoIp /\ NoIp \notin Address
  BY <1>1, Known, CapacityBounds DEF DeedsKnown, NoIp
<1>3. CASE \E a \in Address :
               /\ lease[a] = "none"
               /\ Becomes(d, [deed[d] EXCEPT !.pc = IF a \in reserved THEN "undo" ELSE "book", !.ip = a])
               /\ reserved' = reserved \cup {a}
  <2>1. PICK a \in Address : /\ lease[a] = "none"
                             /\ Becomes(d, [deed[d] EXCEPT !.pc = IF a \in reserved THEN "undo" ELSE "book", !.ip = a])
                             /\ reserved' = reserved \cup {a}
    BY <1>3
  <2> DEFINE pc == IF a \in reserved THEN "undo" ELSE "book"
             s == deed[d]
             x == [s EXCEPT !.pc = pc, !.ip = a]
  <2>2. s \in DeedState /\ DeedBecomes(d, x)
    BY <1>2, <2>1 DEF Becomes, DeedBecomes
  <2>3. pc \in {"undo", "book"} /\ (pc = "book" => a \notin reserved)
    OBVIOUS
  <2> HIDE DEF s, pc
  <2>4. x \in DeedState /\ x.pc = pc /\ x.ip = a
    BY <2>2, <2>3 DEF DeedState, Waiting, Creating, Making
  <2> HIDE DEF x
  <2>5. /\ deed'[d] = x /\ \A e \in Doer : e # d => deed'[e] = deed[e]
        /\ x.pc \in {"undo", "book"} /\ (x.pc = "book" => a \notin reserved) /\ x.ip = a
    BY <1>2, <2>2, <2>3, <2>4 DEF DeedBecomes
  <2>6. \A e \in Doer : deed'[e].pc = "create" /\ deed'[e].ip \in Address =>
         \/ lease[deed'[e].ip] = deed'[e].on
         \/ deed'[e].ip \notin reserved' /\ deed'[Staff].pc \in Around
    <3> SUFFICES ASSUME NEW e \in Doer, deed'[e].pc = "create", deed'[e].ip \in Address
                 PROVE  lease[deed'[e].ip] = deed'[e].on
      OBVIOUS
    <3>1. deed[e].pc = "create" /\ deed[e].ip \in Address /\ deed'[e] = deed[e] /\ e # d
      BY <2>5
    <3>2. deed[Staff].pc \notin Around
      BY <1>1, <3>1, OneCreator DEF Making
    <3> QED BY <3>1, <3>2 DEF Leased
  <2>7. \A e \in Doer : deed'[e].pc = "book" =>
           deed'[e].ip \in Address /\ deed'[e].ip \in reserved' /\ lease[deed'[e].ip] = "none"
    BY <2>1, <2>5 DEF Leased
  <2>8. \A e, f \in Doer : deed'[e].pc = "book" /\ deed'[f].pc = "book" /\ deed'[e].ip = deed'[f].ip => e = f
    BY <2>5 DEF Leased
  <2>9. deed'[Staff].pc \in {"release", "delete"} =>
           deed'[Staff] = deed[Staff] /\ deed'[Staff].ip \in Address /\ lease[deed'[Staff].ip] # "none"
    BY <1>2, <2>5 DEF Leased
  <2>10. deed'[Staff].pc = "delete" => deed'[Staff].ip \notin reserved' /\ \A m \in Server : machine[m] # deed'[Staff].ip
    BY <2>1, <2>9 DEF Leased
  <2> QED BY <1>1, <2>6, <2>7, <2>8, <2>9, <2>10 DEF Leased
<1>4. CASE Moves(d, "create") /\ UNCHANGED reserved
  <2>1. PICK x \in DeedState : DeedBecomes(d, x) /\ x.pc = "create" /\ x.on = deed[d].on /\ x.ip = deed[d].ip /\ x.todo = deed[d].todo
    BY <1>2, <1>4, Moving DEF Waiting, Creating, Making
  <2>2. deed[d].pc \notin Around
    BY <1>1 DEF Around
  <2> QED BY <1>1, <1>2, <1>4, <2>1, <2>2, LeasesLeft
<1> QED BY <1>3, <1>4 DEF ReserveAddress

LEMMA BookLeases ==
  ASSUME CapInv, Leased, NEW d \in Doer, BookAddress(d)
  PROVE  Leased'
<1> DEFINE a == deed[d].ip
<1>1. /\ deed[d].pc = "book" /\ lease' = [lease EXCEPT ![a] = deed[d].on] /\ Moves(d, "create")
      /\ reserved' = reserved /\ machine' = machine /\ unheard' = unheard /\ byHand' = byHand
  BY DEF BookAddress, Does
<1>2. /\ deed \in [Doer -> DeedState] /\ lease \in [Address -> {"none", "free"} \cup Server] /\ Staff \in Doer
      /\ deed[d].on \in Server /\ "free" \notin Server /\ "none" \notin Server
      /\ a \in Address /\ a \in reserved /\ lease[a] = "none"
  BY <1>1, Known, CapacityBounds DEF DeedsKnown, Making, CapTypes, Leased
<1>3. PICK x \in DeedState : DeedBecomes(d, x) /\ x.pc = "create" /\ x.on = deed[d].on /\ x.ip = deed[d].ip /\ x.todo = deed[d].todo
  BY <1>1, <1>2, Moving DEF Waiting, Creating, Making
<1>4. /\ deed'[d] = x /\ \A e \in Doer : e # d => deed'[e] = deed[e]
      /\ x.pc = "create" /\ x.on = deed[d].on /\ x.ip = a
  BY <1>2, <1>3 DEF DeedBecomes
<1>5. \A e \in Doer : e # d /\ deed[e].pc = "book" => deed[e].ip # a
  BY <1>1 DEF Leased
<1> HIDE DEF a
<1>6. lease'[a] = deed[d].on /\ \A b \in Address : b # a => lease'[b] = lease[b]
  BY <1>1, <1>2
<1>7. unheard = 0 => \A m \in Server : machine[m] \in Address => lease'[machine[m]] = m
  BY <1>2, <1>6 DEF Leased
<1>8. \A e \in Doer : deed'[e].pc = "create" /\ deed'[e].ip \in Address =>
       \/ lease'[deed'[e].ip] = deed'[e].on
       \/ deed'[e].ip \notin reserved /\ deed'[Staff].pc \in Around
  <2> SUFFICES ASSUME NEW e \in Doer, deed'[e].pc = "create", deed'[e].ip \in Address
               PROVE  lease'[deed'[e].ip] = deed'[e].on
    OBVIOUS
  <2>1. CASE e = d
    BY <1>4, <1>6, <2>1
  <2>2. CASE e # d
    <3>1. deed[e].pc = "create" /\ deed[e].ip \in Address /\ deed'[e] = deed[e] /\ deed[e].on \in Server
      BY <1>4, <2>2, Known DEF DeedsKnown, Making
    <3>2. deed[Staff].pc \notin Around
      BY <1>1, <2>2, <3>1, OneCreator DEF Making
    <3>3. lease[deed[e].ip] = deed[e].on
      BY <3>1, <3>2 DEF Leased
    <3> QED BY <1>2, <1>6, <3>1, <3>3
  <2> QED BY <2>1, <2>2
<1>9. \A e \in Doer : deed'[e].pc = "book" =>
         e # d /\ deed'[e] = deed[e] /\ deed'[e].ip \in Address /\ deed'[e].ip \in reserved /\ lease'[deed'[e].ip] = "none"
  BY <1>4, <1>5, <1>6 DEF Leased
<1>10. deed'[Staff].pc \in {"release", "delete"} =>
         deed'[Staff] = deed[Staff] /\ deed'[Staff].ip \in Address /\ lease'[deed'[Staff].ip] # "none"
  BY <1>2, <1>4, <1>6 DEF Leased
<1> QED BY <1>1, <1>7, <1>8, <1>9, <1>10 DEF Leased

LEMMA StartLeases ==
  ASSUME CapInv, Leased, NEW d \in Doer, MachineStarts(d)
  PROVE  Leased'
<1> DEFINE n == deed[d].on
           a == deed[d].ip
<1>1. /\ deed[d].pc = "create" /\ lease' = lease /\ reserved' = reserved /\ byHand' = byHand
      /\ unheard \in Nat /\ unheard' \in Nat /\ unheard <= unheard'
  BY StartIs
<1>2. PICK x \in DeedState :
              /\ DeedBecomes(d, x) /\ x.pc \in {"record", "undo"} /\ x.on = n /\ x.todo = deed[d].todo
              /\ \/ /\ Attachable(a) /\ machine' = [machine EXCEPT ![n] = a]
                    /\ x.pc = "undo" => unheard' # 0
                 \/ machine' = machine /\ x.pc = "undo"
  BY StartIs
<1>3. /\ deed \in [Doer -> DeedState] /\ Staff \in Doer /\ n \in Server /\ NoIp \notin Address
      /\ machine \in [Server -> {"none", NoIp} \cup Address]
  BY <1>1, Known, CapacityBounds DEF CapTypes, DeedsKnown, Making, NoIp
<1>4. deed'[d] = x /\ \A e \in Doer : e # d => deed'[e] = deed[e]
  BY <1>2, <1>3 DEF DeedBecomes
<1>5. a \in Address /\ a \in reserved => lease[a] = n
  BY <1>1 DEF Leased
<1> HIDE DEF n, a
<1>6. \A m \in Server : \/ machine'[m] = machine[m]
                        \/ m = n /\ machine'[m] = a /\ Attachable(a)
  BY <1>2, <1>3
<1>7. \A m, k \in Server : machine'[m] \in Address /\ machine'[m] = machine'[k] => m = k
  <2> SUFFICES ASSUME NEW m \in Server, NEW k \in Server, machine'[m] \in Address, machine'[m] = machine'[k] PROVE m = k
    OBVIOUS
  <2>1. Attachable(a) /\ a \in Address => \A j \in Server : machine[j] # a
    BY <1>3 DEF Attachable
  <2> QED BY <1>6, <2>1 DEF Leased
<1>8. unheard' = 0 => \A m \in Server : machine'[m] \in Address => lease[machine'[m]] = m
  <2> SUFFICES ASSUME unheard' = 0, NEW m \in Server, machine'[m] \in Address PROVE lease[machine'[m]] = m
    OBVIOUS
  <2>1. unheard = 0
    BY <1>1
  <2>2. Attachable(a) /\ a \in Address => a \in reserved
    BY <1>3 DEF Attachable
  <2> QED BY <1>5, <1>6, <2>1, <2>2 DEF Leased
<1>9. \A e \in Doer : deed'[e].pc = "create" /\ deed'[e].ip \in Address =>
       \/ lease[deed'[e].ip] = deed'[e].on
       \/ deed'[e].ip \notin reserved /\ deed'[Staff].pc \in Around
  <2> SUFFICES ASSUME NEW e \in Doer, deed'[e].pc = "create", deed'[e].ip \in Address
               PROVE  \/ lease[deed'[e].ip] = deed'[e].on
                      \/ deed'[e].ip \notin reserved /\ deed'[Staff].pc \in Around
    OBVIOUS
  <2>1. deed[e].pc = "create" /\ deed[e].ip \in Address /\ deed'[e] = deed[e]
    BY <1>2, <1>4
  <2>2. deed[Staff].pc \in Around => deed'[Staff].pc \in Around
    BY <1>1, <1>3, <1>4 DEF Around
  <2> QED BY <2>1, <2>2 DEF Leased
<1>10. \A e \in Doer : deed'[e].pc = "book" => e # d /\ deed'[e] = deed[e]
  BY <1>2, <1>4
<1>11. deed'[Staff].pc \in {"release", "delete"} => deed'[Staff] = deed[Staff]
  BY <1>2, <1>3, <1>4
<1>12. deed'[Staff].pc = "delete" => deed'[Staff].ip \notin reserved /\ \A m \in Server : machine'[m] # deed'[Staff].ip
  <2> SUFFICES ASSUME deed'[Staff].pc = "delete"
               PROVE  deed'[Staff].ip \notin reserved /\ \A m \in Server : machine'[m] # deed'[Staff].ip
    OBVIOUS
  <2>1. deed[Staff].pc = "delete" /\ deed'[Staff] = deed[Staff] /\ deed[Staff].ip \in Address /\ deed[Staff].ip \notin reserved
    BY <1>11 DEF Leased
  <2>2. Attachable(a) /\ a \in Address => a \in reserved
    BY <1>3 DEF Attachable
  <2> QED BY <1>6, <2>1, <2>2 DEF Leased
<1>13. \A e \in Doer : deed'[e].pc = "book" =>
           deed'[e].ip \in Address /\ deed'[e].ip \in reserved /\ lease[deed'[e].ip] = "none"
  BY <1>10 DEF Leased
<1>14. \A e, f \in Doer : deed'[e].pc = "book" /\ deed'[f].pc = "book" /\ deed'[e].ip = deed'[f].ip => e = f
  BY <1>10 DEF Leased
<1>15. deed'[Staff].pc \in {"release", "delete"} =>
       deed'[Staff].ip \in Address /\ lease[deed'[Staff].ip] # "none"
  BY <1>11 DEF Leased
<1> QED BY <1>1, <1>7, <1>8, <1>9, <1>12, <1>13, <1>14, <1>15 DEF Leased

LEMMA UndoLeases ==
  ASSUME CapInv, Leased, NEW d \in Doer, UndoNode(d)
  PROVE  Leased'
<1> DEFINE n == deed[d].on
<1>1. /\ deed[d].pc = "undo" /\ lease' = Unlease(n) /\ Leave(d, NoNode)
      /\ reserved' = reserved /\ machine' = machine /\ unheard' = unheard /\ byHand' = byHand
  BY DEF UndoNode, Does
<1>2. /\ deed \in [Doer -> DeedState] /\ Staff \in Doer /\ "none" \notin Server
      /\ lease \in [Address -> {"none", "free"} \cup Server]
  BY Known, CapacityBounds DEF CapTypes
<1>3. /\ n \in Server /\ (unheard = 0 => machine[n] = "none")
      /\ \A e \in Doer : e # d /\ deed[e].pc \in Making => deed[e].on # n
  BY <1>1, Known DEF DeedsKnown, Making
<1> HIDE DEF n
<1>4. PICK x \in DeedState : DeedBecomes(d, x) /\ x.todo = {} /\ x.ip = NoIp /\ x.pc = "idle"
  BY <1>1, Leaving DEF Creating, Making
<1>5. deed'[d] = x /\ \A e \in Doer : e # d => deed'[e] = deed[e]
  BY <1>2, <1>4 DEF DeedBecomes
<1>6. \A a \in Address : /\ lease[a] # n => lease'[a] = lease[a]
                         /\ lease'[a] = "none" <=> lease[a] = "none"
  BY <1>1, <1>2, <1>3 DEF Unlease
<1>7. unheard = 0 => \A m \in Server : machine[m] \in Address => lease'[machine[m]] = m
  <2> SUFFICES ASSUME unheard = 0, NEW m \in Server, machine[m] \in Address PROVE lease'[machine[m]] = m
    OBVIOUS
  <2>1. m # n /\ lease[machine[m]] = m
    BY <1>3, CapacityBounds DEF Leased
  <2> QED BY <1>6, <2>1
<1>8. \A e \in Doer : deed'[e].pc = "create" /\ deed'[e].ip \in Address =>
       \/ lease'[deed'[e].ip] = deed'[e].on
       \/ deed'[e].ip \notin reserved /\ deed'[Staff].pc \in Around
  <2> SUFFICES ASSUME NEW e \in Doer, deed'[e].pc = "create", deed'[e].ip \in Address
               PROVE  \/ lease'[deed'[e].ip] = deed'[e].on
                      \/ deed'[e].ip \notin reserved /\ deed'[Staff].pc \in Around
    OBVIOUS
  <2>1. deed[e].pc = "create" /\ deed[e].ip \in Address /\ deed'[e] = deed[e] /\ deed[e].on # n
    BY <1>3, <1>4, <1>5 DEF Making
  <2>2. deed[Staff].pc \in Around => deed'[Staff].pc \in Around
    BY <1>2, <1>4, <1>5 DEF Around
  <2> QED BY <1>6, <2>1, <2>2 DEF Leased
<1>9. \A e \in Doer : deed'[e].pc = "book" =>
         deed'[e] = deed[e] /\ deed'[e].ip \in Address /\ deed'[e].ip \in reserved /\ lease'[deed'[e].ip] = "none"
  BY <1>4, <1>5, <1>6 DEF Leased
<1>10. deed'[Staff].pc \in {"release", "delete"} =>
         deed'[Staff] = deed[Staff] /\ deed'[Staff].ip \in Address /\ lease'[deed'[Staff].ip] # "none"
  BY <1>2, <1>4, <1>5, <1>6 DEF Leased
<1> QED BY <1>1, <1>7, <1>8, <1>9, <1>10 DEF Leased

LEMMA RetireLeases ==
  ASSUME CapInv, Leased, Retire
  PROVE  Leased'
<1> DEFINE K == deed[Keeper]
<1>1. PICK n \in K.todo :
         /\ deed[Keeper].pc = "retire"
         /\ machine' = [machine EXCEPT ![n] = "none"]
         /\ lease' = (IF sites[n] > 0 \/ n \in ghosts THEN lease ELSE Unlease(n))
         /\ Becomes(Keeper, [K EXCEPT !.todo = @ \ {n}, !.free = @ - IF sites[n] > 0 \/ n \in ghosts THEN 0 ELSE PerServer])
         /\ reserved' = reserved /\ unheard' = unheard /\ byHand' = byHand
  BY DEF Retire, Does
<1>2. /\ deed \in [Doer -> DeedState] /\ Staff \in Doer /\ Keeper \in Doer /\ Keeper # Staff
      /\ "none" \notin Server /\ "none" \notin Address
      /\ lease \in [Address -> {"none", "free"} \cup Server]
      /\ machine \in [Server -> {"none", NoIp} \cup Address]
  BY Known, CapacityBounds DEF CapTypes
<1>3. n \in Server /\ \A e \in Doer : deed[e].pc \in Making => deed[e].on # n
  BY <1>1, <1>2, Known DEF DeedsKnown
<1> DEFINE f == IF sites[n] > 0 \/ n \in ghosts THEN 0 ELSE PerServer
           x == [K EXCEPT !.todo = @ \ {n}, !.free = @ - f]
<1>4. deed' = [deed EXCEPT ![Keeper] = x] /\ K.pc = "retire"
  BY <1>1 DEF Becomes
<1>5. x.pc = "retire"
  <2>1. K \in DeedState
    BY <1>2
  <2> HIDE DEF K, f
  <2> QED BY <1>4, <2>1 DEF DeedState
<1> HIDE DEF x
<1>6. deed'[Keeper].pc = "retire" /\ deed'[Staff] = deed[Staff] /\ \A e \in Doer : deed'[e].pc # "retire" => deed'[e] = deed[e]
  BY <1>2, <1>4, <1>5
<1>7. \A a \in Address : /\ lease[a] # n => lease'[a] = lease[a]
                         /\ lease'[a] = "none" <=> lease[a] = "none"
  BY <1>1, <1>2, <1>3 DEF Unlease
<1>8. \A m \in Server : machine'[m] \in Address => m # n /\ machine'[m] = machine[m]
  BY <1>1, <1>2, <1>3
<1>9. \A m, k \in Server : machine'[m] \in Address /\ machine'[m] = machine'[k] => m = k
  BY <1>8 DEF Leased
<1>10. unheard = 0 => \A m \in Server : machine'[m] \in Address => lease'[machine'[m]] = m
  BY <1>7, <1>8 DEF Leased
<1>11. \A e \in Doer : deed'[e].pc = "create" /\ deed'[e].ip \in Address =>
       \/ lease'[deed'[e].ip] = deed'[e].on
       \/ deed'[e].ip \notin reserved /\ deed'[Staff].pc \in Around
  <2> SUFFICES ASSUME NEW e \in Doer, deed'[e].pc = "create", deed'[e].ip \in Address
               PROVE  \/ lease'[deed'[e].ip] = deed'[e].on
                      \/ deed'[e].ip \notin reserved /\ deed'[Staff].pc \in Around
    OBVIOUS
  <2>1. deed[e].pc = "create" /\ deed[e].ip \in Address /\ deed'[e] = deed[e] /\ deed[e].on # n
    BY <1>3, <1>6 DEF Making
  <2> QED BY <1>6, <1>7, <2>1 DEF Leased
<1>12. \A e \in Doer : deed'[e].pc = "book" =>
         deed'[e] = deed[e] /\ deed'[e].ip \in Address /\ deed'[e].ip \in reserved /\ lease'[deed'[e].ip] = "none"
  BY <1>6, <1>7 DEF Leased
<1>13. deed'[Staff].pc \in {"release", "delete"} =>
         deed'[Staff].ip \in Address /\ lease'[deed'[Staff].ip] # "none"
  BY <1>6, <1>7 DEF Leased
<1>14. deed'[Staff].pc = "delete" => deed'[Staff].ip \notin reserved /\ \A m \in Server : machine'[m] # deed'[Staff].ip
  BY <1>6, <1>8 DEF Leased
<1> QED BY <1>1, <1>9, <1>10, <1>11, <1>12, <1>13, <1>14 DEF Leased

LEMMA ReleaseLeases ==
  ASSUME CapInv, Leased, ReleaseAddress
  PROVE  Leased'
<1> DEFINE a == deed[Staff].ip
<1>1. /\ deed[Staff].pc = "release"
      /\ \/ Attachable(a) /\ reserved' = reserved \ {a} /\ Moves(Staff, "delete")
         \/ Becomes(Staff, Idly) /\ UNCHANGED reserved
      /\ lease' = lease /\ machine' = machine /\ unheard' = unheard /\ byHand' = byHand
  BY DEF ReleaseAddress, Does
<1>2. /\ deed \in [Doer -> DeedState] /\ Staff \in Doer
      /\ a \in Address /\ lease[a] # "none" /\ a # NoIp
  BY <1>1, Known, CapacityBounds DEF Leased, NoIp
<1> HIDE DEF a
<1>3. CASE Attachable(a) /\ reserved' = reserved \ {a} /\ Moves(Staff, "delete")
  <2>1. PICK x \in DeedState : DeedBecomes(Staff, x) /\ x.pc = "delete" /\ x.on = deed[Staff].on /\ x.ip = deed[Staff].ip /\ x.todo = deed[Staff].todo
    <3>1. Moves(Staff, "delete")
      BY <1>3
    <3> QED BY <1>2, <3>1, Moving
  <2>2. /\ deed'[Staff] = x /\ \A e \in Doer : e # Staff => deed'[e] = deed[e]
        /\ x.pc = "delete" /\ x.ip = a
    BY <1>2, <2>1 DEF DeedBecomes, a
  <2>3. \A m \in Server : machine[m] # a
    BY <1>2, <1>3 DEF Attachable
  <2>4. \A e \in Doer : deed'[e].pc = "create" /\ deed'[e].ip \in Address =>
         \/ lease[deed'[e].ip] = deed'[e].on
         \/ deed'[e].ip \notin reserved' /\ deed'[Staff].pc \in Around
    BY <1>3, <2>2 DEF Leased, Around
  <2>5. \A e \in Doer : deed'[e].pc = "book" =>
         deed'[e] = deed[e] /\ deed'[e].ip \in Address /\ deed'[e].ip \in reserved' /\ lease[deed'[e].ip] = "none"
    BY <1>2, <1>3, <2>2 DEF Leased
  <2>6. a \notin reserved'
    BY <1>3
  <2> QED BY <1>1, <1>2, <2>2, <2>3, <2>4, <2>5, <2>6 DEF Leased
<1>4. CASE Becomes(Staff, Idly) /\ UNCHANGED reserved
  <2>1. DeedBecomes(Staff, Idly)
    BY <1>4 DEF Becomes, DeedBecomes
  <2> QED BY <1>1, <1>2, <1>4, <2>1, IdlyIs, LeasesLeft DEF Around
<1> QED BY <1>1, <1>3, <1>4

LEMMA DeleteLeases ==
  ASSUME CapInv, Leased, DeleteLease
  PROVE  Leased'
<1> DEFINE a == deed[Staff].ip
<1>1. /\ deed[Staff].pc = "delete" /\ Becomes(Staff, Idly) /\ lease' = [lease EXCEPT ![a] = "none"]
      /\ reserved' = reserved /\ machine' = machine /\ unheard' = unheard /\ byHand' = byHand
  BY DEF DeleteLease, Does
<1>2. /\ deed \in [Doer -> DeedState] /\ Staff \in Doer /\ lease \in [Address -> {"none", "free"} \cup Server]
      /\ a \in Address /\ a \notin reserved /\ \A m \in Server : machine[m] # a
  BY <1>1, Known DEF Leased, CapTypes
<1> HIDE DEF a
<1>3. /\ lease'[a] = "none" /\ \A b \in Address : b # a => lease'[b] = lease[b]
      /\ deed'[Staff].pc = "idle" /\ \A e \in Doer : e # Staff => deed'[e] = deed[e]
  BY <1>1, <1>2, IdlyIs DEF Becomes
<1>4. unheard = 0 => \A m \in Server : machine[m] \in Address => lease'[machine[m]] = m
  BY <1>2, <1>3 DEF Leased
<1>5. \A e \in Doer : deed'[e].pc = "create" /\ deed'[e].ip \in Address =>
       \/ lease'[deed'[e].ip] = deed'[e].on
       \/ deed'[e].ip \notin reserved /\ deed'[Staff].pc \in Around
  <2> SUFFICES ASSUME NEW e \in Doer, deed'[e].pc = "create", deed'[e].ip \in Address
               PROVE  \/ lease'[deed'[e].ip] = deed'[e].on
                      \/ deed'[e].ip \notin reserved /\ deed'[Staff].pc \in Around
    OBVIOUS
  <2>1. deed[e].pc = "create" /\ deed'[e] = deed[e]
    BY <1>3
  <2> QED BY <1>1, <1>2, <1>3, <2>1 DEF Leased, Around
<1>6. \A e \in Doer : deed'[e].pc = "book" =>
         deed'[e] = deed[e] /\ deed'[e].ip \in Address /\ deed'[e].ip \in reserved /\ lease'[deed'[e].ip] = "none"
  BY <1>2, <1>3 DEF Leased
<1> QED BY <1>1, <1>3, <1>4, <1>5, <1>6 DEF Leased

LEMMA LeasedInit ==
  ASSUME CapacityInit
  PROVE  Leased
<1>1. /\ machine = [n \in Server |-> "none"] /\ "none" \notin Address
      /\ deed = [d \in Doer |-> Idly] /\ Staff \in Doer
  BY CapacityBounds DEF CapacityInit, Doer
<1>2. \A d \in Doer : deed[d].pc = "idle"
  BY <1>1, IdlyIs
<1> QED BY <1>1, <1>2 DEF Leased

LEMMA LeasedNext ==
  ASSUME CapInv, Leased, [CapacityNext]_capVars, ~Rushed
  PROVE  Leased'
<1>1. CASE UNCHANGED capVars
  BY <1>1 DEF capVars, capState, Leased
<1>2. ASSUME NEW c \in Client, Pick(c) \/ PlaceSite(c)
      PROVE  Leased'
  BY <1>2, OthersLeave
<1>3. ASSUME NEW d \in Doer, Creates(d)
      PROVE  Leased'
  BY <1>3, OthersLeave, ClaimLeases, ReserveLeases, BookLeases, StartLeases, UndoLeases DEF Creates
<1>4. ASSUME NEW n \in Server, RemoveSite(n) \/ ComesOnline(n) \/ HoursPass(n)
      PROVE  Leased'
  BY <1>4, OthersLeave
<1>5. CASE KeepStart \/ Retire \/ KeepReserve
  BY <1>5, OthersLeave, RetireLeases
<1>6. CASE ByHand \/ ReleaseAddress \/ DeleteLease
  BY <1>6, OthersLeave, ReleaseLeases, DeleteLeases
<1> QED BY <1>1, <1>2, <1>3, <1>4, <1>5, <1>6 DEF CapacityNext, CapacityStep

LEMMA CapacityIsRight ==
  ASSUME CapInv, Leased
  PROVE  CapacityRight
<1>1. MachinesKnown /\ ServersBounded /\ SitesHaveMachines
  BY CapInvMeans
<1>2. AddressOnce
  BY DEF Leased, AddressOnce
<1> QED BY <1>1, <1>2 DEF CapacityRight

-----------------------------------------------------------------------------
(* The reserve.                                                            *)

\* What the run has counted is there, but for the places that went meanwhile and the
\* servers whose rows stayed.
Counted ==
  /\ gone \in Nat /\ stuck \in Nat
  /\ deed[Keeper].pc # "retire" => gone = 0 /\ stuck = 0
  /\ deed[Keeper].pc = "retire" => deed[Keeper].free <= FreePlaces + gone + PerServer * stuck

\* Servers go when they are retired, and in no other step.
LEMMA OnlyRetires ==
  ASSUME CapInv, CapacityStep \/ UNCHANGED capState, NEW n \in Retired
  PROVE  Retire
<1>1. n \in Server /\ node[n] = "online" /\ node'[n] # "online"
  BY DEF Retired
<1>2. Retire
  <2>0. node \in [Server -> {"none", "starting", "online", "offline"}]
    BY Known
  <2>1. CASE UNCHANGED capState
    BY <1>1, <2>1 DEF capState
  <2>2. ASSUME NEW c \in Client, Pick(c) \/ PlaceSite(c)
        PROVE  FALSE
    BY <1>1, <2>2 DEF Pick, PlaceSite, capRows
  <2>3. ASSUME NEW d \in Doer, Creates(d)
        PROVE  FALSE
    <3>1. CASE InsertNode(d)
      <4>1. NewNode # n /\ NewNode \in Server
        BY <1>1, <3>1 DEF InsertNode, NewNode
      <4> QED BY <1>1, <2>0, <3>1, <4>1 DEF InsertNode
    <3>2. CASE UndoNode(d)
      <4>1. deed[d].on # n
        BY <1>1, <3>2, Known DEF UndoNode, Does, DeedsKnown, Making
      <4> QED BY <1>1, <2>0, <3>2, <4>1 DEF UndoNode
    <3>3. CASE MachineStarts(d)
      BY <1>1, <3>3, StartIs
    <3> QED BY <1>1, <2>3, <3>1, <3>2, <3>3 DEF Creates, Autoscale, ClaimAddress, ReserveAddress, BookAddress, RecordNode, capRows
  <2>4. ASSUME NEW m \in Server, RemoveSite(m) \/ ComesOnline(m) \/ HoursPass(m)
        PROVE  FALSE
    BY <1>1, <2>0, <2>4 DEF RemoveSite, ComesOnline, HoursPass
  <2>5. CASE KeepStart \/ KeepReserve
    BY <1>1, <2>5 DEF KeepStart, KeepReserve, capRows
  <2>6. CASE ByHand \/ ReleaseAddress \/ DeleteLease
    BY <1>1, <2>6 DEF ByHand, ReleaseAddress, DeleteLease, capRows
  <2> QED BY <2>1, <2>2, <2>3, <2>4, <2>5, <2>6 DEF CapacityStep
<1> QED BY <1>2

\* A server that goes takes its places, and no more.
LEMMA RetireTakes ==
  ASSUME CapInv, Retire
  PROVE  /\ Sparable
         /\ \E x \in DeedState, m \in Server :
              /\ DeedBecomes(Keeper, x) /\ x.pc = "retire" /\ deed[Keeper].pc = "retire"
              /\ Retired \subseteq {m} /\ node[m] \in {"online", "offline"}
              /\ \/ /\ x.free = deed[Keeper].free /\ node'[m] = "offline"
                    /\ Retired = (IF node[m] = "online" THEN {m} ELSE {})
                 \/ x.free = deed[Keeper].free - PerServer /\ node'[m] = "none"
              /\ IF Retired = {} THEN FreePlaces' = FreePlaces
                 ELSE FreePlaces' \in Nat /\ FreePlaces' >= FreePlaces - PerServer
<1> DEFINE K == deed[Keeper]
<1>1. PICK m \in K.todo :
         /\ deed[Keeper].pc = "retire" /\ Sparable
         /\ node' = [node EXCEPT ![m] = IF sites[m] > 0 \/ m \in ghosts THEN "offline" ELSE "none"]
         /\ auto' = (IF sites[m] > 0 \/ m \in ghosts THEN auto ELSE auto \ {m})
         /\ Becomes(Keeper, [K EXCEPT !.todo = @ \ {m}, !.free = @ - IF sites[m] > 0 \/ m \in ghosts THEN 0 ELSE PerServer])
         /\ sites' = sites
  BY DEF Retire, Does
<1>2. /\ node \in [Server -> {"none", "starting", "online", "offline"}]
      /\ K \in DeedState /\ CapTypes /\ m \in Server /\ node[m] \in {"online", "offline"}
  BY <1>1, Known DEF DeedsKnown
<1> DEFINE f == IF sites[m] > 0 \/ m \in ghosts THEN 0 ELSE PerServer
           x == [K EXCEPT !.todo = @ \ {m}, !.free = @ - f]
<1>3. f \in Int /\ PerServer \in Nat /\ DeedBecomes(Keeper, x)
  <2>1. PerServer \in Nat
    BY CapacityBounds
  <2>2. f \in Int
    BY <2>1
  <2> QED BY <1>1, <1>2, <2>1, <2>2 DEF Becomes, DeedBecomes
<1>4. \/ f = 0 /\ node'[m] = "offline"
      \/ f = PerServer /\ node'[m] = "none"
  BY <1>1, <1>2
<1>5. \A k \in Server : k # m => node'[k] = node[k] /\ (k \in auto' <=> k \in auto)
  BY <1>1, <1>2
<1> HIDE DEF K, f
<1>6. K.todo \ {m} \in SUBSET Server /\ K.free - f \in Int
  BY <1>2, <1>3 DEF DeedState
<1>7. x \in DeedState /\ x.pc = K.pc /\ x.free = K.free - f
  BY <1>2, <1>6 DEF DeedState
<1> HIDE DEF x
<1>8. Retired = IF node[m] = "online" THEN {m} ELSE {}
  BY <1>2, <1>4, <1>5 DEF Retired
<1>9. Usable' = Usable \ {m}
  BY <1>2, <1>4, <1>5 DEF Usable, Rows
<1>10. /\ \A k \in Server : Room[k] \in Nat /\ Room[k] <= PerServer
       /\ IsFiniteSet(Usable) /\ Usable \subseteq Server
       /\ FreePlaces \in Nat /\ FreePlaces = SumFunctionOnSet(Room, Usable)
  BY <1>2, RoomIsNat
<1>11. FreePlaces' = SumFunctionOnSet(Room, Usable \ {m})
  <2>1. FreePlaces' = SumFunctionOnSet([k \in Server |-> PerServer - Min({sites'[k], PerServer})], Usable')
    BY DEF FreePlaces
  <2> QED BY <1>1, <1>9, <2>1 DEF Room
<1>12. CASE node[m] = "online"
  <2>1. m \in Usable
    BY <1>2, <1>12 DEF Usable, Rows
  <2>2. FreePlaces = Room[m] + SumFunctionOnSet(Room, Usable \ {m})
    <3>1. \A k \in Usable : Room[k] \in Nat
      BY <1>10
    <3> QED BY <1>10, <2>1, <3>1, SumAdds
  <2>3. SumFunctionOnSet(Room, Usable \ {m}) \in Nat
    <3>1. IsFiniteSet(Usable \ {m})
      BY <1>10, FS_Subset
    <3>2. \A k \in Usable \ {m} : Room[k] \in Nat
      BY <1>10
    <3> QED BY <3>1, <3>2, SumIsNat
  <2>4. Room[m] \in Nat /\ Room[m] <= PerServer
    BY <1>2, <1>10
  <2> HIDE DEF Room
  <2>5. FreePlaces' \in Nat /\ FreePlaces' >= FreePlaces - PerServer
    BY <1>3, <1>10, <1>11, <2>2, <2>3, <2>4
  <2>6. Retired = {m} /\ Retired # {}
    BY <1>8, <1>12
  <2>7. K.free - 0 = K.free
    BY <1>2 DEF DeedState
  <2>8. \/ x.free = K.free /\ node'[m] = "offline"
        \/ x.free = K.free - PerServer /\ node'[m] = "none"
    BY <1>4, <1>7, <2>7
  <2> QED BY <1>1, <1>2, <1>3, <1>7, <1>8, <2>5, <2>6, <2>8 DEF K
<1>13. CASE node[m] = "offline"
  <2>1. Retired = {}
    BY <1>8, <1>13
  <2>2. Usable \ {m} = Usable
    BY <1>13 DEF Usable
  <2>3. FreePlaces' = FreePlaces
    BY <1>10, <1>11, <2>2
  <2>4. K.free - 0 = K.free
    BY <1>2 DEF DeedState
  <2>5. \/ x.free = K.free /\ node'[m] = "offline"
        \/ x.free = K.free - PerServer /\ node'[m] = "none"
    BY <1>4, <1>7, <2>4
  <2>6. Retired = (IF node[m] = "online" THEN {m} ELSE {}) /\ Retired \subseteq {m}
    BY <1>8
  <2> QED BY <1>1, <1>2, <1>3, <1>7, <2>1, <2>3, <2>5, <2>6 DEF K
<1> QED BY <1>2, <1>12, <1>13

LEMMA Elsewhere ==
  ASSUME NEW s \in DeedState, NEW pc, pc # "retire", NEW a, NEW b
  PROVE  /\ [s EXCEPT !.pc = pc].pc # "retire"
         /\ [s EXCEPT !.pc = pc, !.on = a].pc # "retire"
         /\ [s EXCEPT !.pc = pc, !.ip = b].pc # "retire"
BY DEF DeedState

\* In every other step what the run has counted stays, and is read anew when it starts.
LEMMA CountStays ==
  ASSUME CapInv, CapacityStep \/ UNCHANGED capState, ~Retire
  PROVE  \/ deed'[Keeper].pc # "retire"
         \/ deed'[Keeper] = deed[Keeper]
         \/ deed[Keeper].pc # "retire" /\ deed'[Keeper].free = FreePlaces /\ FreePlaces' = FreePlaces
<1> USE DEF Becomes, Moves
<1>0. /\ deed \in [Doer -> DeedState] /\ Keeper \in Doer /\ Staff \in Doer /\ Keeper # Staff
      /\ \A c \in Client : c # Keeper /\ c \in Doer
  BY Known
<1>1. CASE UNCHANGED capState
  BY <1>1 DEF capState
<1>2. ASSUME NEW c \in Client, Pick(c) \/ PlaceSite(c) PROVE deed'[Keeper] = deed[Keeper]
  BY <1>0, <1>2 DEF Pick, PlaceSite
<1>3. ASSUME NEW d \in Doer, Creates(d) PROVE deed'[Keeper].pc # "retire" \/ deed'[Keeper] = deed[Keeper]
  <2>1. CASE d # Keeper
    BY <1>0, <1>3, <2>1 DEF Creates, Autoscale, InsertNode, ClaimAddress, ReserveAddress, BookAddress, MachineStarts,
                            RecordNode, UndoNode, Leave
  <2>2. CASE d = Keeper
    <3>0. deed[Keeper] \in DeedState /\ Keeper \notin Client
      BY <1>0
    <3>1. \A n : Leave(Keeper, n) => deed'[Keeper].pc # "retire"
      BY <1>0, <3>0, IdlyIs DEF Leave, Gets
    <3>2. \A pc : pc # "retire" /\ Moves(Keeper, pc) => deed'[Keeper].pc # "retire"
      BY <1>0, <3>0, Elsewhere
    <3>3. CASE Autoscale(Keeper)
      BY <3>1, <3>2, <3>3 DEF Autoscale
    <3>4. CASE InsertNode(Keeper)
      BY <1>0, <3>0, <3>4, Elsewhere DEF InsertNode
    <3>5. CASE ClaimAddress(Keeper)
      BY <1>0, <3>0, <3>5, Elsewhere DEF ClaimAddress
    <3>6. CASE ReserveAddress(Keeper)
      <4>1. CASE Moves(Keeper, "create")
        BY <3>2, <4>1
      <4>2. ASSUME NEW a \in Address, NEW pc \in {"undo", "book"},
                   Becomes(Keeper, [deed[Keeper] EXCEPT !.pc = pc, !.ip = a])
            PROVE  deed'[Keeper].pc # "retire"
        BY <1>0, <3>0, <4>2, Elsewhere
      <4> QED BY <3>6, <4>1, <4>2 DEF ReserveAddress
    <3>7. CASE BookAddress(Keeper)
      BY <3>2, <3>7 DEF BookAddress
    <3>8. CASE MachineStarts(Keeper)
      BY <3>2, <3>8 DEF MachineStarts
    <3>9. CASE RecordNode(Keeper) \/ UndoNode(Keeper)
      BY <3>1, <3>9 DEF RecordNode, UndoNode
    <3> QED BY <1>3, <2>2, <3>3, <3>4, <3>5, <3>6, <3>7, <3>8, <3>9 DEF Creates
  <2> QED BY <2>1, <2>2
<1>4. ASSUME NEW n \in Server, RemoveSite(n) \/ ComesOnline(n) \/ HoursPass(n) PROVE deed' = deed
  BY <1>4 DEF RemoveSite, ComesOnline, HoursPass
<1>5. CASE KeepStart
  <2>1. UNCHANGED <<node, auto, sites>> /\ deed[Keeper].pc = "idle"
    BY <1>5 DEF KeepStart, Does
  <2>2. FreePlaces' = FreePlaces
    BY <2>1 DEF FreePlaces, Usable, Rows
  <2>3. deed'[Keeper].free = FreePlaces
    BY <1>0, <1>5 DEF KeepStart, Idly
  <2> QED BY <2>1, <2>2, <2>3
<1>6. CASE KeepReserve
  BY <1>0, <1>6 DEF KeepReserve, Idly
<1>7. CASE ByHand \/ ReleaseAddress \/ DeleteLease
  BY <1>0, <1>7 DEF ByHand, ReleaseAddress, DeleteLease
<1> QED BY <1>1, <1>2, <1>3, <1>4, <1>5, <1>6, <1>7 DEF CapacityStep

LEMMA CountedNext ==
  ASSUME CapInv, CapInv', Counted, [CapacityNext]_capVars
  PROVE  Counted' /\ (Retired # {} => FreePlaces' + gone + PerServer * stuck >= MinFree)
<1>0. /\ gone \in Nat /\ stuck \in Nat /\ FreePlaces \in Nat /\ FreePlaces' \in Nat
      /\ PerServer \in Nat /\ MinFree \in Nat /\ deed[Keeper].free \in Int
  <2>1. CapTypes /\ CapTypes' /\ deed[Keeper] \in DeedState
    BY Known DEF CapInv
  <2>2. FreePlaces' \in Nat
    BY <2>1, RoomThen
  <2> QED BY <2>1, <2>2, RoomIsNat, CapacityBounds DEF Counted, DeedState
<1>1. CASE UNCHANGED capVars
  <2>1. UNCHANGED <<deed, node, auto, sites, gone, stuck>>
    BY <1>1 DEF capVars, capState
  <2>2. Retired = {} /\ FreePlaces' = FreePlaces
    BY <2>1 DEF Retired, FreePlaces, Usable, Rows
  <2> QED BY <2>1, <2>2 DEF Counted
<1>2. CASE CapacityNext /\ Retire
  <2>1. PICK x \in DeedState, m \in Server :
          /\ DeedBecomes(Keeper, x) /\ x.pc = "retire" /\ deed[Keeper].pc = "retire"
          /\ Retired \subseteq {m} /\ node[m] \in {"online", "offline"}
          /\ \/ /\ x.free = deed[Keeper].free /\ node'[m] = "offline"
                /\ Retired = (IF node[m] = "online" THEN {m} ELSE {})
             \/ x.free = deed[Keeper].free - PerServer /\ node'[m] = "none"
          /\ IF Retired = {} THEN FreePlaces' = FreePlaces
             ELSE FreePlaces' \in Nat /\ FreePlaces' >= FreePlaces - PerServer
    BY <1>2, RetireTakes
  <2>2. deed'[Keeper] = x /\ deed'[Keeper].pc = "retire"
    BY <2>1, Known DEF DeedBecomes
  <2>3. deed[Keeper].free - PerServer >= MinFree
    BY <1>2, RetireTakes DEF Sparable
  <2>4. deed[Keeper].free <= FreePlaces + gone + PerServer * stuck /\ PerServer * stuck \in Nat
    BY <1>0, <2>1 DEF Counted
  <2>5. CASE Retired = {}
    <3>1. Max({0, FreePlaces - FreePlaces'}) = 0
      BY <1>0, <2>1, <2>5, GreaterOf
    <3>2. gone' = gone + 0
      BY <1>2, <2>2, <2>5, <3>1 DEF CapacityNext, Misses
    <3>3. stuck' = stuck + 0
      <4>1. Cardinality({n \in Retired : node'[n] = "offline"}) = 0
        BY <2>5, FS_EmptySet
      <4> QED BY <1>2, <2>2, <4>1 DEF CapacityNext, Misses
    <3>4. x.free <= FreePlaces + gone + PerServer * stuck
      BY <1>0, <2>1, <2>4
    <3> QED BY <1>0, <2>1, <2>2, <2>5, <3>2, <3>3, <3>4 DEF Counted
  <2>6. CASE Retired # {}
    <3>1. gone' = gone + 0 /\ Retired = {m}
      BY <1>2, <2>1, <2>2, <2>6 DEF CapacityNext, Misses
    <3>0. FreePlaces' >= FreePlaces - PerServer
      BY <2>1, <2>6
    <3>2. FreePlaces' + gone + PerServer * stuck >= MinFree
      BY <1>0, <2>3, <2>4, <3>0
    <3>3. CASE node'[m] = "offline" /\ x.free = deed[Keeper].free
      <4>1. Cardinality({n \in Retired : node'[n] = "offline"}) = 1
        <5>1. {n \in Retired : node'[n] = "offline"} = {m}
          BY <3>1, <3>3
        <5> QED BY <5>1, FS_Singleton
      <4>2. stuck' = stuck + 1
        BY <1>2, <2>2, <4>1 DEF CapacityNext, Misses
      <4>3. PerServer * (stuck + 1) = PerServer * stuck + PerServer
        BY <1>0
      <4>4. x.free <= FreePlaces' + gone' + PerServer * stuck'
        BY <1>0, <2>4, <3>0, <3>1, <3>3, <4>2, <4>3
      <4>5. gone' \in Nat /\ stuck' \in Nat
        BY <1>0, <3>1, <4>2
      <4> QED BY <2>2, <3>2, <4>4, <4>5 DEF Counted
    <3>4. CASE node'[m] = "none" /\ x.free = deed[Keeper].free - PerServer
      <4>1. Cardinality({n \in Retired : node'[n] = "offline"}) = 0
        <5>1. {n \in Retired : node'[n] = "offline"} = {}
          BY <3>1, <3>4
        <5> QED BY <5>1, FS_EmptySet
      <4>2. stuck' = stuck + 0
        BY <1>2, <2>2, <4>1 DEF CapacityNext, Misses
      <4>3. x.free <= FreePlaces' + gone' + PerServer * stuck'
        <5>1. stuck' = stuck /\ gone' = gone
          BY <1>0, <3>1, <4>2
        <5> QED BY <1>0, <2>4, <3>0, <3>4, <5>1
      <4>4. gone' \in Nat /\ stuck' \in Nat
        BY <1>0, <3>1, <4>2
      <4> QED BY <2>2, <3>2, <4>3, <4>4 DEF Counted
    <3> QED BY <2>1, <3>3, <3>4
  <2> QED BY <2>5, <2>6
<1>3. CASE CapacityNext /\ ~Retire
  <2>1. Retired = {}
    BY <1>3, OnlyRetires DEF CapacityNext
  <2>2. Cardinality({n \in Retired : node'[n] = "offline"}) = 0
    BY <2>1, FS_EmptySet
  <2>3. PICK less \in Nat : less = Max({0, FreePlaces - FreePlaces'}) /\ less >= FreePlaces - FreePlaces'
                            /\ (FreePlaces' = FreePlaces => less = 0)
    <3>0. \A f, g \in Nat : f - g \in Int /\ (g = f => f - g <= 0)
      OBVIOUS
    <3>1. FreePlaces - FreePlaces' \in Int /\ (FreePlaces' = FreePlaces => FreePlaces - FreePlaces' <= 0)
      <4>1. FreePlaces \in Nat /\ FreePlaces' \in Nat
        BY <1>0
      <4> QED BY ONLY <3>0, <4>1
    <3> QED BY <3>1, GreaterOf
  <2>4. CASE deed'[Keeper].pc # "retire"
    BY <1>0, <1>3, <2>1, <2>4 DEF CapacityNext, Misses, Counted
  <2>5. CASE deed'[Keeper].pc = "retire"
    <3>1. gone' = gone + less /\ stuck' = stuck + 0
      BY <1>3, <2>1, <2>2, <2>3, <2>5 DEF CapacityNext, Misses
    <3>2. \/ deed'[Keeper] = deed[Keeper]
          \/ deed[Keeper].pc # "retire" /\ deed'[Keeper].free = FreePlaces /\ FreePlaces' = FreePlaces
      BY <1>3, <2>5, CountStays DEF CapacityNext
    <3>3. deed'[Keeper].free <= FreePlaces' + gone' + PerServer * stuck'
      <4>1. CASE deed'[Keeper] = deed[Keeper]
        <5>1. deed[Keeper].free <= FreePlaces + gone + PerServer * stuck /\ PerServer * stuck \in Nat
          BY <1>0, <2>5, <4>1 DEF Counted
        <5> QED BY <1>0, <2>3, <3>1, <4>1, <5>1
      <4>2. CASE deed[Keeper].pc # "retire" /\ deed'[Keeper].free = FreePlaces /\ FreePlaces' = FreePlaces
        <5>1. gone = 0 /\ stuck = 0 /\ PerServer * 0 = 0
          BY <1>0, <4>2 DEF Counted
        <5> QED BY <1>0, <2>3, <3>1, <4>2, <5>1
      <4> QED BY <3>2, <4>1, <4>2
    <3> QED BY <1>0, <2>1, <2>3, <2>5, <3>1, <3>3 DEF Counted
  <2> QED BY <2>4, <2>5
<1> QED BY <1>1, <1>2, <1>3

-----------------------------------------------------------------------------
(* Quotes and the cart.                                                   *)

InvoiceRow == [from : {"quote", "cart", "order"}, rows : SUBSET Nat, coded : BOOLEAN, year : Years, number : Nat]

VisitState == [pc : {"away", "add", "place", "empty", "order", "issue", "link", "back"}, rows : SUBSET Nat, coded : BOOLEAN]

ShopTypes ==
  /\ cart \in [Member -> SUBSET Nat]
  /\ used \in Nat /\ added \in Nat
  /\ year \in Years /\ counter \in [Years -> Nat]
  /\ invoices \in Seq(InvoiceRow)
  /\ visit \in [Member -> VisitState]

\* What was issued: from the quote, with the code, the rows of carts among it.
FromQuote == {n \in DOMAIN invoices : invoices[n].from = "quote"}
Coded     == {n \in DOMAIN invoices : invoices[n].coded = TRUE}
Ordered   == UNION {invoices[n].rows : n \in DOMAIN invoices}

\* The counter of a year is the number of its invoices, and their last number.
Numbered ==
  \A y \in Years :
    /\ Cardinality({n \in DOMAIN invoices : invoices[n].year = y}) = counter[y]
    /\ {invoices[n].number : n \in {m \in DOMAIN invoices : invoices[m].year = y}} = 1 .. counter[y]

CodeKnown == used <= MaxUses /\ used = Cardinality(Coded)

\* One request at a time is accepting the quote, which is accepted meanwhile.
Decides(v) == visit[v].pc \in {"issue", "link", "back"}
QuoteKnown ==
  /\ \A v, w \in Member : Decides(v) /\ Decides(w) => v = w
  /\ \A v \in Member : Decides(v) => quote = "accepted" /\ (visit[v].pc = "link" <=> FromQuote # {})
  /\ quote # "accepted" => FromQuote = {}
  /\ \A m, n \in FromQuote : m = n
  /\ link # 0 => link \in FromQuote

\* What a member has in the cart or is ordering is nobody else's, and on no invoice
\* until it is placed; then the whole cart is.
Holds(v) == cart[v] \cup visit[v].rows
CartsKnown ==
  /\ \A v \in Member : Holds(v) \subseteq 1 .. added
  /\ \A v, w \in Member : v # w => Holds(v) \cap Holds(w) = {}
  /\ \A v \in Member : visit[v].pc # "empty" => Holds(v) \cap Ordered = {}
  /\ \A v \in Member : visit[v].pc = "empty" => cart[v] \subseteq Ordered
  /\ \A v \in Member : visit[v].pc = "place" => cart[v] \subseteq visit[v].rows
  /\ \A v \in Member : visit[v].pc \notin {"place", "empty"} => visit[v].rows = {}

AllSomewhere ==
  /\ dropped \subseteq 1 .. added /\ Ordered \subseteq 1 .. added
  /\ \A i \in 1 .. added : i \in dropped \/ i \in Ordered \/ \E v \in Member : i \in cart[v]

Apart == \A m, n \in DOMAIN invoices : m # n => invoices[m].rows \cap invoices[n].rows = {}

ShopInv == ShopTypes /\ Numbered /\ CodeKnown /\ QuoteKnown /\ CartsKnown /\ AllSomewhere /\ Apart

-----------------------------------------------------------------------------
(* Issuing an invoice.                                                     *)

LEMMA Appended ==
  ASSUME NEW bill \in InvoiceRow, invoices \in Seq(InvoiceRow), invoices' = Append(invoices, bill)
  PROVE  /\ invoices' \in Seq(InvoiceRow)
         /\ IsFiniteSet(DOMAIN invoices)
         /\ \E k \in Nat \ DOMAIN invoices :
              /\ DOMAIN invoices' = DOMAIN invoices \cup {k} /\ invoices'[k] = bill
              /\ \A n \in DOMAIN invoices : invoices'[n] = invoices[n] /\ invoices[n] \in InvoiceRow
<1>1. Len(invoices) \in Nat /\ DOMAIN invoices = 1 .. Len(invoices) /\ \A n \in DOMAIN invoices : invoices[n] \in InvoiceRow
  OBVIOUS
<1>2. invoices' \in Seq(InvoiceRow)
  OBVIOUS
<1>3. IsFiniteSet(DOMAIN invoices)
  BY <1>1, FS_Interval
<1>4. \A n \in DOMAIN invoices : invoices'[n] = invoices[n]
  BY <1>1
<1>5. invoices'[Len(invoices) + 1] = bill
  BY <1>1
<1>6. DOMAIN invoices' = 1 .. Len(invoices) + 1
  OBVIOUS
<1>7. DOMAIN invoices' = DOMAIN invoices \cup {Len(invoices) + 1} /\ Len(invoices) + 1 \in Nat \ DOMAIN invoices
  BY <1>1, <1>6
<1> QED BY <1>1, <1>2, <1>3, <1>4, <1>5, <1>7

LEMMA Issued ==
  ASSUME ShopTypes, Numbered, NEW from \in {"quote", "cart", "order"}, NEW rows \in SUBSET Nat, NEW coded \in BOOLEAN,
         Issue(from, rows, coded)
  PROVE  /\ invoices' \in Seq(InvoiceRow) /\ counter' \in [Years -> Nat]
         /\ \A y \in Years : /\ Cardinality({n \in DOMAIN invoices' : invoices'[n].year = y}) = counter'[y]
                             /\ {invoices'[n].number : n \in {m \in DOMAIN invoices' : invoices'[m].year = y}} = 1 .. counter'[y]
         /\ Ordered' = Ordered \cup rows
         /\ from # "quote" => FromQuote' = FromQuote
         /\ from = "quote" => \E k : FromQuote' = FromQuote \cup {k}
         /\ IsFiniteSet(Coded)
         /\ coded = FALSE => Coded' = Coded
         /\ coded = TRUE => \E k : k \notin Coded /\ Coded' = Coded \cup {k}
         /\ Apart /\ rows \cap Ordered = {} => Apart'
<1> DEFINE bill == [from |-> from, rows |-> rows, coded |-> coded, year |-> year, number |-> counter[year] + 1]
<1>1. /\ counter' = [counter EXCEPT ![year] = @ + 1] /\ year \in Years /\ counter \in [Years -> Nat]
      /\ counter'[year] = counter[year] + 1
      /\ invoices' = Append(invoices, bill) /\ invoices \in Seq(InvoiceRow)
  BY DEF Issue, NextNumber, ShopTypes
<1>2. /\ bill \in InvoiceRow /\ bill.from = from /\ bill.rows = rows /\ bill.coded = coded
      /\ bill.year = year /\ bill.number = counter[year] + 1
  BY <1>1 DEF InvoiceRow
<1>3. counter' \in [Years -> Nat] /\ \A y \in Years : y # year => counter'[y] = counter[y]
  BY <1>1
<1> HIDE DEF bill
<1>4. PICK k \in Nat \ DOMAIN invoices :
              /\ DOMAIN invoices' = DOMAIN invoices \cup {k} /\ invoices'[k] = bill
              /\ \A n \in DOMAIN invoices : invoices'[n] = invoices[n] /\ invoices[n] \in InvoiceRow
  BY <1>1, <1>2, Appended
<1>5. invoices' \in Seq(InvoiceRow) /\ IsFiniteSet(DOMAIN invoices)
  BY <1>1, <1>2, Appended
<1>6. ASSUME NEW y \in Years
      PROVE  /\ Cardinality({n \in DOMAIN invoices' : invoices'[n].year = y}) = counter'[y]
             /\ {invoices'[n].number : n \in {m \in DOMAIN invoices' : invoices'[m].year = y}} = 1 .. counter'[y]
  <2> DEFINE old == {n \in DOMAIN invoices : invoices[n].year = y}
             new == {n \in DOMAIN invoices' : invoices'[n].year = y}
  <2>1. Cardinality(old) = counter[y] /\ {invoices[n].number : n \in old} = 1 .. counter[y] /\ counter[y] \in Nat
    BY <1>1 DEF Numbered
  <2>2. IsFiniteSet(old) /\ k \notin old /\ \A n \in old : invoices'[n] = invoices[n]
    BY <1>4, <1>5, FS_Subset
  <2>3. CASE y = year
    <3>1. new = old \cup {k}
      BY <1>2, <1>4, <2>3
    <3>2. Cardinality(new) = counter[y] + 1
      <4> HIDE DEF old, new
      <4>1. Cardinality(old \cup {k}) = Cardinality(old) + 1
        BY <2>2, FS_AddElement
      <4> QED BY <2>1, <3>1, <4>1
    <3>3. {invoices'[n].number : n \in new} = {invoices[n].number : n \in old} \cup {counter[y] + 1}
      BY <1>2, <1>4, <2>2, <2>3, <3>1
    <3>4. {invoices'[n].number : n \in new} = 1 .. counter[y] + 1
      <4> HIDE DEF old, new
      <4> QED BY <2>1, <3>3
    <3> QED BY <1>1, <2>3, <3>2, <3>4
  <2>4. CASE y # year
    <3>1. new = old
      BY <1>2, <1>4, <2>4
    <3>2. {invoices'[n].number : n \in new} = {invoices[n].number : n \in old}
      BY <2>2, <3>1
    <3> QED BY <1>3, <2>1, <2>4, <3>1, <3>2
  <2> QED BY <2>3, <2>4
<1>7. Ordered' = Ordered \cup rows
  BY <1>2, <1>4 DEF Ordered
<1>8. /\ from # "quote" => FromQuote' = FromQuote
      /\ from = "quote" => FromQuote' = FromQuote \cup {k}
  BY <1>2, <1>4 DEF FromQuote
<1>9. /\ IsFiniteSet(Coded) /\ k \notin Coded
      /\ coded = FALSE => Coded' = Coded
      /\ coded = TRUE => Coded' = Coded \cup {k}
  <2>1. IsFiniteSet(Coded) /\ k \notin Coded
    BY <1>4, <1>5, FS_Subset DEF Coded
  <2>2. coded = FALSE => Coded' = Coded
    BY <1>2, <1>4 DEF Coded
  <2>3. coded = TRUE => Coded' = Coded \cup {k}
    BY <1>2, <1>4 DEF Coded
  <2> QED BY <2>1, <2>2, <2>3
<1>10. Apart /\ rows \cap Ordered = {} => Apart'
  <2> SUFFICES ASSUME Apart, rows \cap Ordered = {}, NEW m \in DOMAIN invoices', NEW n \in DOMAIN invoices', m # n
               PROVE  invoices'[m].rows \cap invoices'[n].rows = {}
    BY DEF Apart
  <2>1. \A i \in DOMAIN invoices : invoices[i].rows \cap rows = {}
    BY DEF Ordered
  <2>2. CASE m = k
    BY <1>2, <1>4, <2>1, <2>2
  <2>3. CASE n = k
    BY <1>2, <1>4, <2>1, <2>3
  <2>4. CASE m # k /\ n # k
    BY <1>4, <2>4 DEF Apart
  <2> QED BY <2>2, <2>3, <2>4
<1> QED BY <1>3, <1>5, <1>6, <1>7, <1>8, <1>9, <1>10

\* Without an invoice nothing of this changes.
LEMMA NotIssued ==
  ASSUME UNCHANGED <<counter, invoices>>
  PROVE  /\ FromQuote' = FromQuote /\ Coded' = Coded /\ Ordered' = Ordered
         /\ Numbered => Numbered'
         /\ Apart => Apart'
BY DEF FromQuote, Coded, Ordered, Numbered, Apart

-----------------------------------------------------------------------------
(* A step of one member: what the others hold is as it was.                *)

\* Visits that do not decide about the quote, before or after the step.
LEMMA QuoteKept ==
  ASSUME QuoteKnown, UNCHANGED <<quote, link>>, FromQuote' = FromQuote, NEW v \in Member, NEW x \in VisitState,
         visit \in [Member -> VisitState], visit' = [visit EXCEPT ![v] = x],
         ~Decides(v), x.pc \notin {"issue", "link", "back"}
  PROVE  QuoteKnown'
<1>1. visit'[v] = x /\ \A w \in Member : w # v => visit'[w] = visit[w]
  OBVIOUS
<1> QED BY <1>1 DEF QuoteKnown, Decides

LEMMA CartsKept ==
  ASSUME CartsKnown, AllSomewhere, UNCHANGED <<cart, dropped, added>>, Ordered' = Ordered,
         NEW v \in Member, NEW x \in VisitState,
         visit \in [Member -> VisitState], visit' = [visit EXCEPT ![v] = x],
         visit[v].pc # "empty", x.pc # "empty", x.rows \subseteq Holds(v),
         x.pc = "place" => cart[v] \subseteq x.rows,
         x.pc # "place" => x.rows = {}
  PROVE  CartsKnown' /\ AllSomewhere'
<1>1. visit'[v] = x /\ \A w \in Member : w # v => visit'[w] = visit[w]
  OBVIOUS
<1>2. /\ (cart'[v] \cup visit'[v].rows) \subseteq Holds(v)
      /\ \A w \in Member : w # v => (cart'[w] \cup visit'[w].rows) = Holds(w)
  BY <1>1 DEF Holds
<1>3. \A u \in Member : (cart'[u] \cup visit'[u].rows) \subseteq Holds(u)
  BY <1>2
<1>4. CartsKnown'
  <2>1. \A w \in Member : (cart'[w] \cup visit'[w].rows) \subseteq 1 .. added
    BY <1>3 DEF CartsKnown
  <2>2. \A u, w \in Member : u # w => (cart'[u] \cup visit'[u].rows) \cap (cart'[w] \cup visit'[w].rows) = {}
    BY <1>3 DEF CartsKnown
  <2>3. \A w \in Member : visit'[w].pc # "empty" => (cart'[w] \cup visit'[w].rows) \cap Ordered = {}
    BY <1>1, <1>3 DEF CartsKnown
  <2>4. \A w \in Member : visit'[w].pc = "empty" => cart'[w] \subseteq Ordered
    BY <1>1 DEF CartsKnown
  <2>5. \A w \in Member : visit'[w].pc = "place" => cart'[w] \subseteq visit'[w].rows
    BY <1>1 DEF CartsKnown
  <2>6. \A w \in Member : visit'[w].pc \notin {"place", "empty"} => visit'[w].rows = {}
    BY <1>1 DEF CartsKnown
  <2> QED BY <2>1, <2>2, <2>3, <2>4, <2>5, <2>6 DEF CartsKnown, Holds
<1>5. AllSomewhere'
  BY DEF AllSomewhere
<1> QED BY <1>4, <1>5

LEMMA VisitGoesOn ==
  ASSUME NEW s \in VisitState, NEW pc \in {"away", "add", "place", "empty", "order", "issue", "link", "back"}
  PROVE  /\ [s EXCEPT !.pc = pc] \in VisitState /\ [s EXCEPT !.pc = pc].pc = pc
         /\ [s EXCEPT !.pc = pc].rows = s.rows
BY DEF VisitState

LEMMA GoingOn ==
  ASSUME NEW v \in Member, visit \in [Member -> VisitState],
         NEW pc \in {"away", "add", "place", "empty", "order", "issue", "link", "back"}, Goes(v, pc)
  PROVE  \E x \in VisitState : visit' = [visit EXCEPT ![v] = x] /\ x.pc = pc /\ x.rows = visit[v].rows
<1>1. visit' = [visit EXCEPT ![v] = [visit[v] EXCEPT !.pc = pc]] /\ visit[v] \in VisitState
  BY DEF Goes
<1> DEFINE x == [visit[v] EXCEPT !.pc = pc]
<1>2. x \in VisitState /\ x.pc = pc /\ x.rows = visit[v].rows
  BY <1>1, VisitGoesOn
<1>3. visit' = [visit EXCEPT ![v] = x]
  BY <1>1
<1> HIDE DEF x
<1> QED BY <1>2, <1>3

LEMMA ShopInvNext ==
  ASSUME ~Late, ~Shared, ShopInv, [ShopNext]_shopVars
  PROVE  ShopInv'
<1>a. /\ ShopTypes /\ Numbered /\ CodeKnown /\ QuoteKnown /\ CartsKnown /\ AllSomewhere /\ Apart
      /\ visit \in [Member -> VisitState] /\ \A v \in Member : visit[v] \in VisitState
  BY DEF ShopInv, ShopTypes
<1>b. Cart = Member /\ \A v \in Member : CartOf(v) = v
  BY DEF Cart, CartOf
<1>c. Away \in VisitState /\ Away.pc = "away" /\ Away.rows = {}
  BY DEF Away, VisitState
<1>d. ASSUME UNCHANGED <<counter, invoices>>
      PROVE  /\ FromQuote' = FromQuote /\ Coded' = Coded /\ Ordered' = Ordered /\ Numbered' /\ Apart'
             /\ UNCHANGED used => CodeKnown'
  BY <1>d, <1>a, NotIssued DEF CodeKnown
<1>1. CASE CreateQuote \/ Expires \/ CloseQuote \/ NewYear
  <2>1. /\ UNCHANGED <<link, cart, dropped, used, counter, invoices, visit, added>> /\ year' \in Years
        /\ quote' = quote \/ (quote # "accepted" /\ quote' # "accepted")
    BY <1>1, <1>a DEF CreateQuote, Expires, CloseQuote, NewYear, shopRest, ShopTypes, Years
  <2>2. ShopTypes'
    BY <2>1, <1>a DEF ShopTypes
  <2>3. QuoteKnown'
    BY <2>1, <1>a, <1>d DEF QuoteKnown, Decides
  <2>4. CartsKnown' /\ AllSomewhere'
    BY <2>1, <1>a, <1>d DEF CartsKnown, AllSomewhere, Holds
  <2> QED BY <2>1, <2>2, <2>3, <2>4, <1>d DEF ShopInv
<1>2. ASSUME NEW v \in Member, AcceptQuote(v) PROVE ShopInv'
  <2>1. /\ quote # "accepted" /\ quote' = "accepted" /\ visit[v].pc = "away"
        /\ \E pc \in {"issue", "back"} : Goes(v, pc)
        /\ UNCHANGED <<link, cart, dropped, used, counter, invoices, added, year>>
    BY <1>2 DEF AcceptQuote, Open, At, shopRest
  <2>2. PICK x \in VisitState : visit' = [visit EXCEPT ![v] = x] /\ x.pc \in {"issue", "back"} /\ x.rows = visit[v].rows
    BY <2>1, <1>a, GoingOn
  <2>3. visit'[v] = x /\ \A w \in Member : w # v => visit'[w] = visit[w]
    BY <2>2, <1>a
  <2>4. ShopTypes'
    BY <2>1, <2>2, <1>a DEF ShopTypes
  <2>5. QuoteKnown'
    <3>1. FromQuote = {} /\ \A w \in Member : ~Decides(w)
      BY <2>1, <1>a DEF QuoteKnown
    <3>2. FromQuote' = {}
      BY <2>1, <3>1, <1>d
    <3>3. /\ \A w \in Member : w # v => visit'[w].pc \notin {"issue", "link", "back"}
          /\ visit'[v].pc \in {"issue", "back"}
      BY <2>2, <2>3, <3>1 DEF Decides
    <3> QED BY <2>1, <3>1, <3>2, <3>3, <1>a DEF QuoteKnown, Decides
  <2>6. CartsKnown' /\ AllSomewhere'
    <3>1. x.rows = {}
      BY <2>1, <2>2, <1>a DEF CartsKnown
    <3> QED BY <2>1, <2>2, <3>1, <1>a, <1>d, CartsKept
  <2> QED BY <2>1, <2>4, <2>5, <2>6, <1>d DEF ShopInv
<1>3. ASSUME NEW v \in Member, IssueQuote(v) PROVE ShopInv'
  <2>1. /\ visit[v].pc = "issue" /\ UNCHANGED <<quote, link, cart, dropped, added, year, used>>
    BY <1>3 DEF IssueQuote, At, shopRest, RollBack
  <2>2. CASE Issue("quote", {}, FALSE) /\ Goes(v, "link")
    <3>1. PICK x \in VisitState : visit' = [visit EXCEPT ![v] = x] /\ x.pc = "link" /\ x.rows = visit[v].rows
      BY <2>2, <1>a, GoingOn
    <3>2. visit'[v] = x /\ \A w \in Member : w # v => visit'[w] = visit[w]
      BY <3>1, <1>a
    <3>3. /\ invoices' \in Seq(InvoiceRow) /\ counter' \in [Years -> Nat]
          /\ \A y \in Years : /\ Cardinality({n \in DOMAIN invoices' : invoices'[n].year = y}) = counter'[y]
                              /\ {invoices'[n].number : n \in {m \in DOMAIN invoices' : invoices'[m].year = y}} = 1 .. counter'[y]
          /\ Ordered' = Ordered /\ Coded' = Coded /\ Apart'
          /\ \E k : FromQuote' = FromQuote \cup {k}
      <4>1. {} \in SUBSET Nat /\ {} \cap Ordered = {} /\ Ordered \cup {} = Ordered
        OBVIOUS
      <4> QED BY <2>2, <4>1, <1>a, Issued
    <3>4. ShopTypes'
      BY <2>1, <3>1, <3>3, <1>a DEF ShopTypes
    <3>5. Numbered'
      BY <3>3 DEF Numbered
    <3>6. CodeKnown'
      BY <2>1, <3>3, <1>a DEF CodeKnown
    <3>7. QuoteKnown'
      <4>1. quote = "accepted" /\ FromQuote = {} /\ \A w \in Member : w # v => ~Decides(w)
        BY <2>1, <1>a DEF QuoteKnown, Decides
      <4>2. PICK k : FromQuote' = {k}
        BY <3>3, <4>1
      <4>3. link' = 0
        BY <2>1, <4>1, <1>a DEF QuoteKnown
      <4>4. /\ \A w \in Member : w # v => visit'[w].pc \notin {"issue", "link", "back"}
            /\ visit'[v].pc = "link"
        BY <3>1, <3>2, <4>1 DEF Decides
      <4> QED BY <2>1, <4>1, <4>2, <4>3, <4>4 DEF QuoteKnown, Decides
    <3>8. CartsKnown' /\ AllSomewhere'
      <4>1. x.rows = {}
        BY <2>1, <3>1, <1>a DEF CartsKnown
      <4> QED BY <2>1, <3>1, <3>3, <4>1, <1>a, CartsKept
    <3> QED BY <3>3, <3>4, <3>5, <3>6, <3>7, <3>8 DEF ShopInv
  <2>3. CASE RollBack /\ Goes(v, "back")
    <3>1. PICK x \in VisitState : visit' = [visit EXCEPT ![v] = x] /\ x.pc = "back" /\ x.rows = visit[v].rows
      BY <2>3, <1>a, GoingOn
    <3>2. visit'[v] = x /\ \A w \in Member : w # v => visit'[w] = visit[w]
      BY <3>1, <1>a
    <3>3. UNCHANGED <<counter, invoices>>
      BY <2>3 DEF RollBack, CounterUndone
    <3>4. ShopTypes'
      BY <2>1, <3>1, <3>3, <1>a DEF ShopTypes
    <3>5. QuoteKnown'
      <4>1. quote = "accepted" /\ FromQuote = {} /\ \A w \in Member : w # v => ~Decides(w)
        BY <2>1, <1>a DEF QuoteKnown, Decides
      <4>2. /\ \A w \in Member : w # v => visit'[w].pc \notin {"issue", "link", "back"}
            /\ visit'[v].pc = "back" /\ FromQuote' = {}
        BY <3>1, <3>2, <3>3, <4>1, <1>d DEF Decides
      <4> QED BY <2>1, <4>1, <4>2, <1>a DEF QuoteKnown, Decides
    <3>6. CartsKnown' /\ AllSomewhere'
      <4>1. x.rows = {}
        BY <2>1, <3>1, <1>a DEF CartsKnown
      <4> QED BY <2>1, <3>1, <3>3, <4>1, <1>a, <1>d, CartsKept
    <3> QED BY <2>1, <3>3, <3>4, <3>5, <3>6, <1>d DEF ShopInv
  <2> QED BY <1>3, <2>2, <2>3 DEF IssueQuote
<1>4. ASSUME NEW v \in Member, LinkQuote(v) \/ ReopenQuote(v) PROVE ShopInv'
  <2>1. /\ visit[v].pc \in {"link", "back"} /\ visit' = [visit EXCEPT ![v] = Away]
        /\ UNCHANGED <<cart, dropped, used, counter, invoices, added, year>>
    BY <1>4 DEF LinkQuote, ReopenQuote, At, Ends, shopRest
  <2>2. /\ visit'[v] = Away /\ \A w \in Member : w # v => visit'[w] = visit[w]
        /\ \A w \in Member : ~(visit'[w].pc \in {"issue", "link", "back"})
    BY <2>1, <1>a, <1>c DEF QuoteKnown, Decides
  <2>3. ShopTypes'
    BY <2>1, <1>a, <1>c DEF ShopTypes
  <2>4. FromQuote' = FromQuote /\ \A m, n \in FromQuote : m = n
    BY <2>1, <1>a, <1>d DEF QuoteKnown
  <2>5. QuoteKnown'
    <3>1. CASE LinkQuote(v)
      <4>1. quote = "accepted" /\ quote' = quote /\ FromQuote # {} /\ link' = Max(FromQuote)
        BY <3>1, <1>a DEF LinkQuote, QuoteKnown, Decides, At, FromQuote
      <4>2. FromQuote \subseteq Nat
        BY <1>a DEF FromQuote, ShopTypes
      <4>3. link' \in FromQuote
        <5>1. PICK n : n \in FromQuote
          BY <4>1
        <5>2. \A m \in FromQuote : m = n
          BY <2>4, <5>1
        <5>3. n \in Nat /\ \A m \in FromQuote : n >= m
          BY <4>2, <5>1, <5>2
        <5> QED BY <4>1, <5>1, <5>3 DEF Max
      <4> QED BY <2>2, <2>4, <4>1, <4>3 DEF QuoteKnown, Decides
    <3>2. CASE ReopenQuote(v)
      <4>1. quote' = "sent" /\ link' = link /\ FromQuote = {}
        BY <3>2, <1>a DEF ReopenQuote, QuoteKnown, Decides, At
      <4> QED BY <2>2, <2>4, <4>1, <1>a DEF QuoteKnown, Decides
    <3> QED BY <1>4, <3>1, <3>2
  <2>6. CartsKnown' /\ AllSomewhere'
    BY <2>1, <1>a, <1>c, <1>d, CartsKept
  <2> QED BY <2>1, <2>3, <2>5, <2>6, <1>d DEF ShopInv
<1>5. ASSUME NEW v \in Member, AddRead(v) \/ CheckoutRead(v) PROVE ShopInv'
  <2>1. /\ visit[v].pc = "away"
        /\ UNCHANGED <<quote, link, cart, dropped, used, counter, invoices, added, year>>
    BY <1>5 DEF AddRead, CheckoutRead, At, shopRest
  <2>2. visit[v].rows = {} /\ Holds(v) = cart[v] /\ cart[v] \subseteq Nat
    BY <2>1, <1>a DEF CartsKnown, Holds, ShopTypes
  <2>3. PICK x \in VisitState :
               /\ visit' = [visit EXCEPT ![v] = x] /\ x.pc \in {"add", "place", "order"}
               /\ x.rows = IF x.pc = "place" THEN cart[v] ELSE {}
    <3>1. CASE AddRead(v)
      <4>1. Goes(v, "add")
        BY <3>1 DEF AddRead
      <4> QED BY <2>2, <4>1, <1>a, GoingOn
    <3>2. CASE CheckoutRead(v)
      <4>1. PICK coded \in BOOLEAN, pc \in {"place", "order"} :
                   visit' = [visit EXCEPT ![v] = [pc |-> pc, rows |-> IF pc = "place" THEN cart[v] ELSE {}, coded |-> coded]]
        BY <3>2, <1>b DEF CheckoutRead
      <4> DEFINE x == [pc |-> pc, rows |-> IF pc = "place" THEN cart[v] ELSE {}, coded |-> coded]
      <4>2. x \in VisitState /\ x.pc = pc /\ x.rows = IF pc = "place" THEN cart[v] ELSE {}
        BY <2>2 DEF VisitState
      <4> HIDE DEF x
      <4> QED BY <4>1, <4>2 DEF x
    <3> QED BY <1>5, <3>1, <3>2
  <2>4. ShopTypes'
    BY <2>1, <2>3, <1>a DEF ShopTypes
  <2>5. QuoteKnown'
    BY <2>1, <2>3, <1>a, <1>d, QuoteKept DEF Decides
  <2>6. CartsKnown' /\ AllSomewhere'
    BY <2>1, <2>2, <2>3, <1>a, <1>d, CartsKept
  <2> QED BY <2>1, <2>4, <2>5, <2>6, <1>d DEF ShopInv
<1>6. ASSUME NEW v \in Member, AddInsert(v) PROVE ShopInv'
  <2>1. /\ visit[v].pc = "add" /\ visit' = [visit EXCEPT ![v] = Away]
        /\ added' = added + 1 /\ cart' = [cart EXCEPT ![v] = cart[v] \cup {added + 1}]
        /\ UNCHANGED <<quote, link, dropped, used, counter, invoices, year>>
    BY <1>6, <1>b DEF AddInsert, At, Ends
  <2>2. /\ added \in Nat /\ cart[v] \subseteq Nat /\ added + 1 \in Nat /\ added + 1 \notin 1 .. added
        /\ 1 .. added + 1 = (1 .. added) \cup {added + 1}
    BY <1>a DEF ShopTypes
  <2>3. /\ visit'[v] = Away /\ \A w \in Member : w # v => visit'[w] = visit[w]
        /\ cart'[v] = cart[v] \cup {added + 1} /\ \A w \in Member : w # v => cart'[w] = cart[w]
    BY <2>1, <1>a DEF ShopTypes
  <2>4. ShopTypes'
    BY <2>1, <2>2, <1>a, <1>c DEF ShopTypes
  <2>5. QuoteKnown'
    BY <2>1, <1>a, <1>c, <1>d, QuoteKept DEF Decides
  <2>6. CartsKnown'
    <3>1. /\ (cart'[v] \cup visit'[v].rows) \subseteq Holds(v) \cup {added + 1}
          /\ \A w \in Member : w # v => cart'[w] \cup visit'[w].rows = Holds(w)
      BY <2>3, <1>c DEF Holds
    <3>2. Ordered' = Ordered /\ added + 1 \notin Ordered /\ \A w \in Member : added + 1 \notin Holds(w)
      BY <2>1, <2>2, <1>a, <1>d DEF CartsKnown, AllSomewhere
    <3>3. \A w \in Member : (cart'[w] \cup visit'[w].rows) \subseteq 1 .. added + 1
      BY <2>2, <3>1, <1>a DEF CartsKnown
    <3>4. \A u, w \in Member : u # w => (cart'[u] \cup visit'[u].rows) \cap (cart'[w] \cup visit'[w].rows) = {}
      <4>1. \A w \in Member : w # v => (Holds(v) \cup {added + 1}) \cap Holds(w) = {}
        BY <3>2, <1>a DEF CartsKnown
      <4>2. \A u, w \in Member : u # w /\ u # v /\ w # v => Holds(u) \cap Holds(w) = {}
        BY <1>a DEF CartsKnown
      <4>3. ASSUME NEW u \in Member, NEW w \in Member, u # w
            PROVE  (cart'[u] \cup visit'[u].rows) \cap (cart'[w] \cup visit'[w].rows) = {}
        <5>1. CASE u = v
          BY <3>1, <4>1, <4>3, <5>1
        <5>2. CASE w = v
          BY <3>1, <4>1, <4>3, <5>2
        <5>3. CASE u # v /\ w # v
          BY <3>1, <4>2, <4>3, <5>3
        <5> QED BY <5>1, <5>2, <5>3
      <4> QED BY <4>3
    <3>5. \A w \in Member : visit'[w].pc # "empty" => (cart'[w] \cup visit'[w].rows) \cap Ordered' = {}
      <4>1. Holds(v) \cap Ordered = {}
        BY <2>1, <1>a DEF CartsKnown
      <4>2. \A w \in Member : w # v /\ visit'[w].pc # "empty" => Holds(w) \cap Ordered = {}
        BY <2>3, <1>a DEF CartsKnown
      <4>3. (cart'[v] \cup visit'[v].rows) \cap Ordered' = {}
        BY <3>1, <3>2, <4>1
      <4> QED BY <3>1, <3>2, <4>2, <4>3
    <3>6. \A w \in Member : visit'[w].pc = "empty" => cart'[w] \subseteq Ordered'
      BY <2>3, <3>2, <1>a, <1>c DEF CartsKnown
    <3>7. \A w \in Member : visit'[w].pc = "place" => cart'[w] \subseteq visit'[w].rows
      BY <2>3, <1>a, <1>c DEF CartsKnown
    <3>8. \A w \in Member : visit'[w].pc \notin {"place", "empty"} => visit'[w].rows = {}
      BY <2>3, <1>a, <1>c DEF CartsKnown
    <3> QED BY <2>1, <3>3, <3>4, <3>5, <3>6, <3>7, <3>8 DEF CartsKnown, Holds
  <2>7. AllSomewhere'
    <3>1. dropped' = dropped /\ Ordered' = Ordered /\ \A w \in Member : cart[w] \subseteq cart'[w]
      BY <2>1, <2>3, <1>d
    <3> QED BY <2>1, <2>2, <2>3, <3>1, <1>a DEF AllSomewhere
  <2> QED BY <2>1, <2>4, <2>5, <2>6, <2>7, <1>d DEF ShopInv
<1>7. ASSUME NEW v \in Member, PlaceLines(v) PROVE ShopInv'
  <2> DEFINE r == visit[v]
  <2>1. /\ r.pc \in {"place", "order"} /\ UNCHANGED <<quote, link, cart, dropped, added, year>>
    BY <1>7 DEF PlaceLines, shopRest
  <2>2. ASSUME UNCHANGED <<used, counter, invoices>>, Ends(v) PROVE ShopInv'
    <3>1. visit' = [visit EXCEPT ![v] = Away]
      BY <2>2 DEF Ends
    <3>2. ShopTypes'
      BY <2>1, <2>2, <3>1, <1>a, <1>c DEF ShopTypes
    <3>3. QuoteKnown'
      BY <2>1, <2>2, <3>1, <1>a, <1>c, <1>d, QuoteKept DEF Decides
    <3>4. CartsKnown' /\ AllSomewhere'
      BY <2>1, <2>2, <3>1, <1>a, <1>c, <1>d, CartsKept
    <3> QED BY <2>2, <3>2, <3>3, <3>4, <1>d DEF ShopInv
  <2>3. ASSUME NEW from \in {"cart", "order"}, Claimable(r.coded), used' = IF r.coded THEN used + 1 ELSE used,
               Issue(from, r.rows, r.coded), IF r.pc = "place" THEN Goes(v, "empty") ELSE Ends(v)
        PROVE  ShopInv'
    <3>1. PICK x \in VisitState :
                 /\ visit' = [visit EXCEPT ![v] = x] /\ x.pc \in {"empty", "away"}
                 /\ IF r.pc = "place" THEN x.pc = "empty" /\ x.rows = r.rows ELSE x = Away
      <4>1. CASE r.pc = "place"
        <5>1. PICK x \in VisitState : visit' = [visit EXCEPT ![v] = x] /\ x.pc = "empty" /\ x.rows = visit[v].rows
          BY <2>3, <4>1, <1>a, GoingOn
        <5> QED BY <4>1, <5>1
      <4>2. CASE r.pc # "place"
        BY <2>3, <4>2, <1>c DEF Ends
      <4> QED BY <4>1, <4>2
    <3>2. visit'[v] = x /\ \A w \in Member : w # v => visit'[w] = visit[w]
      BY <3>1, <1>a
    <3>3. r.rows \in SUBSET Nat /\ r.coded \in BOOLEAN /\ Holds(v) \cap Ordered = {} /\ r.rows \cap Ordered = {}
      BY <2>1, <1>a DEF VisitState, CartsKnown, Holds
    <3>4. /\ invoices' \in Seq(InvoiceRow) /\ counter' \in [Years -> Nat]
          /\ \A y \in Years : /\ Cardinality({n \in DOMAIN invoices' : invoices'[n].year = y}) = counter'[y]
                              /\ {invoices'[n].number : n \in {m \in DOMAIN invoices' : invoices'[m].year = y}} = 1 .. counter'[y]
          /\ Ordered' = Ordered \cup r.rows /\ FromQuote' = FromQuote /\ Apart'
          /\ IsFiniteSet(Coded)
          /\ r.coded = FALSE => Coded' = Coded
          /\ r.coded = TRUE => \E k : k \notin Coded /\ Coded' = Coded \cup {k}
      <4>1. from \in {"quote", "cart", "order"} /\ from # "quote" /\ Issue(from, r.rows, r.coded)
        BY <2>3
      <4>2. ShopTypes /\ Numbered /\ Apart
        BY <1>a
      <4> DEFINE rows == r.rows
                 coded == r.coded
      <4>3. rows \in SUBSET Nat /\ coded \in BOOLEAN /\ Issue(from, rows, coded) /\ rows \cap Ordered = {}
        BY <3>3, <4>1
      <4>4. rows = r.rows /\ coded = r.coded
        OBVIOUS
      <4> HIDE DEF r, rows, coded
      <4>5. invoices' \in Seq(InvoiceRow) /\ counter' \in [Years -> Nat]
        BY <4>1, <4>2, <4>3, Issued
      <4>6. \A y \in Years : /\ Cardinality({n \in DOMAIN invoices' : invoices'[n].year = y}) = counter'[y]
                             /\ {invoices'[n].number : n \in {m \in DOMAIN invoices' : invoices'[m].year = y}} = 1 .. counter'[y]
        BY <4>1, <4>2, <4>3, Issued
      <4>7. Ordered' = Ordered \cup rows /\ FromQuote' = FromQuote /\ Apart'
        BY <4>1, <4>2, <4>3, Issued
      <4>8. IsFiniteSet(Coded)
        BY <4>1, <4>2, <4>3, Issued
      <4>9. ASSUME coded = FALSE PROVE Coded' = Coded
        <5>1. Issue(from, rows, FALSE)
          BY <4>3, <4>9
        <5> QED BY <4>1, <4>2, <4>3, <5>1, Issued
      <4>10. ASSUME coded = TRUE PROVE \E k : k \notin Coded /\ Coded' = Coded \cup {k}
        <5>1. Issue(from, rows, TRUE)
          BY <4>3, <4>10
        <5> QED BY <4>1, <4>2, <4>3, <5>1, Issued
      <4> QED BY <4>4, <4>5, <4>6, <4>7, <4>8, <4>9, <4>10
    <3>5. CodeKnown' /\ used' \in Nat
      <4>1. used \in Nat /\ used <= MaxUses /\ used = Cardinality(Coded) /\ MaxUses \in Nat
        BY <1>a, ShopBounds DEF CodeKnown, ShopTypes
      <4>2. CASE r.coded = TRUE
        <5>1. used < MaxUses /\ used' = used + 1
          BY <2>3, <4>2 DEF Claimable
        <5>2. PICK k : k \notin Coded /\ Coded' = Coded \cup {k}
          BY <3>4, <4>2
        <5>3. Cardinality(Coded \cup {k}) = Cardinality(Coded) + 1
          BY <3>4, <5>2, FS_AddElement
        <5> QED BY <4>1, <5>1, <5>2, <5>3 DEF CodeKnown
      <4>3. CASE r.coded = FALSE
        <5>1. used' = used /\ Coded' = Coded
          BY <2>3, <3>4, <4>3
        <5> QED BY <4>1, <5>1 DEF CodeKnown
      <4> QED BY <3>3, <4>2, <4>3
    <3>6. ShopTypes'
      BY <2>1, <3>1, <3>4, <3>5, <1>a DEF ShopTypes
    <3>7. Numbered'
      BY <3>4 DEF Numbered
    <3>8. QuoteKnown'
      BY <2>1, <3>1, <3>4, <1>a, QuoteKept DEF Decides
    <3>9. CartsKnown'
      <4>1. x.rows \subseteq r.rows
        BY <3>1, <1>c
      <4>2. \A u \in Member : cart'[u] = cart[u] /\ (cart'[u] \cup visit'[u].rows) \subseteq Holds(u)
        BY <2>1, <3>2, <4>1 DEF Holds
      <4>3. \A w \in Member : w # v => Holds(w) \cap r.rows = {}
        BY <1>a DEF CartsKnown, Holds
      <4>4. \A u \in Member : (cart'[u] \cup visit'[u].rows) \subseteq 1 .. added'
        BY <2>1, <4>2, <1>a DEF CartsKnown
      <4>5. \A u, w \in Member : u # w => (cart'[u] \cup visit'[u].rows) \cap (cart'[w] \cup visit'[w].rows) = {}
        <5>1. \A u, w \in Member : u # w => Holds(u) \cap Holds(w) = {}
          BY <1>a DEF CartsKnown
        <5> QED BY <4>2, <5>1
      <4>6. \A w \in Member : visit'[w].pc # "empty" => (cart'[w] \cup visit'[w].rows) \cap Ordered' = {}
        <5>1. ASSUME NEW w \in Member, w # v, visit'[w].pc # "empty" PROVE Holds(w) \cap (Ordered \cup r.rows) = {}
          BY <3>2, <4>3, <5>1, <1>a DEF CartsKnown
        <5>2. visit'[v].pc # "empty" => (cart'[v] \cup visit'[v].rows) \cap Ordered' = {}
          <6>1. ASSUME x.pc # "empty" PROVE (cart[v] \cup x.rows) \cap (Ordered \cup r.rows) = {}
            <7>1. r.pc = "order" /\ x.rows = {}
              BY <2>1, <3>1, <6>1, <1>c
            <7>2. r.rows = {}
              BY <7>1, <1>a DEF CartsKnown
            <7> QED BY <3>3, <7>1, <7>2 DEF Holds
          <6> QED BY <2>1, <3>2, <3>4, <6>1
        <5> QED BY <3>4, <4>2, <5>1, <5>2
      <4>7. \A w \in Member : visit'[w].pc = "empty" => cart'[w] \subseteq Ordered'
        <5>1. ASSUME NEW w \in Member, w # v, visit'[w].pc = "empty" PROVE cart[w] \subseteq Ordered
          BY <3>2, <5>1, <1>a DEF CartsKnown
        <5>2. ASSUME x.pc = "empty" PROVE cart[v] \subseteq r.rows
          BY <3>1, <5>2, <1>a, <1>c DEF CartsKnown
        <5> QED BY <2>1, <3>2, <3>4, <5>1, <5>2
      <4>8. \A w \in Member : visit'[w].pc = "place" => cart'[w] \subseteq visit'[w].rows
        BY <2>1, <3>1, <3>2, <1>a DEF CartsKnown
      <4>9. \A w \in Member : visit'[w].pc \notin {"place", "empty"} => visit'[w].rows = {}
        BY <3>1, <3>2, <1>a, <1>c DEF CartsKnown
      <4> QED BY <4>4, <4>5, <4>6, <4>7, <4>8, <4>9 DEF CartsKnown, Holds
    <3>10. AllSomewhere'
      <4>1. r.rows \subseteq 1 .. added
        BY <1>a DEF CartsKnown, Holds
      <4> QED BY <2>1, <3>4, <4>1, <1>a DEF AllSomewhere
    <3> QED BY <3>4, <3>5, <3>6, <3>7, <3>8, <3>9, <3>10 DEF ShopInv
  <2>4. CASE RollBack /\ Ends(v)
    BY <2>2, <2>4 DEF RollBack, CounterUndone
  <2> QED BY <1>7, <2>2, <2>3, <2>4 DEF PlaceLines
<1>8. ASSUME NEW v \in Member, EmptyCart(v) PROVE ShopInv'
  <2>1. /\ visit[v].pc = "empty" /\ visit' = [visit EXCEPT ![v] = Away] /\ cart' = [cart EXCEPT ![v] = {}]
        /\ UNCHANGED <<quote, link, dropped, used, counter, invoices, year, added>>
    BY <1>8, <1>b DEF EmptyCart, Emptied, At, Ends, shopRest
  <2>2. /\ visit'[v] = Away /\ \A w \in Member : w # v => visit'[w] = visit[w]
        /\ cart'[v] = {} /\ \A w \in Member : w # v => cart'[w] = cart[w]
    BY <2>1, <1>a DEF ShopTypes
  <2>3. ShopTypes'
    BY <2>1, <1>a, <1>c DEF ShopTypes
  <2>4. QuoteKnown'
    BY <2>1, <1>a, <1>c, <1>d, QuoteKept DEF Decides
  <2>5. CartsKnown'
    <3>1. /\ cart'[v] \cup visit'[v].rows = {}
          /\ \A w \in Member : w # v => cart'[w] \cup visit'[w].rows = Holds(w)
      BY <2>2, <1>c DEF Holds
    <3>2. \A w \in Member : (cart'[w] \cup visit'[w].rows) \subseteq 1 .. added
      BY <3>1, <1>a DEF CartsKnown
    <3>3. \A u, w \in Member : u # w => (cart'[u] \cup visit'[u].rows) \cap (cart'[w] \cup visit'[w].rows) = {}
      <4>1. \A u, w \in Member : u # w => Holds(u) \cap Holds(w) = {}
        BY <1>a DEF CartsKnown
      <4>2. \A u \in Member : (cart'[u] \cup visit'[u].rows) \subseteq Holds(u)
        BY <3>1
      <4> QED BY <4>1, <4>2
    <3>4. \A w \in Member : visit'[w].pc # "empty" => (cart'[w] \cup visit'[w].rows) \cap Ordered = {}
      BY <2>2, <3>1, <1>a DEF CartsKnown
    <3>5. \A w \in Member : visit'[w].pc = "empty" => cart'[w] \subseteq Ordered
      BY <2>2, <1>a, <1>c DEF CartsKnown
    <3>6. \A w \in Member : visit'[w].pc = "place" => cart'[w] \subseteq visit'[w].rows
      BY <2>2, <1>a, <1>c DEF CartsKnown
    <3>7. \A w \in Member : visit'[w].pc \notin {"place", "empty"} => visit'[w].rows = {}
      BY <2>2, <1>a, <1>c DEF CartsKnown
    <3> QED BY <2>1, <3>2, <3>3, <3>4, <3>5, <3>6, <3>7, <1>d DEF CartsKnown, Holds
  <2>6. AllSomewhere'
    <3>1. cart[v] \subseteq Ordered
      BY <2>1, <1>a DEF CartsKnown
    <3> QED BY <2>1, <2>2, <3>1, <1>a, <1>d DEF AllSomewhere
  <2> QED BY <2>1, <2>3, <2>4, <2>5, <2>6, <1>d DEF ShopInv
<1>9. ASSUME NEW c \in Cart, RemoveItem(c) PROVE ShopInv'
  <2>1. c \in Member
    BY <1>b, <1>9
  <2>2. PICK i \in cart[c] : /\ cart' = [cart EXCEPT ![c] = cart[c] \ {i}] /\ dropped' = dropped \cup {i}
                             /\ UNCHANGED <<quote, link, used, counter, invoices, visit, added, year>>
    BY <1>9 DEF RemoveItem, shopRest
  <2>3. /\ \A w \in Member : cart'[w] \subseteq cart[w] /\ visit'[w] = visit[w]
        /\ \A w \in Member : \A j \in cart[w] : j # i => j \in cart'[w]
    BY <2>1, <2>2, <1>a DEF ShopTypes
  <2>4. ShopTypes'
    BY <2>1, <2>2, <1>a DEF ShopTypes
  <2>5. QuoteKnown'
    BY <2>2, <1>a, <1>d DEF QuoteKnown, Decides
  <2>6. CartsKnown'
    <3>1. \A w \in Member : (cart'[w] \cup visit'[w].rows) \subseteq Holds(w)
      BY <2>3 DEF Holds
    <3>2. \A w \in Member : (cart'[w] \cup visit'[w].rows) \subseteq 1 .. added
      BY <3>1, <1>a DEF CartsKnown
    <3>3. \A u, w \in Member : u # w => (cart'[u] \cup visit'[u].rows) \cap (cart'[w] \cup visit'[w].rows) = {}
      <4>1. \A u, w \in Member : u # w => Holds(u) \cap Holds(w) = {}
        BY <1>a DEF CartsKnown
      <4> QED BY <3>1, <4>1
    <3>4. \A w \in Member : visit'[w].pc # "empty" => (cart'[w] \cup visit'[w].rows) \cap Ordered = {}
      BY <2>3, <3>1, <1>a DEF CartsKnown
    <3>5. \A w \in Member : visit'[w].pc = "empty" => cart'[w] \subseteq Ordered
      BY <2>3, <1>a DEF CartsKnown
    <3>6. \A w \in Member : visit'[w].pc = "place" => cart'[w] \subseteq visit'[w].rows
      BY <2>3, <1>a DEF CartsKnown
    <3>7. \A w \in Member : visit'[w].pc \notin {"place", "empty"} => visit'[w].rows = {}
      BY <2>3, <1>a DEF CartsKnown
    <3> QED BY <2>2, <3>2, <3>3, <3>4, <3>5, <3>6, <3>7, <1>d DEF CartsKnown, Holds
  <2>7. AllSomewhere'
    <3>1. i \in 1 .. added
      BY <2>1, <2>2, <1>a DEF CartsKnown, Holds
    <3>2. dropped' \subseteq 1 .. added' /\ Ordered' \subseteq 1 .. added'
      BY <2>2, <3>1, <1>a, <1>d DEF AllSomewhere
    <3>3. \A j \in 1 .. added : j \in dropped' \/ j \in Ordered \/ \E w \in Member : j \in cart'[w]
      BY <2>2, <2>3, <1>a DEF AllSomewhere
    <3> QED BY <2>2, <3>2, <3>3, <1>d DEF AllSomewhere
  <2> QED BY <2>2, <2>4, <2>5, <2>6, <2>7, <1>d DEF ShopInv
<1>10. CASE UNCHANGED shopVars
  <2>1. UNCHANGED <<quote, link, cart, dropped, used, counter, invoices, visit, added, year>>
    BY <1>10 DEF shopVars
  <2>2. ShopTypes' /\ QuoteKnown' /\ CartsKnown' /\ AllSomewhere'
    BY <2>1, <1>a, <1>d DEF ShopTypes, QuoteKnown, CartsKnown, AllSomewhere, Holds, Decides
  <2> QED BY <2>1, <2>2, <1>d DEF ShopInv
<1> QED BY <1>1, <1>2, <1>3, <1>4, <1>5, <1>6, <1>7, <1>8, <1>9, <1>10 DEF ShopNext, ShopSteps

LEMMA ShopInvInit ==
  ASSUME ~Shared, ShopInit
  PROVE  ShopInv
<1>1. Cart = Member /\ invoices = <<>> /\ DOMAIN invoices = {} /\ 1 .. 0 = {}
  BY DEF Cart, ShopInit
<1>2. ShopTypes
  BY <1>1 DEF ShopInit, ShopTypes, Away, VisitState, Years
<1>3. Cardinality({}) = 0
  BY FS_EmptySet
<1>4. FromQuote = {} /\ Coded = {} /\ Ordered = {}
  BY <1>1 DEF FromQuote, Coded, Ordered
<1>5. Numbered /\ Apart
  BY <1>1, <1>3 DEF Numbered, Apart, ShopInit
<1>6. CodeKnown
  BY <1>3, <1>4, ShopBounds DEF CodeKnown, ShopInit
<1>7. QuoteKnown /\ CartsKnown /\ AllSomewhere
  BY <1>1, <1>4 DEF ShopInit, QuoteKnown, CartsKnown, AllSomewhere, Holds, Decides, Away
<1> QED BY <1>2, <1>5, <1>6, <1>7 DEF ShopInv

LEMMA ShopInvMeans ==
  ASSUME ~Shared, ShopInv
  PROVE  ShopRight
<1>1. NumbersGapless
  BY DEF NumbersGapless, ShopInv, Numbered
<1>2. QuoteOnce
  <2>1. FromQuote = {n \in DOMAIN invoices : invoices[n].from = "quote"}
    BY DEF FromQuote
  <2>2. QuoteKnown
    BY DEF ShopInv
  <2>3. Cardinality(FromQuote) <= 1
    <3>1. CASE FromQuote = {}
      BY <3>1, FS_EmptySet
    <3>2. CASE FromQuote # {}
      <4>0. \A m, n \in FromQuote : m = n
        BY <2>2 DEF QuoteKnown
      <4>1. PICK k : FromQuote = {k}
        <5>1. PICK k : k \in FromQuote
          BY <3>2
        <5>2. FromQuote = {k}
          BY <4>0, <5>1
        <5> QED BY <5>2
      <4>2. Cardinality(FromQuote) = 1
        BY <4>1, FS_Singleton
      <4> QED BY <4>2
    <3> QED BY <3>1, <3>2
  <2>4. (FromQuote # {} => quote = "accepted") /\ (link # 0 => link \in FromQuote)
    BY <2>2 DEF QuoteKnown
  <2> QED BY <2>1, <2>3, <2>4 DEF QuoteOnce
<1>3. CodeCounted
  <2>1. Coded = {n \in DOMAIN invoices : invoices[n].coded}
    <3>1. \A n \in DOMAIN invoices : invoices[n].coded \in BOOLEAN
      <4>1. \A n \in DOMAIN invoices : invoices[n] \in InvoiceRow
        <5>1. invoices \in Seq(InvoiceRow)
          BY DEF ShopInv, ShopTypes
        <5> QED BY <5>1
      <4> QED BY <4>1 DEF InvoiceRow
    <3>2. \A n \in DOMAIN invoices : invoices[n].coded <=> invoices[n].coded = TRUE
      BY <3>1
    <3> QED BY <3>2 DEF Coded
  <2> QED BY <2>1 DEF CodeCounted, ShopInv, CodeKnown
<1>4. NothingVanishes
  <2>1. Cart = Member
    BY DEF Cart
  <2>2. dropped \cup Ordered \cup UNION {cart[c] : c \in Cart} = 1 .. added
    <3>1. \A v \in Member : cart[v] \subseteq 1 .. added
      BY DEF ShopInv, CartsKnown, Holds
    <3> QED BY <2>1, <3>1 DEF ShopInv, AllSomewhere
  <2> QED BY <2>2 DEF NothingVanishes, Ordered, ShopInv, Apart
<1> QED BY <1>1, <1>2, <1>3, <1>4 DEF ShopRight

-----------------------------------------------------------------------------
(* Electronic invoices.                                                   *)

Outcome == {"sent", "rejected", "delivered", "not_delivered"}
Verdict == Judged \cup {"waits"}

TaskState ==
  [pc : {"rest", "mark", "draft", "send", "name", "fail", "told"}, doc : Doc \cup {NoDoc},
   id : Nat, said : Outcome \cup {"nothing"}]

FiscalTypes ==
  /\ row \in [Doc -> [status : Outcome \cup {"unsent", "error"}, id : Nat]]
  /\ handed \in [Doc -> Seq(Verdict)]
  /\ unnamed \in [Doc -> SUBSET Nat]
  /\ task \in [Hand -> TaskState]

OneHand ==
  /\ \A g \in Hand : task[g].pc # "rest" => task[g].doc \in Doc
  /\ \A g, h \in Hand : task[g].pc # "rest" /\ task[h].pc # "rest" /\ task[g].doc = task[h].doc => g = h

Means(status, said) ==
  /\ status = "delivered" => said \in {"RC", "NE", "DT"}
  /\ status = "not_delivered" => said = "MC"
  /\ status = "rejected" => said = "NS"

\* The copy an invoice names was refused, if it names one.
NamesRefused(d) == row[d].id # 0 => handed[d][row[d].id] = "NS"

\* What the row of an invoice shows is of the copy it names.
Shows(d, status) ==
  /\ status \in {"delivered", "not_delivered", "rejected"} => row[d].id # 0
  /\ row[d].id # 0 => Means(status, handed[d][row[d].id])

\* Only the copy a row names and the last one may be anything but refused or unnamed;
\* the last one is named or unnamed, or somebody is about to write its name; a row
\* that lets one send names a refused copy.
RowKnows(d) ==
  /\ row[d].id \in 0 .. Len(handed[d])
  /\ \A n \in DOMAIN handed[d] \ unnamed[d] : n # row[d].id /\ n # Len(handed[d]) => handed[d][n] = "NS"
  /\ \A n \in DOMAIN handed[d] : row[d].id < n /\ n < Len(handed[d]) => n \in unnamed[d]
  /\ (\A h \in Hand : ~(task[h].pc = "name" /\ task[h].doc = d))
       => Len(handed[d]) = row[d].id \/ Len(handed[d]) \in unnamed[d]
  /\ Sendable(row[d].status) => NamesRefused(d)
  /\ Shows(d, row[d].status)

RowsKnow == \A d \in Doc : RowKnows(d)

HandKnows(h) ==
  /\ task[h].pc \in {"mark", "draft", "send", "fail", "name"} => NamesRefused(task[h].doc)
  /\ task[h].pc \in {"draft", "send", "fail", "name"} => row[task[h].doc].status = "sent"
  /\ task[h].pc = "name" => task[h].id = Len(handed[task[h].doc])
  /\ task[h].pc = "told" => task[h].said \in Outcome /\ Shows(task[h].doc, task[h].said)

HandsKnow == \A h \in Hand : HandKnows(h)

FiscalInv == FiscalTypes /\ OneHand /\ RowsKnow /\ HandsKnow

\* normalizeSdiStatus finds what was meant in the words of every intermediary.
LEMMA Normalized ==
  ASSUME NEW said \in Verdict, NEW parts \in Parts(said)
  PROVE  NormalizeSdiStatus(parts) \in Outcome /\ Means(NormalizeSdiStatus(parts), said)
<1>1. CASE said = "NS"
  <2>1. parts \in {{"ns"}, {"scart"}, {"reject"}}
    BY <1>1 DEF Parts
  <2>2. NormalizeSdiStatus(parts) = "rejected"
    BY <2>1 DEF NormalizeSdiStatus
  <2> QED BY <1>1, <2>2 DEF Means, Outcome
<1>2. CASE said = "MC"
  <2>1. parts \in {{"mc"}, {"mancataconsegna"}, {"notdelivered", "delivered"}, {"undeliver", "delivered"}}
    BY <1>2 DEF Parts
  <2>2. NormalizeSdiStatus(parts) = "not_delivered"
    BY <2>1 DEF NormalizeSdiStatus
  <2> QED BY <1>2, <2>2 DEF Means, Outcome
<1>3. CASE said = "RC"
  <2>1. parts \in {{"rc"}, {"consegnat"}, {"delivered"}}
    BY <1>3 DEF Parts
  <2>2. NormalizeSdiStatus(parts) = "delivered"
    BY <2>1 DEF NormalizeSdiStatus
  <2> QED BY <1>3, <2>2 DEF Means, Outcome
<1>4. CASE said = "NE"
  <2>1. parts \in {{"ne"}, {"accepted"}, {"accettat"}}
    BY <1>4 DEF Parts
  <2>2. NormalizeSdiStatus(parts) = "delivered"
    BY <2>1 DEF NormalizeSdiStatus
  <2> QED BY <1>4, <2>2 DEF Means, Outcome
<1>5. CASE said = "DT"
  <2>1. parts \in {{"dt"}, {"decorrenza"}}
    BY <1>5 DEF Parts
  <2>2. NormalizeSdiStatus(parts) = "delivered"
    BY <2>1 DEF NormalizeSdiStatus
  <2> QED BY <1>5, <2>2 DEF Means, Outcome
<1>6. CASE said = "waits"
  <2>1. parts = {}
    BY <1>6 DEF Parts
  <2>2. NormalizeSdiStatus(parts) = "sent"
    BY <2>1 DEF NormalizeSdiStatus
  <2> QED BY <2>2 DEF Means, Outcome
<1> QED BY <1>1, <1>2, <1>3, <1>4, <1>5, <1>6 DEF Verdict, Judged

LEMMA TaskIs ==
  ASSUME NEW y \in TaskState
  PROVE  y = [pc |-> y.pc, doc |-> y.doc, id |-> y.id, said |-> y.said]
BY DEF TaskState

LEMMA Begun ==
  ASSUME NEW r \in TaskState, r.id = 0, NEW d \in Doc
  PROVE  /\ r.said = "nothing" => [r EXCEPT !.pc = "mark", !.doc = d] = [pc |-> "mark", doc |-> d, id |-> 0, said |-> "nothing"]
         /\ \A said \in Outcome :
              [r EXCEPT !.pc = "told", !.doc = d, !.said = said] = [pc |-> "told", doc |-> d, id |-> 0, said |-> said]
<1>1. ASSUME NEW y, y = [r EXCEPT !.pc = "mark", !.doc = d], r.said = "nothing"
      PROVE  y = [pc |-> "mark", doc |-> d, id |-> 0, said |-> "nothing"]
  <2>1. y \in TaskState /\ y.pc = "mark" /\ y.doc = d /\ y.id = 0 /\ y.said = "nothing"
    BY <1>1 DEF TaskState
  <2> QED BY <2>1, TaskIs
<1>2. ASSUME NEW said \in Outcome, NEW y, y = [r EXCEPT !.pc = "told", !.doc = d, !.said = said]
      PROVE  y = [pc |-> "told", doc |-> d, id |-> 0, said |-> said]
  <2>1. y \in TaskState /\ y.pc = "told" /\ y.doc = d /\ y.id = 0 /\ y.said = said
    BY <1>2 DEF TaskState
  <2> QED BY <2>1, TaskIs
<1> QED BY <1>1, <1>2

LEMMA RestIs == Rest \in TaskState /\ Rest.id = 0 /\ Rest.said = "nothing"
BY DEF Rest, TaskState

\* What a hand that is at no invoice, or at another one, knows.
LEMMA ElsewhereKnown ==
  ASSUME NEW g \in Hand, NEW d \in Doc, HandKnows(g), task'[g] = task[g], task[g].pc # "rest" => task[g].doc \in Doc \ {d},
         \A e \in Doc : e # d => row'[e] = row[e] /\ handed'[e] = handed[e]
  PROVE  HandKnows(g)'
<1>1. CASE task[g].pc = "rest"
  BY <1>1 DEF HandKnows
<1>2. CASE task[g].pc # "rest"
  BY <1>2 DEF HandKnows, NamesRefused, Shows
<1> QED BY <1>1, <1>2

\* What the row of another invoice than the one a hand is at knows.
LEMMA RowElsewhere ==
  ASSUME NEW h \in Hand, NEW d \in Doc, NEW e \in Doc \ {d}, RowKnows(e),
         task[h].pc # "rest" => task[h].doc = d, task'[h].pc # "rest" => task'[h].doc = d,
         \A g \in Hand : g # h => task'[g] = task[g],
         row'[e] = row[e], handed'[e] = handed[e], unnamed'[e] = unnamed[e]
  PROVE  RowKnows(e)'
<1>1. (\A g \in Hand : ~(task'[g].pc = "name" /\ task'[g].doc = e)) => \A g \in Hand : ~(task[g].pc = "name" /\ task[g].doc = e)
  OBVIOUS
<1> QED BY <1>1 DEF RowKnows, NamesRefused, Shows

\* A step of one hand at one invoice.
LEMMA HandSteps ==
  ASSUME FiscalInv, FiscalTypes', NEW h \in Hand, NEW d \in Doc,
         task[h].pc # "rest" => task[h].doc = d, task'[h].pc # "rest" => task'[h].doc = d,
         \A g \in Hand : g # h => task'[g] = task[g],
         \A g \in Hand : g # h /\ task[g].pc # "rest" => task[g].doc # d,
         \A e \in Doc : e # d => row'[e] = row[e] /\ handed'[e] = handed[e] /\ unnamed'[e] = unnamed[e],
         RowKnows(d)', HandKnows(h)'
  PROVE  FiscalInv'
<1>1. OneHand'
  BY DEF FiscalInv, OneHand
<1>2. \A e \in Doc : RowKnows(e)'
  <2>1. ASSUME NEW e \in Doc, e # d PROVE RowKnows(e)'
    <3>1. RowKnows(e)
      BY DEF FiscalInv, RowsKnow
    <3> QED BY <2>1, <3>1, RowElsewhere
  <2> QED BY <2>1
<1>3. \A g \in Hand : HandKnows(g)'
  <2>1. ASSUME NEW g \in Hand, g # h PROVE HandKnows(g)'
    <3>1. HandKnows(g) /\ (task[g].pc # "rest" => task[g].doc \in Doc \ {d})
      BY <2>1 DEF FiscalInv, HandsKnow, OneHand
    <3> QED BY <2>1, <3>1, ElsewhereKnown
  <2> QED BY <2>1
<1> QED BY <1>1, <1>2, <1>3 DEF FiscalInv, RowsKnow, HandsKnow

\* What a row knows whose copies stay what they were, unless more of them lost their name.
LEMMA RowStays ==
  ASSUME NEW d \in Doc, RowKnows(d), handed'[d] = handed[d], unnamed[d] \subseteq unnamed'[d], row'[d].id = row[d].id,
         Len(handed[d]) = row[d].id \/ Len(handed[d]) \in unnamed'[d],
         Sendable(row'[d].status) => NamesRefused(d), Shows(d, row'[d].status)
  PROVE  RowKnows(d)'
<1>1. (row[d].id \in 0 .. Len(handed[d]))'
  BY DEF RowKnows
<1>2. (\A n \in DOMAIN handed[d] \ unnamed[d] : n # row[d].id /\ n # Len(handed[d]) => handed[d][n] = "NS")'
  BY DEF RowKnows
<1>3. (\A n \in DOMAIN handed[d] : row[d].id < n /\ n < Len(handed[d]) => n \in unnamed[d])'
  BY DEF RowKnows
<1>4. (Len(handed[d]) = row[d].id \/ Len(handed[d]) \in unnamed[d])'
  OBVIOUS
<1>5. (Sendable(row[d].status) => NamesRefused(d))'
  BY DEF NamesRefused, Sendable
<1>6. Shows(d, row[d].status)'
  BY DEF Shows, Means
<1> QED BY <1>1, <1>2, <1>3, <1>4, <1>5, <1>6 DEF RowKnows

LEMMA FiscalInvNext ==
  ASSUME ~Overlap, FiscalInv, [FiscalNext]_fiscalVars
  PROVE  FiscalInv'
<1>a. FiscalTypes /\ OneHand /\ RowsKnow /\ HandsKnow
  BY DEF FiscalInv
<1>b. \A h \in Hand : task[h].pc # "rest" => task[h].doc \in Doc
  BY <1>a DEF OneHand
<1>c. \A h \in Hand, d \in Doc : task[h].pc # "rest" /\ task[h].doc = d => \A g \in Hand : g # h /\ task[g].pc # "rest" => task[g].doc # d
  BY <1>a DEF OneHand
<1>d. ASSUME NEW d \in Doc PROVE RowKnows(d)
  BY <1>a DEF RowsKnow
<1>e. ASSUME NEW h \in Hand PROVE HandKnows(h)
  BY <1>a DEF HandsKnow
<1>1. ASSUME NEW h \in Hand, NEW d \in Doc, SendLoad(h, d) PROVE FiscalInv'
  <2>a. [Rest EXCEPT !.pc = "mark", !.doc = d] = [pc |-> "mark", doc |-> d, id |-> 0, said |-> "nothing"]
    BY Begun, RestIs
  <2>1. /\ task[h].pc = "rest" /\ \A g \in Hand : task[g].doc # d
        /\ Sendable(row[d].status) /\ UNCHANGED <<row, handed, unnamed>>
        /\ task' = [task EXCEPT ![h] = [pc |-> "mark", doc |-> d, id |-> 0, said |-> "nothing"]]
    BY <1>1, <2>a DEF SendLoad, IsAt, Free
  <2>2. task'[h] = [pc |-> "mark", doc |-> d, id |-> 0, said |-> "nothing"] /\ \A g \in Hand : g # h => task'[g] = task[g]
    BY <2>1, <1>a DEF FiscalTypes, TaskState
  <2>3. FiscalTypes'
    BY <2>1, <1>a DEF FiscalTypes, TaskState
  <2>4. RowKnows(d)'
    BY <2>1, <2>2, <1>d DEF RowKnows, NamesRefused, Shows
  <2>5. HandKnows(h)'
    BY <2>1, <2>2, <1>d DEF RowKnows, HandKnows, NamesRefused
  <2> QED BY <2>1, <2>2, <2>3, <2>4, <2>5, HandSteps
<1>2. ASSUME NEW h \in Hand, NEW d \in Doc, Ask(h, d) PROVE FiscalInv'
  <2>1. /\ task[h].pc = "rest" /\ \A g \in Hand : task[g].doc # d
        /\ row[d].id # 0 /\ UNCHANGED <<row, handed, unnamed>>
    BY <1>2 DEF Ask, IsAt, Free
  <2> DEFINE named == handed[d][row[d].id]
  <2>3. named \in Verdict
    <3>1. handed[d] \in Seq(Verdict) /\ row[d].id \in 1 .. Len(handed[d])
      BY <2>1, <1>a, <1>d DEF FiscalTypes, RowKnows
    <3> QED BY <3>1
  <2>4. PICK parts \in Parts(named) :
          task' = [task EXCEPT ![h] = [pc |-> "told", doc |-> d, id |-> 0, said |-> NormalizeSdiStatus(parts)]]
    <3>1. PICK parts \in Parts(named) :
            task' = [task EXCEPT ![h] = [Rest EXCEPT !.pc = "told", !.doc = d, !.said = NormalizeSdiStatus(parts)]]
      BY <1>2 DEF Ask
    <3>2. [Rest EXCEPT !.pc = "told", !.doc = d, !.said = NormalizeSdiStatus(parts)]
            = [pc |-> "told", doc |-> d, id |-> 0, said |-> NormalizeSdiStatus(parts)]
      <4>1. NormalizeSdiStatus(parts) \in Outcome
        BY <2>3, <3>1, Normalized
      <4>2. \A said \in Outcome :
              [Rest EXCEPT !.pc = "told", !.doc = d, !.said = said] = [pc |-> "told", doc |-> d, id |-> 0, said |-> said]
        BY Begun, RestIs
      <4> QED BY <4>1, <4>2, Zenon
    <3> QED BY <3>1, <3>2
  <2> DEFINE said == NormalizeSdiStatus(parts)
  <2>5. said \in Outcome /\ Means(said, named)
    BY <2>3, <2>4, Normalized
  <2> HIDE DEF said
  <2>6. task'[h] = [pc |-> "told", doc |-> d, id |-> 0, said |-> said] /\ \A g \in Hand : g # h => task'[g] = task[g]
    BY <2>4, <1>a DEF FiscalTypes, TaskState, said
  <2>7. FiscalTypes'
    BY <2>1, <2>4, <2>5, <1>a DEF FiscalTypes, TaskState, said
  <2>8. RowKnows(d)'
    BY <2>1, <2>6, <1>d DEF RowKnows, NamesRefused, Shows
  <2>9. HandKnows(h)'
    BY <2>1, <2>5, <2>6 DEF HandKnows, Shows
  <2> QED BY <2>1, <2>6, <2>7, <2>8, <2>9, HandSteps
<1>3. ASSUME NEW h \in Hand, SendMark(h) PROVE FiscalInv'
  <2> DEFINE d == task[h].doc
  <2>1. /\ task[h].pc = "mark" /\ row' = [row EXCEPT ![d].status = "sent"] /\ UNCHANGED <<handed, unnamed>>
        /\ \E pc \in {"draft", "send"} : task' = [task EXCEPT ![h].pc = pc]
    BY <1>3 DEF SendMark, IsAt, Turns
  <2>2. d \in Doc /\ NamesRefused(d) /\ \A g \in Hand : g # h /\ task[g].pc # "rest" => task[g].doc # d
    BY <2>1, <1>b, <1>c, <1>e DEF HandKnows
  <2>3. /\ task'[h].pc \in {"draft", "send"} /\ task'[h].doc = d /\ \A g \in Hand : g # h => task'[g] = task[g]
        /\ row'[d].status = "sent" /\ row'[d].id = row[d].id /\ \A e \in Doc : e # d => row'[e] = row[e]
    BY <2>1, <2>2, <1>a DEF FiscalTypes, TaskState
  <2>4. FiscalTypes'
    <3>1. row' \in [Doc -> [status : Outcome \cup {"unsent", "error"}, id : Nat]]
      <4>1. "sent" \in Outcome \cup {"unsent", "error"}
        BY DEF Outcome
      <4>2. row[d] \in [status : Outcome \cup {"unsent", "error"}, id : Nat] /\ row' = [row EXCEPT ![d] = [row[d] EXCEPT !.status = "sent"]]
        BY <2>1, <2>2, <1>a DEF FiscalTypes
      <4>3. [row[d] EXCEPT !.status = "sent"] \in [status : Outcome \cup {"unsent", "error"}, id : Nat]
        BY <4>1, <4>2
      <4> QED BY <4>2, <4>3, <1>a DEF FiscalTypes
    <3>2. task' \in [Hand -> TaskState]
      BY <2>1, <1>a DEF FiscalTypes, TaskState
    <3> QED BY <2>1, <3>1, <3>2, <1>a DEF FiscalTypes
  <2>5. RowKnows(d)'
    BY <2>1, <2>2, <2>3, <1>d DEF RowKnows, Sendable, Shows, Means
  <2>6. HandKnows(h)'
    BY <2>1, <2>2, <2>3 DEF HandKnows, NamesRefused
  <2> QED BY <2>1, <2>2, <2>3, <2>4, <2>5, <2>6, HandSteps
<1>4. ASSUME NEW h \in Hand, SendDraft(h) PROVE FiscalInv'
  <2> DEFINE d == task[h].doc
  <2>1. /\ task[h].pc = "draft" /\ UNCHANGED <<row, handed, unnamed>>
        /\ \E pc \in {"send", "fail"} : task' = [task EXCEPT ![h].pc = pc]
    BY <1>4 DEF SendDraft, IsAt, Turns
  <2>2. d \in Doc /\ NamesRefused(d) /\ row[d].status = "sent" /\ \A g \in Hand : g # h /\ task[g].pc # "rest" => task[g].doc # d
    BY <2>1, <1>b, <1>c, <1>e DEF HandKnows
  <2>3. /\ task'[h].pc \in {"send", "fail"} /\ task'[h].doc = d /\ \A g \in Hand : g # h => task'[g] = task[g]
    BY <2>1, <1>a DEF FiscalTypes, TaskState
  <2>4. FiscalTypes'
    <3>1. task' \in [Hand -> TaskState]
      BY <2>1, <1>a DEF FiscalTypes, TaskState
    <3> QED BY <2>1, <3>1, <1>a DEF FiscalTypes
  <2>5. RowKnows(d)'
    BY <2>1, <2>2, <2>3, <1>d DEF RowKnows, NamesRefused, Shows
  <2>6. HandKnows(h)'
    BY <2>1, <2>2, <2>3 DEF HandKnows, NamesRefused
  <2> QED BY <2>1, <2>2, <2>3, <2>4, <2>5, <2>6, HandSteps
<1>5. ASSUME NEW h \in Hand, SendCall(h) PROVE FiscalInv'
  <2>o. task[h].pc # "rest" /\ task[h].doc \in Doc
    BY <1>5, <1>b DEF SendCall, IsAt
  <2>p. PICK d \in Doc : d = task[h].doc
    BY <2>o
  <2> USE <2>p
  <2> DEFINE got == Append(handed[d], "waits")
  <2>1. task[h].pc = "send" /\ row' = row
    BY <1>5 DEF SendCall, IsAt
  <2>2. d \in Doc /\ NamesRefused(d) /\ row[d].status = "sent" /\ \A g \in Hand : g # h /\ task[g].pc # "rest" => task[g].doc # d
    BY <2>1, <1>b, <1>c, <1>e DEF HandKnows
  <2>3. /\ Len(handed[d]) = row[d].id \/ Len(handed[d]) \in unnamed[d]
        /\ row[d].id \in 0 .. Len(handed[d])
    BY <2>1, <2>2, <1>d DEF RowKnows
  <2>4. /\ got \in Seq(Verdict) /\ Len(got) = Len(handed[d]) + 1 /\ Len(handed[d]) \in Nat
        /\ DOMAIN handed[d] = 1 .. Len(handed[d]) /\ DOMAIN got = 1 .. Len(got)
        /\ \A n \in DOMAIN handed[d] : got[n] = handed[d][n]
    <3>1. handed[d] \in Seq(Verdict) /\ "waits" \in Verdict
      BY <2>2, <1>a DEF FiscalTypes, Verdict
    <3>2. got \in Seq(Verdict) /\ Len(got) = Len(handed[d]) + 1 /\ Len(handed[d]) \in Nat
      BY <3>1
    <3>3. \A n \in DOMAIN handed[d] : got[n] = handed[d][n]
      BY <3>1
    <3>4. DOMAIN handed[d] = 1 .. Len(handed[d]) /\ DOMAIN got = 1 .. Len(got)
      BY <3>1, <3>2
    <3> QED BY <3>2, <3>3, <3>4
  <2>5. [handed EXCEPT ![d] = got][d] = got
    BY <2>2, <1>a DEF FiscalTypes
  <2> HIDE DEF got
  <2>a. row[d].id \in 0 .. Len(got) /\ (row[d].id # 0 => got[row[d].id] = "NS")
    BY <2>2, <2>3, <2>4 DEF NamesRefused
  <2>b. \A n \in DOMAIN got \ unnamed[d] : n # row[d].id /\ n # Len(got) => got[n] = "NS"
    <3> SUFFICES ASSUME NEW n \in DOMAIN got, n \notin unnamed[d], n # row[d].id, n # Len(got) PROVE got[n] = "NS"
      OBVIOUS
    <3>1. n \in DOMAIN handed[d] /\ got[n] = handed[d][n] /\ n # Len(handed[d])
      BY <2>3, <2>4
    <3> QED BY <3>1, <2>2, <1>d DEF RowKnows
  <2>c. \A n \in DOMAIN got : row[d].id < n /\ n < Len(got) => n \in unnamed[d]
    <3> SUFFICES ASSUME NEW n \in DOMAIN got, row[d].id < n, n < Len(got) PROVE n \in unnamed[d]
      OBVIOUS
    <3>1. n \in DOMAIN handed[d] /\ (n < Len(handed[d]) \/ n = Len(handed[d])) /\ row[d].id \in Nat
      BY <2>3, <2>4
    <3> QED BY <3>1, <2>2, <2>3, <1>d DEF RowKnows
  <2>d. ~Sendable("sent") /\ \A t : Means("sent", t)
    BY DEF Sendable, Means
  <2>6. CASE /\ handed' = [handed EXCEPT ![d] = got] /\ UNCHANGED unnamed
             /\ task' = [task EXCEPT ![h].pc = "name", ![h].id = Len(got)]
    <3>1. /\ handed'[d] = got /\ \A e \in Doc : e # d => handed'[e] = handed[e]
          /\ task'[h].pc = "name" /\ task'[h].doc = d /\ task'[h].id = Len(got)
          /\ \A g \in Hand : g # h => task'[g] = task[g]
      BY <2>2, <2>6, <1>a DEF FiscalTypes, TaskState
    <3>2. FiscalTypes'
      <4>1. handed' \in [Doc -> Seq(Verdict)]
        BY <2>4, <2>6, <1>a DEF FiscalTypes
      <4>2. task' \in [Hand -> TaskState]
        <5> DEFINE s == task[h]
                   x == [s EXCEPT !.pc = "name", !.id = Len(got)]
        <5>1. s \in TaskState /\ task' = [task EXCEPT ![h] = x] /\ task \in [Hand -> TaskState]
          BY <2>6, <1>a DEF FiscalTypes
        <5>2. Len(got) \in Nat
          BY <2>4
        <5> HIDE DEF s
        <5>3. x \in TaskState
          BY <5>1, <5>2 DEF TaskState
        <5> HIDE DEF x
        <5> QED BY <5>1, <5>3
      <4> QED BY <2>1, <2>6, <4>1, <4>2, <1>a DEF FiscalTypes
    <3>3. RowKnows(d)'
      <4>1. row' = row /\ unnamed' = unnamed /\ handed'[d] = got
        BY <2>1, <2>6, <3>1
      <4>2. (\E g \in Hand : task[g].pc = "name" /\ task[g].doc = d)'
        BY <3>1
      <4>3. (\A n \in DOMAIN handed[d] \ unnamed[d] : n # row[d].id /\ n # Len(handed[d]) => handed[d][n] = "NS")'
        BY <4>1, <2>b
      <4>4. (\A n \in DOMAIN handed[d] : row[d].id < n /\ n < Len(handed[d]) => n \in unnamed[d])'
        BY <4>1, <2>c
      <4>5. (row[d].id \in 0 .. Len(handed[d]))' /\ (Sendable(row[d].status) => NamesRefused(d))'
        BY <4>1, <2>2, <2>a, <2>d DEF NamesRefused
      <4>6. Shows(d, row[d].status)'
        BY <4>1, <2>2, <2>a, <2>d DEF Shows
      <4> QED BY <4>2, <4>3, <4>4, <4>5, <4>6 DEF RowKnows
    <3>4. HandKnows(h)'
      BY <2>1, <2>2, <2>a, <3>1 DEF HandKnows, NamesRefused
    <3> QED BY <2>1, <2>2, <2>6, <3>1, <3>2, <3>3, <3>4, HandSteps
  <2>7. CASE /\ handed' = [handed EXCEPT ![d] = got] /\ unnamed' = [unnamed EXCEPT ![d] = @ \cup {Len(got)}]
             /\ task' = [task EXCEPT ![h].pc = "fail"]
    <3>1. /\ handed'[d] = got /\ \A e \in Doc : e # d => handed'[e] = handed[e] /\ unnamed'[e] = unnamed[e]
          /\ unnamed'[d] = unnamed[d] \cup {Len(got)}
          /\ task'[h].pc = "fail" /\ task'[h].doc = d
          /\ \A g \in Hand : g # h => task'[g] = task[g]
      BY <2>2, <2>7, <1>a DEF FiscalTypes, TaskState
    <3>2. FiscalTypes'
      <4>1. handed' \in [Doc -> Seq(Verdict)]
        BY <2>4, <2>7, <1>a DEF FiscalTypes
      <4>2. task' \in [Hand -> TaskState]
        <5> DEFINE s == task[h]
                   x == [s EXCEPT !.pc = "fail"]
        <5>1. s \in TaskState /\ task' = [task EXCEPT ![h] = x] /\ task \in [Hand -> TaskState]
          BY <2>7, <1>a DEF FiscalTypes
        <5> HIDE DEF s
        <5>2. x \in TaskState
          BY <5>1 DEF TaskState
        <5> HIDE DEF x
        <5> QED BY <5>1, <5>2
      <4>3. unnamed' \in [Doc -> SUBSET Nat]
        <5>1. Len(got) \in Nat /\ unnamed \in [Doc -> SUBSET Nat]
          BY <2>4, <1>a DEF FiscalTypes
        <5> QED BY <2>2, <2>7, <5>1
      <4> QED BY <2>1, <4>1, <4>2, <4>3, <1>a DEF FiscalTypes
    <3>3. RowKnows(d)'
      BY <2>1, <2>2, <2>a, <2>b, <2>c, <2>d, <3>1 DEF RowKnows, NamesRefused, Shows
    <3>4. HandKnows(h)'
      BY <2>1, <2>2, <2>a, <3>1 DEF HandKnows, NamesRefused
    <3> QED BY <2>1, <2>2, <3>1, <3>2, <3>3, <3>4, HandSteps
  <2>8. CASE task' = [task EXCEPT ![h].pc = "fail"] /\ UNCHANGED <<handed, unnamed>>
    <3>1. /\ task'[h].pc = "fail" /\ task'[h].doc = d /\ \A g \in Hand : g # h => task'[g] = task[g]
      BY <2>8, <1>a DEF FiscalTypes, TaskState
    <3>2. FiscalTypes'
      BY <2>1, <2>2, <2>8, <1>a DEF FiscalTypes, TaskState
    <3>3. RowKnows(d)'
      BY <2>1, <2>2, <2>8, <3>1, <1>d DEF RowKnows, NamesRefused, Shows
    <3>4. HandKnows(h)'
      BY <2>1, <2>2, <2>8, <3>1 DEF HandKnows, NamesRefused
    <3> QED BY <2>1, <2>2, <2>8, <3>1, <3>2, <3>3, <3>4, HandSteps
  <2> QED BY <1>5, <2>5, <2>6, <2>7, <2>8 DEF SendCall, Turns, got
<1>6. ASSUME NEW h \in Hand, SendName(h) PROVE FiscalInv'
  <2>o. task[h].pc # "rest" /\ task[h].doc \in Doc
    BY <1>6, <1>b DEF SendName, IsAt
  <2>p. PICK d \in Doc : d = task[h].doc
    BY <2>o
  <2> USE <2>p
  <2>1. /\ task[h].pc = "name" /\ row' = [row EXCEPT ![d].id = task[h].id] /\ UNCHANGED <<handed, unnamed>>
        /\ task' = [task EXCEPT ![h] = Rest]
    BY <1>6 DEF SendName, IsAt, Rests
  <2>2. /\ d \in Doc /\ row[d].status = "sent" /\ task[h].id = Len(handed[d]) /\ NamesRefused(d)
        /\ \A g \in Hand : g # h /\ task[g].pc # "rest" => task[g].doc # d
    BY <2>1, <1>b, <1>c, <1>e DEF HandKnows
  <2>3. /\ task'[h] = Rest /\ \A g \in Hand : g # h => task'[g] = task[g]
        /\ row'[d].status = "sent" /\ row'[d].id = Len(handed[d]) /\ \A e \in Doc : e # d => row'[e] = row[e]
    BY <2>1, <2>2, <1>a DEF FiscalTypes, TaskState
  <2>4. FiscalTypes'
    <3>1. row' \in [Doc -> [status : Outcome \cup {"unsent", "error"}, id : Nat]]
      <4> DEFINE s == row[d]
                 x == [s EXCEPT !.id = task[h].id]
      <4>1. s \in [status : Outcome \cup {"unsent", "error"}, id : Nat] /\ row' = [row EXCEPT ![d] = x] /\ row \in [Doc -> [status : Outcome \cup {"unsent", "error"}, id : Nat]]
        BY <2>1, <2>2, <1>a DEF FiscalTypes
      <4>2. task[h].id \in Nat
        BY <1>a DEF FiscalTypes, TaskState
      <4> HIDE DEF s
      <4>3. x \in [status : Outcome \cup {"unsent", "error"}, id : Nat]
        BY <4>1, <4>2
      <4> HIDE DEF x
      <4> QED BY <4>1, <4>3
    <3>2. Rest \in TaskState /\ task \in [Hand -> TaskState]
      BY <1>a, RestIs DEF FiscalTypes
    <3>3. task' \in [Hand -> TaskState]
      BY <2>1, <3>2
    <3> QED BY <2>1, <3>1, <3>3, <1>a DEF FiscalTypes
  <2>5. RowKnows(d)'
    <3>1. handed[d] \in Seq(Verdict) /\ Len(handed[d]) \in Nat
      BY <2>2, <1>a DEF FiscalTypes
    <3>2. \A n \in DOMAIN handed[d] \ unnamed[d] : n # Len(handed[d]) => handed[d][n] = "NS"
      <4> SUFFICES ASSUME NEW n \in DOMAIN handed[d], n \notin unnamed[d], n # Len(handed[d]) PROVE handed[d][n] = "NS"
        OBVIOUS
      <4>1. n # 0
        BY <3>1
      <4> QED BY <2>2, <4>1, <1>d DEF RowKnows, NamesRefused
    <3>3. ~Sendable("sent") /\ \A t : Means("sent", t)
      BY DEF Sendable, Means
    <3>4. Len(handed[d]) \in 0 .. Len(handed[d]) /\ \A n \in DOMAIN handed[d] : ~(Len(handed[d]) < n)
      BY <3>1
    <3>5. handed' = handed /\ unnamed' = unnamed /\ row'[d].id = Len(handed[d]) /\ row'[d].status = "sent"
      BY <2>1, <2>3
    <3>6. (row[d].id \in 0 .. Len(handed[d]) /\ (Len(handed[d]) = row[d].id \/ Len(handed[d]) \in unnamed[d]))'
      BY <3>4, <3>5
    <3>7. (\A n \in DOMAIN handed[d] \ unnamed[d] : n # row[d].id /\ n # Len(handed[d]) => handed[d][n] = "NS")'
      BY <3>2, <3>5
    <3>8. (\A n \in DOMAIN handed[d] : row[d].id < n /\ n < Len(handed[d]) => n \in unnamed[d])'
      BY <3>4, <3>5
    <3>9. (Sendable(row[d].status) => NamesRefused(d))' /\ Shows(d, row[d].status)'
      BY <3>3, <3>5 DEF Shows
    <3> QED BY <3>6, <3>7, <3>8, <3>9 DEF RowKnows
  <2>6. HandKnows(h)'
    BY <2>3 DEF HandKnows, Rest
  <2>e. /\ task'[h].pc = "rest" /\ \A g \in Hand : g # h => task'[g] = task[g]
        /\ \A e \in Doc : e # d => row'[e] = row[e] /\ handed'[e] = handed[e] /\ unnamed'[e] = unnamed[e]
    BY <2>1, <2>3 DEF Rest
  <2> QED BY <2>2, <2>4, <2>5, <2>6, <2>e, HandSteps
<1>7. ASSUME NEW h \in Hand, SendFail(h) \/ Told(h) PROVE FiscalInv'
  <2>o. task[h].pc # "rest" /\ task[h].doc \in Doc
    BY <1>7, <1>b DEF SendFail, Told, IsAt
  <2>p. PICK d \in Doc : d = task[h].doc
    BY <2>o
  <2> USE <2>p
  <2>1. /\ task[h].pc \in {"fail", "told"} /\ UNCHANGED <<handed, unnamed>> /\ task' = [task EXCEPT ![h] = Rest]
        /\ row' = [row EXCEPT ![d].status = IF task[h].pc = "fail" THEN "error" ELSE task[h].said]
    BY <1>7 DEF SendFail, Told, IsAt, Rests
  <2>2. /\ d \in Doc
        /\ \A g \in Hand : g # h /\ task[g].pc # "rest" => task[g].doc # d
    BY <2>1, <1>b, <1>c
  <2>3. PICK status \in Outcome \cup {"error"} :
          /\ row' = [row EXCEPT ![d].status = status]
          /\ Shows(d, status)
          /\ Sendable(status) => NamesRefused(d)
    <3>1. CASE task[h].pc = "fail"
      BY <2>1, <3>1, <1>e DEF HandKnows, Shows, Means
    <3>2. CASE task[h].pc = "told"
      <4>1. row' = [row EXCEPT ![d].status = task[h].said] /\ task[h].said \in Outcome /\ Shows(d, task[h].said)
        BY <2>1, <3>2, <1>e DEF HandKnows
      <4>2. Sendable(task[h].said) => NamesRefused(d)
        BY <4>1 DEF Sendable, Outcome, Shows, Means, NamesRefused
      <4> QED BY <4>1, <4>2
    <3> QED BY <2>1, <3>1, <3>2
  <2>4. /\ task'[h] = Rest /\ \A g \in Hand : g # h => task'[g] = task[g]
        /\ row'[d].status = status /\ row'[d].id = row[d].id /\ \A e \in Doc : e # d => row'[e] = row[e]
    BY <2>1, <2>2, <2>3, <1>a DEF FiscalTypes, TaskState
  <2>5. FiscalTypes'
    <3>1. row' \in [Doc -> [status : Outcome \cup {"unsent", "error"}, id : Nat]]
      <4> DEFINE r == row[d]
                 x == [r EXCEPT !.status = status]
      <4>1. r \in [status : Outcome \cup {"unsent", "error"}, id : Nat] /\ row' = [row EXCEPT ![d] = x] /\ row \in [Doc -> [status : Outcome \cup {"unsent", "error"}, id : Nat]]
        BY <2>2, <2>3, <1>a DEF FiscalTypes
      <4> HIDE DEF r
      <4>2. x \in [status : Outcome \cup {"unsent", "error"}, id : Nat]
        BY <4>1
      <4> HIDE DEF x
      <4> QED BY <4>1, <4>2
    <3>2. task' \in [Hand -> TaskState]
      BY <2>1, <1>a, RestIs DEF FiscalTypes
    <3> QED BY <2>1, <3>1, <3>2, <1>a DEF FiscalTypes
  <2>6. RowKnows(d)'
    <3>1. RowKnows(d) /\ task'[h].pc = "rest" /\ task[h].pc # "name"
      BY <2>1, <2>2, <2>4, <1>d DEF Rest
    <3>2. Len(handed[d]) = row[d].id \/ Len(handed[d]) \in unnamed[d]
      BY <2>1, <2>2, <3>1 DEF RowKnows
    <3>3. handed' = handed /\ unnamed' = unnamed
      BY <2>1
    <3> QED BY <2>2, <2>3, <2>4, <3>1, <3>2, <3>3, RowStays
  <2>7. HandKnows(h)'
    BY <2>4 DEF HandKnows, Rest
  <2>e. /\ task'[h].pc = "rest" /\ \A g \in Hand : g # h => task'[g] = task[g]
        /\ \A e \in Doc : e # d => row'[e] = row[e] /\ handed'[e] = handed[e] /\ unnamed'[e] = unnamed[e]
    BY <2>1, <2>4 DEF Rest
  <2> QED BY <2>2, <2>5, <2>6, <2>7, <2>e, HandSteps
<1>8. ASSUME NEW h \in Hand, SendEnds(h) PROVE FiscalInv'
  <2>o. task[h].pc # "rest" /\ task[h].doc \in Doc
    BY <1>8, <1>b DEF SendEnds
  <2>p. PICK d \in Doc : d = task[h].doc
    BY <2>o
  <2> USE <2>p
  <2>1. /\ task[h].pc \in {"mark", "draft", "send", "name", "fail"} /\ UNCHANGED <<row, handed>>
        /\ task' = [task EXCEPT ![h] = Rest]
        /\ unnamed' = IF task[h].pc = "name" THEN [unnamed EXCEPT ![d] = @ \cup {task[h].id}] ELSE unnamed
    BY <1>8 DEF SendEnds, IsAt, Rests
  <2>2. /\ d \in Doc /\ (task[h].pc = "name" => task[h].id = Len(handed[d]))
        /\ \A g \in Hand : g # h /\ task[g].pc # "rest" => task[g].doc # d
    BY <2>1, <1>b, <1>c, <1>e DEF HandKnows
  <2>3. task'[h] = Rest /\ \A g \in Hand : g # h => task'[g] = task[g]
    BY <2>1, <1>a DEF FiscalTypes
  <2>4. /\ unnamed \in [Doc -> SUBSET Nat] /\ task[h].id \in Nat
        /\ \A e \in Doc : e # d => unnamed'[e] = unnamed[e]
        /\ unnamed'[d] = IF task[h].pc = "name" THEN unnamed[d] \cup {task[h].id} ELSE unnamed[d]
    <3>1. unnamed \in [Doc -> SUBSET Nat] /\ task[h].id \in Nat
      BY <1>a DEF FiscalTypes, TaskState
    <3> QED BY <2>1, <2>2, <3>1
  <2>5. FiscalTypes'
    <3>1. task' \in [Hand -> TaskState]
      BY <2>1, <1>a, RestIs DEF FiscalTypes
    <3>2. unnamed' \in [Doc -> SUBSET Nat]
      BY <2>1, <2>2, <2>4
    <3> QED BY <2>1, <3>1, <3>2, <1>a DEF FiscalTypes
  <2>6. RowKnows(d)'
    <3>1. RowKnows(d) /\ task'[h].pc = "rest"
      BY <2>2, <2>3, <1>d DEF Rest
    <3>2. Len(handed[d]) = row[d].id \/ Len(handed[d]) \in unnamed'[d]
      <4>1. CASE task[h].pc = "name"
        BY <2>2, <2>4, <4>1
      <4>2. CASE task[h].pc # "name"
        BY <2>1, <2>2, <2>4, <3>1, <4>2 DEF RowKnows
      <4> QED BY <4>1, <4>2
    <3>3. unnamed[d] \subseteq unnamed'[d]
      BY <2>4
    <3>4. handed' = handed /\ row' = row /\ (Sendable(row[d].status) => NamesRefused(d)) /\ Shows(d, row[d].status)
      BY <2>1, <3>1 DEF RowKnows
    <3> QED BY <2>2, <3>1, <3>2, <3>3, <3>4, RowStays
  <2>7. HandKnows(h)'
    BY <2>3 DEF HandKnows, Rest
  <2>e. /\ task'[h].pc = "rest" /\ \A g \in Hand : g # h => task'[g] = task[g]
        /\ \A e \in Doc : e # d => row'[e] = row[e] /\ handed'[e] = handed[e] /\ unnamed'[e] = unnamed[e]
    BY <2>1, <2>3, <2>4 DEF Rest
  <2> QED BY <2>2, <2>5, <2>6, <2>7, <2>e, HandSteps
<1>9. ASSUME NEW d \in Doc, Decide(d) PROVE FiscalInv'
  <2>1. PICK n \in DOMAIN handed[d], said \in Judged :
          /\ handed[d][n] = "waits"
          /\ handed' = [handed EXCEPT ![d][n] = said]
          /\ UNCHANGED <<row, task, unnamed>>
    BY <1>9 DEF Decide
  <2>2. /\ handed[d] \in Seq(Verdict)
        /\ handed'[d] = [handed[d] EXCEPT ![n] = said] /\ \A e \in Doc : e # d => handed'[e] = handed[e]
    BY <2>1, <1>a DEF FiscalTypes
  <2>3. /\ handed'[d] \in Seq(Verdict) /\ Len(handed'[d]) = Len(handed[d]) /\ DOMAIN handed'[d] = DOMAIN handed[d]
        /\ \A m \in DOMAIN handed[d] : m # n => handed'[d][m] = handed[d][m]
    BY <2>1, <2>2 DEF Verdict
  <2>4. FiscalTypes'
    BY <2>1, <2>3, <1>a DEF FiscalTypes
  <2>5. OneHand'
    BY <2>1, <1>a DEF OneHand
  <2>6. \A s : Means(s, "waits") => \A t : Means(s, t)
    BY DEF Means
  <2>7. row[d].id # 0 => row[d].id \in DOMAIN handed[d]
    BY <2>2, <1>d DEF RowKnows
  <2>8. NamesRefused(d) => NamesRefused(d)'
    BY <2>1, <2>3, <2>7 DEF NamesRefused
  <2>11. RowsKnow'
    <3>1. ASSUME NEW e \in Doc, e # d PROVE RowKnows(e)'
      BY <3>1, <2>1, <2>2, <1>d DEF RowKnows, NamesRefused, Shows
    <3>2. RowKnows(d)'
      <4>1. Shows(d, row[d].status)'
        <5>1. Shows(d, row[d].status)
          BY <1>d DEF RowKnows
        <5> QED BY <2>1, <2>3, <2>6, <2>7, <5>1 DEF Shows
      <4>2. Sendable(row[d].status) => NamesRefused(d)'
        BY <2>8, <1>d DEF RowKnows
      <4>3. \A m \in DOMAIN handed[d] \ unnamed[d] : m # row[d].id /\ m # Len(handed[d]) => handed'[d][m] = "NS"
        BY <2>1, <2>3, <1>d DEF RowKnows
      <4> QED BY <2>1, <2>3, <4>1, <4>2, <4>3, <1>d DEF RowKnows, NamesRefused, Shows
    <3> QED BY <3>1, <3>2 DEF RowsKnow
  <2>12. HandsKnow'
    <3>1. ASSUME NEW h \in Hand, task[h].doc # d \/ task[h].pc = "rest" PROVE HandKnows(h)'
      BY <3>1, <2>1, <2>2, <1>b, <1>e, ElsewhereKnown
    <3>2. ASSUME NEW h \in Hand, task[h].doc = d, task[h].pc # "rest" PROVE HandKnows(h)'
      <4>1. task[h].pc \in {"mark", "draft", "send", "fail", "name"} => NamesRefused(d)'
        BY <3>2, <2>8, <1>e DEF HandKnows
      <4>2. task[h].pc = "told" => task[h].said \in Outcome /\ Shows(d, task[h].said)'
        <5>1. task[h].pc = "told" => task[h].said \in Outcome /\ Shows(d, task[h].said)
          BY <3>2, <1>e DEF HandKnows
        <5> QED BY <2>1, <2>3, <2>6, <2>7, <5>1 DEF Shows
      <4> QED BY <2>1, <2>3, <3>2, <4>1, <4>2, <1>e DEF HandKnows, NamesRefused, Shows
    <3> QED BY <3>1, <3>2 DEF HandsKnow
  <2> QED BY <2>4, <2>5, <2>11, <2>12 DEF FiscalInv
<1>10. CASE UNCHANGED fiscalVars
  BY <1>10, <1>a DEF fiscalVars, FiscalInv, FiscalTypes, OneHand, RowsKnow, RowKnows, HandsKnow, HandKnows, NamesRefused, Shows
<1> QED BY <1>1, <1>2, <1>3, <1>4, <1>5, <1>6, <1>7, <1>8, <1>9, <1>10 DEF FiscalNext, FiscalSteps

LEMMA FiscalInvInit ==
  ASSUME FiscalInit
  PROVE  FiscalInv
<1>1. FiscalTypes
  BY DEF FiscalInit, FiscalTypes, TaskState, Rest
<1>2. OneHand /\ HandsKnow
  BY DEF FiscalInit, OneHand, HandsKnow, HandKnows, Rest
<1>3. RowsKnow
  BY DEF FiscalInit, RowsKnow, RowKnows, NamesRefused, Shows, Means
<1> QED BY <1>1, <1>2, <1>3 DEF FiscalInv

LEMMA FiscalInvMeans ==
  ASSUME FiscalInv
  PROVE  FiscalRight
<1>1. SentOnce
  <2>1. SUFFICES ASSUME NEW d \in Doc
                 PROVE  Cardinality({n \in DOMAIN handed[d] \ unnamed[d] : handed[d][n] # "NS"}) <= 1
    BY DEF SentOnce
  <2> DEFINE left == {n \in DOMAIN handed[d] \ unnamed[d] : handed[d][n] # "NS"}
  <2>2. RowKnows(d) /\ \A h \in Hand : HandKnows(h)
    BY DEF FiscalInv, RowsKnow, HandsKnow
  <2>3. \E m : left \subseteq {m}
    <3>1. CASE \E h \in Hand : task[h].pc = "name" /\ task[h].doc = d
      <4>1. left \subseteq {Len(handed[d])}
        BY <2>2, <3>1 DEF RowKnows, HandKnows, NamesRefused
      <4> QED BY <4>1
    <3>2. CASE \A h \in Hand : ~(task[h].pc = "name" /\ task[h].doc = d)
      <4>1. left \subseteq {row[d].id}
        BY <2>2, <3>2 DEF RowKnows
      <4> QED BY <4>1
    <3> QED BY <3>1, <3>2
  <2>4. PICK m : left \subseteq {m}
    BY <2>3
  <2>5. CASE left = {}
    <3>1. Cardinality(left) = 0
      BY <2>5, FS_EmptySet
    <3> QED BY <3>1
  <2>6. CASE left # {}
    <3>1. left = {m}
      BY <2>4, <2>6
    <3>2. Cardinality(left) = 1
      BY <3>1, FS_Singleton
    <3> QED BY <3>2
  <2> QED BY <2>5, <2>6
<1>2. OutcomeTrue
  <2>1. SUFFICES ASSUME NEW d \in Doc, row[d].status \in {"delivered", "not_delivered", "rejected"}
                 PROVE  /\ row[d].id # 0 /\ row[d].id + 1 .. Len(handed[d]) \subseteq unnamed[d]
                        /\ Means(row[d].status, handed[d][row[d].id])
    BY DEF OutcomeTrue, Means
  <2>2. RowKnows(d) /\ \A h \in Hand : HandKnows(h)
    BY DEF FiscalInv, RowsKnow, HandsKnow
  <2>3. \A h \in Hand : ~(task[h].pc = "name" /\ task[h].doc = d)
    BY <2>1, <2>2 DEF HandKnows
  <2>4. Len(handed[d]) = row[d].id \/ Len(handed[d]) \in unnamed[d]
    BY <2>2, <2>3 DEF RowKnows
  <2>5. handed[d] \in Seq(Verdict) /\ row[d].id \in Nat
    BY DEF FiscalInv, FiscalTypes
  <2>6. ASSUME NEW n \in row[d].id + 1 .. Len(handed[d]) PROVE n \in unnamed[d]
    BY <2>2, <2>4, <2>5 DEF RowKnows
  <2> QED BY <2>1, <2>2, <2>6 DEF RowKnows, Shows
<1> QED BY <1>1, <1>2 DEF FiscalRight

\* As long as one is at an invoice at a time, whatever answers get lost and wherever
\* the process ends, all but one of the copies whose name the panel knows were refused,
\* and the row shows what the exchange said of the one it names: sendToSdi.
THEOREM FiledOnce ==
  ASSUME ~Overlap
  PROVE  FiscalSpec => []FiscalRight
<1>1. FiscalInit => FiscalInv
  BY FiscalInvInit
<1>2. FiscalInv /\ [FiscalNext]_fiscalVars => FiscalInv'
  BY FiscalInvNext
<1>3. FiscalInv => FiscalRight
  BY FiscalInvMeans
<1> QED BY <1>1, <1>2, <1>3, PTL DEF FiscalSpec

-----------------------------------------------------------------------------
(* Blocks of addresses leased at the marketplace.                         *)

BlockRow == [status : {"none", "active", "ended"}, loa : {"none", "requested", "active"}, pool : BOOLEAN]

Seat ==
  [pc : {"none", "fetch"}]
    \cup [pc : {"add", "look", "pay", "note", "fetch"}, item : Item]
    \cup [pc : {"upsert", "compare"}, seen : SUBSET Block, letters : SUBSET Block]
    \cup [pc : {"end"}, gone : SUBSET Block, pooled : SUBSET Block]
    \cup [pc : {"pool", "link"}, of : Block]

LeaseTypes ==
  /\ loa \subseteq Block
  /\ basket \in Seq(Item)
  /\ block \in [Block -> BlockRow]
  /\ pool \in [Block -> {"none", "auto", "by hand"}]
  /\ officer \in [Officer -> Seat]

OneSits == \A o, p \in Officer : officer[o].pc # "none" /\ officer[p].pc # "none" => o = p

\* What is being ordered is the last item in the cart, and the only one when it is paid.
CartKnown ==
  /\ \A r \in receipts : r.got = <<r.asked>>
  /\ \A o \in Officer :
       /\ officer[o].pc = "look" => basket # <<>> /\ basket[Len(basket)] = officer[o].item
       /\ officer[o].pc = "pay" => basket = <<officer[o].item>>

\* A pool no row knows of is being linked; the rows that a synchronisation ends
\* had their pools when it compared them; a block is active while it gets one.
PoolsKnown ==
  /\ \A b \in Block : pool[b] # "none" /\ ~block[b].pool
       => \E o \in Officer : officer[o].pc = "link" /\ officer[o].of = b
  /\ \A o \in Officer :
       /\ officer[o].pc \in {"pool", "link"} => block[officer[o].of].status = "active"
       /\ officer[o].pc = "end" => \A b \in officer[o].gone : block[b].pool => b \in officer[o].pooled

LeaseInv == LeaseTypes /\ OneSits /\ CartKnown /\ PoolsKnown /\ EndedIsIdle

\* A step of the one that is at work, which leaves rows and pools alone.
LEMMA SeatStep ==
  ASSUME NEW o \in Officer, NEW x \in Seat, LeaseInv,
         \A p \in Officer : p # o => officer[p].pc = "none",
         officer' = [officer EXCEPT ![o] = x], basket' \in Seq(Item), loa' \subseteq Block,
         UNCHANGED panelRows, officer[o].pc # "link", x.pc # "link",
         x.pc = "pool" => block[x.of].status = "active",
         x.pc = "end" => \A b \in x.gone : block[b].pool => b \in x.pooled,
         x.pc = "look" => basket' # <<>> /\ basket'[Len(basket')] = x.item,
         x.pc = "pay" => basket' = <<x.item>>,
         \A r \in receipts' : r.got = <<r.asked>>
  PROVE  LeaseInv'
<1>1. /\ officer \in [Officer -> Seat] /\ LeaseTypes /\ OneSits /\ CartKnown /\ PoolsKnown /\ EndedIsIdle
      /\ block' = block /\ pool' = pool
  BY DEF LeaseInv, LeaseTypes, panelRows
<1>2. officer'[o] = x /\ \A p \in Officer : p # o => officer'[p].pc = "none"
  BY <1>1
<1>3. LeaseTypes'
  BY <1>1 DEF LeaseTypes
<1>4. OneSits'
  BY <1>2 DEF OneSits
<1>5. CartKnown'
  BY <1>2 DEF CartKnown
<1>6. PoolsKnown'
  <2>1. \A b \in Block : pool[b] # "none" => block[b].pool
    BY <1>1 DEF PoolsKnown
  <2> QED BY <1>1, <1>2, <2>1 DEF PoolsKnown
<1> QED BY <1>1, <1>3, <1>4, <1>5, <1>6 DEF LeaseInv, EndedIsIdle

\* What an order and what a pool's creation go on with.
LEMMA OrderGoesOn ==
  ASSUME NEW s \in [pc : {"add", "look", "pay", "note", "fetch"}, item : Item], NEW pc \in {"look", "pay"}
  PROVE  [s EXCEPT !.pc = pc] = [pc |-> pc, item |-> s.item] /\ [pc |-> pc, item |-> s.item] \in Seat
BY DEF Seat

LEMMA PoolGoesOn ==
  ASSUME NEW s \in [pc : {"pool", "link"}, of : Block]
  PROVE  [s EXCEPT !.pc = "link"] = [pc |-> "link", of |-> s.of] /\ [pc |-> "link", of |-> s.of] \in Seat
BY DEF Seat

LEMMA LeaseInvNext ==
  ASSUME ~Rival, LeaseInv, [LeasedBlocksNext]_blockVars
  PROVE  LeaseInv'
<1>a. /\ LeaseTypes /\ OneSits /\ CartKnown /\ PoolsKnown /\ EndedIsIdle
      /\ \A o \in Officer : officer[o] \in Seat
  BY DEF LeaseInv, LeaseTypes
<1>b. ASSUME NEW o \in Officer, officer[o].pc # "none"
      PROVE  \A p \in Officer : p # o => officer[p].pc = "none"
  BY <1>a, <1>b DEF OneSits
<1>e. basket \in Seq(Item) /\ <<>> \in Seq(Item)
  <2>1. basket \in Seq(Item)
    BY <1>a DEF LeaseTypes
  <2>2. <<>> \in Seq(Item)
    OBVIOUS
  <2> QED BY <2>1, <2>2
<1>c. Seated \in Seat /\ Seated.pc = "none"
  BY DEF Seated, Seat
<1>d. ASSUME NEW o \in Officer, Sits(o) PROVE \A p \in Officer : officer[p].pc = "none"
  BY <1>d DEF Sits, Seated
<1>1. ASSUME NEW o \in Officer, NEW i \in Item, AskFor(o, i) PROVE LeaseInv'
  <2> DEFINE x == [pc |-> "add", item |-> i]
  <2>1. /\ Sits(o) /\ officer' = [officer EXCEPT ![o] = x] /\ UNCHANGED <<marketVars, panelRows>>
    BY <1>1 DEF AskFor, MovesTo
  <2>2. x \in Seat
    BY DEF Seat
  <2>3. basket' \in Seq(Item) /\ loa' \subseteq Block /\ receipts' = receipts /\ \A p \in Officer : officer[p].pc = "none"
    BY <2>1, <1>a, <1>d DEF marketVars, LeaseTypes
  <2> QED BY <2>1, <2>2, <2>3, <1>a, SeatStep DEF CartKnown
<1>2. ASSUME NEW o \in Officer, StartSync(o) \/ Fetch(o) PROVE LeaseInv'
  <2>1. UNCHANGED <<marketVars, panelRows>> /\ officer[o].pc \in {"none", "fetch"} /\ \A p \in Officer : p # o => officer[p].pc = "none"
    BY <1>2, <1>b, <1>d DEF StartSync, Fetch
  <2>2. basket' \in Seq(Item) /\ loa' \subseteq Block /\ receipts' = receipts
    BY <2>1, <1>a DEF marketVars, LeaseTypes
  <2>3. CASE officer' = [officer EXCEPT ![o] = Seated]
    BY <2>1, <2>2, <2>3, <1>a, <1>c, SeatStep DEF CartKnown
  <2>4. CASE officer' = [officer EXCEPT ![o] = [pc |-> "fetch"]]
    <3>1. [pc |-> "fetch"] \in Seat
      BY DEF Seat
    <3> QED BY <2>1, <2>2, <2>4, <3>1, <1>a, SeatStep DEF CartKnown
  <2>5. CASE officer' = [officer EXCEPT ![o] = [pc |-> "upsert", seen |-> {b \in Block : contract[b] = "active"}, letters |-> loa]]
    <3> DEFINE x == [pc |-> "upsert", seen |-> {b \in Block : contract[b] = "active"}, letters |-> loa]
    <3>1. x \in Seat /\ x.pc = "upsert"
      BY <1>a DEF Seat, LeaseTypes
    <3>2. officer' = [officer EXCEPT ![o] = x]
      BY <2>5
    <3> HIDE DEF x
    <3> QED BY <2>1, <2>2, <3>1, <3>2, <1>a, SeatStep DEF CartKnown
  <2> QED BY <1>2, <2>3, <2>4, <2>5 DEF StartSync, Fetch, Throws, MovesTo
<1>3. ASSUME NEW o \in Officer, AddItem(o) \/ LookAtCart(o) \/ PayCart(o) PROVE LeaseInv'
  <2> DEFINE i == officer[o].item
  <2>1. /\ officer[o].pc \in {"add", "look", "pay"} /\ i \in Item /\ UNCHANGED panelRows
        /\ officer[o] \in [pc : {"add", "look", "pay", "note", "fetch"}, item : Item]
    BY <1>3, <1>a DEF AddItem, LookAtCart, PayCart, Seat
  <2>2. \A p \in Officer : p # o => officer[p].pc = "none"
    BY <2>1, <1>b
  <2>3. ASSUME NEW x \in Seat, officer' = [officer EXCEPT ![o] = x], x.pc \in {"none", "note", "fetch"},
               basket' \in Seq(Item), loa' \subseteq Block, \A r \in receipts' : r.got = <<r.asked>>
        PROVE  LeaseInv'
    BY <2>1, <2>2, <2>3, SeatStep
  <2>4. CASE AddItem(o)
    <3>1. basket' \in {basket, Append(basket, i)} /\ loa' = loa /\ receipts' = receipts
      BY <2>4 DEF AddItem
    <3>5. basket \in Seq(Item) /\ basket' \in Seq(Item)
      <4>1. Append(basket, i) \in Seq(Item)
        BY <2>1, <1>e
      <4> QED BY <3>1, <4>1, <1>e
    <3>2. basket' \in Seq(Item) /\ loa' \subseteq Block /\ \A r \in receipts' : r.got = <<r.asked>>
      BY <3>1, <3>5, <1>a DEF LeaseTypes, CartKnown
    <3>3. CASE officer' = [officer EXCEPT ![o] = Seated]
      BY <2>3, <3>2, <3>3, <1>c
    <3>4. CASE basket' = Append(basket, i) /\ officer' = [officer EXCEPT ![o] = [officer[o] EXCEPT !.pc = "look"]]
      <4> DEFINE x == [pc |-> "look", item |-> i]
      <4>1. officer' = [officer EXCEPT ![o] = x]
        BY <2>1, <3>4, OrderGoesOn
      <4>2. x \in Seat
        BY <2>1 DEF Seat
      <4>3. basket' # <<>> /\ basket'[Len(basket')] = i
        <5>1. basket' = Append(basket, i) /\ i \in Item /\ basket \in Seq(Item)
          BY <2>1, <3>4, <3>5
        <5>2. Len(basket') = Len(basket) + 1 /\ Len(basket) \in Nat /\ basket'[Len(basket) + 1] = i
          BY <5>1
        <5>3. basket' # <<>>
          BY <5>2
        <5> QED BY <5>2, <5>3
      <4> QED BY <2>1, <2>2, <3>2, <4>1, <4>2, <4>3, SeatStep
    <3> QED BY <2>4, <3>3, <3>4 DEF AddItem, Throws, MovesTo
  <2>5. CASE LookAtCart(o)
    <3>1. UNCHANGED marketVars /\ officer[o].pc = "look"
      BY <2>5 DEF LookAtCart
    <3>2. basket' \in Seq(Item) /\ loa' \subseteq Block /\ \A r \in receipts' : r.got = <<r.asked>>
      BY <3>1, <1>a DEF LeaseTypes, CartKnown, marketVars
    <3>3. CASE officer' = [officer EXCEPT ![o] = Seated]
      BY <2>3, <3>2, <3>3, <1>c
    <3>4. CASE HoldsOneItem /\ officer' = [officer EXCEPT ![o] = [officer[o] EXCEPT !.pc = "pay"]]
      <4> DEFINE x == [pc |-> "pay", item |-> i]
      <4>1. officer' = [officer EXCEPT ![o] = x]
        BY <2>1, <3>4, OrderGoesOn
      <4>2. x \in Seat
        BY <2>1 DEF Seat
      <4>3. basket' = <<i>>
        <5>1. basket # <<>> /\ basket[Len(basket)] = i /\ Len(basket) <= 1 /\ basket \in Seq(Item) /\ basket' = basket
          BY <3>1, <3>4, <1>a DEF CartKnown, HoldsOneItem, LeaseTypes, marketVars
        <5>2. Len(basket) \in Nat /\ Len(basket) # 0
          BY <5>1
        <5>3. Len(basket) = 1
          <6>1. \A n \in Nat : n # 0 /\ n <= 1 => n = 1
            OBVIOUS
          <6> QED BY <5>1, <5>2, <6>1
        <5> QED BY <2>1, <5>1, <5>3
      <4> QED BY <2>1, <2>2, <3>2, <4>1, <4>2, <4>3, SeatStep
    <3> QED BY <2>5, <3>3, <3>4 DEF LookAtCart, Throws, MovesTo
  <2>6. CASE PayCart(o)
    <3>1. basket = <<i>>
      BY <2>6, <1>a DEF PayCart, CartKnown
    <3>2. /\ basket' \in {basket, <<>>} /\ loa' \in {loa, loa \cup InBasket("loa")}
          /\ receipts' \in {receipts, receipts \cup {[asked |-> i, got |-> basket]}}
      BY <2>6 DEF PayCart, marketVars
    <3>3. InBasket("loa") \subseteq Block
      <4>1. basket = <<i>> /\ DOMAIN basket = {1} /\ basket[1] = i /\ i \in Item
        BY <2>1, <3>1
      <4> QED BY <4>1 DEF InBasket, Item
    <3>4. basket' \in Seq(Item) /\ loa' \subseteq Block /\ \A r \in receipts' : r.got = <<r.asked>>
      <4>2. basket' \in Seq(Item)
        BY <3>2, <1>e
      <4>3. loa' \subseteq Block
        BY <3>2, <3>3, <1>a DEF LeaseTypes
      <4>4. \A r \in receipts' : r.got = <<r.asked>>
        BY <3>1, <3>2, <1>a DEF CartKnown
      <4> QED BY <4>2, <4>3, <4>4
    <3>5. CASE officer' = [officer EXCEPT ![o] = Seated]
      BY <2>3, <3>4, <3>5, <1>c
    <3>6. ASSUME NEW pc \in {"note", "fetch"}, officer' = [officer EXCEPT ![o] = [pc |-> pc, item |-> i]] PROVE LeaseInv'
      <4>1. [pc |-> pc, item |-> i] \in Seat
        BY <2>1 DEF Seat
      <4> QED BY <2>3, <3>4, <3>6, <4>1
    <3> QED BY <2>6, <3>5, <3>6 DEF PayCart, Throws, MovesTo
  <2> QED BY <1>3, <2>4, <2>5, <2>6
<1>4. ASSUME NEW o \in Officer, NoteLoa(o) PROVE LeaseInv'
  <2> DEFINE b == officer[o].item.of
  <2>1. /\ officer[o].pc = "note" /\ b \in Block /\ block' = [block EXCEPT ![b].loa = "requested"]
        /\ officer' = [officer EXCEPT ![o] = Seated] /\ UNCHANGED <<marketVars, pool>>
    BY <1>4, <1>a DEF NoteLoa, MovesTo, Seat, Item
  <2>2. /\ \A p \in Officer : officer'[p].pc = "none"
        /\ \A p \in Officer : officer[p].pc # "link"
    BY <2>1, <1>a, <1>b, <1>c DEF LeaseTypes
  <2>3. \A c \in Block : block'[c].status = block[c].status /\ block'[c].pool = block[c].pool
    BY <2>1, <1>a DEF LeaseTypes, BlockRow
  <2>4. LeaseTypes'
    BY <2>1, <1>a, <1>c DEF LeaseTypes, BlockRow, marketVars
  <2>5. OneSits' /\ CartKnown'
    BY <2>1, <2>2, <1>a DEF OneSits, CartKnown, marketVars
  <2>6. PoolsKnown' /\ EndedIsIdle'
    BY <2>1, <2>2, <2>3, <1>a DEF PoolsKnown, EndedIsIdle
  <2> QED BY <2>4, <2>5, <2>6 DEF LeaseInv
<1>5. ASSUME NEW o \in Officer, UpsertBlocks(o) PROVE LeaseInv'
  <2> DEFINE s == officer[o]
             x == [pc |-> "compare", seen |-> s.seen, letters |-> s.letters]
  <2>1. /\ s \in [pc : {"upsert"}, seen : SUBSET Block, letters : SUBSET Block]
        /\ block' = [b \in Block |->
             LET turned == IF b \in s.seen THEN [block[b] EXCEPT !.status = "active"] ELSE block[b]
             IN IF b \in s.letters /\ turned.status # "none" THEN [turned EXCEPT !.loa = "active"] ELSE turned]
        /\ officer' = [officer EXCEPT ![o] = [s EXCEPT !.pc = "compare"]] /\ UNCHANGED <<marketVars, pool>>
    BY <1>5, <1>a DEF UpsertBlocks, MovesTo, Seat
  <2>2. [s EXCEPT !.pc = "compare"] = x
    BY <2>1
  <2>3. /\ officer'[o] = x /\ x \in Seat
        /\ \A p \in Officer : p # o => officer'[p].pc = "none" /\ officer[p].pc = "none"
    BY <2>1, <2>2, <1>a, <1>b DEF LeaseTypes, Seat
  <2>4. ASSUME NEW b \in Block
        PROVE  block'[b] \in BlockRow /\ block'[b].pool = block[b].pool /\ block'[b].status \in {block[b].status, "active"}
    <3> DEFINE turned == IF b \in s.seen THEN [block[b] EXCEPT !.status = "active"] ELSE block[b]
    <3>1. turned \in BlockRow /\ turned.pool = block[b].pool /\ turned.status \in {block[b].status, "active"}
      BY <1>a DEF LeaseTypes, BlockRow
    <3>2. block'[b] = IF b \in s.letters /\ turned.status # "none" THEN [turned EXCEPT !.loa = "active"] ELSE turned
      BY <2>1
    <3> HIDE DEF turned
    <3> QED BY <3>1, <3>2 DEF BlockRow
  <2>5. LeaseTypes'
    <3>1. block' \in [Block -> BlockRow]
      BY <2>1, <2>4
    <3>2. officer' \in [Officer -> Seat]
      BY <2>1, <2>2, <2>3, <1>a DEF LeaseTypes
    <3> QED BY <2>1, <3>1, <3>2, <1>a DEF LeaseTypes, marketVars
  <2>6. OneSits' /\ CartKnown'
    BY <2>1, <2>3, <1>a DEF OneSits, CartKnown, marketVars
  <2>7. PoolsKnown'
    <3>1. \A p \in Officer : officer[p].pc # "link"
      BY <2>1, <2>3
    <3>2. \A p \in Officer : officer'[p].pc \notin {"pool", "link", "end"}
      BY <2>3
    <3> QED BY <2>1, <2>4, <3>1, <3>2, <1>a DEF PoolsKnown
  <2>8. EndedIsIdle'
    BY <2>1, <2>4, <1>a DEF EndedIsIdle
  <2> QED BY <2>5, <2>6, <2>7, <2>8 DEF LeaseInv
<1>6. ASSUME NEW o \in Officer, CompareBlocks(o) PROVE LeaseInv'
  <2> DEFINE went == {b \in Block : block[b].status = "active" /\ b \notin officer[o].seen}
             pooled == {b \in went : block[b].pool}
             x == [pc |-> "end", gone |-> went, pooled |-> pooled]
  <2>1. officer[o].pc = "compare" /\ officer' = [officer EXCEPT ![o] = x] /\ UNCHANGED <<marketVars, panelRows>>
    BY <1>6 DEF CompareBlocks, MovesTo
  <2>2. x \in Seat /\ x.pc = "end" /\ \A b \in x.gone : block[b].pool => b \in x.pooled
    BY DEF Seat
  <2>3. basket' \in Seq(Item) /\ loa' \subseteq Block /\ receipts' = receipts /\ \A p \in Officer : p # o => officer[p].pc = "none"
    BY <2>1, <1>a, <1>b DEF marketVars, LeaseTypes
  <2> HIDE DEF x
  <2> QED BY <2>1, <2>2, <2>3, <1>a, SeatStep DEF CartKnown
<1>7. ASSUME NEW o \in Officer, EndBlocks(o) PROVE LeaseInv'
  <2> DEFINE s == officer[o]
  <2>1. /\ s \in [pc : {"end"}, gone : SUBSET Block, pooled : SUBSET Block]
        /\ block' = [b \in Block |-> IF b \in s.gone THEN [block[b] EXCEPT !.status = "ended"] ELSE block[b]]
        /\ pool' = [b \in Block |-> IF b \in s.pooled /\ pool[b] = "auto" THEN "by hand" ELSE pool[b]]
        /\ officer' = [officer EXCEPT ![o] = Seated] /\ UNCHANGED marketVars
    BY <1>7, <1>a DEF EndBlocks, MovesTo, Seat
  <2>2. /\ \A p \in Officer : officer'[p].pc = "none"
        /\ \A p \in Officer : officer[p].pc # "link"
    BY <2>1, <1>a, <1>b, <1>c DEF LeaseTypes
  <2>3. ASSUME NEW b \in Block
        PROVE  /\ block'[b] \in BlockRow /\ block'[b].pool = block[b].pool
               /\ block'[b].status = IF b \in s.gone THEN "ended" ELSE block[b].status
               /\ pool'[b] \in {"none", "auto", "by hand"} /\ (pool'[b] = "none" <=> pool[b] = "none")
    <3>1. block[b] \in BlockRow /\ pool[b] \in {"none", "auto", "by hand"}
      BY <1>a DEF LeaseTypes
    <3>2. [block[b] EXCEPT !.status = "ended"] \in BlockRow /\ [block[b] EXCEPT !.status = "ended"].pool = block[b].pool
      BY <3>1 DEF BlockRow
    <3>3. block'[b] \in BlockRow /\ block'[b].pool = block[b].pool
      BY <2>1, <3>1, <3>2
    <3>4. block'[b].status = IF b \in s.gone THEN "ended" ELSE block[b].status
      <4> DEFINE x == block[b]
                 y == [x EXCEPT !.status = "ended"]
      <4>1. x \in BlockRow /\ block'[b] = IF b \in s.gone THEN y ELSE x
        BY <2>1, <3>1
      <4> HIDE DEF x
      <4>2. y.status = "ended"
        BY <4>1 DEF BlockRow
      <4> HIDE DEF y
      <4>3. block'[b].status = IF b \in s.gone THEN "ended" ELSE x.status
        BY <4>1, <4>2
      <4> USE DEF x
      <4> QED BY <4>3
    <3>5. pool'[b] \in {"none", "auto", "by hand"} /\ (pool'[b] = "none" <=> pool[b] = "none")
      BY <2>1, <3>1
    <3> QED BY <3>3, <3>4, <3>5
  <2>4. LeaseTypes'
    <3>1. block' \in [Block -> BlockRow] /\ pool' \in [Block -> {"none", "auto", "by hand"}]
      BY <2>1, <2>3
    <3> QED BY <2>1, <3>1, <1>a, <1>c DEF LeaseTypes, marketVars
  <2>5. OneSits' /\ CartKnown'
    BY <2>1, <2>2, <1>a DEF OneSits, CartKnown, marketVars
  <2>6. PoolsKnown'
    <3>1. ASSUME NEW b \in Block PROVE ~(pool'[b] # "none" /\ ~block'[b].pool)
      BY <2>2, <2>3, <1>a DEF PoolsKnown
    <3> QED BY <2>2, <3>1 DEF PoolsKnown
  <2>7. EndedIsIdle'
    <3>1. ASSUME NEW b \in Block, block'[b].status = "ended" PROVE pool'[b] # "auto"
      <4>1. CASE b \in s.gone
        BY <2>1, <2>2, <4>1, <1>a DEF PoolsKnown
      <4>2. CASE b \notin s.gone
        BY <2>1, <2>3, <3>1, <4>2, <1>a DEF EndedIsIdle
      <4> QED BY <4>1, <4>2
    <3> QED BY <3>1 DEF EndedIsIdle
  <2> QED BY <2>4, <2>5, <2>6, <2>7 DEF LeaseInv
<1>8. ASSUME NEW o \in Officer, NEW b \in Block, CheckBlock(o, b) PROVE LeaseInv'
  <2> DEFINE x == [pc |-> "pool", of |-> b]
  <2>1. /\ Sits(o) /\ block[b].status = "active" /\ officer' = [officer EXCEPT ![o] = x] /\ UNCHANGED <<marketVars, panelRows>>
    BY <1>8 DEF CheckBlock, MovesTo
  <2>2. x \in Seat
    BY DEF Seat
  <2>3. basket' \in Seq(Item) /\ loa' \subseteq Block /\ receipts' = receipts /\ \A p \in Officer : officer[p].pc = "none"
    BY <2>1, <1>a, <1>d DEF marketVars, LeaseTypes
  <2> QED BY <2>1, <2>2, <2>3, <1>a, SeatStep DEF CartKnown
<1>9. ASSUME NEW o \in Officer, CreatePool(o) PROVE LeaseInv'
  <2> DEFINE b == officer[o].of
  <2>1. /\ officer[o] \in [pc : {"pool"}, of : Block] /\ b \in Block /\ block[b].status = "active" /\ UNCHANGED <<marketVars, block>>
    BY <1>9, <1>a DEF CreatePool, Seat, PoolsKnown
  <2>2. \A p \in Officer : p # o => officer[p].pc = "none"
    BY <2>1, <1>b
  <2>3. basket' \in Seq(Item) /\ loa' \subseteq Block /\ receipts' = receipts
    BY <2>1, <1>a DEF marketVars, LeaseTypes
  <2>4. CASE officer' = [officer EXCEPT ![o] = Seated] /\ pool' = pool
    <3>1. UNCHANGED panelRows /\ \A r \in receipts' : r.got = <<r.asked>>
      BY <2>1, <2>3, <2>4, <1>a DEF CartKnown, panelRows
    <3> QED BY <2>1, <2>2, <2>3, <2>4, <3>1, <1>c, SeatStep
  <2>5. ASSUME NEW kind \in {"auto", "by hand"}, pool' = [pool EXCEPT ![b] = kind],
               officer' = [officer EXCEPT ![o] = [officer[o] EXCEPT !.pc = "link"]]
        PROVE  LeaseInv'
    <3> DEFINE x == [pc |-> "link", of |-> b]
    <3>1. officer' = [officer EXCEPT ![o] = x] /\ x \in Seat
      <4>1. officer[o] \in [pc : {"pool", "link"}, of : Block]
        BY <2>1
      <4>2. [officer[o] EXCEPT !.pc = "link"] = x /\ x \in Seat
        BY <4>1, PoolGoesOn
      <4> QED BY <2>5, <4>2
    <3>2. officer'[o] = x /\ \A p \in Officer : p # o => officer'[p].pc = "none"
      BY <2>2, <3>1, <1>a DEF LeaseTypes
    <3>3. LeaseTypes'
      BY <2>1, <2>3, <2>5, <3>1, <1>a DEF LeaseTypes
    <3>4. OneSits' /\ CartKnown'
      <4>1. \A p \in Officer : officer'[p].pc \notin {"look", "pay"}
        <5>1. x.pc = "link"
          OBVIOUS
        <5> HIDE DEF x
        <5> QED BY <3>2, <5>1
      <4>2. OneSits'
        BY <3>2 DEF OneSits
      <4> QED BY <2>3, <4>1, <4>2, <1>a DEF CartKnown
    <3>5. PoolsKnown'
      BY <2>1, <2>2, <2>5, <3>2, <1>a DEF PoolsKnown, LeaseTypes
    <3>6. EndedIsIdle'
      BY <2>1, <2>5, <1>a DEF EndedIsIdle, LeaseTypes
    <3> QED BY <3>3, <3>4, <3>5, <3>6 DEF LeaseInv
  <2> QED BY <1>9, <2>4, <2>5 DEF CreatePool, MovesTo
<1>10. ASSUME NEW o \in Officer, LinkPool(o) PROVE LeaseInv'
  <2> DEFINE b == officer[o].of
             linked == (pool[b] # "none")
  <2>1. /\ officer[o].pc = "link" /\ b \in Block /\ block' = [block EXCEPT ![b].pool = linked]
        /\ officer' = [officer EXCEPT ![o] = Seated] /\ UNCHANGED <<marketVars, pool>>
    BY <1>10, <1>a DEF LinkPool, MovesTo, Seat
  <2>2. /\ \A p \in Officer : officer'[p].pc = "none"
        /\ \A p \in Officer : p # o => officer[p].pc # "link"
    BY <2>1, <1>a, <1>b, <1>c DEF LeaseTypes
  <2>3. /\ linked \in BOOLEAN /\ block[b] \in BlockRow /\ block' \in [Block -> BlockRow]
        /\ \A c \in Block : block'[c].status = block[c].status
        /\ \A c \in Block : c # b => block'[c] = block[c]
        /\ block'[b].pool = linked
    <3> HIDE DEF linked
    <3>1. linked \in BOOLEAN
      BY DEF linked
    <3> QED BY <2>1, <3>1, <1>a DEF LeaseTypes, BlockRow
  <2>4. LeaseTypes'
    BY <2>1, <2>3, <1>a, <1>c DEF LeaseTypes, marketVars
  <2>5. OneSits' /\ CartKnown'
    BY <2>1, <2>2, <1>a DEF OneSits, CartKnown, marketVars
  <2>6. PoolsKnown'
    <3>1. ASSUME NEW c \in Block, pool'[c] # "none", ~block'[c].pool PROVE FALSE
      <4>1. CASE c = b
        BY <2>1, <2>3, <3>1, <4>1
      <4>2. CASE c # b
        <5>1. pool[c] # "none" /\ ~block[c].pool
          BY <2>1, <2>3, <3>1, <4>2
        <5> QED BY <2>2, <4>2, <5>1, <1>a DEF PoolsKnown
      <4> QED BY <4>1, <4>2
    <3> QED BY <2>2, <3>1 DEF PoolsKnown
  <2>7. EndedIsIdle'
    BY <2>1, <2>3, <1>a DEF EndedIsIdle
  <2> QED BY <2>4, <2>5, <2>6, <2>7 DEF LeaseInv
<1>11. ASSUME NEW b \in Block, DeletePool(b) PROVE LeaseInv'
  <2>1. /\ pool' = [pool EXCEPT ![b] = "none"] /\ block' = [block EXCEPT ![b].pool = FALSE] /\ UNCHANGED <<marketVars, officer>>
    BY <1>11 DEF DeletePool
  <2>2. /\ block' \in [Block -> BlockRow]
        /\ \A c \in Block : block'[c].status = block[c].status
        /\ \A c \in Block : c # b => block'[c] = block[c] /\ pool'[c] = pool[c]
        /\ ~block'[b].pool /\ pool'[b] = "none"
    BY <2>1, <1>a DEF LeaseTypes, BlockRow
  <2>3. LeaseTypes'
    BY <2>1, <2>2, <1>a DEF LeaseTypes, marketVars
  <2>4. OneSits' /\ CartKnown'
    BY <2>1, <1>a DEF OneSits, CartKnown, marketVars
  <2>5. PoolsKnown'
    <3>1. \A c \in Block : pool'[c] # "none" /\ ~block'[c].pool
            => \E p \in Officer : officer[p].pc = "link" /\ officer[p].of = c
      BY <2>2, <1>a DEF PoolsKnown
    <3>2. ASSUME NEW p \in Officer, officer[p].pc \in {"pool", "link"} PROVE block'[officer[p].of].status = "active"
      <4>1. officer[p].of \in Block
        BY <3>2, <1>a DEF Seat
      <4> QED BY <2>2, <3>2, <4>1, <1>a DEF PoolsKnown
    <3>3. ASSUME NEW p \in Officer, officer[p].pc = "end" PROVE \A c \in officer[p].gone : block'[c].pool => c \in officer[p].pooled
      <4>1. officer[p].gone \subseteq Block
        BY <3>3, <1>a DEF Seat
      <4> QED BY <2>2, <3>3, <4>1, <1>a DEF PoolsKnown
    <3> QED BY <2>1, <3>1, <3>2, <3>3 DEF PoolsKnown
  <2>6. EndedIsIdle'
    BY <2>2, <1>a DEF EndedIsIdle
  <2> QED BY <2>3, <2>4, <2>5, <2>6 DEF LeaseInv
<1>12. ASSUME NEW b \in Block, LeaseEnds(b) PROVE LeaseInv'
  BY <1>12, <1>a DEF LeaseEnds, LeaseInv, LeaseTypes, OneSits, CartKnown, PoolsKnown, EndedIsIdle, panelRows
<1>13. CASE UNCHANGED blockVars
  BY <1>13, <1>a DEF blockVars, LeaseInv, LeaseTypes, OneSits, CartKnown, PoolsKnown, EndedIsIdle
<1> QED BY <1>1, <1>2, <1>3, <1>4, <1>5, <1>6, <1>7, <1>8, <1>9, <1>10, <1>11, <1>12, <1>13 DEF LeasedBlocksNext, Proceeds

LEMMA LeaseInvInit ==
  ASSUME LeasedBlocksInit
  PROVE  LeaseInv
<1>1. LeaseTypes
  BY DEF LeasedBlocksInit, LeaseTypes, BlockRow, NoBlock, Seat, Seated
<1>2. OneSits /\ CartKnown /\ PoolsKnown /\ EndedIsIdle
  BY DEF LeasedBlocksInit, OneSits, CartKnown, PoolsKnown, EndedIsIdle, Seated
<1> QED BY <1>1, <1>2 DEF LeaseInv

\* With one request or call of the cron at work at a time, a checkout buys what was
\* asked for, once, and the pool of a block whose lease ended hands out nothing by
\* itself: orderBlock, requestLoa, syncIpxoBlocks.
THEOREM LeasesFollowTheMarket ==
  ASSUME ~Rival
  PROVE  LeasedBlocksSpec => []BlocksRight
<1>1. LeasedBlocksInit => LeaseInv
  BY LeaseInvInit
<1>2. LeaseInv /\ [LeasedBlocksNext]_blockVars => LeaseInv'
  BY LeaseInvNext
<1>3. LeaseInv => BlocksRight
  BY DEF LeaseInv, CartKnown, BlocksRight, BuysWhatWasAsked
<1> QED BY <1>1, <1>2, <1>3, PTL DEF LeasedBlocksSpec

-----------------------------------------------------------------------------
(* Imports from another system.                                           *)

ImportRow == Customer \cup Contract \cup Name

ImportState ==
  [pc : {"none"}]
    \cup [pc : {"look"}, at : Tables, done : SUBSET ImportRow, known : BOOLEAN]
    \cup [pc : {"user", "company", "product", "service", "name"}, at : Tables, row : ImportRow,
          done : SUBSET ImportRow, known : BOOLEAN]

ImportTypes ==
  /\ user \subseteq Customer /\ held \subseteq Name
  /\ company \in [Customer -> Nat] /\ service \in [Contract \cup Name -> Nat] /\ catalogue \in Nat
  /\ torn \in [Name -> Nat]
  /\ importer \in [Importer -> ImportState]
  /\ whole \in BOOLEAN

OneRun == \A i, j \in Importer : importer[i].pc # "none" /\ importer[j].pc # "none" => i = j

\* What a run that is past a row has left of it.
Housed(c) == c \in user /\ company[c] > 0
Served(r) == service[r] > 0
Kept(n)   == n \in held /\ service[n] > 0

\* A run knows what it has done, and nothing of it comes undone.
RunKnows(i) ==
  importer[i].pc # "none" =>
    /\ importer[i].at = "customers" => \A c \in importer[i].done : Housed(c)
    /\ importer[i].at = "contracts" => \A r \in importer[i].done : Served(r)
    /\ importer[i].at = "names" => \A n \in importer[i].done : Kept(n)
    /\ importer[i].at # "customers" => \A c \in Customer : Housed(c)
    /\ importer[i].at = "names" => \A r \in Contract : Served(r)
    /\ importer[i].at = "contracts" => (importer[i].known <=> catalogue > 0)

\* What it found missing is missing until it inserts it.
StillMissing(i) ==
  /\ importer[i].pc = "user" => importer[i].at = "customers" /\ importer[i].row \in Customer \ user
  /\ importer[i].pc = "company" =>
       importer[i].at = "customers" /\ importer[i].row \in user /\ company[importer[i].row] = 0
  /\ importer[i].pc = "product" =>
       /\ importer[i].at = "contracts" /\ importer[i].row \in Contract
       /\ service[importer[i].row] = 0 /\ ~importer[i].known
  /\ importer[i].pc = "service" =>
       \/ importer[i].at = "contracts" /\ importer[i].row \in Contract /\ importer[i].known /\ service[importer[i].row] = 0
       \/ importer[i].at = "names" /\ importer[i].row \in Name \ held
  /\ importer[i].pc = "name" =>
       /\ importer[i].at = "names" /\ importer[i].row \in Name \ held
       /\ service[importer[i].row] \in 1 .. torn[importer[i].row] + 1

\* One row of each; a name has the services that runs left without it, and one more
\* when it is there or in the hands of a run.
NameHeld(n)    == n \in held /\ service[n] \in 1 .. torn[n] + 1
NameMissing(n) == n \notin held /\ service[n] <= torn[n]
Singly ==
  /\ \A c \in Customer : company[c] <= 1 /\ (c \notin user => company[c] = 0)
  /\ \A r \in Contract : service[r] <= 1
  /\ \A n \in Name :
       \/ NameHeld(n) \/ NameMissing(n)
       \/ service[n] <= torn[n] + 1 /\ \E i \in Importer : importer[i].pc = "name" /\ importer[i].row = n
  /\ catalogue <= 1

Everything ==
  /\ \A c \in Customer : Housed(c)
  /\ \A r \in Contract : Served(r)
  /\ \A n \in Name : Kept(n)

ImportInv ==
  /\ ImportTypes /\ OneRun /\ Singly
  /\ \A i \in Importer : RunKnows(i) /\ StillMissing(i)
  /\ whole => Everything

LEMMA LookedAt ==
  ASSUME NEW s, s \in [pc : {"look"}, at : Tables, done : SUBSET ImportRow, known : BOOLEAN], NEW r
  PROVE  [s EXCEPT !.done = @ \cup {r}] = [pc |-> "look", at |-> s.at, done |-> s.done \cup {r}, known |-> s.known]
OBVIOUS

LEMMA ProductMade ==
  ASSUME NEW s, s \in [pc : {"product"}, at : Tables, row : ImportRow, done : SUBSET ImportRow, known : BOOLEAN],
         NEW y, y = [s EXCEPT !.pc = "service", !.known = TRUE]
  PROVE  /\ y \in [pc : {"service"}, at : Tables, row : ImportRow, done : SUBSET ImportRow, known : BOOLEAN]
         /\ y.row = s.row /\ y.at = s.at /\ y.done = s.done /\ y.known = TRUE
OBVIOUS

\* A step of the one run that is under way, whose rows only become more.
LEMMA ImportStep ==
  ASSUME NEW i \in Importer, NEW x, ImportInv, ImportTypes',
         \A j \in Importer : j # i => importer[j].pc = "none",
         importer' = [importer EXCEPT ![i] = x],
         Singly', RunKnows(i)', StillMissing(i)', (whole => Everything)'
  PROVE  ImportInv'
<1>1. \A j \in Importer : j # i => importer'[j].pc = "none"
  BY DEF ImportInv, ImportTypes
<1>2. OneRun'
  BY <1>1 DEF OneRun
<1>3. \A j \in Importer : j # i => RunKnows(j)' /\ StillMissing(j)'
  BY <1>1 DEF RunKnows, StillMissing
<1> QED BY <1>2, <1>3 DEF ImportInv

LEMMA ImportInvNext ==
  ASSUME ~Early, ~Side, Contract \cap Name = {}, ImportInv, [ImportsNext]_importVars
  PROVE  ImportInv'
<1> USE DEF ImportTypes
<1>a. ASSUME NEW i \in Importer, importer[i].pc # "none"
      PROVE  \A j \in Importer : j # i => importer[j].pc = "none"
  BY <1>a DEF ImportInv, OneRun
<1>b. /\ ImportTypes /\ Singly /\ (whole => Everything)
      /\ \A i \in Importer : RunKnows(i) /\ StillMissing(i) /\ importer[i] \in ImportState
  BY DEF ImportInv
<1>1. ASSUME NEW i \in Importer, StartImport(i) PROVE ImportInv'
  <2> DEFINE x == [pc |-> "look", at |-> "customers", done |-> {}, known |-> FALSE]
  <2>1. importer' = [importer EXCEPT ![i] = x] /\ UNCHANGED <<importRows, torn, whole>>
    BY <1>1 DEF StartImport, TurnsTo
  <2>2. \A j \in Importer : importer[j].pc = "none"
    BY <1>1 DEF StartImport, Parked
  <2>3. importer'[i] = x /\ x \in ImportState
    BY <2>1, <1>b DEF ImportState, Tables
  <2>4. ImportTypes'
    BY <2>1, <2>3, <1>b DEF importRows
  <2>5. Singly'
    BY <2>1, <2>2, <1>b DEF Singly, NameHeld, NameMissing, importRows
  <2>6. RunKnows(i)' /\ StillMissing(i)'
    BY <2>3 DEF RunKnows, StillMissing
  <2>7. (whole => Everything)'
    BY <2>1, <1>b DEF Everything, Housed, Served, Kept, importRows
  <2> QED BY <2>1, <2>2, <2>4, <2>5, <2>6, <2>7, ImportStep
<1>2. ASSUME NEW i \in Importer, LookAtCustomer(i) \/ LookAtContract(i) \/ LookAtName(i) PROVE ImportInv'
  <2> DEFINE s == importer[i]
  <2>1. /\ s.pc = "look" /\ s.at \in Tables /\ s.done \in SUBSET ImportRow /\ s.known \in BOOLEAN
        /\ UNCHANGED <<importRows, torn, whole>>
    BY <1>2, <1>b DEF LookAtCustomer, LookAtContract, LookAtName, Stands, ImportState
  <2>a. s \in [pc : {"look"}, at : Tables, done : SUBSET ImportRow, known : BOOLEAN]
    BY <2>1, <1>b DEF ImportState
  <2>2. PICK r \in ImportRow :
          \/ /\ importer' = [importer EXCEPT ![i] = [s EXCEPT !.done = @ \cup {r}]]
             /\ s.at = "customers" => Housed(r)
             /\ s.at = "contracts" => Served(r)
             /\ s.at = "names" => r \in held
          \/ \E pc \in {"user", "company", "product", "service"} :
               /\ importer' = [importer EXCEPT ![i] = [pc |-> pc, at |-> s.at, row |-> r, done |-> s.done, known |-> s.known]]
               /\ pc = "user" => s.at = "customers" /\ r \in Customer \ user
               /\ pc = "company" => s.at = "customers" /\ r \in user /\ company[r] = 0
               /\ pc = "product" => s.at = "contracts" /\ r \in Contract /\ service[r] = 0 /\ ~s.known
               /\ pc = "service" => \/ s.at = "contracts" /\ r \in Contract /\ service[r] = 0 /\ s.known
                                    \/ s.at = "names" /\ r \in Name \ held
    <3>1. CASE LookAtCustomer(i)
      BY <3>1 DEF LookAtCustomer, Finds, Skips, TurnsTo, Housed, ImportRow
    <3>2. CASE LookAtContract(i)
      <4>1. PICK r \in Contract \ s.done :
              \/ service[r] > 0 /\ Skips(i, r)
              \/ service[r] = 0 /\ Finds(i, r, IF importer[i].known THEN "service" ELSE "product")
        BY <3>2 DEF LookAtContract
      <4>2. s.at = "contracts" /\ r \in ImportRow
        BY <3>2 DEF LookAtContract, ImportRow
      <4>3. CASE service[r] > 0 /\ Skips(i, r)
        BY <4>2, <4>3 DEF Skips, TurnsTo, Served
      <4>4. CASE service[r] = 0 /\ Finds(i, r, IF importer[i].known THEN "service" ELSE "product")
        BY <2>1, <4>2, <4>4 DEF Finds, TurnsTo
      <4> QED BY <4>1, <4>3, <4>4
    <3>3. CASE LookAtName(i)
      BY <3>3 DEF LookAtName, Finds, Skips, TurnsTo, ImportRow
    <3> QED BY <1>2, <3>1, <3>2, <3>3
  <2>3. \A n \in Name : NameHeld(n) \/ NameMissing(n)
    <3>1. \A j \in Importer : importer[j].pc # "name"
      BY <1>a, <2>1
    <3> QED BY <3>1, <1>b DEF Singly
  <2>4. Singly'
    BY <2>1, <2>3, <1>b DEF Singly, NameHeld, NameMissing, importRows
  <2>5. (whole => Everything)'
    BY <2>1, <1>b DEF Everything, Housed, Served, Kept, importRows
  <2>6. RunKnows(i) /\ \A j \in Importer : j # i => importer[j].pc = "none"
    BY <1>a, <1>b, <2>1
  <2>7. CASE /\ importer' = [importer EXCEPT ![i] = [s EXCEPT !.done = @ \cup {r}]]
             /\ s.at = "customers" => Housed(r)
             /\ s.at = "contracts" => Served(r)
             /\ s.at = "names" => r \in held
    <3> DEFINE x == [pc |-> "look", at |-> s.at, done |-> s.done \cup {r}, known |-> s.known]
    <3>1. importer' = [importer EXCEPT ![i] = x]
      <4>1. [s EXCEPT !.done = @ \cup {r}] = x
        BY <2>a, LookedAt
      <4> QED BY <2>7, <4>1
    <3>2. importer'[i] = x /\ x \in ImportState
      BY <3>1, <2>1, <1>b DEF ImportState
    <3>3. ImportTypes'
      BY <3>1, <3>2, <2>1, <1>b DEF importRows
    <3>4. s.at = "names" => Kept(r)
      <4>1. held \subseteq Name
        BY <1>b
      <4> QED BY <2>3, <2>7, <4>1 DEF Kept, NameHeld, NameMissing
    <3>5. RunKnows(i)'
      BY <3>2, <3>4, <2>1, <2>6, <2>7 DEF RunKnows, importRows, Housed, Served, Kept
    <3>6. StillMissing(i)'
      BY <3>2 DEF StillMissing
    <3> QED BY <3>1, <3>3, <3>5, <3>6, <2>4, <2>5, <2>6, ImportStep
  <2>8. ASSUME NEW pc \in {"user", "company", "product", "service"},
               importer' = [importer EXCEPT ![i] = [pc |-> pc, at |-> s.at, row |-> r, done |-> s.done, known |-> s.known]],
               pc = "user" => s.at = "customers" /\ r \in Customer \ user,
               pc = "company" => s.at = "customers" /\ r \in user /\ company[r] = 0,
               pc = "product" => s.at = "contracts" /\ r \in Contract /\ service[r] = 0 /\ ~s.known,
               pc = "service" => \/ s.at = "contracts" /\ r \in Contract /\ service[r] = 0 /\ s.known
                                 \/ s.at = "names" /\ r \in Name \ held
        PROVE  ImportInv'
    <3> DEFINE x == [pc |-> pc, at |-> s.at, row |-> r, done |-> s.done, known |-> s.known]
    <3>2. importer'[i] = x /\ x \in ImportState
      BY <2>8, <2>1, <1>b DEF ImportState
    <3>3. ImportTypes'
      BY <2>8, <3>2, <2>1, <1>b DEF importRows
    <3>5. RunKnows(i)'
      BY <3>2, <2>1, <2>6 DEF RunKnows, importRows, Housed, Served, Kept
    <3>6. StillMissing(i)'
      BY <3>2, <2>1, <2>8 DEF StillMissing, importRows
    <3> QED BY <2>8, <3>3, <3>5, <3>6, <2>4, <2>5, <2>6, ImportStep
  <2> QED BY <2>2, <2>7, <2>8
<1>3. ASSUME NEW i \in Importer, InsertUser(i) \/ InsertCompany(i) \/ InsertProduct(i) \/ InsertService(i) \/ InsertName(i)
      PROVE  ImportInv'
  <2> DEFINE s == importer[i]
  <2>1. /\ s.pc \in {"user", "company", "product", "service", "name"} /\ s.at \in Tables /\ s.row \in ImportRow
        /\ s.done \in SUBSET ImportRow /\ s.known \in BOOLEAN /\ whole' = whole
        /\ s = [pc |-> s.pc, at |-> s.at, row |-> s.row, done |-> s.done, known |-> s.known]
    BY <1>3, <1>b DEF InsertUser, InsertCompany, InsertProduct, InsertService, InsertName, Stands, ImportState
  <2>2. RunKnows(i) /\ StillMissing(i) /\ \A j \in Importer : j # i => importer[j].pc = "none"
    BY <1>a, <1>b, <2>1
  <2>a. \A n \in Name : s.pc # "name" \/ s.row # n => NameHeld(n) \/ NameMissing(n)
    BY <2>2, <1>b DEF Singly
  <2> DEFINE done == [pc |-> "look", at |-> s.at, done |-> s.done \cup {s.row}, known |-> s.known]
             turned(pc, has) == [pc |-> pc, at |-> s.at, row |-> s.row, done |-> s.done, known |-> has]
  <2>3. CASE InsertUser(i)
    <3>1. s.pc = "user" /\ s.at = "customers" /\ s.row \in Customer \ user /\ company[s.row] = 0
      BY <2>2, <2>3, <1>b DEF StillMissing, InsertUser, Stands, Singly
    <3>2. /\ user' = user \cup {s.row} /\ importer' = [importer EXCEPT ![i] = turned("company", s.known)]
          /\ UNCHANGED <<company, catalogue, service, held, torn>>
      BY <2>1, <2>3, <3>1 DEF InsertUser, TurnsTo
    <3>3. importer'[i] = turned("company", s.known) /\ importer'[i] \in ImportState
      BY <2>1, <3>2, <1>b DEF ImportState
    <3>4. ImportTypes'
      BY <1>b, <2>1, <3>1, <3>2, <3>3
    <3>5. Singly'
      BY <1>b, <2>a, <3>1, <3>2 DEF Singly, NameHeld, NameMissing
    <3>6. RunKnows(i)' /\ StillMissing(i)'
      BY <2>2, <3>1, <3>2, <3>3 DEF RunKnows, StillMissing, Housed
    <3>7. (whole => Everything)'
      BY <1>b, <2>1, <3>2 DEF Everything, Housed, Served, Kept
    <3> QED BY <2>2, <3>2, <3>4, <3>5, <3>6, <3>7, ImportStep
  <2>4. CASE InsertCompany(i)
    <3>1. s.pc = "company" /\ s.at = "customers" /\ s.row \in user /\ s.row \in Customer /\ company[s.row] = 0
      BY <2>2, <2>4, <1>b DEF StillMissing, InsertCompany, Stands
    <3>2. /\ company' = [company EXCEPT ![s.row] = 1] /\ importer' = [importer EXCEPT ![i] = done]
          /\ UNCHANGED <<user, catalogue, service, held, torn>>
      BY <2>1, <2>4, <3>1, <1>b DEF InsertCompany, RowDone, TurnsTo
    <3>3. importer'[i] = done /\ importer'[i] \in ImportState
      BY <2>1, <3>2, <1>b DEF ImportState
    <3>4. ImportTypes'
      BY <1>b, <2>1, <3>1, <3>2, <3>3
    <3>5. Singly'
      BY <1>b, <2>a, <3>1, <3>2 DEF Singly, NameHeld, NameMissing
    <3>6. RunKnows(i)' /\ StillMissing(i)'
      BY <1>b, <2>2, <3>1, <3>2, <3>3 DEF RunKnows, StillMissing, Housed
    <3>7. (whole => Everything)'
      BY <1>b, <2>1, <3>1, <3>2 DEF Everything, Housed, Served, Kept
    <3> QED BY <2>2, <3>2, <3>4, <3>5, <3>6, <3>7, ImportStep
  <2>5. CASE InsertProduct(i)
    <3>1. s.pc = "product" /\ s.at = "contracts" /\ s.row \in Contract /\ service[s.row] = 0 /\ catalogue = 0
      BY <2>2, <2>5, <1>b DEF StillMissing, RunKnows, InsertProduct, Stands
    <3> DEFINE y == [s EXCEPT !.pc = "service", !.known = TRUE]
    <3>2. /\ catalogue' = 1 /\ importer' = [importer EXCEPT ![i] = y]
          /\ UNCHANGED <<user, company, service, held, torn>>
      BY <2>5, <3>1 DEF InsertProduct, TurnsTo
    <3>a. s \in [pc : {"product"}, at : Tables, row : ImportRow, done : SUBSET ImportRow, known : BOOLEAN]
      BY <1>b, <3>1 DEF ImportState
    <3>b. /\ y \in [pc : {"service"}, at : Tables, row : ImportRow, done : SUBSET ImportRow, known : BOOLEAN]
          /\ y.row = s.row /\ y.at = s.at /\ y.done = s.done /\ y.known = TRUE
      BY <3>a, ProductMade
    <3> HIDE DEF y
    <3>3. importer'[i] = y /\ y \in ImportState /\ y.pc = "service"
      BY <3>2, <3>b, <1>b DEF ImportState
    <3>4. ImportTypes'
      BY <1>b, <2>1, <3>1, <3>2, <3>3
    <3>5. Singly'
      BY <1>b, <2>a, <3>1, <3>2 DEF Singly, NameHeld, NameMissing
    <3>6. RunKnows(i)' /\ StillMissing(i)'
      BY <2>2, <3>1, <3>2, <3>3, <3>b DEF RunKnows, StillMissing, Housed, Served
    <3>7. (whole => Everything)'
      BY <1>b, <2>1, <3>2 DEF Everything, Housed, Served, Kept
    <3> QED BY <2>2, <3>2, <3>4, <3>5, <3>6, <3>7, ImportStep
  <2>6. CASE InsertService(i)
    <3>1. /\ s.pc = "service"
          /\ \/ s.at = "contracts" /\ s.row \in Contract /\ s.known /\ service[s.row] = 0
             \/ s.at = "names" /\ s.row \in Name \ held /\ service[s.row] <= torn[s.row]
      BY <2>2, <2>6, <2>a DEF StillMissing, InsertService, Stands, NameHeld, NameMissing
    <3>2. /\ service' = [service EXCEPT ![s.row] = @ + 1]
          /\ importer' = [importer EXCEPT ![i] = IF s.at = "names" THEN turned("name", s.known) ELSE done]
          /\ UNCHANGED <<user, company, catalogue, held, torn>>
      BY <2>1, <2>6, <3>1, <1>b DEF InsertService, RowDone, TurnsTo
    <3>3. /\ importer'[i] = IF s.at = "names" THEN turned("name", s.known) ELSE done
          /\ importer'[i] \in ImportState
      BY <2>1, <3>2, <1>b DEF ImportState
    <3>a. service'[s.row] = service[s.row] + 1 /\ service'[s.row] > 0 /\ \A r \in Contract \cup Name : r # s.row => service'[r] = service[r]
      BY <1>b, <3>1, <3>2
    <3>4. ImportTypes'
      BY <1>b, <2>1, <3>1, <3>2, <3>3
    <3>5. Singly'
      <4>1. CASE s.at = "names"
        BY <1>b, <2>a, <3>1, <3>2, <3>3, <3>a, <4>1 DEF Singly, NameHeld, NameMissing
      <4>2. CASE s.at = "contracts"
        BY <1>b, <2>a, <3>1, <3>2, <3>a, <4>2 DEF Singly, NameHeld, NameMissing
      <4> QED BY <3>1, <4>1, <4>2
    <3>6. \A r \in Contract \cup Name : Served(r) => Served(r)'
      BY <3>1, <3>a DEF Served
    <3>7. \A n \in Name : Kept(n) => Kept(n)'
      BY <3>1, <3>2, <3>a DEF Kept
    <3>8. \A c \in Customer : Housed(c) => Housed(c)'
      BY <3>2 DEF Housed
    <3>9. RunKnows(i)' /\ StillMissing(i)'
      <4>1. CASE s.at = "names"
        <5>1. \A n \in s.done : n \in Name => Kept(n)'
          BY <2>1, <2>2, <3>1, <3>7, <4>1 DEF RunKnows
        <5>2. \A n \in s.done : Kept(n)'
          BY <1>b, <2>1, <2>2, <3>1, <5>1, <4>1 DEF RunKnows, Kept
        <5>3. \A r \in Contract : Served(r)'
          BY <2>1, <2>2, <3>1, <3>6, <4>1 DEF RunKnows
        <5>4. \A c \in Customer : Housed(c)'
          BY <2>1, <2>2, <3>1, <3>8, <4>1 DEF RunKnows
        <5>5. importer'[i] = turned("name", s.known)
          BY <3>3, <4>1
        <5>6. RunKnows(i)'
          BY <4>1, <5>2, <5>3, <5>4, <5>5 DEF RunKnows
        <5>7. s.row \in Name \ held' /\ service'[s.row] \in 1 .. torn'[s.row] + 1
          BY <1>b, <3>1, <3>2, <3>a, <4>1
        <5>8. StillMissing(i)'
          BY <4>1, <5>5, <5>7 DEF StillMissing
        <5> QED BY <5>6, <5>8
      <4>2. CASE s.at = "contracts"
        <5>1. \A r \in s.done : Served(r)'
          BY <1>b, <2>1, <2>2, <3>1, <3>2, <4>2 DEF RunKnows, Served
        <5>2. \A c \in Customer : Housed(c)'
          BY <2>1, <2>2, <3>1, <3>8, <4>2 DEF RunKnows
        <5>3. service'[s.row] > 0
          BY <3>a
        <5>4. importer'[i] = done /\ (s.known <=> catalogue' > 0)
          BY <2>1, <2>2, <3>1, <3>2, <3>3, <4>2 DEF RunKnows
        <5>5. StillMissing(i)'
          BY <5>4 DEF StillMissing
        <5>6. \A r \in s.done \cup {s.row} : service'[r] > 0
          BY <5>1, <5>3 DEF Served
        <5>7. RunKnows(i)'
          BY <4>2, <5>2, <5>4, <5>6 DEF RunKnows, Served
        <5> QED BY <5>5, <5>7
      <4> QED BY <3>1, <4>1, <4>2
    <3>b. (whole => Everything)'
      BY <1>b, <2>1, <3>6, <3>7, <3>8 DEF Everything
    <3> QED BY <2>2, <3>2, <3>4, <3>5, <3>9, <3>b, ImportStep
  <2>7. CASE InsertName(i)
    <3>1. s.pc = "name" /\ s.at = "names" /\ s.row \in Name \ held /\ service[s.row] \in 1 .. torn[s.row] + 1
      BY <2>2, <2>7 DEF StillMissing, InsertName, Stands
    <3>2. /\ held' = held \cup {s.row} /\ importer' = [importer EXCEPT ![i] = done]
          /\ UNCHANGED <<user, company, catalogue, service, torn>>
      BY <2>1, <2>7, <3>1 DEF InsertName, RowDone, TurnsTo
    <3>3. importer'[i] = done /\ importer'[i] \in ImportState
      BY <2>1, <3>2, <1>b DEF ImportState
    <3>4. ImportTypes'
      BY <1>b, <2>1, <3>1, <3>2, <3>3
    <3>5. Singly'
      BY <1>b, <2>a, <3>1, <3>2 DEF Singly, NameHeld, NameMissing
    <3>6. RunKnows(i)' /\ StillMissing(i)'
      BY <1>b, <2>2, <3>1, <3>2, <3>3 DEF RunKnows, StillMissing, Housed, Served, Kept
    <3>7. (whole => Everything)'
      BY <1>b, <2>1, <3>1, <3>2 DEF Everything, Housed, Served, Kept
    <3> QED BY <2>2, <3>2, <3>4, <3>5, <3>6, <3>7, ImportStep
  <2> QED BY <1>3, <2>3, <2>4, <2>5, <2>6, <2>7
<1>4. ASSUME NEW i \in Importer, ReadCatalogue(i) \/ StartNames(i) PROVE ImportInv'
  <2> DEFINE s == importer[i]
  <2>1. s.pc = "look" /\ UNCHANGED <<importRows, torn, whole>>
    BY <1>4 DEF ReadCatalogue, StartNames, Stands
  <2>2. RunKnows(i) /\ \A j \in Importer : j # i => importer[j].pc = "none"
    BY <1>a, <1>b, <2>1
  <2>3. PICK at \in {"contracts", "names"}, has \in BOOLEAN :
          /\ importer' = [importer EXCEPT ![i] = [pc |-> "look", at |-> at, done |-> {}, known |-> has]]
          /\ at = "contracts" => (has <=> catalogue > 0) /\ s.at = "customers" /\ s.done = Customer
          /\ at = "names" => s.at = "contracts" /\ s.done = Contract
    <3>1. (catalogue > 0) \in BOOLEAN
      OBVIOUS
    <3>2. CASE ReadCatalogue(i)
      BY <3>1, <3>2 DEF ReadCatalogue, TurnsTo
    <3>3. CASE StartNames(i)
      BY <3>3 DEF StartNames, TurnsTo
    <3> QED BY <1>4, <3>2, <3>3
  <2> DEFINE x == [pc |-> "look", at |-> at, done |-> {}, known |-> has]
  <2>4. importer'[i] = x /\ x \in ImportState
    BY <2>3, <1>b DEF ImportState, Tables
  <2>5. ImportTypes'
    BY <2>1, <2>3, <2>4, <1>b DEF importRows
  <2>6. Singly'
    <3>1. \A j \in Importer : importer[j].pc # "name"
      BY <1>a, <2>1
    <3> QED BY <2>1, <3>1, <1>b DEF Singly, NameHeld, NameMissing, importRows
  <2>7. RunKnows(i)' /\ StillMissing(i)'
    BY <2>1, <2>2, <2>3, <2>4 DEF RunKnows, StillMissing, Housed, Served, importRows
  <2>8. (whole => Everything)'
    BY <2>1, <1>b DEF Everything, Housed, Served, Kept, importRows
  <2> QED BY <2>2, <2>3, <2>5, <2>6, <2>7, <2>8, ImportStep
<1>5. ASSUME NEW i \in Importer, EndImport(i) \/ StopsHalfway(i) PROVE ImportInv'
  <2> DEFINE n == importer[i].row
  <2>1. /\ importer[i].pc # "none" /\ importer' = [importer EXCEPT ![i] = Parked] /\ UNCHANGED importRows
        /\ torn' = IF importer[i].pc = "name" THEN [torn EXCEPT ![n] = @ + 1] ELSE torn
    BY <1>5, <1>b DEF EndImport, StopsHalfway, Stands, TurnsTo, Parked, ImportState
  <2>2. \A j \in Importer : j # i => importer[j].pc = "none"
    BY <1>a, <2>1
  <2>3. importer'[i] = Parked /\ Parked \in ImportState
    BY <2>1, <1>b DEF ImportState, Parked
  <2>a. importer[i].pc = "name" => n \in Name \ held /\ service[n] \in 1 .. torn[n] + 1
    BY <1>b DEF StillMissing
  <2>b. torn' \in [Name -> Nat] /\ \A m \in Name : torn'[m] = IF importer[i].pc = "name" /\ m = n THEN torn[m] + 1 ELSE torn[m]
    BY <2>1, <2>a, <1>b
  <2>4. ImportTypes'
    BY <1>5, <2>1, <2>3, <2>b, <1>b DEF importRows, EndImport, StopsHalfway
  <2>5. Singly'
    <3>1. \A m \in Name : importer[i].pc # "name" \/ m # n => NameHeld(m) \/ NameMissing(m)
      BY <2>2, <1>b DEF Singly
    <3>2. ASSUME NEW m \in Name PROVE (NameHeld(m) \/ NameMissing(m))'
      <4>1. CASE importer[i].pc = "name" /\ m = n
        BY <2>1, <2>a, <2>b, <4>1, <1>b DEF NameMissing, importRows
      <4>2. CASE importer[i].pc # "name" \/ m # n
        BY <2>1, <2>b, <3>1, <4>2 DEF NameHeld, NameMissing, importRows
      <4> QED BY <4>1, <4>2
    <3> QED BY <2>1, <3>2, <1>b DEF Singly, importRows
  <2>6. RunKnows(i)' /\ StillMissing(i)'
    BY <2>3 DEF RunKnows, StillMissing, Parked
  <2>7. (whole => Everything)'
    <3>1. CASE EndImport(i)
      BY <2>1, <3>1, <1>b DEF EndImport, RunKnows, Everything, Housed, Served, Kept, importRows
    <3>2. CASE StopsHalfway(i)
      BY <2>1, <3>2, <1>b DEF StopsHalfway, Everything, Housed, Served, Kept, importRows
    <3> QED BY <1>5, <3>1, <3>2
  <2> QED BY <2>1, <2>2, <2>4, <2>5, <2>6, <2>7, ImportStep
<1>6. ASSUME NEW c \in Customer, SignsIn(c) PROVE ImportInv'
  <2>1. /\ c \in user /\ company[c] = 0 /\ company' = [company EXCEPT ![c] = 1]
        /\ UNCHANGED <<user, catalogue, service, held, importer, torn, whole>>
        /\ \A i \in Importer : importer'[i].pc = "none"
    BY <1>6 DEF SignsIn, Parked
  <2>2. ImportTypes' /\ OneRun'
    BY <2>1, <1>b DEF OneRun
  <2>3. Singly'
    BY <2>1, <1>b DEF Singly, NameHeld, NameMissing
  <2>4. \A i \in Importer : RunKnows(i)' /\ StillMissing(i)'
    BY <2>1 DEF RunKnows, StillMissing
  <2>5. (whole => Everything)'
    BY <2>1, <1>b DEF Everything, Housed, Served, Kept
  <2> QED BY <2>2, <2>3, <2>4, <2>5 DEF ImportInv
<1>7. CASE UNCHANGED importVars
  BY <1>7, <1>b DEF importVars, ImportInv, OneRun, Singly, NameHeld, NameMissing, RunKnows, StillMissing, Everything, Housed, Served, Kept
<1> QED BY <1>1, <1>2, <1>3, <1>4, <1>5, <1>6, <1>7 DEF ImportsNext

LEMMA ImportInvInit ==
  ASSUME ImportsInit
  PROVE  ImportInv
<1>1. ImportTypes
  <2>1. importer \in [Importer -> ImportState] /\ catalogue \in Nat /\ held \subseteq Name /\ whole \in BOOLEAN
    BY DEF ImportsInit, ImportState, Parked
  <2>2. user \subseteq Customer /\ company \in [Customer -> Nat]
    BY DEF ImportsInit
  <2>3. service \in [Contract \cup Name -> Nat] /\ torn \in [Name -> Nat]
    BY DEF ImportsInit
  <2> QED BY <2>1, <2>2, <2>3 DEF ImportTypes
<1>3. OneRun /\ Singly
  BY DEF ImportsInit, OneRun, Singly, NameMissing, Parked
<1>2. \A i \in Importer : RunKnows(i) /\ StillMissing(i)
  BY DEF ImportsInit, RunKnows, StillMissing, Parked
<1> QED BY <1>1, <1>2, <1>3 DEF ImportInv, ImportsInit

\* A run that stopped anywhere can be repeated and adds what is missing, and nothing
\* else but a service more of a domain between whose two rows one stopped: runImport.
THEOREM ImportsRepeat ==
  ASSUME ~Early, ~Side, Contract \cap Name = {}
  PROVE  ImportsSpec => []ImportRight
<1>1. ImportsInit => ImportInv
  BY ImportInvInit
<1>2. ImportInv /\ [ImportsNext]_importVars => ImportInv'
  BY ImportInvNext
<1>3. ImportInv => ImportRight
  <2>1. ASSUME ImportInv PROVE NothingTwice
    BY <2>1 DEF ImportInv, ImportTypes, NothingTwice, Singly, NameHeld, NameMissing
  <2>2. ASSUME ImportInv PROVE RepeatCompletes
    BY <2>2 DEF ImportInv, RepeatCompletes, Everything, Housed, Served, Kept, ImportTypes
  <2> QED BY <2>1, <2>2 DEF ImportRight
<1> QED BY <1>1, <1>2, <1>3, PTL DEF ImportsSpec

-----------------------------------------------------------------------------
(* Scheduled jobs.                                                        *)

CronJob == [kind : Kinds, crons : SUBSET Task]

CronTypes ==
  /\ wanted \subseteq Task /\ cronFile \subseteq Task /\ known \subseteq Task /\ due \subseteq Task
  /\ waiting \in Seq(CronJob)
  /\ failed \in BOOLEAN /\ appUp \in BOOLEAN /\ resumed \in BOOLEAN
  /\ procs \in [Task -> Nat] /\ begunNow \in [Task -> Nat] /\ astray \in [Task -> Nat] /\ anew \in Nat
  /\ minute \in Nat /\ lastMinute \in Nat /\ lastMinute <= minute

\* Of the processes of a task the agent knows one, or lost sight of it; what was
\* started in a minute it has not been at yet, was started before it came back.
AgentKnows ==
  /\ \A t \in Task : procs[t] <= astray[t] + (IF t \in known THEN 1 ELSE 0)
  /\ \A t \in Task : begunNow[t] <= anew + (IF minute # lastMinute THEN 0 ELSE 1)

\* The last update that waits has the list; when none does, the file is it.
ListOnItsWay ==
  /\ \A i \in DOMAIN waiting :
       waiting[i].kind = "update" /\ (\A j \in DOMAIN waiting : j > i => waiting[j].kind # "update")
         => waiting[i].crons = wanted
  /\ (\A i \in DOMAIN waiting : waiting[i].kind # "update")
       => (appUp /\ ~failed /\ ~resumed => cronFile = wanted)

CronInv == CronTypes /\ AgentKnows /\ StoppedIsQuiet /\ ListOnItsWay

LEMMA CronAppended ==
  ASSUME NEW kind \in Kinds, NEW crons \in SUBSET Task, waiting \in Seq(CronJob),
         waiting' = Append(waiting, [kind |-> kind, crons |-> crons])
  PROVE  /\ waiting' \in Seq(CronJob) /\ DOMAIN waiting' = DOMAIN waiting \cup {Len(waiting) + 1}
         /\ \A i \in DOMAIN waiting : waiting'[i] = waiting[i] /\ i < Len(waiting) + 1
         /\ waiting'[Len(waiting) + 1].kind = kind /\ waiting'[Len(waiting) + 1].crons = crons
<1>1. [kind |-> kind, crons |-> crons] \in CronJob
  BY DEF CronJob
<1> QED BY <1>1

LEMMA CronTaken ==
  ASSUME NEW kind, waiting \in Seq(CronJob), Takes(kind)
  PROVE  /\ waiting' \in Seq(CronJob) /\ 1 \in DOMAIN waiting
         /\ Head(waiting) = waiting[1] /\ waiting[1] \in CronJob /\ waiting[1].kind = kind
         /\ \A i \in DOMAIN waiting' : i + 1 \in DOMAIN waiting /\ waiting'[i] = waiting[i + 1]
         /\ \A i \in DOMAIN waiting : i # 1 => i - 1 \in DOMAIN waiting'
         /\ DOMAIN waiting \subseteq Nat \ {0} /\ DOMAIN waiting' \subseteq Nat \ {0}
BY DEF Takes

\* A job that is no update was taken: what waits has not changed by it.
LEMMA OtherTaken ==
  ASSUME NEW kind \in Kinds \ {"update"}, waiting \in Seq(CronJob), Takes(kind), ListOnItsWay,
         wanted' = wanted, (appUp /\ ~failed /\ ~resumed => cronFile = wanted) => (appUp /\ ~failed /\ ~resumed => cronFile = wanted)'
  PROVE  ListOnItsWay'
<1>1. /\ waiting' \in Seq(CronJob) /\ 1 \in DOMAIN waiting
      /\ waiting[1].kind # "update"
      /\ \A i \in DOMAIN waiting' : i + 1 \in DOMAIN waiting /\ waiting'[i] = waiting[i + 1]
      /\ \A i \in DOMAIN waiting : i # 1 => i - 1 \in DOMAIN waiting'
      /\ DOMAIN waiting \subseteq Nat \ {0} /\ DOMAIN waiting' \subseteq Nat \ {0}
  BY CronTaken
<1>2. ASSUME NEW i \in DOMAIN waiting', waiting'[i].kind = "update",
             \A j \in DOMAIN waiting' : j > i => waiting'[j].kind # "update"
      PROVE  waiting'[i].crons = wanted
  <2>1. ASSUME NEW j \in DOMAIN waiting, j > i + 1 PROVE waiting[j].kind # "update"
    <3>1. j \in Nat /\ i \in Nat /\ j # 1
      BY <1>1, <2>1
    <3>2. j - 1 \in DOMAIN waiting' /\ j - 1 > i
      BY <1>1, <2>1, <3>1
    <3>3. waiting'[j - 1] = waiting[j - 1 + 1] /\ j - 1 + 1 = j
      BY <1>1, <3>1, <3>2
    <3> QED BY <1>2, <3>2, <3>3
  <2> QED BY <1>1, <1>2, <2>1 DEF ListOnItsWay
<1>3. ASSUME \A i \in DOMAIN waiting' : waiting'[i].kind # "update"
      PROVE  \A i \in DOMAIN waiting : waiting[i].kind # "update"
  BY <1>1, <1>3
<1> QED BY <1>2, <1>3 DEF ListOnItsWay

LEMMA CronInvNext ==
  ASSUME CronInv, [CronsNext]_cronVars
  PROVE  CronInv'
<1>a. CronTypes /\ AgentKnows /\ StoppedIsQuiet /\ ListOnItsWay /\ Idle \in [Task -> Nat]
  BY DEF CronInv, Idle
<1>1. ASSUME SaveCrons PROVE CronInv'
  <2>1. PICK l \in SUBSET Task : wanted' = l /\ Orders("update", l) /\ UNCHANGED <<nodeSide, tasks, clock>>
    BY <1>1 DEF SaveCrons
  <2>2. /\ waiting' \in Seq(CronJob) /\ DOMAIN waiting' = DOMAIN waiting \cup {Len(waiting) + 1}
        /\ \A i \in DOMAIN waiting : waiting'[i] = waiting[i] /\ i < Len(waiting) + 1
        /\ waiting'[Len(waiting) + 1].kind = "update" /\ waiting'[Len(waiting) + 1].crons = l
    BY <2>1, <1>a, CronAppended DEF Orders, Kinds, CronTypes
  <2>3. CronTypes' /\ AgentKnows' /\ StoppedIsQuiet'
    BY <1>a, <2>1, <2>2 DEF CronTypes, AgentKnows, StoppedIsQuiet, nodeSide, tasks, clock, Idle
  <2>4. ListOnItsWay'
    BY <2>1, <2>2 DEF ListOnItsWay
  <2> QED BY <2>3, <2>4 DEF CronInv
<1>2. ASSUME Power PROVE CronInv'
  <2>1. PICK k \in Kinds \ {"update"} : Orders(k, wanted) /\ UNCHANGED <<wanted, nodeSide, tasks, clock>>
    BY <1>2 DEF Power
  <2>2. /\ waiting' \in Seq(CronJob) /\ DOMAIN waiting' = DOMAIN waiting \cup {Len(waiting) + 1}
        /\ \A i \in DOMAIN waiting : waiting'[i] = waiting[i] /\ i < Len(waiting) + 1
        /\ waiting'[Len(waiting) + 1].kind = k
    BY <2>1, <1>a, CronAppended DEF Orders, Kinds, CronTypes
  <2>3. CronTypes' /\ AgentKnows' /\ StoppedIsQuiet'
    BY <1>a, <2>1, <2>2 DEF CronTypes, AgentKnows, StoppedIsQuiet, nodeSide, tasks, clock, Idle
  <2>4. ListOnItsWay'
    BY <1>a, <2>1, <2>2 DEF ListOnItsWay, nodeSide
  <2> QED BY <2>3, <2>4 DEF CronInv
<1>3. ASSUME RunUpdate PROVE CronInv'
  <2>1. /\ waiting' \in Seq(CronJob) /\ 1 \in DOMAIN waiting
        /\ Head(waiting) = waiting[1] /\ waiting[1] \in CronJob /\ waiting[1].kind = "update"
        /\ \A i \in DOMAIN waiting' : i + 1 \in DOMAIN waiting /\ waiting'[i] = waiting[i + 1]
        /\ \A i \in DOMAIN waiting : i # 1 => i - 1 \in DOMAIN waiting'
        /\ DOMAIN waiting \subseteq Nat \ {0} /\ DOMAIN waiting' \subseteq Nat \ {0}
    BY <1>3, <1>a, CronTaken DEF RunUpdate, CronTypes
  <2>2. ASSUME NEW i \in DOMAIN waiting', waiting'[i].kind = "update",
               \A j \in DOMAIN waiting' : j > i => waiting'[j].kind # "update"
        PROVE  waiting'[i].crons = wanted
    <3>1. ASSUME NEW j \in DOMAIN waiting, j > i + 1 PROVE waiting[j].kind # "update"
      <4>1. j \in Nat /\ i \in Nat /\ j # 1
        BY <2>1, <2>2, <3>1
      <4>2. j - 1 \in DOMAIN waiting' /\ j - 1 > i
        BY <2>1, <3>1, <4>1
      <4>3. waiting'[j - 1] = waiting[j - 1 + 1] /\ j - 1 + 1 = j
        BY <2>1, <4>1, <4>2
      <4> QED BY <2>2, <4>2, <4>3
    <3>2. i + 1 \in DOMAIN waiting /\ waiting[i + 1] = waiting'[i]
      BY <2>1, <2>2
    <3> QED BY <1>a, <2>2, <3>1, <3>2 DEF ListOnItsWay
  <2>3. ASSUME \A i \in DOMAIN waiting' : waiting'[i].kind # "update"
        PROVE  waiting[1].crons = wanted
    <3>1. ASSUME NEW j \in DOMAIN waiting, j > 1 PROVE waiting[j].kind # "update"
      <4>1. j \in Nat /\ j - 1 \in DOMAIN waiting' /\ j - 1 + 1 = j
        BY <2>1, <3>1
      <4>2. waiting'[j - 1] = waiting[j - 1 + 1]
        BY <2>1, <4>1
      <4> QED BY <2>3, <4>1, <4>2
    <3>2. 1 \in DOMAIN waiting /\ waiting[1].kind = "update"
      BY <2>1
    <3> QED BY <1>a, <3>1, <3>2 DEF ListOnItsWay
  <2>4. UNCHANGED <<wanted, minute, due, lastMinute, begunNow, anew>>
    BY <1>3 DEF RunUpdate, clock
  <2>5. CASE /\ cronFile' = Head(waiting).crons /\ appUp' = TRUE /\ resumed' = FALSE /\ failed' = FALSE /\ Cleared
    <3>1. waiting[1].crons \subseteq Task
      BY <2>1 DEF CronJob
    <3>2. CronTypes'
      BY <1>a, <2>1, <2>4, <2>5, <3>1 DEF CronTypes, Cleared
    <3>4. AgentKnows'
      BY <1>a, <2>4, <2>5 DEF CronTypes, AgentKnows, Cleared, Idle
    <3>5. StoppedIsQuiet'
      BY <2>5 DEF StoppedIsQuiet
    <3>3. ListOnItsWay'
      BY <2>1, <2>2, <2>3, <2>4, <2>5 DEF ListOnItsWay
    <3> QED BY <3>2, <3>3, <3>4, <3>5 DEF CronInv
  <2>6. CASE failed' = TRUE /\ TasksGoOn /\ UNCHANGED <<cronFile, appUp, resumed>>
    <3>2. CronTypes' /\ AgentKnows' /\ StoppedIsQuiet'
      BY <1>a, <2>1, <2>4, <2>6 DEF CronTypes, AgentKnows, StoppedIsQuiet, TasksGoOn, tasks, Idle
    <3>3. ListOnItsWay'
      BY <2>2, <2>4, <2>6 DEF ListOnItsWay
    <3> QED BY <3>2, <3>3 DEF CronInv
  <2> QED BY <1>3, <2>5, <2>6 DEF RunUpdate
<1>4. ASSUME RunStart \/ RunStop \/ RunRestart PROVE CronInv'
  <2>1. PICK k \in Kinds \ {"update"} : Takes(k)
    BY <1>4 DEF RunStart, RunStop, RunRestart, Kinds
  <2>2. waiting' \in Seq(CronJob)
    BY <1>a, <2>1 DEF CronTypes, Takes
  <2>3. CronTypes' /\ AgentKnows' /\ StoppedIsQuiet'
    <3>1. /\ UNCHANGED <<wanted, failed, minute, due, lastMinute, begunNow, anew>>
          /\ TasksGoOn \/ Cleared
          /\ appUp' \in BOOLEAN /\ resumed' \in BOOLEAN
          /\ cronFile' \in {cronFile, {}}
          /\ appUp' \/ (cronFile' = {} /\ Cleared)
      BY <1>4, <1>a DEF RunStart, RunStop, RunRestart, CronTypes, clock
    <3>2. CronTypes'
      <4>1. CASE TasksGoOn
        BY <1>a, <2>2, <3>1, <4>1 DEF CronTypes, TasksGoOn, tasks
      <4>2. CASE Cleared
        BY <1>a, <2>2, <3>1, <4>2 DEF CronTypes, Cleared
      <4> QED BY <3>1, <4>1, <4>2
    <3>3. AgentKnows'
      <4>1. CASE TasksGoOn
        BY <1>a, <3>1, <4>1 DEF AgentKnows, TasksGoOn, tasks, Idle
      <4>2. CASE Cleared
        BY <1>a, <3>1, <4>2 DEF CronTypes, AgentKnows, Cleared, Idle
      <4> QED BY <3>1, <4>1, <4>2
    <3>4. StoppedIsQuiet'
      BY <3>1 DEF StoppedIsQuiet, Cleared, Idle
    <3> QED BY <3>2, <3>3, <3>4
  <2>4. /\ wanted' = wanted
        /\ (appUp /\ ~failed /\ ~resumed => cronFile = wanted) => (appUp /\ ~failed /\ ~resumed => cronFile = wanted)'
    BY <1>4, <1>a DEF RunStart, RunStop, RunRestart, CronTypes
  <2>5. ListOnItsWay'
    BY <1>a, <2>1, <2>4, OtherTaken DEF CronTypes
  <2> QED BY <2>3, <2>5 DEF CronInv
<1>5. ASSUME MinutePasses \/ CronTick \/ AgentRestarts \/ \E t \in Task : TaskEnds(t) \/ GivesUp(t) PROVE CronInv'
  <2>1. UNCHANGED <<wanted, waiting, nodeSide>>
    BY <1>5 DEF MinutePasses, CronTick, AgentRestarts, TaskEnds, GivesUp
  <2>2. ListOnItsWay'
    BY <1>a, <2>1 DEF ListOnItsWay, nodeSide
  <2>3. CASE MinutePasses
    <3>1. UNCHANGED <<procs, known, astray, lastMinute>> /\ ClockAt(minute + 1)
      BY <2>3 DEF MinutePasses, tasks
    <3>2. CronTypes' /\ AgentKnows'
      BY <1>a, <2>1, <3>1 DEF ClockAt, CronTypes, AgentKnows, nodeSide, Idle
    <3>3. StoppedIsQuiet'
      BY <1>a, <2>1, <3>1 DEF StoppedIsQuiet, nodeSide, Idle
    <3> QED BY <2>2, <3>2, <3>3 DEF CronInv
  <2>4. CASE CronTick
    <3>1. CASE ~appUp
      <4>1. CronTypes' /\ AgentKnows' /\ StoppedIsQuiet'
        BY <1>a, <2>1, <2>4, <3>1 DEF CronTick, CronTypes, AgentKnows, StoppedIsQuiet, nodeSide, Idle
      <4> QED BY <2>2, <4>1 DEF CronInv
    <3>2. CASE appUp
      <4>1. /\ known' = known \cup DueTasks
            /\ procs' = [t \in Task |-> IF t \in DueTasks THEN procs[t] + 1 ELSE procs[t]]
            /\ begunNow' = [t \in Task |-> IF t \in DueTasks THEN begunNow[t] + 1 ELSE begunNow[t]]
            /\ minute # lastMinute /\ lastMinute' = minute /\ minute' = minute /\ due' = due
            /\ astray' = astray /\ anew' = anew
        BY <2>4, <3>2 DEF CronTick
      <4>2. DueTasks \subseteq Task /\ DueTasks \cap known = {}
        BY <1>a DEF DueTasks, CronTypes
      <4>3. CronTypes'
        BY <1>a, <2>1, <4>1, <4>2 DEF CronTypes, nodeSide
      <4>4. AgentKnows'
        BY <1>a, <4>1, <4>2 DEF CronTypes, AgentKnows
      <4>5. StoppedIsQuiet'
        BY <2>1, <3>2 DEF StoppedIsQuiet, nodeSide
      <4> QED BY <2>2, <4>3, <4>4, <4>5 DEF CronInv
    <3> QED BY <3>1, <3>2
  <2>5. CASE AgentRestarts
    <3>1. /\ procs' = procs /\ lastMinute' = 0 /\ known' = {}
          /\ astray' = [t \in Task |-> IF t \in known THEN astray[t] + 1 ELSE astray[t]]
          /\ ClockAt(minute) \/ ClockAt(minute + 1)
      BY <2>5 DEF AgentRestarts
    <3>2. /\ minute' \in {minute, minute + 1} /\ due' \subseteq Task /\ anew' \in Nat
          /\ \/ minute' = minute /\ begunNow' = begunNow /\ anew' = anew + 1
             \/ begunNow' = Idle
      BY <1>a, <3>1 DEF ClockAt, CronTypes
    <3>3. CronTypes'
      BY <1>a, <2>1, <3>1, <3>2 DEF CronTypes, nodeSide
    <3>4. AgentKnows'
      BY <1>a, <3>1, <3>2 DEF CronTypes, AgentKnows, Idle
    <3>5. StoppedIsQuiet'
      BY <1>a, <2>1, <3>1 DEF StoppedIsQuiet, nodeSide, Idle
    <3> QED BY <2>2, <3>3, <3>4, <3>5 DEF CronInv
  <2>6. ASSUME NEW t \in Task, TaskEnds(t) PROVE CronInv'
    <3>1. /\ procs[t] > 0 /\ procs' = [procs EXCEPT ![t] = @ - 1]
          /\ known' = known \ {t} \/ (procs[t] > 1 /\ known' = known)
          /\ UNCHANGED <<astray, minute, due, lastMinute, begunNow, anew>>
      BY <2>6 DEF TaskEnds, clock
    <3>2. CronTypes' /\ AgentKnows'
      BY <1>a, <2>1, <3>1 DEF CronTypes, AgentKnows, nodeSide
    <3>3. StoppedIsQuiet'
      BY <1>a, <2>1, <3>1 DEF StoppedIsQuiet, nodeSide, Idle
    <3> QED BY <2>2, <3>2, <3>3 DEF CronInv
  <2>7. ASSUME NEW t \in Task, GivesUp(t) PROVE CronInv'
    <3>1. /\ t \in known /\ known' = known \ {t} /\ astray' = [astray EXCEPT ![t] = @ + 1]
          /\ UNCHANGED <<procs, minute, due, lastMinute, begunNow, anew>>
      BY <2>7 DEF GivesUp, clock
    <3>2. CronTypes' /\ AgentKnows'
      BY <1>a, <2>1, <3>1 DEF CronTypes, AgentKnows, nodeSide
    <3>3. StoppedIsQuiet'
      BY <1>a, <2>1, <3>1 DEF StoppedIsQuiet, nodeSide, Idle
    <3> QED BY <2>2, <3>2, <3>3 DEF CronInv
  <2> QED BY <1>5, <2>3, <2>4, <2>5, <2>6, <2>7
<1>6. CASE UNCHANGED cronVars
  BY <1>6, <1>a DEF cronVars, CronInv, CronTypes, AgentKnows, StoppedIsQuiet, ListOnItsWay, Idle
<1> QED BY <1>1, <1>2, <1>3, <1>4, <1>5, <1>6 DEF CronsNext

LEMMA CronInvInit ==
  ASSUME CronsInit
  PROVE  CronInv
<1>1. CronTypes
  <2>1. wanted \subseteq Task /\ cronFile \subseteq Task /\ known \subseteq Task /\ due \subseteq Task
    BY DEF CronsInit
  <2>2. waiting \in Seq(CronJob)
    BY DEF CronsInit
  <2>3. failed \in BOOLEAN /\ appUp \in BOOLEAN /\ resumed \in BOOLEAN
    BY DEF CronsInit
  <2>4. procs \in [Task -> Nat] /\ begunNow \in [Task -> Nat] /\ astray \in [Task -> Nat] /\ anew \in Nat
    BY DEF CronsInit, Idle
  <2>5. minute \in Nat /\ lastMinute \in Nat /\ lastMinute <= minute
    BY DEF CronsInit
  <2> QED BY <2>1, <2>2, <2>3, <2>4, <2>5 DEF CronTypes
<1>3. AgentKnows /\ StoppedIsQuiet
  BY DEF CronsInit, AgentKnows, StoppedIsQuiet, Idle
<1>2. ListOnItsWay
  BY DEF CronsInit, ListOnItsWay
<1> QED BY <1>1, <1>2, <1>3 DEF CronInv

\* A task is started once a minute, and once more for each time the agent came back in
\* that minute; it is not started beside itself but for each time the agent lost sight
\* of it; a stopped app runs none, and the list that was saved last is the file once the
\* queue is empty: runDueCrons.
THEOREM CronsOnce ==
  CronsSpec => []CronsRight
<1>1. CronsInit => CronInv
  BY CronInvInit
<1>2. CronInv /\ [CronsNext]_cronVars => CronInv'
  BY CronInvNext
<1>3. CronInv => CronsRight
  <2>1. ASSUME CronInv PROVE NeverTwice
    BY <2>1 DEF CronInv, CronTypes, AgentKnows, NeverTwice
  <2>2. ASSUME CronInv PROVE StoppedIsQuiet /\ ListReachesNode
    BY <2>2 DEF CronInv, ListOnItsWay, ListReachesNode
  <2> QED BY <2>1, <2>2 DEF CronsRight
<1> QED BY <1>1, <1>2, <1>3, PTL DEF CronsSpec

-----------------------------------------------------------------------------
(* Webhooks.                                                              *)

DeliveryState ==
  [pc : {"none"}]
    \cup [pc : {"calling"}, failures : Nat, alone : BOOLEAN]
    \cup [pc : {"answered"}, ok : BOOLEAN, failures : Nat, alone : BOOLEAN]

HookTypes ==
  /\ endpoint \in [exists : BOOLEAN, enabled : BOOLEAN, failures : Nat]
  /\ streak \in Nat /\ crossed \in BOOLEAN
  /\ delivery \in [Sender -> DeliveryState]

\* A delivery that is still alone is the only one there is; while none has crossed
\* another, each is alone.
Alone(s) == delivery[s].pc # "none" /\ delivery[s].alone
AloneIsAlone ==
  /\ \A s, t \in Sender : Alone(s) /\ delivery[t].pc # "none" => s = t
  /\ ~crossed => \A s \in Sender : delivery[s].pc # "none" => Alone(s)

\* The row says how many failed in a row; until it is written, its delivery does, as
\* does one that arrived and crossed no other.
CountIsKnown ==
  endpoint.exists =>
    /\ \A s \in Sender : Alone(s) /\ delivery[s].pc = "answered" /\ delivery[s].ok => streak = 0
    /\ ~crossed =>
         /\ \A s \in Sender : delivery[s].pc = "calling" => delivery[s].failures = endpoint.failures
         /\ \A s \in Sender : delivery[s].pc = "answered" => streak = Failures(s)
         /\ (\A s \in Sender : delivery[s].pc # "answered") =>
              endpoint.failures = streak /\ (endpoint.enabled <=> streak < MaxFailing)

HookInv == HookTypes /\ AloneIsAlone /\ CountIsKnown

LEMMA HookInvNext ==
  ASSUME HookInv, [WebhooksNext]_hookVars
  PROVE  HookInv'
<1> USE DEF HookInv
<1>a. \A t \in Sender : delivery[t] = NoDelivery <=> delivery[t].pc = "none"
  BY DEF HookTypes, DeliveryState, NoDelivery
<1>1. ASSUME NEW s \in Sender, Starts(s) PROVE HookInv'
  <2> DEFINE fresh == [pc |-> "calling", failures |-> endpoint.failures, alone |-> Others(s) = {}]
  <2>1. /\ delivery[s] = NoDelivery /\ endpoint.exists
        /\ delivery' = [t \in Sender |->
             IF t = s THEN fresh ELSE IF t \in Others(s) THEN [delivery[t] EXCEPT !.alone = FALSE] ELSE NoDelivery]
        /\ delivery \in [Sender -> DeliveryState] /\ endpoint.failures \in Nat
        /\ crossed' = (crossed \/ Others(s) # {})
        /\ UNCHANGED <<endpoint, streak>>
    BY <1>1 DEF Starts, HookTypes
  <2>2. fresh \in DeliveryState /\ fresh.pc = "calling" /\ fresh.failures = endpoint.failures /\ (fresh.alone <=> Others(s) = {})
    <3>1. (Others(s) = {}) \in BOOLEAN
      OBVIOUS
    <3> QED BY <2>1, <3>1 DEF DeliveryState
  <2> HIDE DEF fresh
  <2>3. ASSUME NEW t \in Sender \ {s}
        PROVE  /\ delivery'[t] \in DeliveryState
               /\ delivery'[t].pc = delivery[t].pc
               /\ delivery'[t].pc # "none" => t \in Others(s) /\ ~delivery'[t].alone
    <3>1. CASE t \in Others(s)
      <4>1. delivery[t].pc # "none" /\ delivery[t] \in DeliveryState
        BY <2>1, <3>1, <1>a DEF Others
      <4>2. delivery'[t] = [delivery[t] EXCEPT !.alone = FALSE]
        BY <2>1, <3>1
      <4>3. CASE delivery[t] \in [pc : {"calling"}, failures : Nat, alone : BOOLEAN]
        <5> DEFINE r == delivery[t]
                   x == [r EXCEPT !.alone = FALSE]
        <5>1. r \in [pc : {"calling"}, failures : Nat, alone : BOOLEAN] /\ delivery'[t] = x
          BY <4>2, <4>3
        <5> HIDE DEF r
        <5>2. x \in [pc : {"calling"}, failures : Nat, alone : BOOLEAN] /\ x.pc = r.pc /\ x.alone = FALSE
          BY <5>1
        <5> HIDE DEF x
        <5> QED BY <3>1, <5>1, <5>2 DEF DeliveryState, r
      <4>4. CASE delivery[t] \in [pc : {"answered"}, ok : BOOLEAN, failures : Nat, alone : BOOLEAN]
        <5> DEFINE r == delivery[t]
                   x == [r EXCEPT !.alone = FALSE]
        <5>1. r \in [pc : {"answered"}, ok : BOOLEAN, failures : Nat, alone : BOOLEAN] /\ delivery'[t] = x
          BY <4>2, <4>4
        <5> HIDE DEF r
        <5>2. x \in [pc : {"answered"}, ok : BOOLEAN, failures : Nat, alone : BOOLEAN] /\ x.pc = r.pc /\ x.alone = FALSE
          BY <5>1
        <5> HIDE DEF x
        <5> QED BY <3>1, <5>1, <5>2 DEF DeliveryState, r
      <4> QED BY <4>1, <4>3, <4>4 DEF DeliveryState
    <3>2. CASE t \notin Others(s)
      <4>1. delivery'[t] = NoDelivery /\ delivery[t] = NoDelivery
        BY <2>1, <3>2 DEF Others
      <4> QED BY <4>1 DEF DeliveryState, NoDelivery
    <3> QED BY <3>1, <3>2
  <2>4. delivery'[s] = fresh
    BY <2>1
  <2>5. HookTypes'
    <3>1. delivery' \in [Sender -> DeliveryState]
      BY <2>1, <2>2, <2>3, <2>4
    <3>2. crossed' \in BOOLEAN /\ streak' \in Nat /\ endpoint' \in [exists : BOOLEAN, enabled : BOOLEAN, failures : Nat]
      BY <2>1 DEF HookTypes
    <3> QED BY <3>1, <3>2 DEF HookTypes
  <2>6. AloneIsAlone'
    <3>1. \A t \in Sender : Alone(t)' => t = s /\ Others(s) = {}
      BY <2>2, <2>3, <2>4 DEF Alone
    <3>2. \A t \in Sender : delivery'[t].pc # "none" /\ Others(s) = {} => t = s
      BY <2>3
    <3>3. Others(s) = {} => Alone(s)'
      BY <2>2, <2>4 DEF Alone
    <3> QED BY <2>1, <3>1, <3>2, <3>3 DEF AloneIsAlone
  <2>7. CountIsKnown'
    <3>1. \A t \in Sender : ~(Alone(t)' /\ delivery'[t].pc = "answered")
      BY <2>2, <2>3, <2>4 DEF Alone
    <3>2. CASE crossed'
      BY <3>1, <3>2 DEF CountIsKnown
    <3>3. CASE ~crossed'
      <4>1. ~crossed /\ \A t \in Sender : delivery[t].pc = "none"
        BY <2>1, <3>3, <1>a DEF Others
      <4>2. \A t \in Sender : delivery'[t].pc # "none" => t = s
        BY <2>3, <4>1
      <4> QED BY <2>1, <2>2, <2>4, <3>1, <4>1, <4>2 DEF CountIsKnown
    <3> QED BY <3>2, <3>3
  <2> QED BY <2>5, <2>6, <2>7
<1>2. ASSUME NEW s \in Sender, Deliver(s) PROVE HookInv'
  <2>1. PICK ok \in BOOLEAN :
          /\ streak' = IF ok THEN 0 ELSE streak + 1
          /\ delivery' = [delivery EXCEPT ![s] =
                            [pc |-> "answered", ok |-> ok, failures |-> delivery[s].failures, alone |-> delivery[s].alone]]
    BY <1>2 DEF Deliver, HookTypes
  <2>2. /\ delivery[s].pc = "calling" /\ delivery[s] \in DeliveryState
        /\ delivery \in [Sender -> DeliveryState] /\ streak \in Nat /\ UNCHANGED <<endpoint, crossed>>
    BY <1>2 DEF Deliver, HookTypes
  <2>3. \A t \in Sender : t # s => delivery'[t] = delivery[t]
    BY <2>1, <2>2
  <2>4. /\ delivery'[s] = [pc |-> "answered", ok |-> ok, failures |-> delivery[s].failures, alone |-> delivery[s].alone]
        /\ delivery[s].failures \in Nat /\ delivery[s].alone \in BOOLEAN
    BY <2>1, <2>2 DEF DeliveryState
  <2>5. HookTypes'
    BY <2>1, <2>2, <2>4 DEF HookTypes, DeliveryState
  <2>6. AloneIsAlone'
    BY <2>2, <2>3, <2>4 DEF AloneIsAlone, Alone
  <2>7. CountIsKnown'
    <3>1. \A t \in Sender : Alone(t)' /\ delivery'[t].pc = "answered" /\ delivery'[t].ok /\ endpoint'.exists => streak' = 0
      <4>1. ASSUME NEW t \in Sender, Alone(t)', delivery'[t].pc = "answered", delivery'[t].ok PROVE streak' = 0
        <5>1. t = s
          BY <2>2, <2>4, <2>6, <4>1 DEF AloneIsAlone, Alone
        <5> QED BY <2>1, <2>4, <4>1, <5>1
      <4> QED BY <4>1
    <3>2. CASE endpoint.exists /\ ~crossed
      <4>1. Alone(s) /\ \A t \in Sender : t # s => delivery[t].pc = "none"
        BY <2>2, <3>2 DEF AloneIsAlone, Alone
      <4>2. delivery[s].failures = streak
        BY <2>2, <3>2, <4>1 DEF CountIsKnown
      <4>3. \A t \in Sender : t # s => delivery'[t].pc = "none"
        BY <2>3, <4>1
      <4>4. streak' = Failures(s)'
        BY <2>1, <2>4, <4>2 DEF Failures
      <4>5. delivery'[s].pc = "answered"
        BY <2>4
      <4>6. \A t \in Sender : delivery'[t].pc = "answered" => streak' = Failures(t)'
        BY <4>3, <4>4
      <4> QED BY <2>2, <3>1, <4>3, <4>5, <4>6 DEF CountIsKnown
    <3>3. CASE ~(endpoint.exists /\ ~crossed)
      BY <2>2, <3>1, <3>3 DEF CountIsKnown
    <3> QED BY <3>2, <3>3
  <2> QED BY <2>5, <2>6, <2>7
<1>3. ASSUME NEW s \in Sender, NoteResult(s) PROVE HookInv'
  <2>1. /\ delivery[s].pc = "answered" /\ delivery[s] \in DeliveryState
        /\ delivery \in [Sender -> DeliveryState] /\ streak \in Nat
        /\ streak' = streak /\ delivery' = [delivery EXCEPT ![s] = NoDelivery]
        /\ crossed' = (crossed /\ ~(delivery[s].ok /\ delivery[s].alone))
    BY <1>3 DEF NoteResult, HookTypes
  <2>2. delivery'[s].pc = "none" /\ \A t \in Sender : t # s => delivery'[t] = delivery[t]
    BY <2>1 DEF NoDelivery
  <2>3. Failures(s) \in Nat
    BY <2>1 DEF Failures, DeliveryState
  <2>4. HookTypes'
    <3>1. endpoint \in [exists : BOOLEAN, enabled : BOOLEAN, failures : Nat]
      BY DEF HookTypes
    <3>2. (Failures(s) < MaxFailing) \in BOOLEAN
      OBVIOUS
    <3>3. endpoint' \in [exists : BOOLEAN, enabled : BOOLEAN, failures : Nat]
      BY <1>3, <2>3, <3>1, <3>2 DEF NoteResult
    <3>4. delivery' \in [Sender -> DeliveryState]
      BY <2>1 DEF DeliveryState, NoDelivery
    <3>5. crossed' \in BOOLEAN
      BY <2>1 DEF HookTypes, DeliveryState
    <3> QED BY <2>1, <3>3, <3>4, <3>5 DEF HookTypes
  <2>5. ~crossed' => Alone(s)
    BY <2>1 DEF AloneIsAlone, Alone
  <2>6. ~crossed' => \A t \in Sender : delivery'[t].pc = "none"
    BY <2>1, <2>2, <2>5 DEF AloneIsAlone
  <2>7. AloneIsAlone'
    <3>1. \A t \in Sender : Alone(t)' => Alone(t) /\ t # s
      BY <2>2 DEF Alone
    <3> QED BY <2>2, <2>6, <3>1 DEF AloneIsAlone
  <2>8. endpoint'.exists => endpoint.exists /\ endpoint'.failures = Failures(s) /\ endpoint'.enabled = (Failures(s) < MaxFailing)
    BY <1>3 DEF NoteResult, HookTypes
  <2>9. ~crossed' /\ endpoint.exists => streak = Failures(s)
    <3>1. CASE ~crossed
      BY <2>1, <3>1 DEF CountIsKnown
    <3>2. CASE crossed
      BY <2>1, <2>5, <3>2 DEF CountIsKnown, Failures
    <3> QED BY <3>1, <3>2 DEF HookTypes
  <2>10. CountIsKnown'
    <3>1. \A t \in Sender : Alone(t)' /\ delivery'[t].pc = "answered" /\ delivery'[t].ok /\ endpoint'.exists => streak' = 0
      BY <2>1, <2>2, <2>8 DEF CountIsKnown, Alone
    <3>2. ~crossed' /\ endpoint'.exists => endpoint'.failures = streak' /\ (endpoint'.enabled <=> streak' < MaxFailing)
      BY <2>1, <2>8, <2>9
    <3> QED BY <2>6, <3>1, <3>2 DEF CountIsKnown
  <2> QED BY <2>4, <2>7, <2>10
<1>4. ASSUME DeleteWebhook PROVE HookInv'
  BY <1>4 DEF DeleteWebhook, HookTypes, AloneIsAlone, Alone, CountIsKnown
<1>5. ASSUME UNCHANGED hookVars PROVE HookInv'
  BY <1>5 DEF hookVars, HookTypes, AloneIsAlone, Alone, CountIsKnown, Failures
<1> QED BY <1>1, <1>2, <1>3, <1>4, <1>5 DEF WebhooksNext, EmitEvent, TestWebhook

\* Once a delivery has arrived that crossed no other, and until two cross, an endpoint
\* that keeps failing is switched off in time, and no other: deliver.
THEOREM EndpointSwitchedOff ==
  WebhooksSpec => []SwitchedOffInTime
<1>1. WebhooksInit => HookInv
  <2> SUFFICES ASSUME WebhooksInit PROVE HookInv
    OBVIOUS
  <2>1. /\ delivery \in [Sender -> DeliveryState] /\ \A s \in Sender : delivery[s].pc = "none"
        /\ streak = 0 /\ crossed = FALSE /\ endpoint = [exists |-> TRUE, enabled |-> TRUE, failures |-> 0]
    BY DEF WebhooksInit, NoDelivery, DeliveryState
  <2>2. endpoint \in [exists : BOOLEAN, enabled : BOOLEAN, failures : Nat] /\ endpoint.enabled /\ endpoint.failures = 0 /\ 0 < MaxFailing
    BY <2>1, WebhooksBounds
  <2> QED BY <2>1, <2>2 DEF HookInv, HookTypes, AloneIsAlone, Alone, CountIsKnown
<1>2. HookInv /\ [WebhooksNext]_hookVars => HookInv'
  BY HookInvNext
<1>3. HookInv => SwitchedOffInTime
  BY DEF HookInv, CountIsKnown, SwitchedOffInTime, NoDelivery
<1> QED BY <1>1, <1>2, <1>3, PTL DEF WebhooksSpec

-----------------------------------------------------------------------------
(* All of them.                                                            *)

\* A step of the office is a step of each part, or leaves it alone.
LEMMA OfficeSteps ==
  ASSUME [OfficeNext]_officeVars
  PROVE  /\ [CapacityNext]_capVars /\ [ShopNext]_shopVars /\ [FiscalNext]_fiscalVars
         /\ [WebhooksNext]_hookVars /\ [LeasedBlocksNext]_blockVars
         /\ [ImportsNext]_importVars /\ [CronsNext]_cronVars
<1>1. CASE UNCHANGED officeVars
  BY <1>1 DEF officeVars
<1>2. CASE OfficeNext
  BY <1>2 DEF OfficeNext
<1> QED BY <1>1, <1>2

\* Places for sites and their addresses, while orders keep off a server that is being
\* retired, staff waits for a creation that claimed what was being given back, and one
\* request or call of the cron is at a block at a time: createCloudNode, leaseAddress, releaseAddress, maintainCapacity,
\* orderBlock.
THEOREM PlacesAreRight ==
  ASSUME ~Hasty, ~Rushed, ~Rival
  PROVE  OfficeSpec => []PlacesRight
<1> DEFINE Inv == CapInv /\ Leased /\ LeaseInv
<1>1. OfficeInit => Inv
  BY CapInvInit, LeasedInit, LeaseInvInit DEF OfficeInit
<1>2. Inv /\ [OfficeNext]_officeVars => Inv'
  <2> SUFFICES ASSUME CapInv, Leased, LeaseInv, [OfficeNext]_officeVars PROVE Inv'
    OBVIOUS
  <2>1. [CapacityNext]_capVars /\ [LeasedBlocksNext]_blockVars
    BY OfficeSteps
  <2>2. CapInv'
    BY <2>1, CapInvNext
  <2>3. Leased'
    BY <2>1, LeasedNext
  <2>4. LeaseInv'
    BY <2>1, LeaseInvNext
  <2> QED BY <2>2, <2>3, <2>4
<1>3. Inv => PlacesRight
  BY CapacityIsRight DEF PlacesRight, LeaseInv, CartKnown, BlocksRight, BuysWhatWasAsked
<1> HIDE DEF Inv
<1> QED BY <1>1, <1>2, <1>3, PTL DEF OfficeSpec

\* "Never remove the room we were asked to keep": while orders keep off the server that
\* is being retired, the hourly run leaves the reserve, but for the places that went
\* since it counted and the servers whose rows it failed to delete before: maintainCapacity.
THEOREM ReserveIsKept ==
  ASSUME ~Hasty
  PROVE  OfficeSpec => ReserveSurvives
<1> DEFINE A == Retired # {} => FreePlaces' + gone + PerServer * stuck >= MinFree
<1>1. OfficeInit => CapInv /\ Counted
  <2>1. OfficeInit => CapInv
    BY CapInvInit DEF OfficeInit
  <2>2. CapacityInit => Counted
    <3> SUFFICES ASSUME CapacityInit PROVE Counted
      OBVIOUS
    <3>1. deed[Keeper] = Idly
      BY DEF CapacityInit, Doer
    <3> QED BY <3>1, IdlyIs DEF CapacityInit, Counted
  <2> QED BY <2>1, <2>2 DEF OfficeInit
<1>2. CapInv /\ Counted /\ [OfficeNext]_officeVars => (CapInv /\ Counted)' /\ A
  <2> SUFFICES ASSUME CapInv, Counted, [OfficeNext]_officeVars PROVE (CapInv /\ Counted)' /\ A
    OBVIOUS
  <2>1. [CapacityNext]_capVars
    BY OfficeSteps
  <2>2. CapInv'
    BY <2>1, CapInvNext
  <2> QED BY <2>1, <2>2, CountedNext
<1> QED BY <1>1, <1>2, PTL DEF OfficeSpec, ReserveSurvives

\* What was agreed with customers, and beside it endpoints and scheduled jobs, each
\* under what its own part needs.
THEOREM OfficeIsRight ==
  ASSUME ~Late, ~Shared, ~Overlap, ~Early, ~Side, Contract \cap Name = {}
  PROVE  OfficeSpec => []OfficeRight
<1>1. OfficeInit => ShopInv
  BY ShopInvInit DEF OfficeInit
<1>2. ShopInv /\ [OfficeNext]_officeVars => ShopInv'
  BY OfficeSteps, ShopInvNext
<1>3. ShopInv => ShopRight
  BY ShopInvMeans
<1>4. OfficeSpec => []ShopRight
  BY <1>1, <1>2, <1>3, PTL DEF OfficeSpec
<1>5. OfficeSpec => []FiscalRight
  <2>1. OfficeInit => FiscalInv
    BY FiscalInvInit DEF OfficeInit
  <2>2. FiscalInv /\ [OfficeNext]_officeVars => FiscalInv'
    BY OfficeSteps, FiscalInvNext
  <2>3. FiscalInv => FiscalRight
    BY FiscalInvMeans
  <2> QED BY <2>1, <2>2, <2>3, PTL DEF OfficeSpec
<1>6. OfficeSpec => WebhooksSpec
  <2>1. OfficeInit => WebhooksInit
    BY DEF OfficeInit
  <2>2. [OfficeNext]_officeVars => [WebhooksNext]_hookVars
    BY OfficeSteps
  <2> QED BY <2>1, <2>2, PTL DEF OfficeSpec, WebhooksSpec
<1>7. OfficeSpec => ImportsSpec
  <2>1. OfficeInit => ImportsInit
    BY DEF OfficeInit
  <2>2. [OfficeNext]_officeVars => [ImportsNext]_importVars
    BY OfficeSteps
  <2> QED BY <2>1, <2>2, PTL DEF OfficeSpec, ImportsSpec
<1>8. OfficeSpec => CronsSpec
  <2>1. OfficeInit => CronsInit
    BY DEF OfficeInit
  <2>2. [OfficeNext]_officeVars => [CronsNext]_cronVars
    BY OfficeSteps
  <2> QED BY <2>1, <2>2, PTL DEF OfficeSpec, CronsSpec
<1>9. ShopRight /\ FiscalRight /\ ImportRight /\ SwitchedOffInTime /\ CronsRight => OfficeRight
  BY DEF OfficeRight, SalesRight
<1>10. (WebhooksSpec => []SwitchedOffInTime) /\ (ImportsSpec => []ImportRight) /\ (CronsSpec => []CronsRight)
  BY EndpointSwitchedOff, ImportsRepeat, CronsOnce
<1> QED BY <1>4, <1>5, <1>6, <1>7, <1>8, <1>9, <1>10, PTL
=============================================================================
