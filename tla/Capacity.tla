----------------------------- MODULE Capacity ------------------------------
(***************************************************************************)
(* The servers the panel creates at a cloud provider: for orders that find *)
(* no room, for the reserve the hourly run keeps, or by hand; the pool of  *)
(* addresses they lease; and their retirement when they stay empty.  The   *)
(* provider's answers may be lost.                                         *)
(*                                                                         *)
(* Creations in automatic mode queue up behind one another (the promise    *)
(* "creating"), those by hand do not.                                      *)
(***************************************************************************)
EXTENDS Integers, Sequences, FiniteSetsExt

CONSTANTS
  Server,        \* rows of nodes, each with the machine created for it
  Address,       \* the addresses of the pool
  Client,        \* orders in progress
  Keeper,        \* the hourly run
  Staff,
  MaxServers,    \* settings: maxNodes
  PerServer,     \* settings: workloadsPerNode
  MinFree,       \* settings: minFreeSlots
  MaxPlaced,      \* bound: sites ever placed
  MaxRemoved,    \* bound: sites that are deleted
  MaxOdd,        \* bound: creations the provider does not answer, and what staff does
  Hasty,         \* orders reach a server while the run is retiring it
  Rushed         \* staff creates a server while a creation has an address staff gave back

ASSUME CapacityBounds ==
  /\ {MinFree, MaxPlaced, MaxRemoved, MaxOdd} \subseteq Nat
  /\ {MaxServers, PerServer} \subseteq Nat \ {0}
  /\ Keeper # Staff /\ {Keeper, Staff} \cap Client = {}
  /\ IsFiniteSet(Server)
  /\ {"none", "free", "no node"} \cap Server = {} /\ {"none", "no address"} \cap Address = {}
  /\ {Hasty, Rushed} \subseteq BOOLEAN

VARIABLES
  node,      \* none, starting (never seen), online, offline (destroyed, its row could not be deleted)
  auto,      \* the nodes created in automatic mode
  idle,      \* for how long a node is known to be empty: no, since now, long enough
  machine,   \* the machine at the provider: none, or the address it answers from
  lease,     \* ip_leases: none, free or the node
  reserved,  \* the addresses reserved at the provider
  sites,     \* the sites on each node
  ghosts,    \* the nodes with rows of deleted sites
  line,      \* who waits for or is at a creation in automatic mode
  deed,      \* what each actor is doing
  placed, removed, unheard, byHand,
  gone,      \* history: places others took or lost since the run counted them
  stuck      \* history: servers this run destroyed whose row it could not delete

capState == <<node, auto, idle, machine, lease, reserved, sites, ghosts, line, deed, placed, removed, unheard, byHand>>
capVars  == <<capState, gone, stuck>>
capRows == <<node, auto, idle, sites, ghosts>>
capIps  == <<lease, reserved>>

Doer   == Client \cup {Keeper, Staff}
NoNode == "no node"
NoIp   == "no address"
Idly   == [pc |-> "idle", on |-> NoNode, ip |-> NoIp, todo |-> {}, free |-> 0]

Does(d, pc) == deed[d].pc = pc
Becomes(d, r) == deed' = [deed EXCEPT ![d] = r]
Moves(d, pc)  == deed' = [deed EXCEPT ![d].pc = pc]

CapacityTypeOK ==
  /\ node \in [Server -> {"none", "starting", "online", "offline"}]
  /\ machine \in [Server -> {"none", NoIp} \cup Address]
  /\ lease \in [Address -> {"none", "free"} \cup Server]
  /\ reserved \subseteq Address
  /\ sites \in [Server -> 0 .. MaxPlaced]
  /\ auto \subseteq Server /\ ghosts \subseteq Server
  /\ idle \in [Server -> {"no", "now", "long"}]
  /\ \A d \in Doer : deed[d].on \in Server \cup {NoNode} /\ deed[d].ip \in Address \cup {NoIp}
  /\ gone \in Nat /\ stuck \in Nat

CapacityInit ==
  /\ node = [n \in Server |-> "none"]
  /\ auto = {} /\ ghosts = {}
  /\ idle = [n \in Server |-> "no"]
  /\ machine = [n \in Server |-> "none"]
  /\ lease = [a \in Address |-> "none"]
  /\ reserved = {}
  /\ sites = [n \in Server |-> 0]
  /\ line = <<>>
  /\ deed = [d \in Doer |-> Idly]
  /\ placed = 0 /\ removed = 0 /\ unheard = 0 /\ byHand = 0
  /\ gone = 0 /\ stuck = 0

Rows == {n \in Server : node[n] # "none"}
NewNode == CHOOSE n \in Server : node[n] = "none" /\ machine[n] = "none"

-----------------------------------------------------------------------------
(* Room.                                                                   *)

HasRoom(n) == sites[n] < PerServer

\* capacity: servers that are up, or in automatic mode still starting.
Usable == {n \in Rows : node[n] = "online" \/ (node[n] = "starting" /\ n \in auto)}
FreePlaces == SumFunctionOnSet([n \in Server |-> PerServer - Min({sites[n], PerServer})], Usable)

\* pickNode: an online node with room, the least loaded first; if there is
\* none, automatic mode is asked.
Pick(c) ==
  LET free == {n \in Rows : node[n] = "online" /\ HasRoom(n)}
      best == {n \in free : \A m \in free : sites[n] <= sites[m]}
  IN /\ Does(c, "idle")
     /\ placed < MaxPlaced
     /\ placed' = placed + 1
     /\ \/ free = {} /\ line' = Append(line, c) /\ Moves(c, "wait")
        \/ \E n \in best : Becomes(c, [Idly EXCEPT !.pc = "place", !.on = n]) /\ UNCHANGED line
     /\ UNCHANGED <<capRows, capIps, machine, removed, unheard, byHand>>

\* createWorkload inserts its row; that fails when the node's row is gone.
PlaceSite(c) ==
  LET n == deed[c].on
  IN /\ Does(c, "place")
     /\ sites' = IF node[n] = "none" THEN sites ELSE [sites EXCEPT ![n] = @ + 1]
     /\ Becomes(c, Idly)
     /\ UNCHANGED <<node, auto, idle, ghosts, machine, capIps, line, placed, removed, unheard, byHand>>

\* A site is deleted; its row stays and keeps the row of its node.
RemoveSite(n) ==
  /\ sites[n] > 0 /\ node[n] = "online"
  /\ removed < MaxRemoved
  /\ removed' = removed + 1
  /\ sites' = [sites EXCEPT ![n] = @ - 1]
  /\ ghosts' = ghosts \cup {n}
  /\ UNCHANGED <<node, auto, idle, machine, capIps, line, deed, placed, unheard, byHand>>

-----------------------------------------------------------------------------
(* Creation.                                                               *)

\* Mutant: creations do not wait for one another.
MyTurnAlways(d) == TRUE
MyTurn(d) == Head(line) = d

\* An order that waited takes the node, the run goes home.
Gets(d, n) == IF d \in Client /\ n # NoNode THEN [Idly EXCEPT !.pc = "place", !.on = n] ELSE Idly

\* The end of a creation, with the node or without one: the next one begins.
Leave(d, n) == Becomes(d, Gets(d, n)) /\ line' = IF d = Staff THEN line ELSE Tail(line)

\* autoscaleNode: what it reads ...
Autoscale(d) ==
  LET starting == {n \in auto : node[n] = "starting" /\ HasRoom(n)}
      full     == Cardinality(auto) >= MaxServers
  IN /\ Does(d, "wait")
     /\ MyTurn(d)
     /\ \/ d # Keeper /\ \E n \in starting : Leave(d, n)
        \/ (starting = {} \/ d = Keeper) /\ full /\ Leave(d, NoNode)
        \/ (starting = {} \/ d = Keeper) /\ ~full /\ Moves(d, "insert") /\ UNCHANGED line
     /\ UNCHANGED <<capRows, capIps, machine, placed, removed, unheard, byHand>>

\* ... and createCloudNode: the row first,
InsertNode(d) ==
  /\ Does(d, "insert")
  /\ \E m \in Server : node[m] = "none" /\ machine[m] = "none"
  /\ node' = [node EXCEPT ![NewNode] = "starting"]
  /\ idle' = [idle EXCEPT ![NewNode] = "no"]
  /\ auto' = IF d = Staff THEN auto ELSE auto \cup {NewNode}
  /\ Becomes(d, [deed[d] EXCEPT !.pc = "lease", !.on = NewNode])
  /\ UNCHANGED <<sites, ghosts, machine, capIps, line, placed, removed, unheard, byHand>>

\* leaseAddress: an address that is reserved and free is claimed, or else the
\* next one of the block is reserved at the provider; it may just have been.
ClaimAddress(d) ==
  /\ Does(d, "lease")
  /\ \E a \in Address :
       /\ lease[a] = "free"
       /\ lease' = [lease EXCEPT ![a] = deed[d].on]
       /\ Becomes(d, [deed[d] EXCEPT !.pc = "create", !.ip = a])
  /\ UNCHANGED <<capRows, reserved, machine, line, placed, removed, unheard, byHand>>

ReserveAddress(d) ==
  /\ Does(d, "lease")
  /\ \A a \in Address : lease[a] # "free"
  /\ \/ \E a \in Address :
          /\ lease[a] = "none"
          /\ Becomes(d, [deed[d] EXCEPT !.pc = IF a \in reserved THEN "undo" ELSE "book", !.ip = a])
          /\ reserved' = reserved \cup {a}
     \/ (\A a \in Address : lease[a] # "none") /\ Moves(d, "create") /\ UNCHANGED reserved
  /\ UNCHANGED <<capRows, machine, lease, line, placed, removed, unheard, byHand>>

BookAddress(d) ==
  /\ Does(d, "book")
  /\ lease' = [lease EXCEPT ![deed[d].ip] = deed[d].on]
  /\ Moves(d, "create")
  /\ UNCHANGED <<capRows, reserved, machine, line, placed, removed, unheard, byHand>>

\* What the provider gives an address to.
Attachable(a) == a = NoIp \/ (a \in reserved /\ \A m \in Server : machine[m] # a)

\* provider.create; nobody knows what became of it when it does not answer.
MachineStarts(d) ==
  LET n == deed[d].on
      a == deed[d].ip
  IN /\ Does(d, "create")
     /\ \/ Attachable(a) /\ machine' = [machine EXCEPT ![n] = a] /\ Moves(d, "record") /\ UNCHANGED unheard
        \/ ~Attachable(a) /\ Moves(d, "undo") /\ UNCHANGED <<machine, unheard>>
        \/ /\ unheard + byHand < MaxOdd
           /\ unheard' = unheard + 1
           /\ machine' \in {machine} \cup (IF Attachable(a) THEN {[machine EXCEPT ![n] = a]} ELSE {})
           /\ Moves(d, "undo")
     /\ UNCHANGED <<capRows, capIps, line, placed, removed, byHand>>

RecordNode(d) ==
  /\ Does(d, "record")
  /\ Leave(d, deed[d].on)
  /\ UNCHANGED <<capRows, capIps, machine, placed, removed, unheard, byHand>>

Unlease(n) == [a \in Address |-> IF lease[a] = n THEN "free" ELSE lease[a]]

\* The address goes back to the pool and the row is deleted.
UndoNode(d) ==
  LET n == deed[d].on
  IN /\ Does(d, "undo")
     /\ lease' = Unlease(n)
     /\ node' = [node EXCEPT ![n] = "none"]
     /\ auto' = auto \ {n}
     /\ idle' = [idle EXCEPT ![n] = "no"]
     /\ Leave(d, NoNode)
     /\ UNCHANGED <<sites, ghosts, reserved, machine, placed, removed, unheard, byHand>>

\* The machine installs its agent, which reports.
ComesOnline(n) ==
  /\ node[n] = "starting" /\ machine[n] # "none"
  /\ \A d \in Doer : deed[d].on # n \/ Does(d, "place")
  /\ node' = [node EXCEPT ![n] = "online"]
  /\ UNCHANGED <<auto, idle, sites, ghosts, machine, capIps, line, deed, placed, removed, unheard, byHand>>

-----------------------------------------------------------------------------
(* maintainCapacity, and staff.                                            *)

\* For how long each server is known to be empty.
IdleNow(n) == IF n \notin auto THEN idle[n] ELSE IF sites[n] > 0 THEN "no" ELSE IF idle[n] = "no" THEN "now" ELSE idle[n]

\* The run reads the nodes and their sites.
KeepStart ==
  /\ Does(Keeper, "idle")
  /\ idle' = [n \in Server |-> IdleNow(n)]
  /\ Becomes(Keeper, [Idly EXCEPT !.pc = "retire", !.free = FreePlaces,
                      !.todo = {n \in auto : node[n] # "starting" /\ sites[n] = 0 /\ idle[n] = "long"}])
  /\ UNCHANGED <<node, auto, sites, ghosts, machine, capIps, line, placed, removed, unheard, byHand>>

\* Hours pass.
HoursPass(n) ==
  /\ idle[n] = "now"
  /\ idle' = [idle EXCEPT ![n] = "long"]
  /\ UNCHANGED <<node, auto, sites, ghosts, machine, capIps, line, deed, placed, removed, unheard, byHand>>

\* Mutant: the reserve is not looked at.
SparableAlways == TRUE
Sparable == deed[Keeper].free - PerServer >= MinFree

\* Without Hasty no order reaches a server between the reading and this.
Undisturbed(n) == Hasty \/ (sites[n] = 0 /\ \A c \in Client : deed[c].on # n)

\* destroyCloudServer, then the row: with rows of sites it stays.
Retire ==
  \E n \in deed[Keeper].todo :
    LET kept == sites[n] > 0 \/ n \in ghosts
    IN /\ Does(Keeper, "retire")
       /\ Sparable /\ Undisturbed(n)
       /\ machine' = [machine EXCEPT ![n] = "none"]
       /\ node' = [node EXCEPT ![n] = IF kept THEN "offline" ELSE "none"]
       /\ auto' = IF kept THEN auto ELSE auto \ {n}
       /\ lease' = IF kept THEN lease ELSE Unlease(n)
       /\ idle' = IF kept THEN idle ELSE [idle EXCEPT ![n] = "no"]
       /\ Becomes(Keeper, [deed[Keeper] EXCEPT !.todo = @ \ {n}, !.free = @ - IF kept THEN 0 ELSE PerServer])
       /\ UNCHANGED <<sites, ghosts, reserved, line, placed, removed, unheard, byHand>>

\* Mutant: one place less than what was asked for is enough.
ShortOfMore == deed[Keeper].free + 1 < MinFree
Short == deed[Keeper].free < MinFree

\* Then one more server, when places are missing.
KeepReserve ==
  /\ Does(Keeper, "retire")
  /\ ~Sparable \/ \A n \in deed[Keeper].todo : ~Undisturbed(n)
  /\ \/ Short /\ line' = Append(line, Keeper) /\ Becomes(Keeper, [Idly EXCEPT !.pc = "wait"])
     \/ ~Short /\ Becomes(Keeper, Idly) /\ UNCHANGED line
  /\ UNCHANGED <<capRows, capIps, machine, placed, removed, unheard, byHand>>

\* Without Rushed staff waits for a creation that claimed what was being given back.
Settled == Rushed \/ \A d \in Doer : Does(d, "create") /\ deed[d].ip \in Address => lease[deed[d].ip] = deed[d].on

\* createCloudServer, and releaseAddress: the lease is read ...
ByHand ==
  /\ Does(Staff, "idle")
  /\ unheard + byHand < MaxOdd
  /\ byHand' = byHand + 1
  /\ \/ Settled /\ Moves(Staff, "insert")
     \/ \E a \in Address : lease[a] = "free" /\ Becomes(Staff, [Idly EXCEPT !.pc = "release", !.ip = a])
  /\ UNCHANGED <<capRows, capIps, machine, line, placed, removed, unheard>>

\* ... the provider gives the address back, unless a machine answers from it,
ReleaseAddress ==
  LET a == deed[Staff].ip
  IN /\ Does(Staff, "release")
     /\ \/ Attachable(a) /\ reserved' = reserved \ {a} /\ Moves(Staff, "delete")
        \/ ~Attachable(a) /\ Becomes(Staff, Idly) /\ UNCHANGED reserved
     /\ UNCHANGED <<capRows, lease, machine, line, placed, removed, unheard, byHand>>

\* ... and the row of the lease is deleted, whoever has it by now.
DeleteLease ==
  /\ Does(Staff, "delete")
  /\ lease' = [lease EXCEPT ![deed[Staff].ip] = "none"]
  /\ Becomes(Staff, Idly)
  /\ UNCHANGED <<capRows, reserved, machine, line, placed, removed, unheard, byHand>>

-----------------------------------------------------------------------------
Creates(d) ==
  \/ Autoscale(d) \/ InsertNode(d) \/ ClaimAddress(d) \/ ReserveAddress(d) \/ BookAddress(d)
  \/ MachineStarts(d) \/ RecordNode(d) \/ UndoNode(d)

CapacityStep ==
  \/ \E c \in Client : Pick(c) \/ PlaceSite(c)
  \/ \E d \in Doer : Creates(d)
  \/ \E n \in Server : RemoveSite(n) \/ ComesOnline(n) \/ HoursPass(n)
  \/ KeepStart \/ Retire \/ KeepReserve
  \/ ByHand \/ ReleaseAddress \/ DeleteLease

\* Between the reading and the last retirement the run does not count again: what it
\* misses meanwhile, for the places that go otherwise and for the rows that stay.
Retired == {n \in Server : node[n] = "online" /\ node'[n] # "online"}
Misses ==
  LET counts == deed'[Keeper].pc = "retire"
      less   == IF Retired = {} THEN Max({0, FreePlaces - FreePlaces'}) ELSE 0
  IN /\ gone' = IF counts THEN gone + less ELSE 0
     /\ stuck' = IF counts THEN stuck + Cardinality({n \in Retired : node'[n] = "offline"}) ELSE 0

CapacityNext == CapacityStep /\ Misses

\* What was begun goes on.
CapacityFairness ==
  /\ \A d \in Doer : WF_capState(Creates(d))
  /\ \A c \in Client : WF_capState(PlaceSite(c))
  /\ \A n \in Server : WF_capState(ComesOnline(n))
  /\ WF_capState(Retire \/ KeepReserve)

\* The run comes every hour.
CapacitySpec == CapacityInit /\ [][CapacityNext]_capVars /\ CapacityFairness /\ WF_capState(KeepStart)

-----------------------------------------------------------------------------
(* Properties.                                                             *)

Untouched(n) == \A d \in Doer : deed[d].on # n

\* No machine costs money unseen: each is a node of the panel, unless the
\* provider's answer was lost.
MachinesKnown ==
  \A n \in Server : machine[n] # "none" /\ unheard = 0 => node[n] \in {"starting", "online"}

\* "Two servers created together can never get the same address", and what a
\* machine answers from is leased to it, whoever gives addresses back beside.
AddressOnce ==
  \A m, n \in Server : machine[m] \in Address /\ unheard = 0 =>
    lease[machine[m]] = m /\ (machine[m] = machine[n] => m = n)

\* Whoever orders together, automatic mode never has more servers than it may.
ServersBounded == Cardinality(auto) <= MaxServers

\* Nobody waits on a node whose machine is gone: as long as no answer is lost
\* a site's node has its machine, or is getting it.
SitesHaveMachines ==
  \A n \in Server : sites[n] > 0 /\ unheard = 0 /\ Untouched(n) => machine[n] # "none"

CapacityRight == MachinesKnown /\ AddressOnce /\ ServersBounded /\ SitesHaveMachines

\* "Never remove the room we were asked to keep": a retirement leaves the reserve,
\* but for the places that orders took, or creations lost, since the run counted, and
\* for those of the servers it retired before and whose rows it could not delete.
\* For these it does not lower its count, so the next retirement of the same run
\* goes below what was asked for, which cloud.ts:199 says it never does.
ReserveSurvives == [][Retired # {} => FreePlaces' + gone + PerServer * stuck >= MinFree]_capVars

\* A reserve that is short comes back, until there are as many servers as may be.
ReserveShort == FreePlaces < MinFree /\ Cardinality(auto) # MaxServers /\ unheard = 0
ReserveReturns == ReserveShort ~> ~ReserveShort

\* "Retires servers that stayed empty": a server that was destroyed is not one
\* of those automatic mode counts. It does not hold, and no run checks it: the
\* rows of its deleted sites keep the row of the node, which then counts for ever.
RetiredIsGone == \A n \in Server : machine[n] = "none" /\ Untouched(n) /\ unheard = 0 => n \notin auto
=============================================================================
