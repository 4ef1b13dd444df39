---------------------------- MODULE AddressBook -----------------------------
(***************************************************************************)
(* Address pools over blocks the company owns: a pool is refused when its  *)
(* block overlaps another's, an address is the lowest one its pool has not *)
(* handed out, and a unique index decides between two that took the same.  *)
(***************************************************************************)
EXTENDS Integers, FiniteSets

CONSTANTS
  Space,      \* addresses are 0 .. Space - 1
  BlockSize,  \* sizes of blocks
  Pool,       \* rows ip_pools may get
  NoPool,
  Booker,     \* requests of administrators at a time
  Attempts,   \* times a booking is tried
  Alone       \* pools are created one at a time

ASSUME AddressBookBounds ==
  /\ Space \in Nat /\ Attempts \in Nat
  /\ BlockSize \subseteq Nat \ {0}
  /\ NoPool \notin Pool
  /\ Alone \in BOOLEAN

VARIABLES
  stands,   \* pools with a row
  past,     \* pools that were deleted
  cidr,     \* cidr[p]: the block of pool p
  leaseOf,  \* leaseOf[a]: the pool that handed out address a
  booker    \* what each request is doing

bookVars == <<stands, past, cidr, leaseOf, booker>>

Addresses == 0 .. (Space - 1)
\* parseCidr: blocks lie on a boundary of their size.
Blocks == {b \in [base : Addresses, size : BlockSize] : b.base % b.size = 0 /\ b.base + b.size <= Space}

\* Network and broadcast addresses are left alone in blocks that have them.
Skip(b)   == IF b.size <= 2 THEN 0 ELSE 1
Handed(b) == (b.base + Skip(b)) .. (b.base + b.size - 1 - Skip(b))

Covers(b, a) == b.base <= a /\ a < b.base + b.size
Clash(b, c)    == Covers(b, c.base) \/ Covers(c, b.base)

NoOrder == [pc |-> "none"]

\* Pools have blocks, addresses are handed out by pools, and bookings are tried so many times.
AddressBookTypeOK ==
  /\ stands \subseteq Pool /\ past \subseteq Pool /\ stands \cap past = {}
  /\ cidr \in [Pool -> Blocks \cup {NoOrder}]
  /\ leaseOf \in [Addresses -> Pool \cup {NoPool}]
  /\ \A k \in Booker : booker[k].pc \in {"read", "book"} => booker[k].tries < Attempts

AddressBookInit ==
  /\ stands = {} /\ past = {}
  /\ cidr = [p \in Pool |-> NoOrder]
  /\ leaseOf = [a \in Addresses |-> NoPool]
  /\ booker = [k \in Booker |-> NoOrder]

-----------------------------------------------------------------------------
\* createIpPool: the blocks of all pools are read, and then the row is inserted.
CheckClash(k) ==
  /\ booker[k] = NoOrder
  /\ Alone => \A j \in Booker : booker[j].pc # "insert"
  /\ \E b \in Blocks :
       /\ \A p \in stands : ~Clash(b, cidr[p])
       /\ booker' = [booker EXCEPT ![k] = [pc |-> "insert", block |-> b]]
  /\ UNCHANGED <<stands, past, cidr, leaseOf>>

InsertPool(k) ==
  /\ booker[k].pc = "insert"
  /\ \E p \in Pool \ (stands \cup past) :
       /\ stands' = stands \cup {p}
       /\ cidr' = [cidr EXCEPT ![p] = booker[k].block]
  /\ booker' = [booker EXCEPT ![k] = NoOrder]
  /\ UNCHANGED <<past, leaseOf>>

AskAddress(k) ==
  /\ booker[k] = NoOrder /\ Attempts > 0
  /\ \E p \in stands : booker' = [booker EXCEPT ![k] = [pc |-> "read", pool |-> p, tries |-> 0]]
  /\ UNCHANGED <<stands, past, cidr, leaseOf>>

\* nextFreeAddress: what this pool has not handed out.
Unheld(p) == {a \in Handed(cidr[p]) : leaseOf[a] # p}

ReadTaken(k) ==
  /\ booker[k].pc = "read"
  /\ LET free == Unheld(booker[k].pool)
     IN \/ free = {} /\ booker' = [booker EXCEPT ![k] = NoOrder]
        \/ \E a \in free :
             /\ \A c \in free : a <= c
             /\ booker' = [booker EXCEPT ![k] =
                  [pc |-> "book", pool |-> booker[k].pool, tries |-> booker[k].tries, address |-> a]]
  /\ UNCHANGED <<stands, past, cidr, leaseOf>>

\* The insert fails when somebody has the address, or the pool is gone.
Bookable(k) == leaseOf[booker[k].address] = NoPool /\ booker[k].pool \in stands

TakeAddress(k) ==
  /\ booker[k].pc = "book" /\ Bookable(k)
  /\ leaseOf' = [leaseOf EXCEPT ![booker[k].address] = booker[k].pool]
  /\ booker' = [booker EXCEPT ![k] = NoOrder]
  /\ UNCHANGED <<stands, past, cidr>>

\* Mutant: one attempt more than there are.
TryAgainOnceMore(k) ==
  /\ booker[k].pc = "book" /\ ~Bookable(k)
  /\ booker' = [booker EXCEPT ![k] =
       IF booker[k].tries < Attempts
       THEN [pc |-> "read", pool |-> booker[k].pool, tries |-> booker[k].tries + 1]
       ELSE NoOrder]
  /\ UNCHANGED <<stands, past, cidr, leaseOf>>

TryAgain(k) ==
  /\ booker[k].pc = "book" /\ ~Bookable(k)
  /\ booker' = [booker EXCEPT ![k] =
       IF booker[k].tries + 1 < Attempts
       THEN [pc |-> "read", pool |-> booker[k].pool, tries |-> booker[k].tries + 1]
       ELSE NoOrder]
  /\ UNCHANGED <<stands, past, cidr, leaseOf>>

\* releaseAddress, on the company's own servers.
FreeAddress(a) ==
  /\ leaseOf[a] # NoPool
  /\ leaseOf' = [leaseOf EXCEPT ![a] = NoPool]
  /\ UNCHANGED <<stands, past, cidr, booker>>

\* deleteIpPool: refused while it has leases; the foreign key holds at the delete.
RemovePool(p) ==
  /\ p \in stands /\ \A a \in Addresses : leaseOf[a] # p
  /\ stands' = stands \ {p} /\ past' = past \cup {p}
  /\ UNCHANGED <<cidr, leaseOf, booker>>

AddressBookNext ==
  \/ \E k \in Booker :
       \/ CheckClash(k) \/ InsertPool(k)
       \/ AskAddress(k) \/ ReadTaken(k) \/ TakeAddress(k) \/ TryAgain(k)
  \/ \E a \in Addresses : FreeAddress(a)
  \/ \E p \in Pool : RemovePool(p)

AddressBookSpec == AddressBookInit /\ [][AddressBookNext]_bookVars

-----------------------------------------------------------------------------
(* Properties.                                                             *)

\* "Two pools over the same space would lease the same address twice": no address
\* lies in two of them.
PoolsApart ==
  \A p, q \in stands : p # q => \A a \in Addresses : ~(Covers(cidr[p], a) /\ Covers(cidr[q], a))

\* An address handed out belongs to a pool that stands, inside its block, and is
\* neither its network nor its broadcast address.
LeasesInside ==
  \A a \in Addresses : leaseOf[a] # NoPool => leaseOf[a] \in stands /\ a \in Handed(cidr[leaseOf[a]])

\* A booking that has to try again lost its address to a booking of its own pool,
\* which the next read sees: it is never stuck on an address it cannot see taken.
SeesWhatIsTaken ==
  \A k \in Booker :
    booker[k].pc = "book" /\ booker[k].pool \in stands /\ leaseOf[booker[k].address] # NoPool
      => leaseOf[booker[k].address] = booker[k].pool

BookRight == PoolsApart /\ LeasesInside /\ SeesWhatIsTaken
=============================================================================
