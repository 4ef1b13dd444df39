---------------------------- MODULE LeasedBlocks ----------------------------
(***************************************************************************)
(* Address blocks leased on a marketplace: ordering one, or its letter of  *)
(* authorisation, through the account's cart, following the account's      *)
(* subscriptions, and the address pool made of a block.                    *)
(***************************************************************************)
EXTENDS Naturals, Sequences

CONSTANTS
  Block,        \* blocks on the market
  Officer,      \* requests of the administrator and calls of the cron at a time
  MaxOrders,    \* bound: orders
  MaxEnds,      \* bound: leases that end
  MaxMisses,   \* bound: calls to the marketplace that fail or whose answer is lost
  Rival         \* two of them are at work at the same time

ASSUME LeasedBlocksBounds ==
  /\ {MaxOrders, MaxEnds, MaxMisses} \subseteq Nat
  /\ Rival \in BOOLEAN

VARIABLES
  contract,     \* contract[b]: what the marketplace has: "none", "active", "ended"
  loa,       \* blocks whose letter of authorisation was bought
  basket,    \* the cart at the marketplace
  receipts,  \* what each checkout bought, and what was asked for
  block,     \* ip_blocks: status, loaStatus, and whether it has a pool
  pool,      \* pool[b]: the pool over the block: "none", "auto", "by hand"
  officer,   \* what each request is doing
  orders, ends, misses

blockVars  == <<contract, loa, basket, receipts, block, pool, officer, orders, ends, misses>>
marketVars == <<contract, loa, basket, receipts>>
panelRows  == <<block, pool>>
blockCount == <<orders, ends, misses>>

Seated  == [pc |-> "none"]
NoBlock == [status |-> "none", loa |-> "none", pool |-> FALSE]
Item    == [what : {"ipv4", "loa"}, of : Block]

\* Rows, subscriptions and the cart are what the columns and the market allow.
LeasedBlocksTypeOK ==
  /\ contract \in [Block -> {"none", "active", "ended"}]
  /\ loa \subseteq Block
  /\ basket \in Seq(Item)
  /\ block \in [Block -> [status : {"none", "active", "ended"},
                          loa : {"none", "requested", "active"}, pool : BOOLEAN]]
  /\ pool \in [Block -> {"none", "auto", "by hand"}]

LeasedBlocksInit ==
  /\ contract = [b \in Block |-> "none"]
  /\ loa = {}
  /\ basket = <<>>
  /\ receipts = {}
  /\ block = [b \in Block |-> NoBlock]
  /\ pool = [b \in Block |-> "none"]
  /\ officer = [o \in Officer |-> Seated]
  /\ orders = 0 /\ ends = 0 /\ misses = 0

Sits(o) == officer[o] = Seated /\ (Rival \/ \A p \in Officer : officer[p] = Seated)
MovesTo(o, state) == officer' = [officer EXCEPT ![o] = state]

\* A call to the marketplace fails: whoever made it gets an error.
Throws(o) ==
  /\ misses < MaxMisses
  /\ misses' = misses + 1
  /\ MovesTo(o, Seated)

-----------------------------------------------------------------------------
(* Buying: one item is added to the cart, and the cart is paid.            *)

\* orderBlock, requestLoa: the checks before anything is asked for.
AskFor(o, item) ==
  /\ Sits(o)
  /\ orders < MaxOrders
  /\ IF item.what = "loa" THEN block[item.of].status = "active" /\ block[item.of].loa = "none"
                          ELSE contract[item.of] # "active"
  /\ orders' = orders + 1
  /\ MovesTo(o, [pc |-> "add", item |-> item])
  /\ UNCHANGED <<marketVars, panelRows, ends, misses>>

\* The item enters the cart; the answer may get lost.
AddItem(o) ==
  /\ officer[o].pc = "add"
  /\ \/ /\ basket' = Append(basket, officer[o].item)
        /\ \/ MovesTo(o, [officer[o] EXCEPT !.pc = "look"]) /\ UNCHANGED misses
           \/ Throws(o)
     \/ Throws(o) /\ UNCHANGED basket
  /\ UNCHANGED <<contract, loa, receipts, panelRows, orders, ends>>

\* "A cart holding anything else is left alone".
HoldsOneItem == Len(basket) <= 1

LookAtCart(o) ==
  /\ officer[o].pc = "look"
  /\ \/ Throws(o)
     \/ HoldsOneItem  /\ MovesTo(o, [officer[o] EXCEPT !.pc = "pay"]) /\ UNCHANGED misses
     \/ ~HoldsOneItem /\ MovesTo(o, Seated) /\ UNCHANGED misses
  /\ UNCHANGED <<marketVars, panelRows, orders, ends>>

\* Address, payment method and checkout: everything in the cart is bought.
InBasket(what) == {basket[i].of : i \in {j \in DOMAIN basket : basket[j].what = what}}
PayCart(o) ==
  /\ officer[o].pc = "pay"
  /\ \/ Throws(o) /\ UNCHANGED marketVars
     \/ /\ basket # <<>>
        /\ basket' = <<>>
        /\ contract' = [b \in Block |-> IF b \in InBasket("ipv4") THEN "active" ELSE contract[b]]
        /\ loa' = loa \cup InBasket("loa")
        /\ receipts' = receipts \cup {[asked |-> officer[o].item, got |-> basket]}
        /\ \/ Throws(o)
           \/ /\ MovesTo(o, [pc |-> IF officer[o].item.what = "loa" THEN "note" ELSE "fetch", item |-> officer[o].item])
              /\ UNCHANGED misses
  /\ UNCHANGED <<panelRows, orders, ends>>

\* requestLoa: the row says it was asked for.
NoteLoa(o) ==
  /\ officer[o].pc = "note"
  /\ block' = [block EXCEPT ![officer[o].item.of].loa = "requested"]
  /\ MovesTo(o, Seated)
  /\ UNCHANGED <<marketVars, pool, blockCount>>

-----------------------------------------------------------------------------
(* syncIpxoBlocks: by the cron, by the button, and after an order.         *)

StartSync(o) ==
  /\ Sits(o)
  /\ MovesTo(o, [pc |-> "fetch"])
  /\ UNCHANGED <<marketVars, panelRows, blockCount>>

\* The active subscriptions; an answer that cannot be read changes nothing.
Fetch(o) ==
  /\ officer[o].pc = "fetch"
  /\ \/ Throws(o)
     \/ /\ MovesTo(o, [pc |-> "upsert", seen |-> {b \in Block : contract[b] = "active"}, letters |-> loa])
        /\ UNCHANGED misses
  /\ UNCHANGED <<marketVars, panelRows, orders, ends>>

\* Rows of the blocks that were seen, and the letters that were.
UpsertBlocks(o) ==
  /\ officer[o].pc = "upsert"
  /\ block' = [b \in Block |->
       LET row == IF b \in officer[o].seen THEN [block[b] EXCEPT !.status = "active"] ELSE block[b]
       IN IF b \in officer[o].letters /\ row.status # "none" THEN [row EXCEPT !.loa = "active"] ELSE row]
  /\ MovesTo(o, [officer[o] EXCEPT !.pc = "compare"])
  /\ UNCHANGED <<marketVars, pool, blockCount>>

\* The rows that are still active and were not seen, with the pool they have.
CompareBlocks(o) ==
  /\ officer[o].pc = "compare"
  /\ LET gone == {b \in Block : block[b].status = "active" /\ b \notin officer[o].seen}
     IN MovesTo(o, [pc |-> "end", gone |-> gone, pooled |-> {b \in gone : block[b].pool}])
  /\ UNCHANGED <<marketVars, panelRows, blockCount>>

\* They ended: their pools stop handing out addresses.
EndBlocks(o) ==
  /\ officer[o].pc = "end"
  /\ block' = [b \in Block |-> IF b \in officer[o].gone THEN [block[b] EXCEPT !.status = "ended"] ELSE block[b]]
  /\ pool' = [b \in Block |-> IF b \in officer[o].pooled /\ pool[b] = "auto" THEN "by hand" ELSE pool[b]]
  /\ MovesTo(o, Seated)
  /\ UNCHANGED <<marketVars, blockCount>>

-----------------------------------------------------------------------------
(* blockToPool and deleteIpPool.                                           *)

CheckBlock(o, b) ==
  /\ Sits(o)
  /\ block[b].status = "active" /\ ~block[b].pool
  /\ MovesTo(o, [pc |-> "pool", of |-> b])
  /\ UNCHANGED <<marketVars, panelRows, blockCount>>

\* createIpPool refuses a block that overlaps another pool's.
CreatePool(o) ==
  /\ officer[o].pc = "pool"
  /\ LET b == officer[o].of
     IN IF pool[b] # "none"
        THEN MovesTo(o, Seated) /\ UNCHANGED pool
        ELSE /\ \E kind \in {"auto", "by hand"} : pool' = [pool EXCEPT ![b] = kind]
             /\ MovesTo(o, [officer[o] EXCEPT !.pc = "link"])
  /\ UNCHANGED <<marketVars, block, blockCount>>

\* The row of the block may name its pool only while that is there.
LinkPool(o) ==
  /\ officer[o].pc = "link"
  /\ block' = [block EXCEPT ![officer[o].of].pool = pool[officer[o].of] # "none"]
  /\ MovesTo(o, Seated)
  /\ UNCHANGED <<marketVars, pool, blockCount>>

\* A pool without leases goes; the row of its block forgets it.
DeletePool(b) ==
  /\ pool[b] # "none"
  /\ pool' = [pool EXCEPT ![b] = "none"]
  /\ block' = [block EXCEPT ![b].pool = FALSE]
  /\ UNCHANGED <<marketVars, officer, blockCount>>

-----------------------------------------------------------------------------
(* The marketplace.                                                        *)

LeaseEnds(b) ==
  /\ contract[b] = "active"
  /\ ends < MaxEnds
  /\ ends' = ends + 1
  /\ contract' = [contract EXCEPT ![b] = "ended"]
  /\ loa' = loa \ {b}
  /\ UNCHANGED <<basket, receipts, panelRows, officer, orders, misses>>

Proceeds(o) ==
  \/ AddItem(o) \/ LookAtCart(o) \/ PayCart(o) \/ NoteLoa(o)
  \/ Fetch(o) \/ UpsertBlocks(o) \/ CompareBlocks(o) \/ EndBlocks(o)
  \/ CreatePool(o) \/ LinkPool(o)

LeasedBlocksNext ==
  \/ \E o \in Officer : StartSync(o) \/ Proceeds(o)
  \/ \E o \in Officer, i \in Item : AskFor(o, i)
  \/ \E o \in Officer, b \in Block : CheckBlock(o, b)
  \/ \E b \in Block : DeletePool(b) \/ LeaseEnds(b)

LeasedBlocksSpec == LeasedBlocksInit /\ [][LeasedBlocksNext]_blockVars

-----------------------------------------------------------------------------
(* Properties.                                                             *)

\* "it would be bought together with it": a checkout buys what its own order
\* asked for, once, also after orders that failed halfway.
BuysWhatWasAsked == \A r \in receipts : r.got = <<r.asked>>

\* "blocks whose lease ended are marked and their pool stops handing out
\* addresses": what a marked block's pool still has, it gives by hand only.
EndedIsIdle == \A b \in Block : block[b].status = "ended" => pool[b] # "auto"

BlocksRight == BuysWhatWasAsked /\ EndedIsIdle
=============================================================================
