------------------------------- MODULE Cards --------------------------------
(***************************************************************************)
(* The saved cards of one company: the rows of payment_methods, which of   *)
(* them renewals are charged on, and what Stripe keeps of each.  A request *)
(* is a sequence of statements and of calls to Stripe.  A payment may be   *)
(* reported several times, also at once.                                   *)
(***************************************************************************)
EXTENDS Naturals

CONSTANTS
  Card,      \* what customers pay with: a new one at each checkout
  Teller,    \* requests at a time
  MaxSaves,  \* bound: rows inserted
  MaxCuts,   \* bound: requests that end half-way, and calls to Stripe that fail
  Abreast,   \* requests about different cards overlap
  Belated    \* a payment is reported once more after its card was removed

ASSUME CardsAssumption == {MaxSaves, MaxCuts} \subseteq Nat /\ {Abreast, Belated} \subseteq BOOLEAN

VARIABLES
  kept,    \* payment_methods: is there a row, how many were inserted before, isDefault
  stripe,  \* what Stripe has of each card
  teller,  \* requests in progress
  saves, cuts

cardVars == <<kept, stripe, teller, saves, cuts>>

CardRow == [there : BOOLEAN, age : 0 .. MaxSaves, chosen : BOOLEAN]
NoCard == [there |-> FALSE, age |-> 0, chosen |-> FALSE]
TellerPc == {"idle", "save", "choose", "detach", "delete", "seek", "name"}
NoTask == [pc |-> "idle", on |-> {}, was |-> FALSE]

\* `on` is the card a request is about, `was` what it read of the default.
CardTask == [pc : TellerPc, on : SUBSET Card, was : BOOLEAN]

CardsTypeOK ==
  /\ kept \in [Card -> CardRow]
  /\ stripe \in [Card -> {"none", "attached", "detached"}]
  /\ teller \in [Teller -> CardTask]
  /\ saves \in 0 .. MaxSaves /\ cuts \in 0 .. MaxCuts

CardsInit ==
  /\ kept = [c \in Card |-> NoCard]
  /\ stripe = [c \in Card |-> "none"]
  /\ teller = [t \in Teller |-> NoTask]
  /\ saves = 0 /\ cuts = 0

HasDefault == \E c \in Card : kept[c].chosen
Resting(t) == teller[t].pc = "idle"
NobodyServed == \A t \in Teller : Resting(t)

\* A request begins; reports of one payment may overlap at any rate.
Serves(t, task) ==
  /\ Resting(t)
  /\ \A s \in Teller : Abreast \/ Resting(s) \/ (teller[s].pc = "save" /\ task.pc = "save" /\ teller[s].on = task.on)
  /\ teller' = [teller EXCEPT ![t] = task]
At(t, pc, c) == teller[t].pc = pc /\ teller[t].on = {c}
GoesTo(t, pc) == teller' = [teller EXCEPT ![t].pc = pc]
Served(t) == teller' = [teller EXCEPT ![t] = NoTask]

-----------------------------------------------------------------------------
(* A checkout, and the reports of its payment.                             *)

\* setup_future_usage: Stripe ties the card to the company's customer.
Checkout(c) ==
  /\ stripe[c] = "none"
  /\ stripe' = [stripe EXCEPT ![c] = "attached"]
  /\ UNCHANGED <<kept, teller, saves, cuts>>

\* rememberStripeCard, up to the look for a default,
Remember(t, c) ==
  /\ stripe[c] # "none"
  /\ Belated \/ stripe[c] = "attached"
  /\ Serves(t, [pc |-> "save", on |-> {c}, was |-> HasDefault])
  /\ UNCHANGED <<kept, stripe, saves, cuts>>

\* and the insert, of a card that has no row yet.
SaveCard(t, c) ==
  /\ At(t, "save", c)
  /\ IF kept[c].there THEN UNCHANGED <<kept, saves>>
     ELSE /\ saves < MaxSaves
          /\ saves' = saves + 1
          /\ kept' = [kept EXCEPT ![c] = [there |-> TRUE, age |-> saves, chosen |-> ~teller[t].was]]
  /\ Served(t)
  /\ UNCHANGED <<stripe, cuts>>

-----------------------------------------------------------------------------
(* The customer.                                                           *)

\* setDefaultPaymentMethod finds the card,
FindCard(t, c) ==
  /\ kept[c].there
  /\ Serves(t, [pc |-> "choose", on |-> {c}, was |-> FALSE])
  /\ UNCHANGED <<kept, stripe, saves, cuts>>

\* and puts it in the place of every other, in one transaction.
ChooseCard(t, c) ==
  /\ At(t, "choose", c)
  /\ kept' = [d \in Card |-> [kept[d] EXCEPT !.chosen = (d = c /\ kept[d].there)]]
  /\ Served(t)
  /\ UNCHANGED <<stripe, saves, cuts>>

\* removePaymentMethod reads the row,
RemoveCard(t, c) ==
  /\ kept[c].there
  /\ Serves(t, [pc |-> "detach", on |-> {c}, was |-> kept[c].chosen])
  /\ UNCHANGED <<kept, stripe, saves, cuts>>

\* asks Stripe to forget the card, and goes on whatever comes of that,
DetachCard(t, c) ==
  /\ At(t, "detach", c)
  /\ \/ stripe' = [stripe EXCEPT ![c] = "detached"] /\ UNCHANGED cuts
     \/ cuts < MaxCuts /\ cuts' = cuts + 1 /\ UNCHANGED stripe
  /\ GoesTo(t, "delete")
  /\ UNCHANGED <<kept, saves>>

\* deletes it,
DeleteCard(t, c) ==
  /\ At(t, "delete", c)
  /\ kept' = [kept EXCEPT ![c] = NoCard]
  /\ IF teller[t].was THEN GoesTo(t, "seek") ELSE Served(t)
  /\ UNCHANGED <<stripe, saves, cuts>>

\* looks for the oldest that is left,
Oldest(c) == kept[c].there /\ \A d \in Card : kept[d].there => kept[c].age <= kept[d].age
SeekNext(t) ==
  /\ teller[t].pc = "seek"
  /\ \/ \E c \in Card : Oldest(c) /\ teller' = [teller EXCEPT ![t].pc = "name", ![t].on = {c}]
     \/ (\A c \in Card : ~kept[c].there) /\ Served(t)
  /\ UNCHANGED <<kept, stripe, saves, cuts>>

\* and makes that the default, if it is still there.
NameNext(t, c) ==
  /\ At(t, "name", c)
  /\ kept' = [kept EXCEPT ![c].chosen = kept[c].there]
  /\ Served(t)
  /\ UNCHANGED <<stripe, saves, cuts>>

\* The process ends; what was written stays.
CutShort(t) ==
  /\ ~Resting(t) /\ cuts < MaxCuts
  /\ cuts' = cuts + 1
  /\ Served(t)
  /\ UNCHANGED <<kept, stripe, saves>>

CardsNext ==
  \/ \E c \in Card : Checkout(c)
  \/ \E t \in Teller, c \in Card :
       \/ Remember(t, c) \/ SaveCard(t, c) \/ FindCard(t, c) \/ ChooseCard(t, c)
       \/ RemoveCard(t, c) \/ DetachCard(t, c) \/ DeleteCard(t, c) \/ NameNext(t, c)
  \/ \E t \in Teller : SeekNext(t) \/ CutShort(t)

CardsSpec == CardsInit /\ [][CardsNext]_cardVars

-----------------------------------------------------------------------------
(* Properties.                                                             *)

\* Renewals are charged on one card at the most, and on one as long as there are
\* any: without a default chargeInvoice skips every invoice, and nobody is told.
\* Reports that overlap, requests that end half-way included in the first.
OneDefault ==
  /\ \A c, d \in Card : kept[c].chosen /\ kept[d].chosen => c = d
  /\ \A c \in Card : kept[c].chosen => kept[c].there
  /\ NobodyServed /\ cuts = 0 /\ (\E c \in Card : kept[c].there) => HasDefault

\* "Forgets the card here and at Stripe": a card with a row is one that Stripe has
\* and can charge, unless it is being removed, or a removal ended half-way.
BothForget ==
  cuts = 0 => \A c \in Card :
    kept[c].there => stripe[c] = "attached" \/ \E t \in Teller : At(t, "delete", c)

CardsRight == OneDefault /\ BothForget
=============================================================================
