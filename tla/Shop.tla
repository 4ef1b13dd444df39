-------------------------------- MODULE Shop --------------------------------
(***************************************************************************)
(* What customers say yes to: a quote that staff sent, a cart, an order    *)
(* with a discount code.  Each becomes one invoice, numbered without gaps. *)
(*                                                                         *)
(* Members of the company that got the quote have requests in progress;    *)
(* every action is one statement or one transaction of one of them.        *)
(***************************************************************************)
EXTENDS Integers, Sequences, FiniteSetsExt, SequencesExt

CONSTANTS
  Member,      \* those who order
  Shared,      \* they use one company's cart, instead of each another one's
  MaxCart,     \* MAX_CART
  MaxUses,     \* coupons.max_uses
  MaxBegun,    \* bound: requests that may issue an invoice
  MaxAborts,   \* bound: transactions that are rolled back
  MaxAdded,    \* bound: items put into a cart
  Late         \* a request may fail after its transaction was committed

ASSUME ShopBounds ==
  /\ {MaxCart, MaxUses, MaxBegun, MaxAborts, MaxAdded} \subseteq Nat
  /\ {Late, Shared} \subseteq BOOLEAN

VARIABLES
  quote,     \* none, sent, accepted, declined, withdrawn
  expired,   \* validUntil is over
  link,      \* the invoice the accepted quote names: 0 or its number
  cart,      \* cart[c]: the rows of a company's cart
  dropped,   \* the rows taken out by the customer
  used,      \* coupons.used
  year,      \* the fiscal year it is
  counter,   \* counters: the last number of each year
  invoices,  \* what was issued, in the order of the commits
  visit,     \* what each request is doing
  begun, aborts, added

shopVars == <<quote, expired, link, cart, dropped, used, year, counter, invoices, visit, begun, aborts, added>>
shopRest == <<expired, year, added>>

Cart == IF Shared THEN {CHOOSE m \in Member : TRUE} ELSE Member
CartOf(v) == IF Shared THEN CHOOSE m \in Member : TRUE ELSE v
Away  == [pc |-> "away", rows |-> {}, coded |-> FALSE]
Years == {1, 2}

At(v, pc)   == visit[v].pc = pc
Goes(v, pc) == visit' = [visit EXCEPT ![v].pc = pc]
Ends(v)     == visit' = [visit EXCEPT ![v] = Away]

ShopTypeOK ==
  /\ quote \in {"none", "sent", "accepted", "declined", "withdrawn"}
  /\ link \in 0 .. MaxBegun
  /\ cart \in [Cart -> SUBSET (1 .. MaxAdded)]
  /\ used \in 0 .. MaxBegun
  /\ year \in Years /\ counter \in [Years -> 0 .. MaxBegun]
  /\ \A n \in DOMAIN invoices : invoices[n].from \in {"quote", "cart", "order"}
  /\ \A v \in Member : visit[v].pc \in {"away", "add", "place", "empty", "order", "issue", "link", "back"}

ShopInit ==
  /\ quote = "none" /\ expired = FALSE /\ link = 0
  /\ cart = [c \in Cart |-> {}] /\ dropped = {}
  /\ used = 0
  /\ year = 1 /\ counter = [y \in Years |-> 0]
  /\ invoices = <<>>
  /\ visit = [v \in Member |-> Away]
  /\ begun = 0 /\ aborts = 0 /\ added = 0

-----------------------------------------------------------------------------
(* Numbering.                                                              *)

\* nextInvoiceNumber, in the transaction that inserts the invoice.
NextNumber == [counter EXCEPT ![year] = @ + 1]

\* What a transaction that is rolled back leaves of the counter.
\* Mutant: the number is given back by hand as well.
CounterReturned == [counter EXCEPT ![year] = @ - 1]
CounterUndone == counter

Issue(from, rows, coded) ==
  /\ counter' = NextNumber
  /\ invoices' = Append(invoices, [from |-> from, rows |-> rows, coded |-> coded,
                                   year |-> year, number |-> NextNumber[year]])
  /\ UNCHANGED aborts

RollBack ==
  /\ aborts < MaxAborts
  /\ aborts' = aborts + 1
  /\ counter' = CounterUndone
  /\ UNCHANGED <<invoices, used>>

NewYear ==
  /\ year = 1 /\ year' = 2
  /\ UNCHANGED <<quote, expired, link, cart, dropped, used, counter, invoices, visit, begun, aborts, added>>

-----------------------------------------------------------------------------
(* Quotes.                                                                 *)

CreateQuote ==
  /\ quote = "none" /\ quote' = "sent"
  /\ UNCHANGED <<link, cart, dropped, used, counter, invoices, visit, begun, aborts, shopRest>>

Expires ==
  /\ quote # "none" /\ ~expired /\ expired' = TRUE
  /\ UNCHANGED <<quote, link, cart, dropped, used, year, counter, invoices, visit, begun, aborts, added>>

\* closeQuote: an update that asks for the status.
CloseQuote ==
  /\ quote = "sent"
  /\ quote' \in {"declined", "withdrawn"}
  /\ UNCHANGED <<link, cart, dropped, used, counter, invoices, visit, begun, aborts, shopRest>>

\* acceptQuote: only a quote that was sent may be claimed.
Open == quote = "sent"

\* acceptQuote claims the quote,
AcceptQuote(v) ==
  /\ At(v, "away") /\ Open
  /\ begun < MaxBegun /\ begun' = begun + 1
  /\ quote' = "accepted"
  /\ Goes(v, IF expired THEN "back" ELSE "issue")
  /\ UNCHANGED <<link, cart, dropped, used, counter, invoices, aborts, shopRest>>

\* issues its invoice, names it,
IssueQuote(v) ==
  /\ At(v, "issue")
  /\ \/ /\ Issue("quote", {}, FALSE)
        /\ UNCHANGED used
        /\ Goes(v, "link") \/ (Late /\ Goes(v, "back"))
     \/ RollBack /\ Goes(v, "back")
  /\ UNCHANGED <<quote, link, cart, dropped, begun, shopRest>>

LinkQuote(v) ==
  /\ At(v, "link")
  /\ link' = Max({n \in DOMAIN invoices : invoices[n].from = "quote"})
  /\ Ends(v)
  /\ UNCHANGED <<quote, cart, dropped, used, counter, invoices, begun, aborts, shopRest>>

\* and opens it again when that failed, or when it was out of date.
ReopenQuote(v) ==
  /\ At(v, "back")
  /\ quote' = "sent"
  /\ Ends(v)
  /\ UNCHANGED <<link, cart, dropped, used, counter, invoices, begun, aborts, shopRest>>

-----------------------------------------------------------------------------
(* Cart and orders.                                                        *)

\* add: the rows are counted,
AddRead(v) ==
  /\ At(v, "away")
  /\ added < MaxAdded
  /\ Cardinality(cart[CartOf(v)]) < MaxCart
  /\ Goes(v, "add")
  /\ UNCHANGED <<quote, link, cart, dropped, used, counter, invoices, begun, aborts, shopRest>>

\* then one is inserted.
AddInsert(v) ==
  /\ At(v, "add")
  /\ added < MaxAdded
  /\ added' = added + 1
  /\ cart' = [cart EXCEPT ![CartOf(v)] = @ \cup {added + 1}]
  /\ Ends(v)
  /\ UNCHANGED <<quote, expired, link, dropped, used, year, counter, invoices, begun, aborts>>

RemoveItem(c) ==
  \E i \in cart[c] :
    /\ cart' = [cart EXCEPT ![c] = @ \ {i}]
    /\ dropped' = dropped \cup {i}
    /\ UNCHANGED <<quote, link, used, counter, invoices, visit, begun, aborts, shopRest>>

\* usableCoupon: looked at before the transaction.
CodeUsable(coded) == coded => used < MaxUses

\* checkoutCart reads the rows and their prices; an order has one line.
CheckoutRead(v) ==
  \E coded \in BOOLEAN, pc \in {"place", "order"} :
    /\ At(v, "away")
    /\ begun < MaxBegun /\ begun' = begun + 1
    /\ pc = "place" => cart[CartOf(v)] # {}
    /\ CodeUsable(coded)
    /\ visit' = [visit EXCEPT ![v] = [pc |-> pc, rows |-> IF pc = "place" THEN cart[CartOf(v)] ELSE {}, coded |-> coded]]
    /\ UNCHANGED <<quote, link, cart, dropped, used, counter, invoices, aborts, shopRest>>

Claimable(coded) == coded => used < MaxUses

\* placeLines: the code, the number, the invoice and the services in one
\* transaction; a code that is used up by now refuses the order.
PlaceLines(v) ==
  LET r == visit[v]
  IN /\ r.pc \in {"place", "order"}
     /\ \/ /\ Claimable(r.coded)
           /\ used' = IF r.coded THEN used + 1 ELSE used
           /\ Issue(IF r.pc = "place" THEN "cart" ELSE "order", r.rows, r.coded)
           /\ IF r.pc = "place" THEN Goes(v, "empty") \/ (Late /\ Ends(v)) ELSE Ends(v)
        \/ ~Claimable(r.coded) /\ Ends(v) /\ UNCHANGED <<used, counter, invoices, aborts>>
        \/ RollBack /\ Ends(v)
     /\ UNCHANGED <<quote, link, cart, dropped, begun, shopRest>>

Emptied(v) == At(v, "empty")

\* All rows are deleted, whatever is in the cart by now.
EmptyCart(v) ==
  /\ Emptied(v)
  /\ cart' = [cart EXCEPT ![CartOf(v)] = {}]
  /\ IF At(v, "empty") THEN Ends(v) ELSE UNCHANGED visit
  /\ UNCHANGED <<quote, link, dropped, used, counter, invoices, begun, aborts, shopRest>>

-----------------------------------------------------------------------------
ShopSteps(v) ==
  \/ IssueQuote(v) \/ LinkQuote(v) \/ ReopenQuote(v) \/ AddInsert(v) \/ PlaceLines(v) \/ EmptyCart(v)

ShopNext ==
  \/ CreateQuote \/ Expires \/ CloseQuote \/ NewYear
  \/ \E v \in Member : AcceptQuote(v) \/ AddRead(v) \/ CheckoutRead(v) \/ ShopSteps(v)
  \/ \E c \in Cart : RemoveItem(c)

\* A request that was begun ends.
ShopFairness == \A v \in Member : WF_shopVars(ShopSteps(v))

-----------------------------------------------------------------------------
(* Properties.                                                             *)

\* "Progressive and without gaps, as tax rules require": the numbers of a year
\* are 1, 2, 3 ..., whatever was rolled back and whoever issues beside.
NumbersGapless ==
  \A y \in Years :
    LET of == {n \in DOMAIN invoices : invoices[n].year = y}
    IN {invoices[n].number : n \in of} = 1 .. Cardinality(of)

\* "The quote becomes an invoice, once": also on a double click, beside a
\* withdrawal and when issuing failed the first time.
QuoteOnce ==
  LET of == {n \in DOMAIN invoices : invoices[n].from = "quote"}
  IN /\ Cardinality(of) <= 1
     /\ of # {} => quote = "accepted"
     /\ link # 0 => link \in of

\* "The last use cannot be taken twice, and a failed order gives it back."
CodeCounted ==
  used <= MaxUses /\ used = Cardinality({n \in DOMAIN invoices : invoices[n].coded})

\* "The cart is emptied only once the order exists": what was put into a cart
\* is there, was taken out, or is on one invoice.
NothingVanishes ==
  LET ordered == UNION {invoices[n].rows : n \in DOMAIN invoices}
  IN /\ dropped \cup ordered \cup UNION {cart[c] : c \in Cart} = 1 .. added
     /\ \A m, n \in DOMAIN invoices : m # n => invoices[m].rows \cap invoices[n].rows = {}

ShopRight == NumbersGapless /\ QuoteOnce /\ CodeCounted /\ NothingVanishes

\* A quote somebody is accepting is accepted with an invoice, or open again.
QuoteUndecided == quote = "accepted" /\ link = 0
QuoteDecided == QuoteUndecided ~> ~QuoteUndecided
=============================================================================
