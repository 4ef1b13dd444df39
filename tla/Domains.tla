------------------------------ MODULE Domains ------------------------------
(***************************************************************************)
(* Domain names: their order, their registration or transfer when the      *)
(* order is paid, their renewal, the settings changed at the registry, and *)
(* the daily synchronisation - between the rows of the domain_names table, *)
(* the services that bill them, and a registry reached through a registrar *)
(* whose answers may be lost.                                              *)
(*                                                                         *)
(* A caller is a request, a payment or the cron at work on a name.  Years  *)
(* stand for dates, 0 for a date that is null.                             *)
(***************************************************************************)
EXTENDS Naturals, Sequences

CONSTANTS
  Name,
  Caller,
  MaxNameOrders,    \* bound: orders
  MaxYear,          \* bound: the calendar
  MaxLostAnswers,   \* bound: answers of the registrar that do not arrive
  MaxKills,         \* bound: ends of the process in the middle of a call
  MaxChanges,       \* bound: settings changed
  GuardsExpiry      \* the registrar refuses a renewal that names another expiry

ASSUME DomainsBounds ==
  /\ {MaxNameOrders, MaxYear, MaxLostAnswers, MaxKills, MaxChanges} \subseteq Nat
  /\ GuardsExpiry \in BOOLEAN

VARIABLES
  dom,       \* rows of domain_names; owner is the order whose service bills it
  registry,  \* what the registry has
  orders,    \* the orders with their services: name, act, state, due
  caller,    \* what each caller is doing
  year,
  lost,      \* answers lost, or calls whose outcome nobody wrote down
  kills,
  changes

domVars == <<dom, registry, orders, caller, year, lost, kills, changes>>

NameStatus == {"none", "pending", "active", "transferring", "expired", "failed"}
CallOf(pc, op, n, o) == [pc |-> pc, op |-> op, name |-> n, order |-> o, value |-> 0,
                       ok |-> FALSE, info |-> "none", expires |-> 0]
NoCall == CallOf("idle", "none", "none", 0)

Is(c, pc)  == caller[c].pc = pc
NameOf(c)  == caller[c].name
OrderOf(c) == caller[c].order
Step(c, pc) == caller' = [caller EXCEPT ![c].pc = pc]
Leaves(c)  == caller' = [caller EXCEPT ![c] = NoCall]
TakesUp(c, w) == caller' = [caller EXCEPT ![c] = w]
Unused(n)  == \A c \in Caller : NameOf(c) # n

DomainsTypeOK ==
  /\ \A n \in Name :
       /\ dom[n].status \in NameStatus
       /\ dom[n].owner \in 0 .. Len(orders)
       /\ {dom[n].ns, registry[n].ns} \subseteq 0 .. MaxChanges
       /\ registry[n].state \in {"free", "other", "requested", "ours", "expired"}
  /\ \A o \in DOMAIN orders :
       /\ orders[o].name \in Name
       /\ orders[o].act \in {"register", "transfer"}
       /\ orders[o].state \in {"unpaid", "paid", "active"}
       /\ orders[o].due \in Nat
  /\ \A c \in Caller : OrderOf(c) \in 0 .. Len(orders)

DomainsInit ==
  /\ dom = [n \in Name |-> [status |-> "none", owner |-> 0, ns |-> 0, expires |-> 0]]
  /\ registry \in [Name -> [state : {"free", "other"}, ns : {0}, expires : {0}]]
  /\ orders = <<>>
  /\ caller = [c \in Caller |-> NoCall]
  /\ year = 1
  /\ lost = 0
  /\ kills = 0
  /\ changes = 0

-----------------------------------------------------------------------------
(* Ordering.                                                               *)

Orderable == {"none", "failed", "expired"}

\* prepareDomains: the row, then the availability at the registry.
Prepare(c, n, act) ==
  /\ Is(c, "idle")
  /\ Len(orders) < MaxNameOrders
  /\ dom[n].status \in Orderable
  /\ registry[n].state = IF act = "register" THEN "free" ELSE "other"
  /\ TakesUp(c, [CallOf("place", act, n, 0) EXCEPT !.ok = dom[n].status # "none"])
  /\ UNCHANGED <<dom, registry, orders, year, lost, kills, changes>>

\* placeLines
Place(c) ==
  /\ Is(c, "place")
  /\ Len(orders) < MaxNameOrders
  /\ orders' = Append(orders, [name |-> NameOf(c), act |-> caller[c].op, state |-> "unpaid", due |-> 0])
  /\ caller' = [caller EXCEPT ![c].pc = "attach", ![c].order = Len(orders) + 1]
  /\ UNCHANGED <<dom, registry, year, lost, kills, changes>>

\* attach updates the row it found, or inserts one if nobody else did.
Attach(c) ==
  LET n == NameOf(c)
  IN /\ Is(c, "attach")
     /\ dom' = IF caller[c].ok \/ dom[n].status = "none"
               THEN [dom EXCEPT ![n] = [status |-> "pending", owner |-> OrderOf(c), ns |-> 0, expires |-> 0]]
               ELSE dom
     /\ Leaves(c)
     /\ UNCHANGED <<registry, orders, year, lost, kills, changes>>

-----------------------------------------------------------------------------
(* The registrar.                                                          *)

\* The payment starts the activation; staff repeats one that failed.
PayOrder(c, o) ==
  /\ Is(c, "idle")
  /\ \A d \in Caller : OrderOf(d) # o
  /\ orders[o].state \in {"unpaid", "paid"}
  /\ orders' = [orders EXCEPT ![o].state = "paid", ![o].due = IF @ = 0 THEN year + 1 ELSE @]
  /\ TakesUp(c, CallOf("byService", orders[o].act, orders[o].name, o))
  /\ UNCHANGED <<dom, registry, year, lost, kills, changes>>

\* Mutant: an activation that is repeated asks the registrar again.
DoneNever(n) == FALSE
Done(n) == dom[n].status \in {"active", "transferring"}

\* provisionDomain up to the registrar's call.
ProvisionRead(c) ==
  LET n == NameOf(c)
  IN /\ Is(c, "byService")
     /\ IF dom[n].owner # OrderOf(c) THEN Leaves(c) /\ UNCHANGED orders
        ELSE IF Done(n) THEN Leaves(c) /\ orders' = [orders EXCEPT ![OrderOf(c)].state = "active"]
        ELSE Step(c, "call") /\ UNCHANGED orders
     /\ UNCHANGED <<dom, registry, year, lost, kills, changes>>

\* What the registry does with a request, and whether it grants it.
Grants(c) ==
  LET r == registry[NameOf(c)]
  IN CASE caller[c].op = "register" -> r.state = "free"
       [] caller[c].op = "transfer" -> r.state = "other"
       [] caller[c].op = "renew"    -> r.state \in {"ours", "expired"} /\ (GuardsExpiry => caller[c].expires \in {0, r.expires})
       [] caller[c].op = "change"   -> r.state = "ours"

Granted(op, r, value) ==
  CASE op = "register" -> [r EXCEPT !.state = "ours", !.expires = year + 1]
    [] op = "transfer" -> [r EXCEPT !.state = "requested"]
    [] op = "renew"    -> [r EXCEPT !.state = IF r.expires + 1 > year THEN "ours" ELSE "expired",
                                    !.expires = r.expires + 1]
    [] op = "change"   -> [r EXCEPT !.ns = value]

Answered(c, ok) == caller' = [caller EXCEPT ![c].pc = "answer", ![c].ok = ok]

\* A call whose answer is lost throws, as one that is refused does.
AtRegistrar(c) ==
  LET n == NameOf(c)
  IN /\ Is(c, "call")
     /\ registry' = IF Grants(c) THEN [registry EXCEPT ![n] = Granted(caller[c].op, registry[n], caller[c].value)] ELSE registry
     /\ \/ Grants(c) /\ Answered(c, TRUE) /\ UNCHANGED lost
        \/ ~Grants(c) /\ Answered(c, FALSE) /\ UNCHANGED lost
        \/ lost < MaxLostAnswers /\ lost' = lost + 1 /\ Answered(c, FALSE)
     /\ UNCHANGED <<dom, orders, year, kills, changes>>

\* The status written after the answer: a renewal that fails leaves it.
Written(c) ==
  CASE ~caller[c].ok -> IF caller[c].op = "renew" THEN dom[NameOf(c)].status ELSE "failed"
    [] caller[c].ok  -> IF caller[c].op = "transfer" THEN "transferring" ELSE "active"

ProvisionWrite(c) ==
  /\ Is(c, "answer")
  /\ caller[c].op # "change"
  /\ dom' = [dom EXCEPT ![NameOf(c)].status = Written(c)]
  /\ IF caller[c].ok THEN Step(c, "sync") ELSE Leaves(c)
  /\ UNCHANGED <<registry, orders, year, lost, kills, changes>>

\* The last statements of the activation: the next invoice follows the
\* registry's expiry date, and the service is active.
Finish(c) ==
  LET o == OrderOf(c)
      e == dom[NameOf(c)].expires
  IN /\ Is(c, "finish")
     /\ orders' = [orders EXCEPT ![o].state = "active", ![o].due = IF e > year THEN e ELSE @]
     /\ Leaves(c)
     /\ UNCHANGED <<dom, registry, year, lost, kills, changes>>

Renewable(o) == dom[orders[o].name].owner = o

\* A paid renewal: the due date moves, then renewDomain of the service's name.
RenewName(c, o) ==
  LET n == orders[o].name
  IN /\ Is(c, "idle")
     /\ Unused(n)
     /\ orders[o].state = "active"
     /\ orders[o].due \in 1 .. year
     /\ orders' = [orders EXCEPT ![o].due = @ + 1]
     /\ caller' = IF Renewable(o)
                  THEN [caller EXCEPT ![c] = [CallOf("call", "renew", n, o) EXCEPT !.expires = dom[n].expires]]
                  ELSE caller
     /\ UNCHANGED <<dom, registry, year, lost, kills, changes>>

-----------------------------------------------------------------------------
(* Settings and synchronisation.                                           *)

\* setDomainNameservers (and its likes for lock, privacy and contact): the row
\* must be active, the registrar is called, then the row is written.
Change(c, n) ==
  /\ Is(c, "idle")
  /\ changes < MaxChanges
  /\ dom[n].status = "active"
  /\ changes' = changes + 1
  /\ TakesUp(c, [CallOf("call", "change", n, 0) EXCEPT !.value = changes + 1])
  /\ UNCHANGED <<dom, registry, orders, year, lost, kills>>

ChangeWrite(c) ==
  /\ Is(c, "answer")
  /\ caller[c].op = "change"
  /\ dom' = IF caller[c].ok THEN [dom EXCEPT ![NameOf(c)].ns = caller[c].value] ELSE dom
  /\ Leaves(c)
  /\ UNCHANGED <<registry, orders, year, lost, kills, changes>>

Watched == {"active", "transferring"}

\* syncDueDomains, and the button that refreshes one name.
StartSync(c, n) ==
  /\ Is(c, "idle")
  /\ dom[n].status \in Watched
  /\ TakesUp(c, CallOf("sync", "sync", n, 0))
  /\ UNCHANGED <<dom, registry, orders, year, lost, kills, changes>>

\* What the registrar's info says of a name; of one that is not in the
\* account it says nothing, and the call throws.
InfoOf(state) ==
  CASE state = "ours"      -> "active"
    [] state = "expired"   -> "expired"
    [] state = "requested" -> "transferring"
    [] OTHER               -> "throws"

\* A call from the activation goes on to its end, with or without an answer.
Activates(c)  == caller[c].op \in {"register", "transfer"}
AfterSync(c) == IF Activates(c) THEN Step(c, "finish") ELSE Leaves(c)

SyncRead(c) ==
  LET n == NameOf(c)
      info == InfoOf(registry[n].state)
      heard == info # "throws" /\ dom[n].status \in {"active", "transferring", "expired"}
  IN /\ Is(c, "sync")
     /\ \/ heard /\ UNCHANGED lost
           /\ caller' = [caller EXCEPT ![c].pc = "synced", ![c].info = info,
                           ![c].value = registry[n].ns, ![c].expires = registry[n].expires]
        \/ ~heard /\ UNCHANGED lost /\ AfterSync(c)
        \/ lost < MaxLostAnswers /\ lost' = lost + 1 /\ AfterSync(c)
     /\ UNCHANGED <<dom, registry, orders, year, kills, changes>>

Synced(row, call) ==
  [row EXCEPT !.status = call.info, !.ns = call.value,
              !.expires = IF call.expires = 0 THEN row.expires ELSE call.expires]

SyncWrite(c) ==
  /\ Is(c, "synced")
  /\ dom' = [dom EXCEPT ![NameOf(c)] = Synced(dom[NameOf(c)], caller[c])]
  /\ AfterSync(c)
  /\ UNCHANGED <<registry, orders, year, lost, kills, changes>>

\* The process ends in the middle: what the registrar did may be known to
\* nobody, and of a renewal the new expiry date.
Killed(c) ==
  /\ ~Is(c, "idle")
  /\ kills < MaxKills
  /\ kills' = kills + 1
  /\ lost' = IF Is(c, "answer") \/ caller[c].op = "renew" THEN lost + 1 ELSE lost
  /\ Leaves(c)
  /\ UNCHANGED <<dom, registry, orders, year, changes>>

-----------------------------------------------------------------------------
(* The registry by itself.                                                 *)

TransferEnds(n, done) ==
  /\ registry[n].state = "requested"
  /\ registry' = IF done THEN [registry EXCEPT ![n].state = "ours", ![n].expires = year + 1]
                 ELSE [registry EXCEPT ![n].state = "other"]
  /\ UNCHANGED <<dom, orders, caller, year, lost, kills, changes>>

\* A year is long: no call lasts into it, and the cron has looked at every
\* active name since.
NextYear ==
  /\ year < MaxYear
  /\ \A c \in Caller : Is(c, "idle")
  /\ \A n \in Name : dom[n].status = "active" /\ registry[n].state = "ours" => dom[n].expires = registry[n].expires
  /\ year' = year + 1
  /\ registry' = [n \in Name |-> IF registry[n].state = "ours" /\ registry[n].expires <= year
                                 THEN [registry[n] EXCEPT !.state = "expired"] ELSE registry[n]]
  /\ UNCHANGED <<dom, orders, caller, lost, kills, changes>>

-----------------------------------------------------------------------------
Proceeds(c) ==
  \/ Place(c) \/ Attach(c)
  \/ ProvisionRead(c) \/ AtRegistrar(c) \/ ProvisionWrite(c) \/ Finish(c)
  \/ ChangeWrite(c) \/ SyncRead(c) \/ SyncWrite(c)

Cron(n) == \E c \in Caller : StartSync(c, n)

DomainsNext ==
  \/ \E c \in Caller, n \in Name :
       \/ \E act \in {"register", "transfer"} : Prepare(c, n, act)
       \/ Change(c, n)
  \/ \E c \in Caller : \E o \in DOMAIN orders : PayOrder(c, o) \/ RenewName(c, o)
  \/ \E n \in Name : Cron(n)
  \/ \E c \in Caller : Proceeds(c) \/ Killed(c)
  \/ \E n \in Name, done \in BOOLEAN : TransferEnds(n, done)
  \/ NextYear

\* Calls go on, the cron looks at every name in turn, the registry decides.
DomainsFairness ==
  /\ \A c \in Caller : WF_domVars(Proceeds(c))
  /\ \A n \in Name : SF_domVars(Cron(n)) /\ WF_domVars(\E done \in BOOLEAN : TransferEnds(n, done))

DomainsSpec == DomainsInit /\ [][DomainsNext]_domVars /\ DomainsFairness

-----------------------------------------------------------------------------
(* Properties.                                                             *)

\* A row that says active is a name the registry has in the account, at least
\* as long as no answer was lost: nobody is sold what is not registered.
RowTellsRegistry ==
  \A n \in Name : dom[n].status = "active" /\ Unused(n) /\ lost = 0 => registry[n].state \in {"ours", "expired"}

\* "A retry after a half-finished attempt must not register the name twice":
\* a registered name never becomes failed by repeating what was done already,
\* also when the process ended between the row and the service.
RegisteredIsKnown ==
  \A n \in Name : registry[n].state = "ours" /\ Unused(n) /\ lost = 0 => dom[n].status \in {"active", "transferring", "expired"}

\* A name is sold once: an order that still waits for its payment owns its row.
SoldOnce ==
  \A o \in DOMAIN orders : orders[o].state = "unpaid" /\ Unused(orders[o].name) /\ kills = 0 => dom[orders[o].name].owner = o

\* Whoever paid for a period has the name for it: the date a service is billed
\* up to is never beyond what the registry has.
PaidIsRegistered ==
  \A o \in DOMAIN orders :
    orders[o].state = "active" /\ Unused(orders[o].name) /\ lost = 0 /\ registry[orders[o].name].state # "requested"
      => orders[o].due <= registry[orders[o].name].expires \/ registry[orders[o].name].state = "other"

\* The four together: what was sold, billed and registered is one and the same.
SoldIsRegistered == RowTellsRegistry /\ RegisteredIsKnown /\ SoldOnce /\ PaidIsRegistered

\* Name servers changed at the registry and lost on the way to the row are
\* found again by the synchronisation.
SettingsConverge ==
  \A n \in Name : dom[n].status = "active" /\ dom[n].ns # registry[n].ns ~> dom[n].ns = registry[n].ns \/ dom[n].status # "active"

\* A transfer that the registry completes becomes an active name.
TransferBecomesActive ==
  \A n \in Name : dom[n].status = "transferring" /\ registry[n].state = "ours" ~> dom[n].status \in {"active", "expired"}
=============================================================================
