--------------------------- MODULE Subscriptions ---------------------------
(***************************************************************************)
(* The services a company pays for: ordered, activated by the payment of   *)
(* their invoice, renewed, suspended when overdue, terminated, cancelled   *)
(* by the customer, moved to another plan - by the daily run, by payments, *)
(* by customers and by staff, statement by statement.                      *)
(*                                                                         *)
(* Amounts, credit and the settling of an invoice are in Billing: here an  *)
(* invoice is unpaid, paid or cancelled.  All services belong to one       *)
(* company, so a run issues one renewal invoice.  Days are counted from 1; *)
(* 0 stands for a date that is null.                                       *)
(***************************************************************************)
EXTENDS Naturals, FiniteSets, Sequences, SequencesExt

CONSTANTS
  Service,
  Hand,          \* requests in progress: payments, customers, staff
  Run,           \* runs of the cron in progress
  Cycle,         \* days of the billing cycle
  DaysBefore,    \* settings: invoiceDaysBeforeDue
  SuspendAfter,  \* settings: suspendDaysAfterDue
  EndAfter,      \* settings: terminateDaysAfterDue
  MaxDay,        \* bound: the calendar
  MaxInvoices,   \* bound: invoices
  MaxWishes,       \* bound: requests of customers and staff
  MaxMisfires,     \* bound: calls of the provisioning module that fail
  Eager          \* staff activates services before they are paid

ASSUME SubscriptionsBounds ==
  /\ IsFiniteSet(Service)
  /\ {Cycle, MaxDay, MaxInvoices} \subseteq Nat \ {0}
  /\ {DaysBefore, SuspendAfter, EndAfter, MaxWishes, MaxMisfires} \subseteq Nat
  /\ Eager \in BOOLEAN
  /\ Hand \cap Run = {}

VARIABLES
  svc,      \* rows of services: status, due, billedFor, leaving, reason, plan, pending, site
  bill,     \* the invoices: kind, status, for: service -> the due date it renews, settled
  made,     \* the workloads the module created: of, is
  actor,    \* what each request and run is doing
  day,      \* today
  wishes,     \* requests so far
  misfires,   \* failed calls so far
  stale     \* history: services that changed between the selection or the call
            \* of a run or a request and its write

subVars == <<svc, bill, made, actor, day, wishes, misfires, stale>>

Actor == Hand \cup Run
Rest  == [pc |-> "idle", job |-> "none", todo |-> <<>>, inv |-> 0, act |-> "none", now |-> 0,
          saw |-> [site |-> 0, pending |-> 0]]

On(a, pc)  == actor[a].pc = pc
Item(a)   == Head(actor[a].todo)
OVERDUE    == "Overdue on payment"
ByStaff    == "Suspended by staff"
Alive      == {"active", "suspended"}

SubscriptionsTypeOK ==
  /\ svc \in [Service -> [status : {"none", "pending", "active", "suspended", "terminated"},
                          due : Nat, billedFor : Nat, leaving : BOOLEAN,
                          reason : {"none", OVERDUE, ByStaff}, plan : {"small", "big"},
                          pending : 0..Len(bill), site : 0..Len(made)]]
  /\ \A i \in DOMAIN bill :
       /\ bill[i].kind \in {"new", "renewal", "upgrade"}
       /\ bill[i].status \in {"unpaid", "paid", "cancelled"}
       /\ DOMAIN bill[i].for \subseteq Service
  /\ \A w \in DOMAIN made : made[w].of \in Service /\ made[w].is \in {"up", "held", "gone"}
  /\ \A a \in Actor : On(a, "idle") \/ On(a, "list") \/ Item(a) \in Service

SubscriptionsInit ==
  /\ svc = [s \in Service |-> [status |-> "none", due |-> 0, billedFor |-> 0, leaving |-> FALSE,
                               reason |-> "none", plan |-> "small", pending |-> 0, site |-> 0]]
  /\ bill = <<>>
  /\ made = <<>>
  /\ actor = [a \in Actor |-> Rest]
  /\ day = 1
  /\ wishes = 0
  /\ misfires = 0
  /\ stale = {}

\* Invoice i, when it is for s and of that kind.
Bills(i, kind, s) == bill[i].kind = kind /\ s \in DOMAIN bill[i].for

Invoice(kind, for) == [kind |-> kind, status |-> "unpaid", for |-> for, settled |-> FALSE]

\* s changes by the hand of a: what another selected or is calling it for is old.
Touched(a, s) ==
  IF \E b \in Actor \ {a} : s \in Range(actor[b].todo) /\ actor[b].pc \in {"issue", "call", "write"}
  THEN stale \cup {s} ELSE stale

-----------------------------------------------------------------------------
(* Requests of customers and staff.                                        *)

Wished(h) == /\ On(h, "idle")
            /\ wishes < MaxWishes
            /\ wishes' = wishes + 1

Begins(h, job, pc, s, i) ==
  actor' = [actor EXCEPT ![h] = [Rest EXCEPT !.job = job, !.pc = pc, !.todo = <<s>>, !.inv = i]]

\* placeLines: one transaction inserts the service, its invoice and its line.
Order(ss) ==
  /\ \A s \in ss : svc[s].status = "none"
  /\ Len(bill) < MaxInvoices
  /\ svc' = [s \in Service |-> IF s \in ss THEN [svc[s] EXCEPT !.status = "pending"] ELSE svc[s]]
  /\ bill' = Append(bill, Invoice("new", [s \in ss |-> 0]))
  /\ UNCHANGED <<made, actor, day, wishes, misfires, stale>>

\* recordPayment: whoever settles the invoice goes on to its lines.
Pay(h, i) ==
  /\ On(h, "idle")
  /\ bill[i].status = "unpaid"
  /\ bill' = [bill EXCEPT ![i].status = "paid"]
  /\ actor' = [actor EXCEPT ![h] = [Rest EXCEPT !.job = "fulfil", !.pc = "line", !.inv = i,
                                                !.todo = SetToSeq(DOMAIN bill[i].for)]]
  /\ UNCHANGED <<svc, made, day, wishes, misfires, stale>>

\* Staff cancels an unpaid invoice.
Void(i) ==
  /\ wishes < MaxWishes
  /\ wishes' = wishes + 1
  /\ bill[i].status = "unpaid"
  /\ bill[i].kind = "upgrade"
  /\ bill' = [bill EXCEPT ![i].status = "cancelled"]
  /\ UNCHANGED <<svc, made, actor, day, misfires, stale>>

\* serviceCommand, for the commands its page offers.
Command(h, act, s) ==
  /\ Wished(h)
  /\ CASE act = "create"    -> svc[s].status = "pending" /\ Eager
       [] act = "suspend"   -> svc[s].status = "active"
       [] act = "unsuspend" -> svc[s].status = "suspended"
       [] act = "terminate" -> svc[s].status \in Alive
  /\ actor' = [actor EXCEPT ![h] = [Rest EXCEPT !.job = "staff", !.pc = "call", !.todo = <<s>>, !.act = act]]
  /\ UNCHANGED <<svc, bill, made, day, misfires, stale>>

\* requestCancellation: the flag first, then the lines of the renewals.
Leave(h, s) ==
  /\ Wished(h)
  /\ svc[s].status \in Alive
  /\ ~svc[s].leaving
  /\ svc' = [svc EXCEPT ![s].leaving = TRUE]
  /\ stale' = Touched(h, s)
  /\ Begins(h, "leave", "leave", s, 0)
  /\ UNCHANGED <<bill, made, day, misfires>>

LeaveLines(h) ==
  LET s == Item(h)
      Without(b) == [x \in DOMAIN b.for \ {s} |-> b.for[x]]
  IN /\ On(h, "leave")
     /\ bill' = [i \in DOMAIN bill |->
          IF ~(Bills(i, "renewal", s) /\ bill[i].status = "unpaid") THEN bill[i]
          ELSE IF DOMAIN bill[i].for = {s} THEN [bill[i] EXCEPT !.status = "cancelled", !.for = Without(bill[i])]
          ELSE [bill[i] EXCEPT !.for = Without(bill[i])]]
     /\ actor' = [actor EXCEPT ![h] = Rest]
     /\ UNCHANGED <<svc, made, day, wishes, misfires, stale>>

\* undoCancellation: the flag first, then the cron may bill the period again
\* unless an unpaid line for it is still there.
Undo(h, s) ==
  /\ Wished(h)
  /\ svc[s].status \in Alive
  /\ svc[s].leaving
  /\ svc' = [svc EXCEPT ![s].leaving = FALSE]
  /\ stale' = Touched(h, s)
  /\ Begins(h, "undo", "undo", s, 0)
  /\ UNCHANGED <<bill, made, day, misfires>>

StillBilled(s) == \E i \in DOMAIN bill : Bills(i, "renewal", s) /\ bill[i].status = "unpaid"

UndoBilled(h) ==
  LET s == Item(h)
  IN /\ On(h, "undo")
     /\ svc' = [svc EXCEPT ![s].billedFor = IF StillBilled(s) THEN @ ELSE 0]
     /\ actor' = [actor EXCEPT ![h] = Rest]
     /\ UNCHANGED <<bill, made, day, wishes, misfires, stale>>

MaySwitch(v) ==
  /\ v.status = "active"
  /\ v.due # 0
  /\ v.pending # 0 => bill[v.pending].status # "unpaid"

\* changePlan, its reads and checks ...
Switch(h, s) ==
  /\ Wished(h)
  /\ MaySwitch(svc[s])
  /\ Begins(h, "switch", "switch", s, 0)
  /\ UNCHANGED <<svc, bill, made, day, misfires, stale>>

\* ... and its writes: an upgrade waits for its invoice, unless the period is
\* over and nothing is to be paid; a downgrade is immediate.
SwitchPlan(h) ==
  LET s == Item(h)
      upgrades == svc[s].plan = "small" /\ day < svc[s].due
  IN /\ On(h, "switch")
     /\ upgrades => Len(bill) < MaxInvoices
     /\ IF upgrades
        THEN /\ bill' = Append(bill, Invoice("upgrade", [x \in {s} |-> svc[s].due]))
             /\ svc' = [svc EXCEPT ![s].pending = Len(bill) + 1]
        ELSE /\ svc' = [svc EXCEPT ![s].plan = IF @ = "small" THEN "big" ELSE "small", ![s].pending = 0]
             /\ UNCHANGED bill
     /\ actor' = [actor EXCEPT ![h] = Rest]
     /\ UNCHANGED <<made, day, wishes, misfires, stale>>

-----------------------------------------------------------------------------
(* fulfilInvoice and lifecycle.                                            *)

Follows == [invoice |-> "suspend", suspend |-> "terminate", terminate |-> "leave"]
ActOf  == [suspend |-> "suspend", terminate |-> "terminate", leave |-> "terminate", invoice |-> "none"]

\* A run goes on to its next selection.
NextPhase(was) ==
  IF was.job \in DOMAIN Follows THEN [Rest EXCEPT !.job = Follows[was.job], !.pc = "list", !.now = was.now] ELSE Rest

\* The next item of the actor's list.
NextItem(a) ==
  LET rest == Tail(actor[a].todo)
  IN actor' = [actor EXCEPT ![a] =
       IF rest = <<>> THEN NextPhase(@)
       ELSE [@ EXCEPT !.todo = rest, !.pc = IF a \in Hand THEN "line" ELSE "call"]]

\* Mutants: a payment lifts a suspension by staff too, or none.
LiftsAny(v)   == v.status = "suspended"
LiftsNever(v) == FALSE
Lifts(v) == v.status = "suspended" /\ v.reason = OVERDUE

AddCycle(d) == d + Cycle

\* One line of a paid invoice: what it changes in the row, and the lifecycle
\* call it goes on to, "none" when there is none.
LineEffect(s, i) ==
  LET v == svc[s]
  IN CASE bill[i].kind = "new" /\ v.status = "pending" -> <<[v EXCEPT !.due = AddCycle(day)], "create">>
       [] bill[i].kind = "renewal" /\ v.due # 0 ->
            <<[v EXCEPT !.due = AddCycle(@)], IF Lifts(v) THEN "unsuspend" ELSE "none">>
       [] bill[i].kind = "upgrade" /\ v.pending = i -> <<[v EXCEPT !.plan = "big", !.pending = 0], "none">>
       [] OTHER -> <<v, "none">>

FulfilLine(h) ==
  LET s == Item(h)
      effect == LineEffect(s, actor[h].inv)
  IN /\ On(h, "line")
     /\ svc' = [svc EXCEPT ![s] = effect[1]]
     /\ stale' = IF svc[s] # effect[1] THEN Touched(h, s) ELSE stale
     /\ IF effect[2] = "none" THEN NextItem(h)
        ELSE actor' = [actor EXCEPT ![h].pc = "call", ![h].act = effect[2]]
     /\ bill' = [bill EXCEPT ![actor[h].inv].settled = Len(actor[h].todo) = 1]
     /\ UNCHANGED <<made, day, wishes, misfires>>

\* platform.create: a service that has a workload keeps it.
Creates(s) == svc[s].site = 0

\* contextFor, then the provisioning module, which acts on the workload the
\* row names.  A call on a deleted workload fails or is still in time.
Call(a) ==
  LET s == Item(a)
      w == svc[s].site
      act == actor[a].act
      becomes == [suspend |-> "held", unsuspend |-> "up", terminate |-> "gone"]
  IN /\ On(a, "call")
     /\ IF act = "create" /\ Creates(s)
        THEN /\ made' = Append(made, [of |-> s, is |-> "up"])
             /\ actor' = [actor EXCEPT ![a].pc = "write", ![a].saw = [site |-> Len(made) + 1, pending |-> svc[s].pending]]
        ELSE /\ made' = IF act = "create" \/ w = 0 \/ made[w].is = "gone" THEN made
                        ELSE [made EXCEPT ![w].is = becomes[act]]
             /\ actor' = [actor EXCEPT ![a].pc = "write", ![a].saw = [site |-> w, pending |-> svc[s].pending]]
     /\ UNCHANGED <<svc, bill, day, wishes, misfires, stale>>

\* The module throws: the row stays, the error goes into a log or to staff.
CallFails(a) ==
  LET w == svc[Item(a)].site
  IN /\ On(a, "call")
     /\ actor[a].act # "terminate"
     /\ \/ w # 0 /\ made[w].is = "gone" /\ actor[a].act # "create" /\ UNCHANGED misfires
        \/ misfires < MaxMisfires /\ misfires' = misfires + 1
     /\ NextItem(a)
     /\ UNCHANGED <<svc, bill, made, day, wishes, stale>>

\* Mutant: the name of the call is written where its result belongs.
AfterNamed(v, act, saw, reason) == [v EXCEPT !.status = act]
\* The row after the module's answer; create writes moduleData back as read.
After(v, act, saw, reason) ==
  CASE act = "create"    -> [v EXCEPT !.status = "active", !.reason = "none", !.site = saw.site, !.pending = saw.pending]
    [] act = "suspend"   -> [v EXCEPT !.status = "suspended", !.reason = reason]
    [] act = "unsuspend" -> [v EXCEPT !.status = "active", !.reason = "none"]
    [] act = "terminate" -> [v EXCEPT !.status = "terminated", !.due = 0]

Write(a) ==
  LET s == Item(a)
  IN /\ On(a, "write")
     /\ svc' = [svc EXCEPT ![s] = After(@, actor[a].act, actor[a].saw, IF a \in Run THEN OVERDUE ELSE ByStaff)]
     /\ stale' = Touched(a, s)
     /\ NextItem(a)
     /\ UNCHANGED <<bill, made, day, wishes, misfires>>

-----------------------------------------------------------------------------
(* runAutomation: four selections, each followed by its acts.              *)

StartRun(r) ==
  /\ On(r, "idle")
  /\ actor' = [actor EXCEPT ![r] = [Rest EXCEPT !.job = "invoice", !.pc = "list", !.now = day]]
  /\ UNCHANGED <<svc, bill, made, day, wishes, misfires, stale>>

Stays(v) == ~v.leaving

EndsLeft(v) == v.status \in Alive /\ v.leaving

\* Whom a step of a run selects.
Selected(job, now) ==
  {s \in Service :
     /\ svc[s].due # 0
     /\ CASE job = "invoice"   -> /\ svc[s].status \in Alive
                                  /\ Stays(svc[s])
                                  /\ svc[s].due <= now + DaysBefore
                                  /\ svc[s].billedFor < svc[s].due
          [] job = "suspend"   -> svc[s].status = "active" /\ svc[s].due + SuspendAfter < now
          [] job = "terminate" -> /\ EndAfter > 0
                                  /\ svc[s].status = "suspended"
                                  /\ svc[s].reason = OVERDUE
                                  /\ svc[s].due + EndAfter < now
          [] job = "leave"     -> EndsLeft(svc[s]) /\ svc[s].due <= now}

List(r) ==
  LET job   == actor[r].job
      found == SetToSeq(Selected(job, actor[r].now))
  IN /\ On(r, "list")
     /\ job = "invoice" /\ found # <<>> => Len(bill) < MaxInvoices
     /\ actor' = [actor EXCEPT ![r] =
          IF found # <<>> THEN [@ EXCEPT !.todo = found, !.act = ActOf[job],
                                         !.pc = IF job = "invoice" THEN "issue" ELSE "call",
                                         !.saw = [s \in Range(found) |-> svc[s].due]]
          ELSE NextPhase(@)]
     /\ UNCHANGED <<svc, bill, made, day, wishes, misfires, stale>>

\* The renewal invoice of the company, with the due dates of the selection.
Issue(r) ==
  LET saw == actor[r].saw
  IN /\ On(r, "issue")
     /\ Len(bill) < MaxInvoices
     /\ bill' = Append(bill, Invoice("renewal", saw))
     /\ svc' = [s \in Service |-> IF s \in DOMAIN saw THEN [svc[s] EXCEPT !.billedFor = saw[s]] ELSE svc[s]]
     /\ actor' = [actor EXCEPT ![r] = NextPhase(@)]
     /\ UNCHANGED <<made, day, wishes, misfires, stale>>

NextDay ==
  /\ day < MaxDay
  /\ day' = day + 1
  /\ UNCHANGED <<svc, bill, made, actor, wishes, misfires, stale>>

-----------------------------------------------------------------------------
Goes(a) ==
  \/ LeaveLines(a) \/ UndoBilled(a) \/ SwitchPlan(a)
  \/ FulfilLine(a) \/ Call(a) \/ CallFails(a) \/ Write(a)
  \/ List(a) \/ Issue(a)

SubscriptionsNext ==
  \/ \E ss \in (SUBSET Service) \ {{}} : Order(ss)
  \/ \E h \in Hand, i \in DOMAIN bill : Pay(h, i)
  \/ \E i \in DOMAIN bill : Void(i)
  \/ \E h \in Hand, s \in Service :
       \/ Leave(h, s) \/ Undo(h, s) \/ Switch(h, s)
       \/ \E act \in {"create", "suspend", "unsuspend", "terminate"} : Command(h, act, s)
  \/ \E r \in Run : StartRun(r)
  \/ \E a \in Actor : Goes(a)
  \/ NextDay

\* Requests and runs go on, the cron starts runs, days pass; nobody has to pay.
SubscriptionsFairness ==
  /\ \A a \in Actor : WF_subVars(Goes(a))
  /\ \A r \in Run : WF_subVars(StartRun(r))
  /\ WF_subVars(NextDay)

SubscriptionsSpec == SubscriptionsInit /\ [][SubscriptionsNext]_subVars /\ SubscriptionsFairness

-----------------------------------------------------------------------------
(* Properties.                                                             *)

Handled(s) == \E a \in Actor : s \in Range(actor[a].todo)

\* A service is held for overdue payment only while its due date has passed,
\* unless a run had it on its list when the payment came: a paid renewal
\* moves the date and lifts the suspension, whatever ran beside it.
OverdueOnly ==
  \A s \in Service \ stale :
    svc[s].status = "suspended" /\ svc[s].reason = OVERDUE /\ ~Handled(s) /\ misfires = 0
      => svc[s].due < day

\* No period of a service is billed twice: renewalInvoicedFor holds through
\* cancellations taken back, payments and plan changes.
RenewalOnce ==
  \A s \in Service \ stale : \A i, j \in DOMAIN bill :
    /\ Bills(i, "renewal", s) /\ Bills(j, "renewal", s)
    /\ bill[i].for[s] = bill[j].for[s]
    /\ "cancelled" \notin {bill[i].status, bill[j].status}
    => i = j

\* "A service the customer is leaving is not invoiced again": nobody who
\* leaves holds an unpaid renewal once the request is through.
LeavingNotInvoiced ==
  \A s \in Service \ stale : svc[s].leaving /\ ~Handled(s) => ~StillBilled(s)

\* A paid upgrade is never an upgrade for nothing: of two upgrades of one
\* service at most one is payable.
OneUpgrade ==
  \A s \in Service : \A i, j \in DOMAIN bill :
    Bills(i, "upgrade", s) /\ Bills(j, "upgrade", s) /\ bill[i].status = "unpaid" /\ bill[j].status = "unpaid" => i = j

\* An activation that is repeated does not create a second workload.
OneSite == \A v, w \in DOMAIN made : made[v].of = made[w].of => v = w

\* A suspension by staff ends by staff or with the service: neither a payment
\* nor the cron lifts it or makes it its own.
StaffHoldStays ==
  [][\A s \in Service \ stale' :
       svc[s].status = "suspended" /\ svc[s].reason = ByStaff /\ svc'[s].reason # ByStaff
         => \E h \in Hand : actor[h].job = "staff" /\ Item(h) = s]_subVars

\* A service that was paid for and is in use has a date on which it is due, or
\* nobody would ever bill it again.
ActiveIsDue ==
  \A s \in Service \ stale : \A i \in DOMAIN bill :
    Bills(i, "new", s) /\ bill[i].settled /\ svc[s].status = "active" /\ ~Handled(s) => svc[s].due # 0

\* The five together: what is billed, held and due is what was agreed.
BilledAsAgreed == OverdueOnly /\ RenewalOnce /\ LeavingNotInvoiced /\ OneUpgrade /\ ActiveIsDue /\ OneSite

\* A service whose customer leaves ends when the paid period is over, and one
\* that stays overdue is suspended, without anybody asking for it.
LeavingEnds ==
  \A s \in Service :
    svc[s].leaving /\ svc[s].status \in Alive /\ svc[s].due \in 1..MaxDay
      ~> ~svc[s].leaving \/ svc[s].status = "terminated" \/ svc[s].due > MaxDay \/ Len(bill) = MaxInvoices
=============================================================================
