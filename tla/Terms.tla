-------------------------------- MODULE Terms --------------------------------
(***************************************************************************)
(* The periods a service is billed for: the day each one ends, and what a  *)
(* change of plan costs or brings back in the middle of one.               *)
(*                                                                         *)
(* A day is a month, counted from January of a leap year, and a day of it; *)
(* Date's own arithmetic, which lets a day that a month does not have roll *)
(* into the next month, is modelled by what it does.                       *)
(***************************************************************************)
EXTENDS Integers, FiniteSetsExt

CONSTANTS
  Months,      \* CYCLE_MONTHS: the lengths a period may have
  FirstMonth, FirstDay,  \* when services are activated
  Plan,        \* the prices of the plans of a group, for a period
  Ahead,       \* how many days before the end of a period things may happen
  Overdue,     \* how many days after it a renewal may be paid
  MaxPeriods,  \* bound: renewals
  MaxMoves,    \* bound: changes of plan in one period
  Owing        \* a renewal may be paid ahead, or a plan changed while one is unpaid

ASSUME TermsBounds ==
  /\ Months \subseteq Nat \ {0} /\ FirstMonth \subseteq Nat /\ FirstDay \subseteq 1 .. 31
  /\ Plan \subseteq Nat \ {0} /\ (Ahead \cup {Overdue}) \subseteq Nat
  /\ MaxPeriods \in Nat /\ MaxMoves \in Nat /\ Owing \in BOOLEAN

VARIABLES
  begun,    \* the day of activation
  length,   \* months of a period
  nextDue,  \* services.nextDueDate
  before,   \* history: where the period that ends with nextDue began
  periods,  \* renewals so far
  billed,   \* the renewal invoice that waits to be paid, with its price, or 0
  price,    \* services.amount
  base,     \* history: what the period was paid with
  today,    \* how many days before nextDue the clock stands
  cost,    \* history: charged for changes in this period, less credited
  used,     \* history: what the changes are worth, in price times days
  swing,    \* history: how far the changes went, summed up
  moves     \* changes of plan in this period

termVars == <<begun, length, nextDue, before, periods, billed, price, base, today, cost, used, swing, moves>>

Horizon == Max(FirstMonth) + Max(Months) * (MaxPeriods + 2)
DaysIn(m) == CASE m % 12 \in {3, 5, 8, 10} -> 30
               [] m % 12 = 1 -> IF m % 48 = 1 THEN 29 ELSE 28
               [] OTHER -> 31
DaysBefore[m \in 0 .. Horizon] == IF m = 0 THEN 0 ELSE DaysBefore[m - 1] + DaysIn(m - 1)
DayNumber(day) == DaysBefore[day.m] + day.d

\* What Date makes of a day its month does not have.
Rolled(m, d) == IF d <= DaysIn(m) THEN [m |-> m, d |-> d] ELSE [m |-> m + 1, d |-> d - DaysIn(m)]

\* addCycle: to the first of the month, on by months, and to the day again, or the last there is.
AddCycle(day, n) ==
  LET moved == Rolled(day.m + n, 1)
  IN [m |-> moved.m, d |-> Min({day.d, DaysIn(moved.m)})]

\* remainingFraction, as a fraction: what is ahead, over what it takes the period to be.
PeriodTaken == DayNumber(nextDue) - DayNumber(Rolled(nextDue.m - length, nextDue.d))
Remaining(left) == [num |-> Max({0, Min({left, PeriodTaken})}), den |-> PeriodTaken]

\* Math.round, which rounds a half up.
RoundShare(amount, share) == (2 * amount * share.num + share.den) \div (2 * share.den)

PeriodDays == DayNumber(nextDue) - DayNumber(before)
Absolute(x) == IF x < 0 THEN -x ELSE x

TermsTypeOK ==
  /\ \A day \in {begun, nextDue, before} : day.m \in 0 .. Horizon /\ day.d \in 1 .. DaysIn(day.m)
  /\ length \in Months /\ {price, base} \subseteq Plan
  /\ billed \in Plan \cup {0} /\ today \in -31 .. 400
  /\ {used, cost} \subseteq Int /\ moves \in 0 .. MaxMoves

\* The service was paid for on its first day; fulfilInvoice set its date.
TermsInit ==
  /\ begun \in [m : FirstMonth, d : FirstDay] /\ begun.d <= DaysIn(begun.m) /\ length \in Months
  /\ before = begun /\ nextDue = AddCycle(begun, length)
  /\ periods = 0 /\ billed = 0
  /\ price \in Plan /\ base = price
  /\ today = PeriodDays
  /\ cost = 0 /\ used = 0 /\ swing = 0 /\ moves = 0

-----------------------------------------------------------------------------
\* Time passes; after the end of a period its renewal waits to be paid.
Later ==
  /\ today' \in {a \in Ahead : a < today} \cup (IF billed > 0 THEN {-Overdue} \ {today} ELSE {})
  /\ UNCHANGED <<begun, length, nextDue, before, periods, billed, price, base, cost, used, swing, moves>>

\* The daily run issues the renewal, at the price of that day.
IssueRenewal ==
  /\ billed = 0 /\ periods < MaxPeriods
  /\ Owing \/ today <= 0
  /\ billed' = price
  /\ UNCHANGED <<begun, length, nextDue, before, periods, price, base, today, cost, used, swing, moves>>

\* fulfilInvoice for a renewal: the date moves on from where it was, whenever it is paid.
Renew ==
  /\ billed > 0
  /\ nextDue' = AddCycle(nextDue, length) /\ before' = nextDue
  /\ periods' = periods + 1 /\ billed' = 0
  /\ base' = billed
  /\ today' = today + DayNumber(nextDue') - DayNumber(nextDue)
  /\ cost' = 0 /\ swing' = 0 /\ moves' = 0
  /\ used' = (price - billed) * (DayNumber(nextDue') - DayNumber(nextDue))
  /\ UNCHANGED <<begun, length, price>>

\* changePlan: an upgrade is paid on the same day, a downgrade gives credit; see
\* Subscriptions for an upgrade whose invoice waits.
ChangePlan(target) ==
  /\ target # price
  /\ moves < MaxMoves /\ moves' = moves + 1
  /\ Owing \/ billed = 0
  /\ cost' = cost + RoundShare(target - price, Remaining(today))
  /\ used' = used + (target - price) * today
  /\ swing' = swing + Absolute(target - price)
  /\ price' = target
  /\ UNCHANGED <<begun, length, nextDue, before, periods, billed, base, today>>

TermsNext == Later \/ IssueRenewal \/ Renew \/ \E target \in Plan : ChangePlan(target)

-----------------------------------------------------------------------------
\* Every renewal moves the date by the months of the cycle, and no month is left
\* out: a service begun on the 31st ends its period in February, not in March, on
\* the last day there is.  It ends on the day it began unless a month on the way
\* was shorter, and then on the last day of the shortest (addCycle, fulfilInvoice).
PeriodsMeet ==
  /\ nextDue.m = begun.m + length * (periods + 1)
  /\ nextDue.d = Min({begun.d} \cup {DaysIn(begun.m + length * k) : k \in 1 .. periods + 1})

\* Whatever plans are changed to and back, a period costs what the plans used in it
\* cost for the days they were used: to half a unit for each change, and to the days,
\* three at the most, by which the start of the period is mistaken when its month
\* does not have that day (changePlan, remainingFraction).
DaysMistaken == Absolute(PeriodTaken - PeriodDays)
UseIsPaid ==
  /\ DaysMistaken <= 3
  /\ 2 * PeriodTaken * Absolute(cost * PeriodDays - used)
       <= PeriodDays * (PeriodTaken * moves + 2 * DaysMistaken * swing)

TermsRight == PeriodsMeet /\ UseIsPaid
=============================================================================
