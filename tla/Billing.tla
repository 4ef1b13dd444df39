------------------------------ MODULE Billing ------------------------------
(***************************************************************************)
(* The money of one company: its invoices, the transactions on them, its   *)
(* prepaid credit, and what recordPayment, applyCredit, requestCancellation*)
(* and the late fees and automatic charges of the cron do to them.         *)
(*                                                                         *)
(* A function that awaits the database outside a transaction is split      *)
(* there.  recordPayment, adjustCredit and issueCreditNote are one step,   *)
(* for their transaction holds the row it decides on.  Amounts are small   *)
(* numbers, every line of an invoice costs the same and tax is left out.   *)
(***************************************************************************)
EXTENDS Naturals, FiniteSets, FiniteSetsExt

CONSTANTS
  Invoice,
  Service,       \* services an invoice may have lines for
  Leaving,       \* those whose customers may ask to cancel
  Payment,       \* references at the gateways: payment intents and captures
  Hosted,        \* those a customer makes in a hosted checkout
  Run,           \* runs of runAutomation that add late fees
  Charger,       \* runs of runAutoCharges
  Price,         \* of a line
  Fee,           \* the late fee
  Credit,        \* the prepaid credit to begin with
  MaxManual,     \* bound: what staff records by hand on an invoice
  MaxCrashes,    \* bound: crashes of the control plane
  MaxAttempts,   \* CHARGE_RETRY_DAYS.length, 3 in the code
  Lossy,         \* Stripe's answer may get lost
  None

ASSUME AmountsAssumption ==
  /\ {Price, Fee, Credit, MaxManual, MaxCrashes, MaxAttempts} \subseteq Nat
  /\ Price > 0 /\ Fee > 0
ASSUME BillingSetsAssumption ==
  /\ Leaving \subseteq Service
  /\ Hosted \subseteq Payment
  /\ None \notin Payment /\ None \notin Invoice
  /\ Lossy \in BOOLEAN
  /\ IsFiniteSet(Service) /\ IsFiniteSet(Invoice)

VARIABLES
  \* invoices and invoice_items
  status,        \* InvoiceStatus, "none" before the insert
  lines,         \* the services the invoice has a line for
  fees,          \* how many late_fee lines it has
  total,         \* the column, not the sum of the lines
  late,          \* invoices whose due date is lateFeeDays ago
  notes,         \* credit notes issued for it
  \* transactions
  received,      \* the sum of the transactions of the invoice
  recorded,      \* gateway references that have a transaction
  manual,        \* the sum of those staff recorded by hand
  \* companies.creditBalance and credit_ledger
  balance,
  spent,         \* ledger movements for the invoice
  credited,      \* transactions of the gateway "credit" on the invoice
  \* the gateways
  gate,          \* where a payment stands
  payFor,        \* its invoice
  amount,        \* and its amount
  key,           \* the attempt in its idempotency key, 0 for a hosted checkout
  reply,         \* what Stripe answered the call that made it
  \* applyCredit, called by whoever issued the invoice
  creditPc,
  spend,         \* first what is due, then what to spend
  \* fulfilInvoice, after a payment was recorded
  toFulfil,      \* invoices that became paid just now
  work,          \* lines that a fulfilInvoice has read and not dealt with
  granted,       \* lines whose service got what was paid for, how often
  \* the late fees of runAutomation
  picked,        \* invoices the run still has to go through
  subtotal,      \* their subtotals as selected
  crossed,       \* history: services that left an invoice while somebody held a copy of it
  unseen,        \* history: invoices that got the fee while somebody held a copy of them
  \* requestCancellation
  leavePc,
  todo,          \* invoices with a line to take off
  leaveAt,       \* the one whose transaction is in progress
  rest,          \* what the transaction has read: the amounts of the other lines
  \* runAutoCharges
  attempts,      \* invoices.chargeAttempts
  rested,        \* lastChargeAt is long enough ago for another attempt
  pending,       \* invoices.chargePendingRef
  chargePc,
  charged,       \* the invoice it is at
  try,           \* the attempt
  ask,           \* the amount
  answer,        \* the payment intent
  crashes

invoiceVars == <<status, lines, fees, total, late, notes>>
moneyVars   == <<received, recorded, manual>>
creditVars  == <<balance, spent, credited>>
gateVars    == <<gate, payFor, amount, key, reply>>
applyVars   == <<creditPc, spend>>
fulfilVars  == <<toFulfil, work, granted>>
feeVars     == <<picked, subtotal, crossed, unseen>>
leaveVars   == <<leavePc, todo, leaveAt, rest>>
columns     == <<attempts, rested, pending>>
chargeVars  == <<chargePc, charged, try, ask, answer>>
vars == <<invoiceVars, moneyVars, creditVars, gateVars, applyVars, fulfilVars,
          feeVars, leaveVars, columns, chargeVars, crashes>>

InvoiceStatus == {"unpaid", "paid", "cancelled", "refunded"}
GateState     == {"free", "open", "processing", "captured", "declined", "refused"}

\* What the columns and the requests in progress may hold, part by part.
InvoiceTypes ==
  /\ status \in [Invoice -> InvoiceStatus \cup {"none"}]
  /\ lines \in [Invoice -> SUBSET Service]
  /\ fees \in [Invoice -> Nat] /\ total \in [Invoice -> Nat]
  /\ late \subseteq Invoice
  /\ notes \in [Invoice -> Nat]
MoneyTypes ==
  /\ received \in [Invoice -> Nat]
  /\ recorded \subseteq Payment
  /\ manual \in [Invoice -> Nat]
CreditTypes == balance \in Nat /\ {spent, credited} \subseteq [Invoice -> Nat]
GateTypes ==
  /\ gate \in [Payment -> GateState]
  /\ payFor \in [Payment -> Invoice \cup {None}]
  /\ {amount, key} \subseteq [Payment -> Nat]
  /\ reply \in [Payment -> GateState]
ApplyTypes ==
  /\ creditPc \in [Invoice -> {"idle", "due", "balance", "spend", "record"}]
  /\ spend \in [Invoice -> Nat]
FulfilTypes ==
  /\ toFulfil \subseteq Invoice
  /\ work \subseteq Invoice \X Service
  /\ granted \in [Invoice \X Service -> Nat]
FeeTypes ==
  /\ picked \in [Run -> SUBSET Invoice] /\ subtotal \in [Run -> [Invoice -> Nat]]
  /\ crossed \in [Invoice -> SUBSET Service] /\ unseen \subseteq Invoice
LeaveTypes ==
  /\ leavePc \in [Leaving -> {"check", "read", "write"}]
  /\ todo \in [Leaving -> SUBSET Invoice]
  /\ leaveAt \in [Leaving -> Invoice \cup {None}]
  /\ rest \in [Leaving -> Nat]
ColumnTypes ==
  /\ attempts \in [Invoice -> Nat]
  /\ rested \subseteq Invoice
  /\ pending \in [Invoice -> Payment \cup {None}]
ChargeTypes ==
  /\ chargePc \in [Charger -> {"idle", "read", "due", "count", "call", "answer"}]
  /\ charged \in [Charger -> Invoice \cup {None}]
  /\ {try, ask} \subseteq [Charger -> Nat]
  /\ answer \in [Charger -> Payment \cup {None}]

TypeOK ==
  /\ InvoiceTypes /\ MoneyTypes /\ CreditTypes /\ GateTypes
  /\ ApplyTypes /\ FulfilTypes /\ FeeTypes /\ LeaveTypes /\ ColumnTypes /\ ChargeTypes
  /\ crashes \in Nat

Zero == [i \in Invoice |-> 0]

Init ==
  /\ status = [i \in Invoice |-> "none"]
  /\ lines = [i \in Invoice |-> {}]
  /\ fees = Zero /\ total = Zero /\ notes = Zero
  /\ late = {}
  /\ received = Zero
  /\ recorded = {}
  /\ manual = Zero
  /\ balance = Credit
  /\ spent = Zero /\ credited = Zero
  /\ gate = [p \in Payment |-> "free"]
  /\ payFor = [p \in Payment |-> None]
  /\ amount = [p \in Payment |-> 0] /\ key = [p \in Payment |-> 0]
  /\ reply = [p \in Payment |-> "free"]
  /\ creditPc = [i \in Invoice |-> "idle"]
  /\ spend = Zero
  /\ toFulfil = {} /\ work = {}
  /\ granted = [x \in Invoice \X Service |-> 0]
  /\ picked = [a \in Run |-> {}]
  /\ subtotal = [a \in Run |-> Zero]
  /\ crossed = [i \in Invoice |-> {}] /\ unseen = {}
  /\ leavePc = [s \in Leaving |-> "check"]
  /\ todo = [s \in Leaving |-> {}]
  /\ leaveAt = [s \in Leaving |-> None]
  /\ rest = [s \in Leaving |-> 0]
  /\ attempts = Zero
  /\ rested = Invoice
  /\ pending = [i \in Invoice |-> None]
  /\ chargePc = [c \in Charger |-> "idle"]
  /\ charged = [c \in Charger |-> None]
  /\ try = [c \in Charger |-> 0] /\ ask = [c \in Charger |-> 0]
  /\ answer = [c \in Charger |-> None]
  /\ crashes = 0

Smaller(a, b) == IF a < b THEN a ELSE b
\* invoiceDue: what is still to pay on an unpaid invoice.
Due(i) ==
  IF status[i] = "unpaid" /\ received[i] < total[i] THEN total[i] - received[i] ELSE 0

-----------------------------------------------------------------------------
(* Invoices, and the one path that turns them into paid ones.              *)

\* placeLines, changePlan and step 1 of runAutomation: the invoice and its
\* lines in one transaction; whoever issued it goes on with applyCredit.
Issue(i, S) ==
  /\ status[i] = "none"
  /\ S # {}
  /\ status' = [status EXCEPT ![i] = "unpaid"]
  /\ lines' = [lines EXCEPT ![i] = S]
  /\ total' = [total EXCEPT ![i] = Price * Cardinality(S)]
  /\ creditPc' = [creditPc EXCEPT ![i] = "due"]
  /\ UNCHANGED <<fees, late, notes, moneyVars, creditVars, gateVars, spend, fulfilVars,
                 feeVars, leaveVars, columns, chargeVars, crashes>>

\* Mutant: a payment pays whatever the invoice's status is.
PaysAnyStatus(i, sum) == sum >= total[i]
BecomesPaid(i, sum) == status[i] = "unpaid" /\ sum >= total[i]

\* The transaction of recordPayment, for a reference not recorded before.
AddTransaction(i, n) ==
  LET sum == received[i] + n
  IN  /\ received' = [received EXCEPT ![i] = sum]
      /\ IF BecomesPaid(i, sum)
         THEN /\ status' = [status EXCEPT ![i] = "paid"]
              /\ toFulfil' = toFulfil \cup {i}
         ELSE UNCHANGED <<status, toFulfil>>

\* Mutant: references are not looked up.
RecordEveryTime(p) ==
  /\ AddTransaction(payFor[p], amount[p])
  /\ recorded' = recorded \cup {p}
\* recordPayment with a gateway reference.
RecordReference(p) ==
  IF p \in recorded THEN UNCHANGED <<status, toFulfil, received, recorded>>
  ELSE /\ AddTransaction(payFor[p], amount[p])
       /\ recorded' = recorded \cup {p}

\* The webhook, or the return URL: for one capture as often as it likes.
Deliver(p) ==
  /\ gate[p] = "captured"
  /\ RecordReference(p)
  /\ UNCHANGED <<lines, fees, total, late, notes, manual, creditVars, gateVars, applyVars,
                 work, granted, feeVars, leaveVars, columns, chargeVars, crashes>>

\* addPayment: staff records a payment without a reference.
AddPayment(i, n) ==
  /\ status[i] # "none"
  /\ manual[i] + n <= MaxManual
  /\ manual' = [manual EXCEPT ![i] = @ + n]
  /\ AddTransaction(i, n)
  /\ UNCHANGED <<lines, fees, total, late, notes, recorded, creditVars, gateVars, applyVars,
                 work, granted, feeVars, leaveVars, columns, chargeVars, crashes>>

\* fulfilInvoice reads the lines of the invoice that became paid ...
FulfilStart(i) ==
  /\ i \in toFulfil
  /\ toFulfil' = toFulfil \ {i}
  /\ work' = work \cup ({i} \X lines[i])
  /\ UNCHANGED <<invoiceVars, moneyVars, creditVars, gateVars, applyVars, granted, feeVars,
                 leaveVars, columns, chargeVars, crashes>>

\* ... and activates, upgrades or renews the service of each.
FulfilLine(i, s) ==
  /\ <<i, s>> \in work
  /\ work' = work \ {<<i, s>>}
  /\ granted' = [granted EXCEPT ![<<i, s>>] = @ + 1]
  /\ UNCHANGED <<invoiceVars, moneyVars, creditVars, gateVars, applyVars, toFulfil, feeVars,
                 leaveVars, columns, chargeVars, crashes>>

\* issueCreditNote.
CreditNote(i) ==
  /\ status[i] = "paid"
  /\ status' = [status EXCEPT ![i] = "refunded"]
  /\ notes' = [notes EXCEPT ![i] = @ + 1]
  /\ UNCHANGED <<lines, fees, total, late, moneyVars, creditVars, gateVars, applyVars,
                 fulfilVars, feeVars, leaveVars, columns, chargeVars, crashes>>

\* cancelInvoice: staff gives up on an unpaid invoice.
CancelInvoice(i) ==
  /\ status[i] = "unpaid"
  /\ status' = [status EXCEPT ![i] = "cancelled"]
  /\ UNCHANGED <<lines, fees, total, late, notes, moneyVars, creditVars, gateVars, applyVars,
                 fulfilVars, feeVars, leaveVars, columns, chargeVars, crashes>>

-----------------------------------------------------------------------------
(* applyCredit, between its awaits.                                        *)

\* applyCredit goes on, or returns.
CreditGoesOn(i, step, n) ==
  /\ creditPc' = [creditPc EXCEPT ![i] = step]
  /\ spend' = [spend EXCEPT ![i] = n]
CreditReturns(i) == CreditGoesOn(i, "idle", 0)

CreditDue(i) ==
  /\ creditPc[i] = "due"
  /\ IF Due(i) > 0 THEN CreditGoesOn(i, "balance", Due(i)) ELSE CreditReturns(i)
  /\ UNCHANGED <<invoiceVars, moneyVars, creditVars, gateVars, fulfilVars, feeVars,
                 leaveVars, columns, chargeVars, crashes>>

CreditBalance(i) ==
  /\ creditPc[i] = "balance"
  /\ IF balance > 0 THEN CreditGoesOn(i, "spend", Smaller(spend[i], balance))
                    ELSE CreditReturns(i)
  /\ UNCHANGED <<invoiceVars, moneyVars, creditVars, gateVars, fulfilVars, feeVars,
                 leaveVars, columns, chargeVars, crashes>>

\* Mutant: the balance read before is trusted.
SpendUnchecked(i) ==
  /\ creditPc[i] = "spend"
  /\ balance' = balance - spend[i]
  /\ spent' = [spent EXCEPT ![i] = @ + spend[i]]
  /\ CreditGoesOn(i, "record", spend[i])
  /\ UNCHANGED <<invoiceVars, moneyVars, credited, gateVars, fulfilVars, feeVars,
                 leaveVars, columns, chargeVars, crashes>>
\* adjustCredit: the balance moves only if it covers the amount by then.
CreditSpend(i) ==
  /\ creditPc[i] = "spend"
  /\ IF balance >= spend[i]
     THEN /\ balance' = balance - spend[i]
          /\ spent' = [spent EXCEPT ![i] = @ + spend[i]]
          /\ CreditGoesOn(i, "record", spend[i])
     ELSE CreditReturns(i) /\ UNCHANGED <<balance, spent>>
  /\ UNCHANGED <<invoiceVars, moneyVars, credited, gateVars, fulfilVars, feeVars,
                 leaveVars, columns, chargeVars, crashes>>

\* Mutant: an invoice that is no longer unpaid takes no credit payment.
CreditRecordUnpaid(i) ==
  /\ creditPc[i] = "record"
  /\ CreditReturns(i)
  /\ IF status[i] = "unpaid"
     THEN /\ AddTransaction(i, spend[i])
          /\ credited' = [credited EXCEPT ![i] = @ + spend[i]]
     ELSE UNCHANGED <<status, toFulfil, received, credited>>
  /\ UNCHANGED <<lines, fees, total, late, notes, recorded, manual, balance, spent, gateVars,
                 work, granted, feeVars, leaveVars, columns, chargeVars, crashes>>
\* Mutant: an invoice paid by credit is not fulfilled.
CreditRecordQuietly(i) ==
  /\ creditPc[i] = "record"
  /\ CreditReturns(i)
  /\ received' = [received EXCEPT ![i] = @ + spend[i]]
  /\ status' = [status EXCEPT ![i] = IF BecomesPaid(i, received'[i]) THEN "paid" ELSE @]
  /\ credited' = [credited EXCEPT ![i] = @ + spend[i]]
  /\ UNCHANGED <<lines, fees, total, late, notes, recorded, manual, balance, spent, gateVars,
                 fulfilVars, feeVars, leaveVars, columns, chargeVars, crashes>>
\* recordPayment with the gateway "credit" and a reference of its own.
CreditRecord(i) ==
  /\ creditPc[i] = "record"
  /\ CreditReturns(i)
  /\ AddTransaction(i, spend[i])
  /\ credited' = [credited EXCEPT ![i] = @ + spend[i]]
  /\ UNCHANGED <<lines, fees, total, late, notes, recorded, manual, balance, spent, gateVars,
                 work, granted, feeVars, leaveVars, columns, chargeVars, crashes>>

-----------------------------------------------------------------------------
(* The customer pays in a hosted checkout.                                 *)

\* payInvoice opens a checkout for what is due.
PayHosted(i, p) ==
  /\ p \in Hosted
  /\ gate[p] = "free"
  /\ Due(i) > 0
  /\ pending[i] = None
  /\ gate' = [gate EXCEPT ![p] = "open"]
  /\ payFor' = [payFor EXCEPT ![p] = i]
  /\ amount' = [amount EXCEPT ![p] = Due(i)]
  /\ UNCHANGED <<invoiceVars, moneyVars, creditVars, key, reply, applyVars, fulfilVars, feeVars,
                 leaveVars, columns, chargeVars, crashes>>

\* At the gateway: a checkout is paid, a bank debit goes through.
Capture(p) ==
  /\ gate[p] \in {"open", "processing"}
  /\ gate' = [gate EXCEPT ![p] = "captured"]
  /\ UNCHANGED <<invoiceVars, moneyVars, creditVars, payFor, amount, key, reply, applyVars,
                 fulfilVars, feeVars, leaveVars, columns, chargeVars, crashes>>

-----------------------------------------------------------------------------
(* Step 6 of runAutomation: late fees.                                     *)

\* The due date is lateFeeDays ago.
GrowLate(i) ==
  /\ status[i] = "unpaid"
  /\ i \notin late
  /\ late' = late \cup {i}
  /\ UNCHANGED <<status, lines, fees, total, notes, moneyVars, creditVars, gateVars, applyVars,
                 fulfilVars, feeVars, leaveVars, columns, chargeVars, crashes>>

\* A run selects the late invoices, with their subtotals of now.
FeeSelect(a) ==
  LET due == {i \in late : status[i] = "unpaid" /\ fees[i] = 0 /\ pending[i] = None}
  IN  /\ picked[a] = {}
      /\ due # {}
      /\ picked' = [picked EXCEPT ![a] = due]
      /\ subtotal' = [subtotal EXCEPT ![a] = [i \in Invoice |-> IF i \in due THEN total[i] ELSE 0]]
      /\ UNCHANGED <<crossed, unseen, invoiceVars, moneyVars, creditVars, gateVars, applyVars,
                     fulfilVars, leaveVars, columns, chargeVars, crashes>>

\* A request to cancel has read the other lines of the invoice and not yet updated it.
HasRead(s, i) == leavePc[s] = "write" /\ leaveAt[s] = i

\* Mutant: the claim does not ask whether another run was first.
ClaimAgain(i) == fees[i] < 2 /\ status[i] = "unpaid"
Claims(i)     == fees[i] = 0 /\ status[i] = "unpaid"

\* The transaction per invoice: claimed first, then computed from the
\* subtotal selected before.
FeeAdd(a, i) ==
  /\ i \in picked[a]
  /\ picked' = [picked EXCEPT ![a] = @ \ {i}]
  /\ subtotal' = [subtotal EXCEPT ![a][i] = 0]
  /\ IF Claims(i)
     THEN /\ fees' = [fees EXCEPT ![i] = @ + 1]
          /\ total' = [total EXCEPT ![i] = subtotal[a][i] + Fee]
          /\ unseen' = IF \E s \in Leaving : HasRead(s, i) THEN unseen \cup {i} ELSE unseen
     ELSE UNCHANGED <<fees, total, unseen>>
  /\ UNCHANGED <<crossed, status, lines, late, notes, moneyVars, creditVars, gateVars, applyVars,
                 fulfilVars, leaveVars, columns, chargeVars, crashes>>

-----------------------------------------------------------------------------
(* requestCancellation: the service's renewal lines come off what is unpaid*)

LeaveSelect(s) ==
  LET open == {i \in Invoice : status[i] = "unpaid" /\ s \in lines[i] /\ pending[i] = None}
  IN  /\ leavePc[s] = "check"
      /\ todo[s] = {}
      /\ open # {}
      /\ todo' = [todo EXCEPT ![s] = open]
      /\ UNCHANGED <<invoiceVars, moneyVars, creditVars, gateVars, applyVars, fulfilVars,
                     feeVars, leavePc, leaveAt, rest, columns, chargeVars, crashes>>

\* Invoices with a transaction are left to staff.
LeaveCheck(s, i) ==
  /\ leavePc[s] = "check"
  /\ i \in todo[s]
  /\ todo' = [todo EXCEPT ![s] = @ \ {i}]
  /\ IF received[i] = 0
     THEN /\ leavePc' = [leavePc EXCEPT ![s] = "read"]
          /\ leaveAt' = [leaveAt EXCEPT ![s] = i]
     ELSE UNCHANGED <<leavePc, leaveAt>>
  /\ UNCHANGED <<invoiceVars, moneyVars, creditVars, gateVars, applyVars, fulfilVars, feeVars,
                 rest, columns, chargeVars, crashes>>

\* Mutant: it reads the lines before it deletes one.
LeaveReadFirst(s) ==
  LET i == leaveAt[s]
  IN  /\ leavePc[s] = "read"
      /\ leavePc' = [leavePc EXCEPT ![s] = "write"]
      /\ rest' = [rest EXCEPT ![s] = Price * Cardinality(lines[i]) + Fee * fees[i]]
      /\ UNCHANGED <<invoiceVars, moneyVars, creditVars, gateVars, applyVars, fulfilVars,
                     feeVars, todo, leaveAt, columns, chargeVars, crashes>>
\* The transaction deletes the line, which others do not see yet, and reads
\* the others.
LeaveRead(s) ==
  LET i == leaveAt[s]
  IN  /\ leavePc[s] = "read"
      /\ leavePc' = [leavePc EXCEPT ![s] = "write"]
      /\ rest' = [rest EXCEPT ![s] = Price * Cardinality(lines[i] \ {s}) + Fee * fees[i]]
      /\ UNCHANGED <<invoiceVars, moneyVars, creditVars, gateVars, applyVars, fulfilVars,
                     feeVars, todo, leaveAt, columns, chargeVars, crashes>>

\* Somebody else holds a copy of the invoice that it will be written from: a run
\* that adds the fee, or another request to cancel.
CopyHeld(s, i) ==
  \/ fees[i] = 0 /\ \E a \in Run : i \in picked[a]
  \/ \E r \in Leaving \ {s} : HasRead(r, i)

\* It updates the invoice, whatever became of it, and commits.
LeaveWrite(s) ==
  LET i == leaveAt[s]
  IN  /\ leavePc[s] = "write"
      /\ leavePc' = [leavePc EXCEPT ![s] = "check"]
      /\ rest' = [rest EXCEPT ![s] = 0]
      /\ lines' = [lines EXCEPT ![i] = @ \ {s}]
      /\ IF rest[s] = 0
         THEN status' = [status EXCEPT ![i] = "cancelled"] /\ UNCHANGED total
         ELSE total' = [total EXCEPT ![i] = rest[s]] /\ UNCHANGED status
      /\ crossed' = [crossed EXCEPT ![i] = IF CopyHeld(s, i) THEN @ \cup {s} ELSE @]
      /\ UNCHANGED <<fees, late, notes, moneyVars, creditVars, gateVars, applyVars, fulfilVars,
                     picked, subtotal, unseen, todo, leaveAt, columns, chargeVars, crashes>>

-----------------------------------------------------------------------------
(* runAutoCharges and chargeInvoice.                                       *)

\* A charger goes on, or is done with the invoice.
GoesOn(c, step) ==
  /\ chargePc' = [chargePc EXCEPT ![c] = step]
  /\ UNCHANGED charged
Returns(c) ==
  /\ chargePc' = [chargePc EXCEPT ![c] = "idle"]
  /\ charged' = [charged EXCEPT ![c] = None]
  /\ try' = [try EXCEPT ![c] = 0]
  /\ ask' = [ask EXCEPT ![c] = 0]
  /\ answer' = [answer EXCEPT ![c] = None]

\* The cron selects what is due for a charge ...
ChargeSelect(c, i) ==
  /\ chargePc[c] = "idle"
  /\ status[i] = "unpaid" /\ pending[i] = None
  /\ attempts[i] < MaxAttempts
  /\ i \in rested
  /\ chargePc' = [chargePc EXCEPT ![c] = "read"]
  /\ charged' = [charged EXCEPT ![c] = i]
  /\ UNCHANGED <<invoiceVars, moneyVars, creditVars, gateVars, applyVars, fulfilVars, feeVars,
                 leaveVars, columns, try, ask, answer, crashes>>

\* ... and chargeInvoice reads the invoice again when its turn comes.
ChargeRead(c) ==
  LET i == charged[c]
  IN  /\ chargePc[c] = "read"
      /\ IF status[i] = "unpaid" /\ pending[i] = None
         THEN /\ GoesOn(c, "due")
              /\ try' = [try EXCEPT ![c] = attempts[i] + 1]
              /\ UNCHANGED <<ask, answer>>
         ELSE Returns(c)
      /\ UNCHANGED <<invoiceVars, moneyVars, creditVars, gateVars, applyVars, fulfilVars,
                     feeVars, leaveVars, columns, crashes>>

ChargeDue(c) ==
  LET i == charged[c]
  IN  /\ chargePc[c] = "due"
      /\ IF Due(i) > 0
         THEN /\ GoesOn(c, "count")
              /\ ask' = [ask EXCEPT ![c] = Due(i)]
              /\ UNCHANGED <<try, answer>>
         ELSE Returns(c)
      /\ UNCHANGED <<invoiceVars, moneyVars, creditVars, gateVars, applyVars, fulfilVars,
                     feeVars, leaveVars, columns, crashes>>

\* The attempt counts before the call.
ChargeCount(c) ==
  /\ chargePc[c] = "count"
  /\ GoesOn(c, "call")
  /\ attempts' = [attempts EXCEPT ![charged[c]] = try[c]]
  /\ rested' = rested \ {charged[c]}
  /\ UNCHANGED <<invoiceVars, moneyVars, creditVars, gateVars, applyVars, fulfilVars, feeVars,
                 leaveVars, pending, try, ask, answer, crashes>>

\* The payment intents Stripe has under the idempotency key of an attempt.
Keyed(i, k) == {p \in Payment \ Hosted : gate[p] # "free" /\ payFor[p] = i /\ key[p] = k}

\* Stripe answers a key it knows as it did the first time, and a new one with a
\* new intent: taken, on its way to the bank, or declined.
ChargeCall(c) ==
  LET i == charged[c]
  IN  /\ chargePc[c] = "call"
      /\ GoesOn(c, "answer")
      /\ \/ /\ \E p \in Keyed(i, try[c]) : answer' = [answer EXCEPT ![c] = p]
            /\ UNCHANGED gateVars
         \/ /\ Keyed(i, try[c]) = {}
            /\ \E p \in Payment \ Hosted, g \in {"captured", "processing", "declined"} :
                 /\ gate[p] = "free"
                 /\ gate' = [gate EXCEPT ![p] = g]
                 /\ payFor' = [payFor EXCEPT ![p] = i]
                 /\ amount' = [amount EXCEPT ![p] = ask[c]]
                 /\ key' = [key EXCEPT ![p] = try[c]]
                 /\ reply' = [reply EXCEPT ![p] = g]
                 /\ answer' = [answer EXCEPT ![c] = p]
      /\ UNCHANGED <<invoiceVars, moneyVars, creditVars, applyVars, fulfilVars, feeVars,
                     leaveVars, columns, try, ask, crashes>>

\* Mutant: a debit on its way is not remembered.
ChargeAnswerForgets(c) ==
  LET p == answer[c]
  IN  /\ chargePc[c] = "answer"
      /\ Returns(c)
      /\ IF reply[p] = "captured"
         THEN RecordReference(p)
         ELSE UNCHANGED <<status, toFulfil, received, recorded>>
      /\ UNCHANGED <<lines, fees, total, late, notes, manual, creditVars, gateVars, applyVars,
                     work, granted, feeVars, leaveVars, columns, crashes>>
\* By the status that was answered, whatever became of the intent meanwhile: a
\* debit is remembered, a payment recorded, an error noted.
ChargeAnswer(c) ==
  LET i == charged[c]  p == answer[c]
  IN  /\ chargePc[c] = "answer"
      /\ Returns(c)
      /\ pending' = [pending EXCEPT ![i] = IF reply[p] = "processing" THEN p ELSE @]
      /\ IF reply[p] = "captured"
         THEN RecordReference(p)
         ELSE UNCHANGED <<status, toFulfil, received, recorded>>
      /\ UNCHANGED <<lines, fees, total, late, notes, manual, creditVars, gateVars, applyVars,
                     work, granted, feeVars, leaveVars, attempts, rested, crashes>>

\* The call times out although Stripe has the intent.
ChargeLost(c) ==
  /\ Lossy
  /\ chargePc[c] = "answer"
  /\ Returns(c)
  /\ UNCHANGED <<invoiceVars, moneyVars, creditVars, gateVars, applyVars, fulfilVars, feeVars,
                 leaveVars, columns, crashes>>

\* The bank refuses a debit ...
Refuse(p) ==
  /\ gate[p] = "processing"
  /\ gate' = [gate EXCEPT ![p] = "refused"]
  /\ UNCHANGED <<invoiceVars, moneyVars, creditVars, payFor, amount, key, reply, applyVars,
                 fulfilVars, feeVars, leaveVars, columns, chargeVars, crashes>>

\* ... and the webhook calls debitFailed.
DebitFailed(p) ==
  /\ gate[p] = "refused"
  /\ \E i \in Invoice : pending[i] = p
  /\ pending' = [i \in Invoice |-> IF pending[i] = p THEN None ELSE pending[i]]
  /\ UNCHANGED <<invoiceVars, moneyVars, creditVars, gateVars, applyVars, fulfilVars, feeVars,
                 leaveVars, attempts, rested, chargeVars, crashes>>

\* Days go by until the next attempt: no request lasts that long, and the
\* webhook of a payment that was taken has been delivered by then.
DaysPass(i) ==
  /\ i \notin rested
  /\ \A c \in Charger : chargePc[c] = "idle" \/ charged[c] # i
  /\ \A p \in Payment : gate[p] = "captured" /\ payFor[p] = i => p \in recorded
  /\ rested' = rested \cup {i}
  /\ UNCHANGED <<invoiceVars, moneyVars, creditVars, gateVars, applyVars, fulfilVars, feeVars,
                 leaveVars, attempts, pending, chargeVars, crashes>>

-----------------------------------------------------------------------------

\* The process ends: what it was about to do is forgotten.
Crash ==
  /\ crashes < MaxCrashes
  /\ crashes' = crashes + 1
  /\ creditPc' = [i \in Invoice |-> "idle"]
  /\ spend' = Zero
  /\ toFulfil' = {} /\ work' = {}
  /\ picked' = [a \in Run |-> {}]
  /\ subtotal' = [a \in Run |-> Zero]
  /\ leavePc' = [s \in Leaving |-> "check"]
  /\ todo' = [s \in Leaving |-> {}]
  /\ leaveAt' = [s \in Leaving |-> None]
  /\ rest' = [s \in Leaving |-> 0]
  /\ chargePc' = [c \in Charger |-> "idle"]
  /\ charged' = [c \in Charger |-> None]
  /\ try' = [c \in Charger |-> 0]
  /\ ask' = [c \in Charger |-> 0]
  /\ answer' = [c \in Charger |-> None]
  /\ UNCHANGED <<invoiceVars, moneyVars, creditVars, gateVars, granted, crossed, unseen, columns>>

CreditStep(i) == CreditDue(i) \/ CreditBalance(i) \/ CreditSpend(i) \/ CreditRecord(i)
FulfilStep(i) == FulfilStart(i) \/ \E s \in Service : FulfilLine(i, s)
LeaveStep(s)  == LeaveSelect(s) \/ LeaveRead(s) \/ LeaveWrite(s) \/ \E i \in Invoice : LeaveCheck(s, i)
FeeStep(a)    == FeeSelect(a) \/ \E i \in Invoice : FeeAdd(a, i)
ChargeStep(c) == ChargeRead(c) \/ ChargeDue(c) \/ ChargeCount(c) \/ ChargeCall(c) \/ ChargeAnswer(c)

Next ==
  \/ \E i \in Invoice, S \in SUBSET Service : Issue(i, S)
  \/ \E i \in Invoice : AddPayment(i, Price) \/ CreditNote(i) \/ CancelInvoice(i) \/ GrowLate(i) \/ DaysPass(i)
  \/ \E i \in Invoice : CreditStep(i) \/ FulfilStep(i)
  \/ \E i \in Invoice, p \in Payment : PayHosted(i, p)
  \/ \E p \in Payment : Capture(p) \/ Deliver(p) \/ Refuse(p) \/ DebitFailed(p)
  \/ \E a \in Run : FeeStep(a)
  \/ \E s \in Leaving : LeaveStep(s)
  \/ \E c \in Charger : ChargeStep(c) \/ ChargeLost(c) \/ \E i \in Invoice : ChargeSelect(c, i)
  \/ Crash

Spec == Init /\ [][Next]_vars

\* Requests that are being served end, and gateways repeat their webhooks.
Progress ==
  /\ \A i \in Invoice : WF_vars(CreditStep(i)) /\ WF_vars(FulfilStep(i))
  /\ \A p \in Payment : WF_vars(Deliver(p))
FairSpec == Spec /\ Progress

-----------------------------------------------------------------------------
(* Properties.                                                             *)

\* The effects of a paid invoice reach each of its services once at the most,
\* however often gateways report the payment and whoever else pays too.
FulfilledOnce == \A x \in Invoice \X Service : granted[x] <= 1

\* An invoice only counts as paid, or refunded, when the transactions on it
\* cover it: late fees and cancellations in between leave no gap.
PaidIsCovered == \A i \in Invoice : status[i] \in {"paid", "refunded"} => received[i] >= total[i]

\* What an invoice asks for is the sum of its lines, also after a service
\* left it or a late fee was added.
TotalIsLines ==
  \A i \in Invoice : status[i] \in {"unpaid", "paid"} =>
    total[i] = Price * Cardinality(lines[i]) + Fee * fees[i]

\* Every amount on an invoice came in once: a captured payment however often
\* it is reported, credit when it was spent, what staff recorded.
CountedOnce ==
  \A i \in Invoice :
    received[i] = credited[i] + manual[i]
      + SumFunctionOnSet(amount, {p \in recorded : payFor[p] = i})

\* Both: the money an invoice counts is what came in, and covers what is paid.
MoneyMatches == PaidIsCovered /\ CountedOnce

\* Concurrent invoices never spend more credit than there is, and the balance
\* is what the ledger says.
CreditAddsUp ==
  LET movements == SumFunctionOnSet(spent, Invoice)
  IN  movements <= Credit /\ balance = Credit - movements

\* Credit that left the balance is on the invoice: one credit payment per
\* ledger movement, as applyCredit says.
CreditArrives ==
  \A i \in Invoice : creditPc[i] # "record" => credited[i] = spent[i]

\* Both: what leaves the balance was there, and arrives.
CreditRight == CreditAddsUp /\ CreditArrives

\* Whatever runs of late fees and requests to cancel cross on an invoice, it asks
\* for one late fee at the most, and for no more than its lines, the fee, and the
\* lines that left while somebody held a copy of it; nor for less than its lines,
\* and the fee unless it came while a request had read the other lines.  Where
\* nothing crossed that is the sum of the lines exactly: "two overlapping runs
\* cannot both add it", although the subtotal is the one selected before.
AsksForLines ==
  \A i \in Invoice : status[i] \in {"unpaid", "paid"} =>
    /\ fees[i] <= 1
    /\ total[i] <= Price * (Cardinality(lines[i]) + Cardinality(crossed[i])) + Fee * fees[i]
    /\ total[i] >= Price * Cardinality(lines[i]) + (IF i \in unseen THEN 0 ELSE Fee * fees[i])

\* A paid invoice is reversed once at the most, and nothing else brings
\* money that was settled back to life.
RefundedOnce == \A i \in Invoice : notes[i] <= 1 /\ (notes[i] = 1 => status[i] \notin {"unpaid", "paid"})

\* Both: a settled invoice has its effects once and is reversed once.
OnceOnly == FulfilledOnce /\ RefundedOnce

\* A service whose line was paid gets what was paid for.
PaidIsFulfilled ==
  \A i \in Invoice, s \in Service :
    status[i] = "paid" /\ s \in lines[i] ~> granted[<<i, s>>] = 1

\* Automatic charges take an invoice's money once: no second charge while one
\* was taken or is on its way to the bank.
Taken(i) == {p \in Payment \ Hosted : payFor[p] = i /\ gate[p] \in {"captured", "processing"}}
ChargedOnce == \A i \in Invoice : Cardinality(Taken(i)) <= 1
=============================================================================
