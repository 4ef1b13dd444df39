---------------------------- MODULE BillingProofs ----------------------------
(***************************************************************************)
(* What a payment does to an invoice, for any number of invoices, lines,   *)
(* payments, overlapping runs and crashes: effects and reversals happen    *)
(* once, what is paid is covered, and credit that was spent arrives; an    *)
(* invoice asks for what its lines cost, but for lines and fees that cross *)
(* on it, and is charged once.                                             *)
(***************************************************************************)
EXTENDS MCCompany, Sums

-----------------------------------------------------------------------------
(* Types.                                                                  *)

\* Whoever is at work knows its invoice, and payments in progress have one.
Aims ==
  /\ \A p \in Payment : gate[p] # "free" => payFor[p] \in Invoice
  /\ \A s \in Leaving : leavePc[s] # "check" => leaveAt[s] \in Invoice
  /\ \A c \in Charger : chargePc[c] # "idle" => charged[c] \in Invoice
  /\ \A c \in Charger : chargePc[c] = "answer" => answer[c] \in Payment /\ gate[answer[c]] # "free"

\* What Stripe answered holds of the intent, or did: taken stays taken, and nothing
\* was taken or is on its way that was not answered so.
Replied ==
  \A p \in Payment :
    /\ reply[p] = "captured" => gate[p] = "captured"
    /\ p \notin Hosted => gate[p] # "open"
    /\ p \notin Hosted /\ gate[p] \in {"captured", "processing"} => reply[p] \in {"captured", "processing"}

Typed == TypeOK /\ Aims /\ Replied

\* Every line costs a number.
LEMMA LineCosts ==
  ASSUME NEW S \in SUBSET Service, NEW n \in Nat
  PROVE  Price * Cardinality(S) + Fee * n \in Nat /\ Price * Cardinality(S) \in Nat
<1>1. Cardinality(S) \in Nat
  BY BillingSetsAssumption, FS_Subset, FS_CardinalityType
<1> QED BY <1>1, AmountsAssumption

LEMMA DueIsNumber ==
  ASSUME InvoiceTypes, MoneyTypes, NEW i \in Invoice
  PROVE  Due(i) \in Nat
BY DEF InvoiceTypes, MoneyTypes, Due

LEMMA TypedInit ==
  ASSUME Init
  PROVE  Typed
<1>1. InvoiceTypes /\ MoneyTypes /\ CreditTypes
  BY AmountsAssumption DEF Init, Zero, InvoiceTypes, MoneyTypes, CreditTypes, InvoiceStatus
<1>2. GateTypes /\ ApplyTypes /\ FulfilTypes
  BY DEF Init, Zero, GateTypes, ApplyTypes, FulfilTypes, GateState
<1>3. FeeTypes /\ LeaveTypes /\ ColumnTypes /\ ChargeTypes /\ crashes \in Nat
  BY DEF Init, Zero, FeeTypes, LeaveTypes, ColumnTypes, ChargeTypes
<1>4. Aims
  BY DEF Init, Aims
<1>5. Replied
  BY DEF Init, Replied
<1> QED BY <1>1, <1>2, <1>3, <1>4, <1>5 DEF Typed, TypeOK

\* What a step leaves alone keeps its type.
LEMMA Unmoved ==
  /\ InvoiceTypes /\ UNCHANGED invoiceVars => InvoiceTypes'
  /\ MoneyTypes /\ UNCHANGED moneyVars => MoneyTypes'
  /\ CreditTypes /\ UNCHANGED creditVars => CreditTypes'
  /\ GateTypes /\ UNCHANGED gateVars => GateTypes'
  /\ ApplyTypes /\ UNCHANGED applyVars => ApplyTypes'
  /\ FulfilTypes /\ UNCHANGED fulfilVars => FulfilTypes'
  /\ FeeTypes /\ UNCHANGED feeVars => FeeTypes'
  /\ LeaveTypes /\ UNCHANGED leaveVars => LeaveTypes'
  /\ ColumnTypes /\ UNCHANGED columns => ColumnTypes'
  /\ ChargeTypes /\ UNCHANGED chargeVars => ChargeTypes'
  /\ Aims /\ UNCHANGED <<gateVars, leaveVars, chargeVars>> => Aims'
  /\ Replied /\ UNCHANGED gateVars => Replied'
BY DEF InvoiceTypes, MoneyTypes, CreditTypes, GateTypes, ApplyTypes, FulfilTypes, FeeTypes, LeaveTypes, ColumnTypes, ChargeTypes,
       invoiceVars, moneyVars, creditVars, gateVars, applyVars, fulfilVars, feeVars, leaveVars, columns, chargeVars, Aims, Replied

\* A transaction keeps the types of what it touches.
LEMMA TransactionTypes ==
  ASSUME TypeOK, NEW i \in Invoice, NEW n \in Nat, AddTransaction(i, n)
  PROVE  /\ received' \in [Invoice -> Nat]
         /\ status' \in [Invoice -> InvoiceStatus \cup {"none"}]
         /\ toFulfil' \subseteq Invoice
<1> USE DEF TypeOK, InvoiceTypes, MoneyTypes, FulfilTypes
<1>1. received[i] + n \in Nat
  OBVIOUS
<1>2. CASE BecomesPaid(i, received[i] + n)
  BY <1>1, <1>2 DEF AddTransaction, InvoiceStatus
<1>3. CASE ~BecomesPaid(i, received[i] + n)
  BY <1>1, <1>3 DEF AddTransaction
<1> QED BY <1>2, <1>3

LEMMA ReferenceTypes ==
  ASSUME TypeOK, NEW p \in Payment, payFor[p] \in Invoice, RecordReference(p)
  PROVE  /\ received' \in [Invoice -> Nat]
         /\ status' \in [Invoice -> InvoiceStatus \cup {"none"}]
         /\ toFulfil' \subseteq Invoice
         /\ recorded' \subseteq Payment
<1> USE DEF TypeOK, InvoiceTypes, MoneyTypes, FulfilTypes, GateTypes
<1>1. CASE p \in recorded
  BY <1>1 DEF RecordReference
<1>2. CASE p \notin recorded
  <2>1. AddTransaction(payFor[p], amount[p]) /\ recorded' = recorded \cup {p} /\ amount[p] \in Nat
    BY <1>2 DEF RecordReference
  <2> QED BY <2>1, TransactionTypes
<1> QED BY <1>1, <1>2

LEMMA TypedStep ==
  ASSUME Typed, [Next]_vars
  PROVE  Typed'
<1> USE DEF Typed, TypeOK
<1>1. ASSUME NEW i \in Invoice, NEW S \in SUBSET Service, Issue(i, S) PROVE Typed'
  <2>0. Price * Cardinality(S) \in Nat
    BY LineCosts
  <2>1. InvoiceTypes'
    BY <1>1, <2>0 DEF Issue, InvoiceStatus, InvoiceTypes, invoiceVars
  <2>2. ApplyTypes'
    BY <1>1 DEF Issue, ApplyTypes, applyVars
  <2> QED BY <1>1, <2>1, <2>2, Unmoved DEF Issue, Typed, TypeOK
<1>2. ASSUME NEW i \in Invoice, AddPayment(i, Price) PROVE Typed'
  <2>0. /\ received' \in [Invoice -> Nat]
        /\ status' \in [Invoice -> InvoiceStatus \cup {"none"}]
        /\ toFulfil' \subseteq Invoice
    BY <1>2, AmountsAssumption, TransactionTypes DEF AddPayment
  <2>1. InvoiceTypes'
    BY <1>2, <2>0 DEF AddPayment, InvoiceTypes, invoiceVars
  <2>2. MoneyTypes'
    <3>1. manual[i] + Price \in Nat
      BY AmountsAssumption DEF MoneyTypes
    <3>2. manual' = [manual EXCEPT ![i] = manual[i] + Price] /\ recorded' = recorded
      BY <1>2 DEF AddPayment
    <3> QED BY <2>0, <3>1, <3>2 DEF MoneyTypes
  <2>3. FulfilTypes'
    BY <1>2, <2>0 DEF AddPayment, FulfilTypes, fulfilVars
  <2> QED BY <1>2, <2>1, <2>2, <2>3, Unmoved DEF AddPayment, Typed, TypeOK
<1>3. ASSUME NEW i \in Invoice, CreditNote(i) PROVE Typed'
  <2>1. InvoiceTypes'
    BY <1>3 DEF CreditNote, InvoiceStatus, InvoiceTypes, invoiceVars
  <2> QED BY <1>3, <2>1, Unmoved DEF CreditNote, Typed, TypeOK
<1>4. ASSUME NEW i \in Invoice, CancelInvoice(i) PROVE Typed'
  <2>1. InvoiceTypes'
    BY <1>4 DEF CancelInvoice, InvoiceStatus, InvoiceTypes, invoiceVars
  <2> QED BY <1>4, <2>1, Unmoved DEF CancelInvoice, Typed, TypeOK
<1>5. ASSUME NEW i \in Invoice, GrowLate(i) PROVE Typed'
  <2>1. InvoiceTypes'
    BY <1>5 DEF GrowLate, InvoiceTypes, invoiceVars
  <2> QED BY <1>5, <2>1, Unmoved DEF GrowLate, Typed, TypeOK
<1>6. ASSUME NEW i \in Invoice, DaysPass(i) PROVE Typed'
  <2>1. ColumnTypes'
    BY <1>6 DEF DaysPass, ColumnTypes, columns
  <2> QED BY <1>6, <2>1, Unmoved DEF DaysPass, Typed, TypeOK
<1>7. ASSUME NEW i \in Invoice, CreditStep(i) PROVE Typed'
  <2>1. CASE CreditDue(i)
    <3>0. Due(i) \in Nat
      BY DueIsNumber
    <3>1. ApplyTypes'
      BY <2>1, <3>0 DEF CreditDue, CreditReturns, CreditGoesOn, ApplyTypes, applyVars
    <3> QED BY <2>1, <3>1, Unmoved DEF CreditDue, Typed, TypeOK
  <2>2. CASE CreditBalance(i)
    <3>0. Smaller(spend[i], balance) \in Nat
      BY DEF Smaller, ApplyTypes, CreditTypes
    <3>1. ApplyTypes'
      BY <2>2, <3>0 DEF CreditBalance, CreditReturns, CreditGoesOn, ApplyTypes, applyVars
    <3> QED BY <2>2, <3>1, Unmoved DEF CreditBalance, Typed, TypeOK
  <2>3. CASE CreditSpend(i)
    <3>0. spend[i] \in Nat /\ (balance >= spend[i] => balance - spend[i] \in Nat)
      BY DEF ApplyTypes, CreditTypes
    <3>1. ApplyTypes'
      BY <2>3, <3>0 DEF CreditSpend, CreditReturns, CreditGoesOn, ApplyTypes, applyVars
    <3>2. CreditTypes'
      BY <2>3, <3>0 DEF CreditSpend, CreditTypes, creditVars
    <3> QED BY <2>3, <3>1, <3>2, Unmoved DEF CreditSpend, Typed, TypeOK
  <2>4. CASE CreditRecord(i)
    <3>0. /\ spend[i] \in Nat
          /\ received' \in [Invoice -> Nat]
          /\ status' \in [Invoice -> InvoiceStatus \cup {"none"}]
          /\ toFulfil' \subseteq Invoice
      BY <2>4, TransactionTypes DEF CreditRecord, ApplyTypes
    <3>1. InvoiceTypes'
      BY <2>4, <3>0 DEF CreditRecord, InvoiceTypes, invoiceVars
    <3>2. MoneyTypes'
      BY <2>4, <3>0 DEF CreditRecord, MoneyTypes, moneyVars
    <3>3. CreditTypes'
      BY <2>4, <3>0 DEF CreditRecord, CreditTypes, creditVars
    <3>4. ApplyTypes'
      BY <2>4 DEF CreditRecord, CreditReturns, CreditGoesOn, ApplyTypes, applyVars
    <3>5. FulfilTypes'
      BY <2>4, <3>0 DEF CreditRecord, FulfilTypes, fulfilVars
    <3> QED BY <2>4, <3>1, <3>2, <3>3, <3>4, <3>5, Unmoved DEF CreditRecord, Typed, TypeOK
  <2> QED BY <1>7, <2>1, <2>2, <2>3, <2>4 DEF CreditStep
<1>8. ASSUME NEW i \in Invoice, FulfilStart(i) PROVE Typed'
  <2>1. FulfilTypes'
    BY <1>8 DEF FulfilStart, InvoiceTypes, FulfilTypes, fulfilVars
  <2> QED BY <1>8, <2>1, Unmoved DEF FulfilStart, Typed, TypeOK
<1>9. ASSUME NEW i \in Invoice, NEW s \in Service, FulfilLine(i, s) PROVE Typed'
  <2>1. FulfilTypes'
    BY <1>9 DEF FulfilLine, FulfilTypes, fulfilVars
  <2> QED BY <1>9, <2>1, Unmoved DEF FulfilLine, Typed, TypeOK
<1>10. ASSUME NEW i \in Invoice, NEW p \in Payment, PayHosted(i, p) PROVE Typed'
  <2>0. Due(i) \in Nat
    BY DueIsNumber
  <2>1. GateTypes'
    BY <1>10, <2>0 DEF PayHosted, GateState, GateTypes, gateVars
  <2>2. Aims'
    BY <1>10 DEF PayHosted, gateVars, leaveVars, chargeVars, GateTypes, Aims
  <2>3. Replied'
    BY <1>10 DEF PayHosted, GateTypes, Replied
  <2> QED BY <1>10, <2>1, <2>2, <2>3, Unmoved DEF PayHosted, Typed, TypeOK
<1>11. ASSUME NEW p \in Payment, Capture(p) PROVE Typed'
  <2>1. GateTypes'
    BY <1>11 DEF Capture, GateState, GateTypes, gateVars
  <2>2. Aims'
    BY <1>11 DEF Capture, gateVars, leaveVars, chargeVars, GateTypes, Aims
  <2>3. Replied'
    BY <1>11 DEF Capture, GateTypes, Replied
  <2> QED BY <1>11, <2>1, <2>2, <2>3, Unmoved DEF Capture, Typed, TypeOK
<1>12. ASSUME NEW p \in Payment, Refuse(p) PROVE Typed'
  <2>1. GateTypes'
    BY <1>12 DEF Refuse, GateState, GateTypes, gateVars
  <2>2. Aims'
    BY <1>12 DEF Refuse, gateVars, leaveVars, chargeVars, GateTypes, Aims
  <2>3. Replied'
    BY <1>12 DEF Refuse, GateTypes, Replied
  <2> QED BY <1>12, <2>1, <2>2, <2>3, Unmoved DEF Refuse, Typed, TypeOK
<1>13. ASSUME NEW p \in Payment, DebitFailed(p) PROVE Typed'
  <2>1. ColumnTypes'
    BY <1>13 DEF DebitFailed, ColumnTypes, columns
  <2> QED BY <1>13, <2>1, Unmoved DEF DebitFailed, Typed, TypeOK
<1>14. ASSUME NEW p \in Payment, Deliver(p) PROVE Typed'
  <2>0. /\ received' \in [Invoice -> Nat]
        /\ status' \in [Invoice -> InvoiceStatus \cup {"none"}]
        /\ toFulfil' \subseteq Invoice
        /\ recorded' \subseteq Payment
    BY <1>14, ReferenceTypes DEF Deliver, Aims
  <2>1. InvoiceTypes'
    BY <1>14, <2>0 DEF Deliver, InvoiceTypes, invoiceVars
  <2>2. MoneyTypes'
    BY <1>14, <2>0 DEF Deliver, MoneyTypes, moneyVars
  <2>3. FulfilTypes'
    BY <1>14, <2>0 DEF Deliver, FulfilTypes, fulfilVars
  <2> QED BY <1>14, <2>1, <2>2, <2>3, Unmoved DEF Deliver, Typed, TypeOK
<1>15. ASSUME NEW a \in Run, FeeSelect(a) PROVE Typed'
  <2>1. FeeTypes'
    BY <1>15 DEF FeeSelect, InvoiceTypes, FeeTypes, feeVars
  <2> QED BY <1>15, <2>1, Unmoved DEF FeeSelect, Typed, TypeOK
<1>16. ASSUME NEW a \in Run, NEW i \in Invoice, FeeAdd(a, i) PROVE Typed'
  <2>0. subtotal[a][i] + Fee \in Nat
    BY AmountsAssumption DEF FeeTypes
  <2>1. InvoiceTypes'
    BY <1>16, <2>0 DEF FeeAdd, InvoiceTypes, invoiceVars
  <2>2. FeeTypes'
    BY <1>16 DEF FeeAdd, FeeTypes, feeVars
  <2> QED BY <1>16, <2>1, <2>2, Unmoved DEF FeeAdd, Typed, TypeOK
<1>17. ASSUME NEW s \in Leaving, LeaveSelect(s) PROVE Typed'
  <2>1. LeaveTypes'
    BY <1>17 DEF LeaveSelect, LeaveTypes, leaveVars
  <2>2. Aims'
    BY <1>17 DEF LeaveSelect, gateVars, leaveVars, chargeVars, LeaveTypes, Aims
  <2> QED BY <1>17, <2>1, <2>2, Unmoved DEF LeaveSelect, Typed, TypeOK
<1>18. ASSUME NEW s \in Leaving, NEW i \in Invoice, LeaveCheck(s, i) PROVE Typed'
  <2>1. LeaveTypes'
    BY <1>18 DEF LeaveCheck, LeaveTypes, leaveVars
  <2>2. Aims'
    BY <1>18 DEF LeaveCheck, gateVars, leaveVars, chargeVars, LeaveTypes, Aims
  <2> QED BY <1>18, <2>1, <2>2, Unmoved DEF LeaveCheck, Typed, TypeOK
<1>19. ASSUME NEW s \in Leaving, LeaveRead(s) PROVE Typed'
  <2>0. Price * Cardinality(lines[leaveAt[s]] \ {s}) + Fee * fees[leaveAt[s]] \in Nat
    <3>1. leaveAt[s] \in Invoice
      BY <1>19 DEF LeaveRead, Aims
    <3> QED BY <3>1, LineCosts DEF InvoiceTypes
  <2>1. LeaveTypes'
    BY <1>19, <2>0 DEF LeaveRead, LeaveTypes, leaveVars
  <2>2. Aims'
    BY <1>19 DEF LeaveRead, gateVars, leaveVars, chargeVars, LeaveTypes, Aims
  <2> QED BY <1>19, <2>1, <2>2, Unmoved DEF LeaveRead, Typed, TypeOK
<1>20. ASSUME NEW s \in Leaving, LeaveWrite(s) PROVE Typed'
  <2>0. leaveAt[s] \in Invoice
    BY <1>20 DEF LeaveWrite, Aims
  <2>1. InvoiceTypes'
    BY <1>20, <2>0 DEF LeaveWrite, InvoiceStatus, LeaveTypes, InvoiceTypes, invoiceVars
  <2>2. LeaveTypes'
    BY <1>20 DEF LeaveWrite, LeaveTypes, leaveVars
  <2>3. Aims'
    BY <1>20 DEF LeaveWrite, gateVars, leaveVars, chargeVars, LeaveTypes, Aims
  <2>4. FeeTypes'
    <3>1. s \in Service
      BY BillingSetsAssumption
    <3> QED BY <1>20, <2>0, <3>1 DEF LeaveWrite, FeeTypes
  <2> QED BY <1>20, <2>1, <2>2, <2>3, <2>4, Unmoved DEF LeaveWrite, Typed, TypeOK
<1>21. ASSUME NEW c \in Charger, NEW i \in Invoice, ChargeSelect(c, i) PROVE Typed'
  <2>1. ChargeTypes'
    BY <1>21 DEF ChargeSelect, ChargeTypes, chargeVars
  <2>2. Aims'
    BY <1>21 DEF ChargeSelect, gateVars, leaveVars, chargeVars, ChargeTypes, Aims
  <2> QED BY <1>21, <2>1, <2>2, Unmoved DEF ChargeSelect, Typed, TypeOK
<1>22. ASSUME NEW c \in Charger, ChargeStep(c) PROVE Typed'
  <2>1. CASE ChargeRead(c)
    <3>0. attempts[charged[c]] + 1 \in Nat
      BY <2>1 DEF ChargeRead, Aims, ColumnTypes
    <3>1. ChargeTypes'
      BY <2>1, <3>0 DEF ChargeRead, GoesOn, Returns, ChargeTypes, chargeVars
    <3>2. Aims'
      BY <2>1 DEF ChargeRead, GoesOn, Returns, gateVars, leaveVars, chargeVars, ChargeTypes, Aims
    <3> QED BY <2>1, <3>1, <3>2, Unmoved DEF ChargeRead, Typed, TypeOK
  <2>2. CASE ChargeDue(c)
    <3>0. Due(charged[c]) \in Nat
      BY <2>2, DueIsNumber DEF ChargeDue, Aims
    <3>1. ChargeTypes'
      BY <2>2, <3>0 DEF ChargeDue, GoesOn, Returns, ChargeTypes, chargeVars
    <3>2. Aims'
      BY <2>2 DEF ChargeDue, GoesOn, Returns, gateVars, leaveVars, chargeVars, ChargeTypes, Aims
    <3> QED BY <2>2, <3>1, <3>2, Unmoved DEF ChargeDue, Typed, TypeOK
  <2>3. CASE ChargeCount(c)
    <3>1. ChargeTypes'
      BY <2>3 DEF ChargeCount, GoesOn, ChargeTypes, chargeVars
    <3>2. ColumnTypes'
      BY <2>3 DEF ChargeCount, ChargeTypes, ColumnTypes, columns
    <3>3. Aims'
      BY <2>3 DEF ChargeCount, GoesOn, gateVars, leaveVars, chargeVars, ChargeTypes, Aims
    <3> QED BY <2>3, <3>1, <3>2, <3>3, Unmoved DEF ChargeCount, Typed, TypeOK
  <2>4. CASE ChargeCall(c)
    <3>1. charged[c] \in Invoice
      BY <2>4 DEF ChargeCall, Aims
    <3>2. ASSUME NEW p \in Keyed(charged[c], try[c]), answer' = [answer EXCEPT ![c] = p], UNCHANGED gateVars
          PROVE  Typed'
      <4>1. p \in Payment /\ gate[p] # "free"
        BY DEF Keyed
      <4>2. ChargeTypes'
        BY <2>4, <3>2, <4>1 DEF ChargeCall, GoesOn, ChargeTypes
      <4>3. Aims'
        BY <2>4, <3>1, <3>2, <4>1 DEF ChargeCall, GoesOn, Aims, ChargeTypes, gateVars, leaveVars
      <4> QED BY <2>4, <3>2, <4>2, <4>3, Unmoved DEF ChargeCall, Typed, TypeOK
    <3>3. ASSUME NEW p \in Payment \ Hosted, NEW g \in {"captured", "processing", "declined"},
                 gate' = [gate EXCEPT ![p] = g], payFor' = [payFor EXCEPT ![p] = charged[c]],
                 amount' = [amount EXCEPT ![p] = ask[c]], key' = [key EXCEPT ![p] = try[c]],
                 reply' = [reply EXCEPT ![p] = g], answer' = [answer EXCEPT ![c] = p]
          PROVE  Typed'
      <4>1. ChargeTypes'
        BY <2>4, <3>3 DEF ChargeCall, GoesOn, ChargeTypes
      <4>2. GateTypes'
        BY <3>1, <3>3 DEF GateTypes, GateState, ChargeTypes
      <4>3. Aims'
        BY <2>4, <3>1, <3>3 DEF ChargeCall, GoesOn, Aims, ChargeTypes, GateTypes, leaveVars
      <4>4. Replied'
        BY <3>3 DEF Replied, GateTypes
      <4> QED BY <2>4, <4>1, <4>2, <4>3, <4>4, Unmoved DEF ChargeCall, Typed, TypeOK
    <3> QED BY <2>4, <3>2, <3>3 DEF ChargeCall
  <2>5. CASE ChargeAnswer(c)
    <3>0. /\ charged[c] \in Invoice /\ answer[c] \in Payment /\ payFor[answer[c]] \in Invoice
      BY <2>5 DEF ChargeAnswer, Aims
    <3>9. /\ received' \in [Invoice -> Nat]
          /\ status' \in [Invoice -> InvoiceStatus \cup {"none"}]
          /\ toFulfil' \subseteq Invoice
          /\ recorded' \subseteq Payment
      <4>1. CASE reply[answer[c]] = "captured"
        BY <2>5, <3>0, <4>1, ReferenceTypes DEF ChargeAnswer
      <4>2. CASE reply[answer[c]] # "captured"
        BY <2>5, <4>2 DEF ChargeAnswer, InvoiceTypes, MoneyTypes, FulfilTypes
      <4> QED BY <4>1, <4>2
    <3>1. InvoiceTypes'
      BY <2>5, <3>9 DEF ChargeAnswer, InvoiceTypes, invoiceVars
    <3>2. MoneyTypes'
      BY <2>5, <3>9 DEF ChargeAnswer, MoneyTypes, moneyVars
    <3>3. FulfilTypes'
      BY <2>5, <3>9 DEF ChargeAnswer, FulfilTypes, fulfilVars
    <3>4. ColumnTypes'
      BY <2>5, <3>0 DEF ChargeAnswer, ColumnTypes, columns
    <3>5. ChargeTypes'
      BY <2>5 DEF ChargeAnswer, Returns, ChargeTypes, chargeVars
    <3>6. Aims'
      BY <2>5 DEF ChargeAnswer, Returns, gateVars, leaveVars, chargeVars, ChargeTypes, Aims
    <3> QED BY <2>5, <3>1, <3>2, <3>3, <3>4, <3>5, <3>6, Unmoved DEF ChargeAnswer, Typed, TypeOK
  <2> QED BY <1>22, <2>1, <2>2, <2>3, <2>4, <2>5 DEF ChargeStep
<1>23. ASSUME NEW c \in Charger, ChargeLost(c) PROVE Typed'
  <2>1. ChargeTypes'
    BY <1>23 DEF ChargeLost, Returns, ChargeTypes, chargeVars
  <2>2. Aims'
    BY <1>23 DEF ChargeLost, Returns, gateVars, leaveVars, chargeVars, ChargeTypes, Aims
  <2> QED BY <1>23, <2>1, <2>2, Unmoved DEF ChargeLost, Typed, TypeOK
<1>24. CASE Crash
  <2>0. crashes' \in Nat
    BY <1>24 DEF Crash
  <2>1. ApplyTypes'
    BY <1>24, <2>0 DEF Crash, Zero, ApplyTypes, applyVars
  <2>2. FulfilTypes'
    BY <1>24, <2>0 DEF Crash, creditVars, FulfilTypes, fulfilVars
  <2>3. FeeTypes'
    BY <1>24, <2>0 DEF Crash, Zero, FeeTypes, feeVars
  <2>4. LeaveTypes'
    BY <1>24, <2>0 DEF Crash, LeaveTypes, leaveVars
  <2>5. ChargeTypes'
    BY <1>24, <2>0 DEF Crash, ChargeTypes, chargeVars
  <2>6. Aims'
    BY <1>24, <2>0 DEF Crash, gateVars, Aims
  <2> QED BY <1>24, <2>0, <2>1, <2>2, <2>3, <2>4, <2>5, <2>6, Unmoved DEF Crash, Typed, TypeOK
<1>25. CASE UNCHANGED vars
  BY <1>25, Unmoved DEF vars
<1> QED
  BY <1>1, <1>2, <1>3, <1>4, <1>5, <1>6, <1>7, <1>8, <1>9, <1>10, <1>11, <1>12, <1>13,
     <1>14, <1>15, <1>16, <1>17, <1>18, <1>19, <1>20, <1>21, <1>22, <1>23, <1>24, <1>25
  DEF Next, FulfilStep, FeeStep, LeaveStep

\* Rows and requests keep their types, whatever overlaps, is repeated or ends half-way
\* (invoices, transactions, applyCredit, runAutomation, chargeInvoice).
THEOREM BillingTyped == Spec => []TypeOK
<1>1. Init => Typed
  BY TypedInit
<1>2. Typed /\ [Next]_vars => Typed'
  BY TypedStep
<1>3. Typed => TypeOK
  BY DEF Typed
<1> QED BY <1>1, <1>2, <1>3, PTL DEF Spec

-----------------------------------------------------------------------------
(* Once.                                                                   *)

\* A line is unpaid for, about to be dealt with or dealt with, one of the three,
\* and an invoice with a credit note is settled for good.
Settling ==
  /\ \A i \in Invoice : status[i] \in {"none", "unpaid"} => i \notin toFulfil /\ notes[i] = 0
  /\ \A i \in Invoice, s \in Service :
       /\ granted[<<i, s>>] <= 1
       /\ <<i, s>> \in work \/ i \in toFulfil \/ status[i] \in {"none", "unpaid"} => granted[<<i, s>>] = 0
       /\ i \in toFulfil \/ status[i] \in {"none", "unpaid"} => <<i, s>> \notin work
  /\ \A i \in Invoice : notes[i] = 0 \/ (notes[i] = 1 /\ status[i] \notin {"none", "unpaid", "paid"})

\* A transaction settles an invoice, or leaves it as it stood.
LEMMA Settles ==
  ASSUME NEW i, NEW n, AddTransaction(i, n)
  PROVE  \/ UNCHANGED <<status, toFulfil>>
         \/ status[i] = "unpaid" /\ status' = [status EXCEPT ![i] = "paid"] /\ toFulfil' = toFulfil \cup {i}
BY DEF AddTransaction, BecomesPaid

LEMMA ReferenceSettles ==
  ASSUME NEW p, RecordReference(p)
  PROVE  \/ UNCHANGED <<status, toFulfil>>
         \/ /\ status[payFor[p]] = "unpaid"
            /\ status' = [status EXCEPT ![payFor[p]] = "paid"]
            /\ toFulfil' = toFulfil \cup {payFor[p]}
BY Settles DEF RecordReference

\* Paying, whoever does it, keeps the stages apart.
LEMMA PayingKeepsSettling ==
  ASSUME Typed, Settling, NEW i \in Invoice, UNCHANGED <<work, granted, notes>>,
         \/ UNCHANGED <<status, toFulfil>>
         \/ status[i] = "unpaid" /\ status' = [status EXCEPT ![i] = "paid"] /\ toFulfil' = toFulfil \cup {i}
  PROVE  Settling'
<1>1. CASE UNCHANGED <<status, toFulfil>>
  BY <1>1 DEF Settling
<1>2. CASE status[i] = "unpaid" /\ status' = [status EXCEPT ![i] = "paid"] /\ toFulfil' = toFulfil \cup {i}
  <2>1. \A j \in Invoice : status'[j] = IF j = i THEN "paid" ELSE status[j]
    BY <1>2 DEF Typed, TypeOK, InvoiceTypes
  <2> QED BY <1>2, <2>1 DEF Settling
<1> QED BY <1>1, <1>2

LEMMA SettlingStep ==
  ASSUME Typed, Settling, [Next]_vars
  PROVE  Settling'
<1>1. ASSUME UNCHANGED <<status, notes, fulfilVars>> PROVE Settling'
  BY <1>1 DEF Settling, fulfilVars
<1>2. ASSUME NEW i \in Invoice, NEW S \in SUBSET Service, Issue(i, S) PROVE Settling'
  <2>1. \A j \in Invoice : status'[j] = IF j = i THEN "unpaid" ELSE status[j]
    BY <1>2 DEF Issue, Typed, TypeOK, InvoiceTypes
  <2> QED BY <1>2, <2>1 DEF Issue, fulfilVars, Settling
<1>3. ASSUME NEW i \in Invoice, AddPayment(i, Price) PROVE Settling'
  BY <1>3, Settles, PayingKeepsSettling DEF AddPayment
<1>4. ASSUME NEW i \in Invoice, CreditNote(i) PROVE Settling'
  <2>1. /\ \A j \in Invoice : status'[j] = IF j = i THEN "refunded" ELSE status[j]
        /\ \A j \in Invoice : notes'[j] = IF j = i THEN notes[j] + 1 ELSE notes[j]
    BY <1>4 DEF CreditNote, Typed, TypeOK, InvoiceTypes
  <2> QED BY <1>4, <2>1 DEF CreditNote, fulfilVars, Settling
<1>5. ASSUME NEW i \in Invoice, CancelInvoice(i) PROVE Settling'
  <2>1. \A j \in Invoice : status'[j] = IF j = i THEN "cancelled" ELSE status[j]
    BY <1>5 DEF CancelInvoice, Typed, TypeOK, InvoiceTypes
  <2> QED BY <1>5, <2>1 DEF CancelInvoice, fulfilVars, Settling
<1>6. ASSUME NEW i \in Invoice, CreditStep(i) PROVE Settling'
  <2>1. CASE CreditDue(i) \/ CreditBalance(i) \/ CreditSpend(i)
    BY <1>1, <2>1 DEF CreditDue, CreditBalance, CreditSpend, invoiceVars
  <2>2. CASE CreditRecord(i)
    BY <2>2, Settles, PayingKeepsSettling DEF CreditRecord
  <2> QED BY <1>6, <2>1, <2>2 DEF CreditStep
<1>7. ASSUME NEW i \in Invoice, FulfilStart(i) PROVE Settling'
  <2>1. /\ toFulfil' = toFulfil \ {i}
        /\ \A j \in Invoice, s \in Service : <<j, s>> \in work' => <<j, s>> \in work \/ j = i
    BY <1>7 DEF FulfilStart
  <2> QED BY <1>7, <2>1 DEF FulfilStart, invoiceVars, Settling
<1>8. ASSUME NEW i \in Invoice, NEW s \in Service, FulfilLine(i, s) PROVE Settling'
  <2>1. \A j \in Invoice, t \in Service :
          /\ <<j, t>> \in work' <=> <<j, t>> \in work /\ <<j, t>> # <<i, s>>
          /\ granted'[<<j, t>>] = IF <<j, t>> = <<i, s>> THEN granted[<<j, t>>] + 1 ELSE granted[<<j, t>>]
    BY <1>8 DEF FulfilLine, Typed, TypeOK, FulfilTypes
  <2>2. \A j \in Invoice, t \in Service :
          /\ granted'[<<j, t>>] <= 1
          /\ <<j, t>> \in work' \/ j \in toFulfil' \/ status'[j] \in {"none", "unpaid"} => granted'[<<j, t>>] = 0
          /\ j \in toFulfil' \/ status'[j] \in {"none", "unpaid"} => <<j, t>> \notin work'
    <3> SUFFICES ASSUME NEW j \in Invoice, NEW t \in Service
                 PROVE  /\ granted'[<<j, t>>] <= 1
                        /\ <<j, t>> \in work' \/ j \in toFulfil' \/ status'[j] \in {"none", "unpaid"} => granted'[<<j, t>>] = 0
                        /\ j \in toFulfil' \/ status'[j] \in {"none", "unpaid"} => <<j, t>> \notin work'
      OBVIOUS
    <3>1. CASE <<j, t>> = <<i, s>>
      BY <1>8, <2>1, <3>1 DEF FulfilLine, invoiceVars, Settling
    <3>2. CASE <<j, t>> # <<i, s>>
      BY <1>8, <2>1, <3>2 DEF FulfilLine, invoiceVars, Settling
    <3> QED BY <3>1, <3>2
  <2> QED BY <1>8, <2>2 DEF FulfilLine, invoiceVars, Settling
<1>9. ASSUME NEW p \in Payment, Deliver(p) PROVE Settling'
  <2>1. payFor[p] \in Invoice
    BY <1>9 DEF Deliver, Typed, Aims
  <2> QED BY <1>9, <2>1, ReferenceSettles, PayingKeepsSettling DEF Deliver
<1>10. ASSUME NEW s \in Leaving, LeaveStep(s) PROVE Settling'
  <2>1. CASE LeaveSelect(s) \/ LeaveRead(s) \/ \E i \in Invoice : LeaveCheck(s, i)
    BY <1>1, <2>1 DEF LeaveSelect, LeaveRead, LeaveCheck, invoiceVars
  <2>2. CASE LeaveWrite(s)
    <3>1. \A j \in Invoice : status'[j] = status[j] \/ status'[j] = "cancelled"
      BY <2>2 DEF LeaveWrite, Typed, TypeOK, InvoiceTypes
    <3> QED BY <2>2, <3>1 DEF LeaveWrite, fulfilVars, Settling
  <2> QED BY <1>10, <2>1, <2>2 DEF LeaveStep
<1>11. ASSUME NEW c \in Charger, ChargeStep(c) PROVE Settling'
  <2>1. CASE ChargeRead(c) \/ ChargeDue(c) \/ ChargeCount(c) \/ ChargeCall(c)
    BY <1>1, <2>1 DEF ChargeRead, ChargeDue, ChargeCount, ChargeCall, invoiceVars
  <2>2. CASE ChargeAnswer(c)
    <3>1. payFor[answer[c]] \in Invoice
      BY <2>2 DEF ChargeAnswer, Typed, Aims
    <3>2. UNCHANGED <<status, toFulfil>> \/ RecordReference(answer[c])
      BY <2>2 DEF ChargeAnswer
    <3> QED BY <2>2, <3>1, <3>2, ReferenceSettles, PayingKeepsSettling DEF ChargeAnswer
  <2> QED BY <1>11, <2>1, <2>2 DEF ChargeStep
<1>12. CASE Crash
  BY <1>12 DEF Crash, invoiceVars, Settling
<1>13. ASSUME NEW i \in Invoice, GrowLate(i) \/ DaysPass(i) PROVE Settling'
  BY <1>1, <1>13 DEF GrowLate, DaysPass, invoiceVars
<1>14. ASSUME NEW i \in Invoice, NEW p \in Payment, PayHosted(i, p) PROVE Settling'
  BY <1>1, <1>14 DEF PayHosted, invoiceVars
<1>15. ASSUME NEW p \in Payment, Capture(p) \/ Refuse(p) \/ DebitFailed(p) PROVE Settling'
  BY <1>1, <1>15 DEF Capture, Refuse, DebitFailed, invoiceVars
<1>16. ASSUME NEW a \in Run, FeeStep(a) PROVE Settling'
  BY <1>1, <1>16 DEF FeeStep, FeeSelect, FeeAdd, invoiceVars
<1>17. ASSUME NEW c \in Charger, ChargeLost(c) \/ \E i \in Invoice : ChargeSelect(c, i) PROVE Settling'
  BY <1>1, <1>17 DEF ChargeLost, ChargeSelect, invoiceVars
<1>18. CASE UNCHANGED vars
  BY <1>1, <1>18 DEF vars, invoiceVars
<1> QED
  BY <1>2, <1>3, <1>4, <1>5, <1>6, <1>7, <1>8, <1>9, <1>10, <1>11, <1>12, <1>13, <1>14,
     <1>15, <1>16, <1>17, <1>18 DEF Next, FulfilStep

\* However often gateways report a payment, whoever else pays, and wherever the
\* process ends: a line's effects come once, and an invoice is reversed once
\* (recordPayment, fulfilInvoice, issueCreditNote).
THEOREM SettledOnce == Spec => []OnceOnly
<1>1. Init => Typed /\ Settling
  <2>1. ASSUME Init PROVE Settling
    <3>1. ASSUME NEW i \in Invoice, NEW s \in Service
          PROVE  granted[<<i, s>>] = 0 /\ <<i, s>> \notin work
      <4>1. <<i, s>> \in Invoice \X Service
        OBVIOUS
      <4> QED BY <2>1, <4>1 DEF Init
    <3>2. \A i \in Invoice : status[i] = "none" /\ notes[i] = 0 /\ i \notin toFulfil
      BY <2>1 DEF Init, Zero
    <3>3. ASSUME NEW i \in Invoice, NEW s \in Service
          PROVE  /\ granted[<<i, s>>] <= 1
                 /\ <<i, s>> \in work \/ i \in toFulfil \/ status[i] \in {"none", "unpaid"} => granted[<<i, s>>] = 0
                 /\ i \in toFulfil \/ status[i] \in {"none", "unpaid"} => <<i, s>> \notin work
      <4>1. granted[<<i, s>>] = 0 /\ <<i, s>> \notin work
        BY <3>1
      <4>2. granted[<<i, s>>] <= 1
        BY <4>1
      <4> QED BY <4>1, <4>2
    <3> QED BY <3>2, <3>3 DEF Settling
  <2> QED BY <2>1, TypedInit
<1>2. (Typed /\ Settling) /\ [Next]_vars => (Typed /\ Settling)'
  BY TypedStep, SettlingStep
<1>3. Typed /\ Settling => OnceOnly
  <2> SUFFICES ASSUME Typed, Settling PROVE OnceOnly
    OBVIOUS
  <2>1. FulfilledOnce
    BY DEF FulfilledOnce, Settling
  <2>2. RefundedOnce
    BY DEF RefundedOnce, Settling
  <2> QED BY <2>1, <2>2 DEF OnceOnly
<1> QED BY <1>1, <1>2, <1>3, PTL DEF Spec

-----------------------------------------------------------------------------
(* What is paid is covered.                                                *)

\* A step that settles no invoice it does not cover, takes nothing off what came
\* in and moves the total of no settled invoice.
Kept(i) ==
  /\ received'[i] >= received[i]
  /\ \/ status'[i] \notin {"paid", "refunded"}
     \/ status[i] \in {"paid", "refunded"} /\ total'[i] = total[i]
     \/ received'[i] >= total'[i]

LEMMA KeptCovers ==
  ASSUME TypeOK, TypeOK', PaidIsCovered, \A i \in Invoice : Kept(i)
  PROVE  PaidIsCovered'
BY DEF Kept, PaidIsCovered, TypeOK, InvoiceTypes, MoneyTypes

\* A transaction keeps them: it only settles what it covers.
LEMMA TransactionKept ==
  ASSUME TypeOK, NEW i \in Invoice, NEW n \in Nat, AddTransaction(i, n), UNCHANGED total
  PROVE  \A j \in Invoice : Kept(j)
<1> USE DEF TypeOK, InvoiceTypes, MoneyTypes
<1>1. \A j \in Invoice : received'[j] = IF j = i THEN received[i] + n ELSE received[j]
  BY DEF AddTransaction
<1>2. \A j \in Invoice : status'[j] = status[j] \/ (j = i /\ received[i] + n >= total[i])
  <2>1. CASE BecomesPaid(i, received[i] + n)
    BY <2>1 DEF AddTransaction, BecomesPaid
  <2>2. CASE ~BecomesPaid(i, received[i] + n)
    BY <2>2 DEF AddTransaction
  <2> QED BY <2>1, <2>2
<1>3. ASSUME NEW j \in Invoice PROVE Kept(j)
  <2>1. received[j] \in Nat /\ received[i] \in Nat /\ total[j] \in Nat /\ total'[j] = total[j]
    OBVIOUS
  <2>2. received'[j] >= received[j]
    BY <1>1, <2>1
  <2>3. status'[j] = status[j] \/ received'[j] >= total'[j]
    BY <1>1, <1>2, <2>1
  <2> QED BY <2>1, <2>2, <2>3 DEF Kept
<1> QED BY <1>3

LEMMA ReferenceKept ==
  ASSUME TypeOK, NEW p \in Payment, payFor[p] \in Invoice, RecordReference(p), UNCHANGED total
  PROVE  \A j \in Invoice : Kept(j)
<1>1. CASE p \in recorded
  BY <1>1 DEF RecordReference, Kept, TypeOK, InvoiceTypes, MoneyTypes
<1>2. CASE p \notin recorded
  BY <1>2, TransactionKept DEF RecordReference, TypeOK, GateTypes
<1> QED BY <1>1, <1>2

LEMMA CoveredStep ==
  ASSUME Leaving = {}, Typed, PaidIsCovered, [Next]_vars
  PROVE  PaidIsCovered'
<1>0. TypeOK /\ TypeOK'
  BY TypedStep DEF Typed
<1>1. ASSUME UNCHANGED <<status, total, received>> PROVE PaidIsCovered'
  BY <1>1 DEF PaidIsCovered
<1> USE DEF invoiceVars, moneyVars
<1>2. ASSUME NEW i \in Invoice, NEW S \in SUBSET Service, Issue(i, S) PROVE PaidIsCovered'
  <2>1. \A j \in Invoice : j # i => status'[j] = status[j] /\ total'[j] = total[j]
    BY <1>0, <1>2 DEF Issue, TypeOK, InvoiceTypes
  <2>2. status'[i] = "unpaid" /\ received' = received
    BY <1>0, <1>2 DEF Issue, TypeOK, InvoiceTypes
  <2> QED BY <2>1, <2>2 DEF PaidIsCovered
<1>3. ASSUME NEW i \in Invoice, AddPayment(i, Price) PROVE PaidIsCovered'
  <2>1. AddTransaction(i, Price) /\ Price \in Nat /\ UNCHANGED total
    BY <1>3, AmountsAssumption DEF AddPayment
  <2> QED BY <1>0, <2>1, TransactionKept, KeptCovers
<1>4. ASSUME NEW i \in Invoice, CreditNote(i) \/ CancelInvoice(i) PROVE PaidIsCovered'
  <2>1. /\ UNCHANGED <<total, received>>
        /\ \A j \in Invoice : status'[j] \in {"paid", "refunded"} => status[j] \in {"paid", "refunded"}
    BY <1>0, <1>4 DEF CreditNote, CancelInvoice, TypeOK, InvoiceTypes
  <2> QED BY <2>1 DEF PaidIsCovered
<1>5. ASSUME NEW i \in Invoice, CreditStep(i) PROVE PaidIsCovered'
  <2>1. CASE CreditDue(i) \/ CreditBalance(i) \/ CreditSpend(i)
    BY <1>1, <2>1 DEF CreditDue, CreditBalance, CreditSpend
  <2>2. CASE CreditRecord(i)
    <3>1. spend[i] \in Nat
      BY <1>0 DEF TypeOK, ApplyTypes
    <3> QED BY <1>0, <2>2, <3>1, TransactionKept, KeptCovers DEF CreditRecord
  <2> QED BY <1>5, <2>1, <2>2 DEF CreditStep
<1>6. ASSUME NEW p \in Payment, Deliver(p) PROVE PaidIsCovered'
  <2>1. payFor[p] \in Invoice
    BY <1>6 DEF Deliver, Typed, Aims
  <2> QED BY <1>0, <1>6, <2>1, ReferenceKept, KeptCovers DEF Deliver
<1>7. ASSUME NEW a \in Run, NEW i \in Invoice, FeeAdd(a, i) PROVE PaidIsCovered'
  <2>1. UNCHANGED <<status, received>> /\ \A j \in Invoice : total'[j] = total[j] \/ (j = i /\ status[i] = "unpaid")
    <3>1. CASE Claims(i)
      BY <1>0, <1>7, <3>1 DEF FeeAdd, Claims, TypeOK, InvoiceTypes
    <3>2. CASE ~Claims(i)
      <4>1. UNCHANGED <<status, received, total>>
        BY <1>7, <3>2 DEF FeeAdd
      <4> QED BY <4>1
    <3> QED BY <3>1, <3>2
  <2>2. \A j \in Invoice : status[j] \in {"paid", "refunded"} => total'[j] = total[j]
    BY <2>1
  <2> QED BY <2>1, <2>2 DEF PaidIsCovered
<1>8. ASSUME NEW c \in Charger, ChargeStep(c) PROVE PaidIsCovered'
  <2>1. CASE ChargeRead(c) \/ ChargeDue(c) \/ ChargeCount(c) \/ ChargeCall(c)
    BY <1>1, <2>1 DEF ChargeRead, ChargeDue, ChargeCount, ChargeCall
  <2>2. CASE ChargeAnswer(c)
    <3>1. answer[c] \in Payment /\ payFor[answer[c]] \in Invoice
      BY <2>2 DEF ChargeAnswer, Typed, Aims
    <3>2. UNCHANGED <<status, received>> \/ RecordReference(answer[c])
      BY <2>2 DEF ChargeAnswer
    <3>3. UNCHANGED total
      BY <2>2 DEF ChargeAnswer
    <3> QED BY <1>0, <1>1, <3>1, <3>2, <3>3, ReferenceKept, KeptCovers
  <2> QED BY <1>8, <2>1, <2>2 DEF ChargeStep
<1>9. ASSUME NEW i \in Invoice, FulfilStep(i) \/ GrowLate(i) \/ DaysPass(i) PROVE PaidIsCovered'
  BY <1>1, <1>9 DEF FulfilStep, FulfilStart, FulfilLine, GrowLate, DaysPass
<1>10. ASSUME NEW i \in Invoice, NEW p \in Payment, PayHosted(i, p) PROVE PaidIsCovered'
  BY <1>1, <1>10 DEF PayHosted
<1>11. ASSUME NEW p \in Payment, Capture(p) \/ Refuse(p) \/ DebitFailed(p) PROVE PaidIsCovered'
  BY <1>1, <1>11 DEF Capture, Refuse, DebitFailed
<1>12. ASSUME NEW a \in Run, FeeSelect(a) PROVE PaidIsCovered'
  BY <1>1, <1>12 DEF FeeSelect
<1>13. ASSUME NEW c \in Charger, ChargeLost(c) \/ \E i \in Invoice : ChargeSelect(c, i) PROVE PaidIsCovered'
  BY <1>1, <1>13 DEF ChargeLost, ChargeSelect
<1>14. CASE Crash \/ UNCHANGED vars
  BY <1>1, <1>14 DEF Crash, vars
<1> QED
  BY <1>2, <1>3, <1>4, <1>5, <1>6, <1>7, <1>8, <1>9, <1>10, <1>11, <1>12, <1>13, <1>14 DEF Next, FeeStep

\* As long as no customer cancels meanwhile, late fees, credit notes, charges
\* and crashes leave no paid or refunded invoice uncovered (recordPayment and the
\* claim of the late fee, which asks for an unpaid invoice again).
THEOREM Covered ==
  ASSUME Leaving = {}
  PROVE  Spec => []PaidIsCovered
<1>1. Init => Typed /\ PaidIsCovered
  <2>1. Init => PaidIsCovered
    BY DEF Init, PaidIsCovered
  <2> QED BY <2>1, TypedInit
<1>2. (Typed /\ PaidIsCovered) /\ [Next]_vars => (Typed /\ PaidIsCovered)'
  BY TypedStep, CoveredStep
<1> QED BY <1>1, <1>2, PTL DEF Spec

-----------------------------------------------------------------------------
(* Credit.                                                                 *)

\* What is on its way from the balance to the invoice.
OnItsWay(i) == IF creditPc[i] = "record" THEN spend[i] ELSE 0
Moved ==
  /\ crashes = 0
  /\ \A i \in Invoice : spent[i] = credited[i] + OnItsWay(i)
  /\ \A i \in Invoice : creditPc[i] # "idle" => status[i] # "none"

\* An invoice that was issued stays issued.
LEMMA StaysIssued ==
  ASSUME Typed, [Next]_vars
  PROVE  \A i \in Invoice : status'[i] = "none" => status[i] = "none"
<1> USE DEF Typed, TypeOK, InvoiceTypes
<1> DEFINE Stays == \A i \in Invoice : status'[i] = "none" => status[i] = "none"
<1>1. ASSUME UNCHANGED status PROVE Stays
  BY <1>1
<1>2. ASSUME NEW i \in Invoice, NEW n, AddTransaction(i, n) PROVE Stays
  BY <1>2 DEF AddTransaction
<1>3. ASSUME NEW i \in Invoice, NEW S \in SUBSET Service, Issue(i, S) PROVE Stays
  BY <1>3 DEF Issue
<1>4. ASSUME NEW i \in Invoice, AddPayment(i, Price) \/ CreditNote(i) \/ CancelInvoice(i) PROVE Stays
  BY <1>2, <1>4 DEF AddPayment, CreditNote, CancelInvoice
<1>5. ASSUME NEW i \in Invoice, CreditStep(i) PROVE Stays
  BY <1>1, <1>2, <1>5 DEF CreditStep, CreditDue, CreditBalance, CreditSpend, CreditRecord, invoiceVars
<1>6. ASSUME NEW p \in Payment, RecordReference(p), payFor[p] \in Invoice PROVE Stays
  BY <1>1, <1>2, <1>6 DEF RecordReference
<1>7. ASSUME NEW p \in Payment, Deliver(p) PROVE Stays
  BY <1>6, <1>7 DEF Deliver, Aims
<1>8. ASSUME NEW s \in Leaving, LeaveWrite(s) PROVE Stays
  BY <1>8 DEF LeaveWrite
<1>9. ASSUME NEW c \in Charger, ChargeAnswer(c) PROVE Stays
  BY <1>1, <1>6, <1>9 DEF ChargeAnswer, Aims
<1>10. ASSUME NEW i \in Invoice, FulfilStep(i) \/ GrowLate(i) \/ DaysPass(i) PROVE Stays
  BY <1>1, <1>10 DEF FulfilStep, FulfilStart, FulfilLine, GrowLate, DaysPass, invoiceVars
<1>11. ASSUME NEW i \in Invoice, NEW p \in Payment, PayHosted(i, p) PROVE Stays
  BY <1>1, <1>11 DEF PayHosted, invoiceVars
<1>12. ASSUME NEW p \in Payment, Capture(p) \/ Refuse(p) \/ DebitFailed(p) PROVE Stays
  BY <1>1, <1>12 DEF Capture, Refuse, DebitFailed, invoiceVars
<1>13. ASSUME NEW a \in Run, FeeStep(a) PROVE Stays
  BY <1>1, <1>13 DEF FeeStep, FeeSelect, FeeAdd, invoiceVars
<1>14. ASSUME NEW s \in Leaving, LeaveSelect(s) \/ LeaveRead(s) \/ \E i \in Invoice : LeaveCheck(s, i) PROVE Stays
  BY <1>1, <1>14 DEF LeaveSelect, LeaveRead, LeaveCheck, invoiceVars
<1>15. ASSUME NEW c \in Charger,
              ChargeRead(c) \/ ChargeDue(c) \/ ChargeCount(c) \/ ChargeCall(c) \/ ChargeLost(c)
                \/ \E i \in Invoice : ChargeSelect(c, i)
       PROVE  Stays
  BY <1>1, <1>15 DEF ChargeRead, ChargeDue, ChargeCount, ChargeCall, ChargeLost, ChargeSelect, invoiceVars
<1>16. CASE Crash \/ UNCHANGED vars
  BY <1>1, <1>16 DEF Crash, vars, invoiceVars
<1> QED
  BY <1>3, <1>4, <1>5, <1>7, <1>8, <1>9, <1>10, <1>11, <1>12, <1>13, <1>14, <1>15, <1>16
  DEF Next, LeaveStep, ChargeStep

LEMMA MovedStep ==
  ASSUME MaxCrashes = 0, Typed, Moved, [Next]_vars
  PROVE  Moved'
<1> USE DEF Typed, TypeOK, CreditTypes, ApplyTypes
<1>0. \A i \in Invoice : status[i] # "none" => status'[i] # "none"
  BY StaysIssued
<1>1. ASSUME UNCHANGED <<spent, credited, applyVars, crashes>> PROVE Moved'
  BY <1>0, <1>1 DEF applyVars, Moved, OnItsWay
<1>2. ASSUME NEW i \in Invoice, NEW S \in SUBSET Service, Issue(i, S) PROVE Moved'
  <2>1. creditPc[i] = "idle"
    BY <1>2 DEF Issue, Moved
  <2>2. \A j \in Invoice : creditPc'[j] = IF j = i THEN "due" ELSE creditPc[j]
    BY <1>2 DEF Issue
  <2>3. UNCHANGED <<spent, credited, spend, crashes>> /\ status'[i] # "none"
    BY <1>2 DEF Issue, creditVars, InvoiceTypes
  <2> QED BY <1>0, <2>1, <2>2, <2>3 DEF Moved, OnItsWay
<1>3. ASSUME NEW i \in Invoice, CreditStep(i) PROVE Moved'
  <2>0. status[i] # "none" /\ creditPc[i] # "idle" /\ crashes' = crashes
    BY <1>3 DEF CreditStep, CreditDue, CreditBalance, CreditSpend, CreditRecord, Moved
  <2>1. CASE CreditDue(i) \/ CreditBalance(i)
    <3>1. creditPc[i] # "record" /\ UNCHANGED <<spent, credited>>
      BY <2>1 DEF CreditDue, CreditBalance, creditVars
    <3>2. /\ creditPc'[i] # "record"
          /\ \A j \in Invoice : j # i => creditPc'[j] = creditPc[j] /\ spend'[j] = spend[j]
      BY <2>1 DEF CreditDue, CreditBalance, CreditReturns, CreditGoesOn
    <3> QED BY <1>0, <2>0, <3>1, <3>2 DEF Moved, OnItsWay
  <2>2. CASE CreditSpend(i)
    <3>1. creditPc[i] = "spend" /\ UNCHANGED credited
      BY <2>2 DEF CreditSpend
    <3>2. \A j \in Invoice : j # i => creditPc'[j] = creditPc[j] /\ spend'[j] = spend[j] /\ spent'[j] = spent[j]
      BY <2>2 DEF CreditSpend, CreditReturns, CreditGoesOn
    <3>3. \/ creditPc'[i] = "record" /\ spend'[i] = spend[i] /\ spent'[i] = spent[i] + spend[i]
          \/ creditPc'[i] = "idle" /\ spent'[i] = spent[i]
      BY <2>2 DEF CreditSpend, CreditReturns, CreditGoesOn
    <3> QED BY <1>0, <2>0, <3>1, <3>2, <3>3 DEF Moved, OnItsWay
  <2>3. CASE CreditRecord(i)
    <3>1. /\ creditPc[i] = "record" /\ creditPc'[i] = "idle"
          /\ credited'[i] = credited[i] + spend[i] /\ UNCHANGED spent
      BY <2>3 DEF CreditRecord, CreditReturns, CreditGoesOn
    <3>2. \A j \in Invoice : j # i => creditPc'[j] = creditPc[j] /\ spend'[j] = spend[j] /\ credited'[j] = credited[j]
      BY <2>3 DEF CreditRecord, CreditReturns, CreditGoesOn
    <3> QED BY <1>0, <2>0, <3>1, <3>2 DEF Moved, OnItsWay
  <2> QED BY <1>3, <2>1, <2>2, <2>3 DEF CreditStep
<1> USE DEF creditVars
<1>4. ASSUME NEW i \in Invoice,
             AddPayment(i, Price) \/ CreditNote(i) \/ CancelInvoice(i) \/ GrowLate(i) \/ DaysPass(i) \/ FulfilStep(i)
      PROVE  Moved'
  BY <1>1, <1>4 DEF AddPayment, CreditNote, CancelInvoice, GrowLate, DaysPass, FulfilStep, FulfilStart, FulfilLine
<1>5. ASSUME NEW i \in Invoice, NEW p \in Payment, PayHosted(i, p) PROVE Moved'
  BY <1>1, <1>5 DEF PayHosted
<1>6. ASSUME NEW p \in Payment, Capture(p) \/ Deliver(p) \/ Refuse(p) \/ DebitFailed(p) PROVE Moved'
  BY <1>1, <1>6 DEF Capture, Deliver, Refuse, DebitFailed
<1>7. ASSUME NEW a \in Run, FeeStep(a) PROVE Moved'
  BY <1>1, <1>7 DEF FeeStep, FeeSelect, FeeAdd
<1>8. ASSUME NEW s \in Leaving, LeaveStep(s) PROVE Moved'
  BY <1>1, <1>8 DEF LeaveStep, LeaveSelect, LeaveRead, LeaveWrite, LeaveCheck
<1>9. ASSUME NEW c \in Charger, ChargeStep(c) \/ ChargeLost(c) \/ \E i \in Invoice : ChargeSelect(c, i) PROVE Moved'
  BY <1>1, <1>9 DEF ChargeStep, ChargeRead, ChargeDue, ChargeCount, ChargeCall, ChargeAnswer, ChargeLost, ChargeSelect
<1>10. CASE UNCHANGED vars
  BY <1>1, <1>10 DEF vars
<1>11. ~Crash
  BY DEF Crash, Moved
<1> QED
  BY <1>2, <1>3, <1>4, <1>5, <1>6, <1>7, <1>8, <1>9, <1>10, <1>11 DEF Next

\* As long as the process does not end in between, credit that left the balance
\* for an invoice is recorded on it, whatever became of the invoice meanwhile
\* (applyCredit: adjustCredit first, recordPayment next).
THEOREM CreditComes ==
  ASSUME MaxCrashes = 0
  PROVE  Spec => []CreditArrives
<1>1. Init => Typed /\ Moved
  <2>1. Init => Moved
    BY DEF Init, Zero, Moved, OnItsWay
  <2> QED BY <2>1, TypedInit
<1>2. (Typed /\ Moved) /\ [Next]_vars => (Typed /\ Moved)'
  BY TypedStep, MovedStep
<1>3. Typed /\ Moved => CreditArrives
  BY DEF Typed, TypeOK, CreditTypes, Moved, OnItsWay, CreditArrives
<1> QED BY <1>1, <1>2, <1>3, PTL DEF Spec

-----------------------------------------------------------------------------
(* The balance.                                                            *)

\* Only adjustCredit moves the balance and the ledger.
LEMMA CreditMoves ==
  ASSUME [Next]_vars
  PROVE  UNCHANGED <<balance, spent>> \/ \E i \in Invoice : CreditSpend(i)
<1> USE DEF creditVars
<1>1. ASSUME NEW i \in Invoice, CreditStep(i) PROVE UNCHANGED <<balance, spent>> \/ CreditSpend(i)
  BY <1>1 DEF CreditStep, CreditDue, CreditBalance, CreditRecord
<1>2. ASSUME NEW i \in Invoice, NEW S \in SUBSET Service, Issue(i, S) PROVE UNCHANGED <<balance, spent>>
  BY <1>2 DEF Issue
<1>3. ASSUME NEW i \in Invoice,
             AddPayment(i, Price) \/ CreditNote(i) \/ CancelInvoice(i) \/ GrowLate(i) \/ DaysPass(i) \/ FulfilStep(i)
      PROVE  UNCHANGED <<balance, spent>>
  BY <1>3 DEF AddPayment, CreditNote, CancelInvoice, GrowLate, DaysPass, FulfilStep, FulfilStart, FulfilLine
<1>4. ASSUME NEW i \in Invoice, NEW p \in Payment, PayHosted(i, p) PROVE UNCHANGED <<balance, spent>>
  BY <1>4 DEF PayHosted
<1>5. ASSUME NEW p \in Payment, Capture(p) \/ Deliver(p) \/ Refuse(p) \/ DebitFailed(p) PROVE UNCHANGED <<balance, spent>>
  BY <1>5 DEF Capture, Deliver, Refuse, DebitFailed
<1>6. ASSUME NEW a \in Run, FeeStep(a) PROVE UNCHANGED <<balance, spent>>
  BY <1>6 DEF FeeStep, FeeSelect, FeeAdd
<1>7. ASSUME NEW s \in Leaving, LeaveStep(s) PROVE UNCHANGED <<balance, spent>>
  BY <1>7 DEF LeaveStep, LeaveSelect, LeaveRead, LeaveWrite, LeaveCheck
<1>8. ASSUME NEW c \in Charger, ChargeStep(c) \/ ChargeLost(c) \/ \E i \in Invoice : ChargeSelect(c, i)
      PROVE  UNCHANGED <<balance, spent>>
  BY <1>8 DEF ChargeStep, ChargeRead, ChargeDue, ChargeCount, ChargeCall, ChargeAnswer, ChargeLost, ChargeSelect
<1>9. CASE Crash \/ UNCHANGED vars
  BY <1>9 DEF Crash, vars
<1> QED
  BY <1>1, <1>2, <1>3, <1>4, <1>5, <1>6, <1>7, <1>8, <1>9 DEF Next

\* The ledger says where the credit went.
Balanced == balance + SumFunctionOnSet(spent, Invoice) = Credit

LEMMA BalancedInit ==
  ASSUME Init
  PROVE  Balanced
<1>1. \A i \in Invoice : spent[i] = 0
  BY DEF Init, Zero
<1>2. SumFunctionOnSet(spent, Invoice) = 0
  BY <1>1, SumOfZeros, BillingSetsAssumption
<1> QED BY <1>2, AmountsAssumption DEF Init, Balanced

LEMMA BalancedStep ==
  ASSUME Typed, Balanced, [Next]_vars
  PROVE  Balanced'
<1>1. CASE UNCHANGED <<balance, spent>>
  BY <1>1 DEF Balanced
<1>2. ASSUME NEW i \in Invoice, CreditSpend(i) PROVE Balanced'
  <2>1. CASE balance >= spend[i]
    <3>1. balance' = balance - spend[i] /\ spent' = [spent EXCEPT ![i] = @ + spend[i]]
      BY <1>2, <2>1 DEF CreditSpend
    <3>2. balance \in Nat /\ spend[i] \in Nat /\ spent \in [Invoice -> Nat]
      BY DEF Typed, TypeOK, CreditTypes, ApplyTypes
    <3>3. SumFunctionOnSet(spent', Invoice) = SumFunctionOnSet(spent, Invoice) + spend[i]
      <4>1. \A j \in Invoice : spent[j] \in Nat
        BY <3>2
      <4>2. \A j \in Invoice \ {i} : spent'[j] = spent[j]
        BY <3>1, <3>2
      <4>3. spent'[i] = spent[i] + spend[i]
        BY <3>1, <3>2
      <4> QED BY <3>2, <4>1, <4>2, <4>3, SumOfChange, BillingSetsAssumption
    <3>4. SumFunctionOnSet(spent, Invoice) \in Nat
      BY <3>2, SumIsNat, BillingSetsAssumption
    <3> QED BY <3>1, <3>2, <3>3, <3>4 DEF Balanced
  <2>2. CASE ~(balance >= spend[i])
    BY <1>2, <2>2 DEF CreditSpend, Balanced
  <2> QED BY <2>1, <2>2
<1> QED BY <1>1, <1>2, CreditMoves

LEMMA BalancedAddsUp ==
  ASSUME Typed, Balanced
  PROVE  CreditAddsUp
<1>1. \A i \in Invoice : spent[i] \in Nat
  BY DEF Typed, TypeOK, CreditTypes
<1>2. SumFunctionOnSet(spent, Invoice) \in Nat /\ balance \in Nat
  BY <1>1, SumIsNat, BillingSetsAssumption DEF Typed, TypeOK, CreditTypes
<1> DEFINE movements == SumFunctionOnSet(spent, Invoice)
<1>3. balance + movements = Credit /\ Credit \in Nat
  BY AmountsAssumption DEF Balanced
<1>4. movements <= Credit /\ balance = Credit - movements
  <2> HIDE DEF movements
  <2> QED BY <1>2, <1>3 DEF movements
<1> QED BY <1>4 DEF CreditAddsUp

\* Overlapping applyCredits never spend more than there is, and the balance is
\* what the ledger says, also after a crash (adjustCredit decides on the balance
\* it has locked).
THEOREM CreditBalances == Spec => []CreditAddsUp
<1>1. Init => Typed /\ Balanced
  BY TypedInit, BalancedInit
<1>2. (Typed /\ Balanced) /\ [Next]_vars => (Typed /\ Balanced)'
  BY TypedStep, BalancedStep
<1>3. Typed /\ Balanced => CreditAddsUp
  BY BalancedAddsUp
<1> QED BY <1>1, <1>2, <1>3, PTL DEF Spec

\* With no crash between the two steps of applyCredit, the credit that left the
\* balance was there and arrives on its invoice.
THEOREM CreditIsRight ==
  ASSUME MaxCrashes = 0
  PROVE  Spec => []CreditRight
<1>1. Spec => []CreditAddsUp
  BY CreditBalances
<1>2. Spec => []CreditArrives
  BY CreditComes
<1>3. CreditAddsUp /\ CreditArrives => CreditRight
  BY DEF CreditRight
<1> QED BY <1>1, <1>2, <1>3, PTL

-----------------------------------------------------------------------------
(* What came in.                                                           *)

\* What has a transaction was captured, and CountedOnce.
Through(i) == {p \in recorded : payFor[p] = i}
Counted ==
  /\ IsFiniteSet(recorded)
  /\ \A p \in recorded : gate[p] = "captured"
  /\ \A i \in Invoice : received[i] = credited[i] + manual[i] + SumFunctionOnSet(amount, Through(i))

\* A step that records nothing, and one that records a payment at a gateway.
CapturesStay ==
  \A p \in Payment : gate[p] = "captured" =>
    gate'[p] = "captured" /\ payFor'[p] = payFor[p] /\ amount'[p] = amount[p]
Quiet == UNCHANGED <<received, recorded, manual, credited>> /\ CapturesStay
Recording(p) ==
  /\ gate[p] = "captured"
  /\ RecordReference(p)
  /\ UNCHANGED <<manual, credited, gateVars>>

LEMMA MoneyMoves ==
  ASSUME Typed, [Next]_vars
  PROVE  \/ Quiet
         \/ \E i \in Invoice : AddPayment(i, Price) \/ CreditRecord(i)
         \/ \E p \in Payment : Recording(p)
<1> USE DEF Typed, TypeOK, GateTypes
<1>0. ASSUME UNCHANGED <<received, recorded, manual, credited, gateVars>> PROVE Quiet
  BY <1>0 DEF Quiet, CapturesStay, gateVars
<1>1. ASSUME NEW i \in Invoice, CreditStep(i) PROVE Quiet \/ CreditRecord(i)
  BY <1>0, <1>1 DEF CreditStep, CreditDue, CreditBalance, CreditSpend, moneyVars, creditVars
<1>2. ASSUME NEW i \in Invoice, NEW S \in SUBSET Service, Issue(i, S) PROVE Quiet
  BY <1>0, <1>2 DEF Issue, moneyVars, creditVars
<1>3. ASSUME NEW i \in Invoice, CreditNote(i) \/ CancelInvoice(i) \/ GrowLate(i) \/ DaysPass(i) \/ FulfilStep(i)
      PROVE  Quiet
  BY <1>0, <1>3 DEF CreditNote, CancelInvoice, GrowLate, DaysPass, FulfilStep, FulfilStart, FulfilLine,
                    moneyVars, creditVars
<1>4. ASSUME NEW i \in Invoice, NEW p \in Payment, PayHosted(i, p) PROVE Quiet
  BY <1>4 DEF PayHosted, moneyVars, creditVars, Quiet, CapturesStay
<1>5. ASSUME NEW p \in Payment, Capture(p) \/ Refuse(p) PROVE Quiet
  BY <1>5 DEF Capture, Refuse, moneyVars, creditVars, Quiet, CapturesStay
<1>6. ASSUME NEW p \in Payment, DebitFailed(p) PROVE Quiet
  BY <1>0, <1>6 DEF DebitFailed, moneyVars, creditVars
<1>7. ASSUME NEW p \in Payment, Deliver(p) PROVE Recording(p)
  BY <1>7 DEF Deliver, Recording, creditVars
<1>8. ASSUME NEW a \in Run, FeeStep(a) PROVE Quiet
  BY <1>0, <1>8 DEF FeeStep, FeeSelect, FeeAdd, moneyVars, creditVars
<1>9. ASSUME NEW s \in Leaving, LeaveStep(s) PROVE Quiet
  BY <1>0, <1>9 DEF LeaveStep, LeaveSelect, LeaveRead, LeaveWrite, LeaveCheck, moneyVars, creditVars
<1>10. ASSUME NEW c \in Charger, ChargeRead(c) \/ ChargeDue(c) \/ ChargeCount(c) \/ ChargeLost(c)
                \/ \E i \in Invoice : ChargeSelect(c, i)
      PROVE  Quiet
  BY <1>0, <1>10 DEF ChargeRead, ChargeDue, ChargeCount, ChargeLost, ChargeSelect, moneyVars, creditVars
<1>11. ASSUME NEW c \in Charger, ChargeCall(c) PROVE Quiet
  <2>1. UNCHANGED <<received, recorded, manual, credited>>
    BY <1>11 DEF ChargeCall, moneyVars, creditVars
  <2>2. CASE UNCHANGED gateVars
    BY <1>0, <2>1, <2>2
  <2>3. ASSUME NEW p \in Payment, NEW g, gate[p] = "free", gate' = [gate EXCEPT ![p] = g],
               payFor' = [payFor EXCEPT ![p] = charged[c]], amount' = [amount EXCEPT ![p] = ask[c]]
        PROVE  Quiet
    BY <2>1, <2>3 DEF Quiet, CapturesStay
  <2> QED BY <1>11, <2>2, <2>3 DEF ChargeCall
<1>12. ASSUME NEW c \in Charger, ChargeAnswer(c) PROVE Quiet \/ \E p \in Payment : Recording(p)
  <2>1. UNCHANGED <<manual, credited, gateVars>> /\ answer[c] \in Payment
    BY <1>12 DEF ChargeAnswer, creditVars, Aims
  <2>2. CASE reply[answer[c]] = "captured"
    <3>1. gate[answer[c]] = "captured"
      BY <2>1, <2>2 DEF Typed, Replied
    <3> QED BY <1>12, <2>1, <2>2, <3>1 DEF ChargeAnswer, Recording
  <2>3. CASE reply[answer[c]] # "captured"
    BY <1>0, <1>12, <2>1, <2>3 DEF ChargeAnswer
  <2> QED BY <2>2, <2>3
<1>13. CASE Crash \/ UNCHANGED vars
  BY <1>0, <1>13 DEF Crash, vars, moneyVars, creditVars
<1> QED
  BY <1>1, <1>2, <1>3, <1>4, <1>5, <1>6, <1>7, <1>8, <1>9, <1>10, <1>11, <1>12, <1>13
  DEF Next, ChargeStep

\* What the gateways' transactions add up to is a number, and stays one as long as none is new.
LEMMA ThroughIsNat ==
  ASSUME Typed, Counted, NEW i \in Invoice
  PROVE  /\ IsFiniteSet(Through(i)) /\ Through(i) \subseteq Payment
         /\ SumFunctionOnSet(amount, Through(i)) \in Nat
<1>1. IsFiniteSet(Through(i)) /\ Through(i) \subseteq Payment
  <2>1. Through(i) \subseteq recorded /\ recorded \subseteq Payment
    BY DEF Through, Typed, TypeOK, MoneyTypes
  <2> QED BY <2>1, FS_Subset DEF Counted
<1>2. \A p \in Through(i) : amount[p] \in Nat
  BY <1>1 DEF Typed, TypeOK, GateTypes
<1> QED BY <1>1, <1>2, SumIsNat

LEMMA ThroughStays ==
  ASSUME Typed, Counted, CapturesStay, recorded' = recorded, NEW i \in Invoice
  PROVE  SumFunctionOnSet(amount', Through(i)') = SumFunctionOnSet(amount, Through(i))
<1>1. \A p \in recorded : payFor'[p] = payFor[p] /\ amount'[p] = amount[p]
  BY DEF CapturesStay, Counted, Typed, TypeOK, MoneyTypes
<1>2. Through(i)' = Through(i)
  BY <1>1 DEF Through
<1>3. \A p \in Through(i) : amount'[p] = amount[p]
  BY <1>1 DEF Through
<1> QED BY <1>2, <1>3, ThroughIsNat, SumsAgree

\* Arithmetic of the two.
LEMMA SameChange ==
  ASSUME NEW r \in Nat, NEW c \in Nat, NEW m \in Nat, NEW k \in Nat,
         NEW r2 \in Nat, NEW c2 \in Nat, NEW m2 \in Nat,
         r = c + m + k, r2 - r = (c2 - c) + (m2 - m)
  PROVE  r2 = c2 + m2 + k
OBVIOUS

LEMMA OneMore ==
  ASSUME NEW r, NEW c \in Nat, NEW m \in Nat, NEW k \in Nat, NEW n \in Nat,
         r = c + m + k
  PROVE  r + n = c + m + (k + n)
OBVIOUS

LEMMA CountedStep ==
  ASSUME Typed, Counted, [Next]_vars
  PROVE  Counted'
<1> USE DEF Typed, TypeOK, MoneyTypes, CreditTypes
<1>0. \A i \in Invoice : received[i] = credited[i] + manual[i] + SumFunctionOnSet(amount, Through(i))
  BY DEF Counted
<1>1. CASE Quiet
  <2>1. IsFiniteSet(recorded') /\ \A p \in recorded' : gate'[p] = "captured"
    BY <1>1 DEF Quiet, CapturesStay, Counted
  <2>2. \A i \in Invoice : SumFunctionOnSet(amount', Through(i)') = SumFunctionOnSet(amount, Through(i))
    BY <1>1, ThroughStays DEF Quiet
  <2>3. \A i \in Invoice : received'[i] = credited'[i] + manual'[i] + SumFunctionOnSet(amount', Through(i)')
    BY <1>0, <1>1, <2>2 DEF Quiet
  <2> QED BY <2>1, <2>3 DEF Counted
<1>2. ASSUME UNCHANGED <<recorded, gateVars>>,
             \A i \in Invoice : received'[i] - received[i] = (credited'[i] - credited[i]) + (manual'[i] - manual[i]),
             \A i \in Invoice : {received'[i], credited'[i], manual'[i]} \subseteq Nat
      PROVE  Counted'
  <2>1. CapturesStay
    BY <1>2 DEF CapturesStay, gateVars
  <2>2. IsFiniteSet(recorded') /\ \A p \in recorded' : gate'[p] = "captured"
    BY <1>2 DEF Counted, gateVars
  <2>3. \A i \in Invoice : received'[i] = credited'[i] + manual'[i] + SumFunctionOnSet(amount', Through(i)')
    <3> TAKE i \in Invoice
    <3> DEFINE came == SumFunctionOnSet(amount, Through(i))
    <3>1. came \in Nat /\ SumFunctionOnSet(amount', Through(i)') = came
      BY <1>2, <2>1, ThroughIsNat, ThroughStays
    <3>2. received[i] = credited[i] + manual[i] + came
      BY <1>0
    <3>3. received[i] \in Nat /\ credited[i] \in Nat /\ manual[i] \in Nat
      OBVIOUS
    <3>4. received'[i] \in Nat /\ credited'[i] \in Nat /\ manual'[i] \in Nat
      BY <1>2
    <3>5. received'[i] - received[i] = (credited'[i] - credited[i]) + (manual'[i] - manual[i])
      BY <1>2
    <3>6. received'[i] = credited'[i] + manual'[i] + came
      BY <3>1, <3>2, <3>3, <3>4, <3>5, SameChange
    <3> QED BY <3>1, <3>6
  <2> QED BY <2>2, <2>3 DEF Counted
<1>3. ASSUME NEW i \in Invoice, AddPayment(i, Price) PROVE Counted'
  <2>1. /\ received' = [received EXCEPT ![i] = received[i] + Price]
        /\ manual' = [manual EXCEPT ![i] = manual[i] + Price]
        /\ UNCHANGED <<recorded, credited, gateVars>>
    BY <1>3 DEF AddPayment, AddTransaction, creditVars
  <2>2. Price \in Nat
    BY AmountsAssumption
  <2>3. \A j \in Invoice : {received'[j], credited'[j], manual'[j]} \subseteq Nat
    BY <2>1, <2>2
  <2>4. \A j \in Invoice : received'[j] - received[j] = (credited'[j] - credited[j]) + (manual'[j] - manual[j])
    BY <2>1, <2>2
  <2> QED BY <1>2, <2>1, <2>3, <2>4
<1>4. ASSUME NEW i \in Invoice, CreditRecord(i) PROVE Counted'
  <2>1. /\ received' = [received EXCEPT ![i] = received[i] + spend[i]]
        /\ credited' = [credited EXCEPT ![i] = credited[i] + spend[i]]
        /\ UNCHANGED <<recorded, manual, gateVars>>
    BY <1>4 DEF CreditRecord, AddTransaction
  <2>2. spend[i] \in Nat
    BY DEF ApplyTypes
  <2>3. \A j \in Invoice : {received'[j], credited'[j], manual'[j]} \subseteq Nat
    BY <2>1, <2>2
  <2>4. \A j \in Invoice : received'[j] - received[j] = (credited'[j] - credited[j]) + (manual'[j] - manual[j])
    BY <2>1, <2>2
  <2> QED BY <1>2, <2>1, <2>3, <2>4
<1>5. ASSUME NEW p \in Payment, Recording(p) PROVE Counted'
  <2>1. CASE p \in recorded
    <3>1. UNCHANGED <<received, recorded, manual, credited>>
      BY <1>5, <2>1 DEF Recording, RecordReference
    <3>2. Quiet
      BY <1>5, <3>1 DEF Recording, Quiet, CapturesStay, gateVars
    <3> QED BY <1>1, <3>2
  <2>2. CASE p \notin recorded
    <3> DEFINE i == payFor[p]
    <3>1. /\ received' = [received EXCEPT ![i] = received[i] + amount[p]]
          /\ recorded' = recorded \cup {p}
          /\ UNCHANGED <<manual, credited, gate, payFor, amount>>
      BY <1>5, <2>2 DEF Recording, RecordReference, AddTransaction, gateVars
    <3>2. i \in Invoice /\ amount[p] \in Nat
      BY <1>5 DEF Recording, Aims, GateTypes
    <3>3. IsFiniteSet(recorded') /\ \A q \in recorded' : gate'[q] = "captured"
      BY <1>5, <3>1, FS_AddElement DEF Counted, Recording
    <3>4. \A j \in Invoice : received'[j] = credited'[j] + manual'[j] + SumFunctionOnSet(amount', Through(j)')
      <4> TAKE j \in Invoice
      <4> DEFINE came == SumFunctionOnSet(amount, Through(j))
      <4>1. received[j] = credited[j] + manual[j] + came
        BY <1>0
      <4>2. IsFiniteSet(Through(j)) /\ Through(j) \subseteq Payment /\ came \in Nat
        BY ThroughIsNat
      <4>3. credited[j] \in Nat /\ manual[j] \in Nat /\ amount[p] \in Nat
        BY <3>2
      <4>4. CASE j # i
        <5>1. Through(j)' = Through(j)
          BY <3>1, <4>4 DEF Through
        <5>2. received'[j] = received[j]
          BY <3>1, <4>4
        <5> QED BY <3>1, <4>1, <5>1, <5>2
      <4>5. CASE j = i
        <5>1. Through(j)' = Through(j) \cup {p} /\ p \notin Through(j)
          BY <2>2, <3>1, <4>5 DEF Through
        <5>2. \A q \in Through(j) \cup {p} : amount[q] \in Nat
          BY <4>2 DEF GateTypes
        <5>3. SumFunctionOnSet(amount, Through(j) \cup {p}) = came + amount[p]
          BY <4>2, <5>1, <5>2, SumOfMore
        <5>4. SumFunctionOnSet(amount', Through(j)') = came + amount[p]
          BY <3>1, <5>1, <5>3
        <5>5. received'[j] = received[j] + amount[p] /\ credited'[j] = credited[j] /\ manual'[j] = manual[j]
          BY <3>1, <4>5
        <5>6. received'[j] = credited'[j] + manual'[j] + (came + amount[p])
          BY <4>1, <4>2, <4>3, <5>5, OneMore
        <5> QED BY <5>4, <5>6
      <4> QED BY <4>4, <4>5
    <3> QED BY <3>3, <3>4 DEF Counted
  <2> QED BY <2>1, <2>2
<1> QED BY <1>1, <1>3, <1>4, <1>5, MoneyMoves

\* A captured payment counts once on its invoice however often the gateway
\* reports it, credit when it was spent and what staff recorded once, whatever
\* overlaps and wherever the process ends (recordPayment's look at the reference).
THEOREM CountsOnce == Spec => []CountedOnce
<1>1. Init => Typed /\ Counted
  <2>1. ASSUME Init PROVE Counted
    <3>1. IsFiniteSet(recorded) /\ \A p \in recorded : gate[p] = "captured"
      BY <2>1, FS_EmptySet DEF Init
    <3>2. ASSUME NEW i \in Invoice
          PROVE  received[i] = credited[i] + manual[i] + SumFunctionOnSet(amount, Through(i))
      <4>1. Through(i) = {}
        BY <2>1 DEF Init, Through
      <4>2. SumFunctionOnSet(amount, Through(i)) = 0
        BY <4>1, SumOfZeros, FS_EmptySet
      <4> QED BY <2>1, <4>2 DEF Init, Zero
    <3> QED BY <3>1, <3>2 DEF Counted
  <2> QED BY <2>1, TypedInit
<1>2. (Typed /\ Counted) /\ [Next]_vars => (Typed /\ Counted)'
  BY TypedStep, CountedStep
<1>3. Typed /\ Counted => CountedOnce
  BY DEF Counted, CountedOnce, Through
<1> QED BY <1>1, <1>2, <1>3, PTL DEF Spec

\* As long as no customer cancels meanwhile, the money an invoice counts is what
\* came in, and covers what is paid.
THEOREM MoneyIsRight ==
  ASSUME Leaving = {}
  PROVE  Spec => []MoneyMatches
<1>1. Spec => []PaidIsCovered
  BY Covered
<1>2. Spec => []CountedOnce
  BY CountsOnce
<1>3. PaidIsCovered /\ CountedOnce => MoneyMatches
  BY DEF MoneyMatches
<1> QED BY <1>1, <1>2, <1>3, PTL

-----------------------------------------------------------------------------
(* What an invoice asks for.                                               *)

\* An amount m fits n lines and f fees of an invoice that c lines left while a copy
\* was held, and of whose fees g were seen by all.
Fits(m, n, c, g, f) == m <= Price * (n + c) + Fee * f /\ m >= Price * n + Fee * g

\* The same of an invoice i, for some of its lines.
Seen(i, f)         == IF i \in unseen THEN 0 ELSE f
FitsOf(i, m, L, f) == Fits(m, Cardinality(L), Cardinality(crossed[i]), Seen(i, f), f)

\* What is asked for fits, and so does what runs and requests hold a copy of: a run
\* that has yet to add the fee, a request that has yet to update the invoice.
AskedFits ==
  \A i \in Invoice : status[i] \in {"unpaid", "paid"} => FitsOf(i, total[i], lines[i], fees[i])
SelectedFits ==
  \A a \in Run : \A i \in picked[a] :
    status[i] # "none" /\ (fees[i] = 0 => FitsOf(i, subtotal[a][i], lines[i], 0))
ReadFits ==
  \A s \in Leaving :
    /\ \A i \in todo[s] : status[i] # "none"
    /\ leavePc[s] # "check" => status[leaveAt[s]] # "none"
    /\ leavePc[s] = "write" => FitsOf(leaveAt[s], rest[s], lines[leaveAt[s]] \ {s}, fees[leaveAt[s]])
AsksFit ==
  /\ AskedFits /\ SelectedFits /\ ReadFits
  /\ \A i \in Invoice : /\ crossed[i] \cap lines[i] = {} /\ fees[i] <= 1
                        /\ status[i] = "none" => fees[i] = 0 /\ crossed[i] = {}

LEMMA LinesCount ==
  ASSUME NEW S \in SUBSET Service
  PROVE  IsFiniteSet(S) /\ Cardinality(S) \in Nat
BY BillingSetsAssumption, FS_Subset, FS_CardinalityType

\* A line leaves: fewer lines, and no more gone than were there.
LEMMA LineLeaves ==
  ASSUME NEW L \in SUBSET Service, NEW C \in SUBSET Service, NEW s \in Service, L \cap C = {}
  PROVE  /\ Cardinality(L \ {s}) <= Cardinality(L)
         /\ Cardinality(L) + Cardinality(C) <= Cardinality(L \ {s}) + Cardinality(C \cup {s})
         /\ {Cardinality(L), Cardinality(C), Cardinality(L \ {s}), Cardinality(C \cup {s})} \subseteq Nat
<1>1. {Cardinality(L), Cardinality(C), Cardinality(L \ {s}), Cardinality(C \cup {s})} \subseteq Nat
  <2>1. L \ {s} \in SUBSET Service /\ C \cup {s} \in SUBSET Service
    OBVIOUS
  <2> QED BY <2>1, LinesCount
<1>2. Cardinality(L \ {s}) = IF s \in L THEN Cardinality(L) - 1 ELSE Cardinality(L)
  BY LinesCount, FS_RemoveElement
<1>3. Cardinality(C \cup {s}) = IF s \in C THEN Cardinality(C) ELSE Cardinality(C) + 1
  BY LinesCount, FS_AddElement
<1> QED BY <1>1, <1>2, <1>3

LEMMA Dearer ==
  ASSUME NEW a \in Nat, NEW b \in Nat, a <= b
  PROVE  Price * a <= Price * b /\ Price * a \in Nat /\ Price * b \in Nat
<1>1. Price \in Nat
  BY AmountsAssumption
<1>2. \A p, x, y \in Nat : x <= y => p * x <= p * y /\ p * x \in Nat
  OBVIOUS
<1> QED BY <1>1, <1>2

\* Lines that leave, a fee that is added and a fee that is not seen keep amounts fitting.
LEMMA FitsLooser ==
  ASSUME NEW m \in Nat, NEW n \in Nat, NEW c \in Nat, NEW n2 \in Nat, NEW c2 \in Nat,
         NEW f \in Nat, NEW g \in Nat,
         Fits(m, n, c, g, f), n2 <= n, n + c <= n2 + c2
  PROVE  Fits(m, n2, c2, g, f)
<1>1. Price * n2 <= Price * n /\ Price * n2 \in Nat /\ Price * n \in Nat
  BY Dearer
<1>2. /\ Price * (n + c) <= Price * (n2 + c2)
      /\ Price * (n + c) \in Nat /\ Price * (n2 + c2) \in Nat
  <2>1. n + c \in Nat /\ n2 + c2 \in Nat
    OBVIOUS
  <2> QED BY <2>1, Dearer
<1>3. Fee * f \in Nat /\ Fee * g \in Nat
  BY AmountsAssumption
<1> QED BY <1>1, <1>2, <1>3 DEF Fits

LEMMA FitsFee ==
  ASSUME NEW m \in Nat, NEW n \in Nat, NEW c \in Nat, NEW g \in {0, 1}, Fits(m, n, c, 0, 0)
  PROVE  Fits(m + Fee, n, c, g, 1) /\ Fits(m, n, c, 0, 1)
<1>1. Price * n \in Nat /\ Price * (n + c) \in Nat
  <2>1. n + c \in Nat
    OBVIOUS
  <2> QED BY <2>1, Dearer
<1>2. Fee \in Nat /\ Fee * 0 = 0 /\ Fee * 1 = Fee
  BY AmountsAssumption
<1> QED BY <1>1, <1>2 DEF Fits

LEMMA FitsExactly ==
  ASSUME NEW n \in Nat, NEW c \in Nat, NEW f \in Nat, NEW g \in {0, f}
  PROVE  Fits(Price * n + Fee * f, n, c, g, f)
<1>1. n + c \in Nat /\ n <= n + c
  OBVIOUS
<1>2. Price * n <= Price * (n + c) /\ Price * n \in Nat /\ Price * (n + c) \in Nat
  BY <1>1, Dearer
<1>3. Fee * f \in Nat /\ Fee * 0 = 0
  BY AmountsAssumption
<1> QED BY <1>2, <1>3 DEF Fits

\* Where nothing crossed there is one amount that fits.
LEMMA FitsOne ==
  ASSUME NEW m \in Nat, NEW n \in Nat, NEW f \in Nat
  PROVE  Fits(m, n, 0, f, f) <=> m = Price * n + Fee * f
<1>1. Price * n \in Nat /\ n + 0 = n
  BY Dearer
<1>2. Fee * f \in Nat
  BY AmountsAssumption
<1> QED BY <1>1, <1>2 DEF Fits

\* What the steps that only settle, refund or cancel an invoice do to its status.
GoesForward ==
  \A i \in Invoice : /\ status'[i] \in {"unpaid", "paid"} => status[i] \in {"unpaid", "paid"}
                     /\ status'[i] = "none" <=> status[i] = "none"

LEMMA AskedStays ==
  ASSUME Typed, AsksFit, GoesForward, UNCHANGED <<lines, fees, total, feeVars, leaveVars>>
  PROVE  AsksFit'
<1> USE DEF Typed, TypeOK, GoesForward, AsksFit, feeVars, leaveVars
<1>0. UNCHANGED <<picked, subtotal, crossed, unseen, leavePc, todo, leaveAt, rest>>
  OBVIOUS
<1>1. AskedFits'
  BY <1>0 DEF AskedFits, FitsOf, Seen
<1>2. SelectedFits'
  BY <1>0 DEF SelectedFits, FitsOf, Seen, FeeTypes
<1>3. ReadFits'
  <2>1. \A s \in Leaving : leavePc[s] # "check" => leaveAt[s] \in Invoice
    BY DEF Aims
  <2> QED BY <1>0, <2>1 DEF ReadFits, FitsOf, Seen, LeaveTypes
<1> QED BY <1>0, <1>1, <1>2, <1>3

LEMMA ForwardBySettling ==
  ASSUME Typed, NEW i \in Invoice, NEW x \in {"paid", "cancelled", "refunded"},
         status' = [status EXCEPT ![i] = x], status[i] \in {"unpaid", "paid"}
  PROVE  GoesForward
BY DEF Typed, TypeOK, InvoiceTypes, GoesForward

\* The steps that add a fee or take a line off.
LEMMA IssueAsks ==
  ASSUME Typed, AsksFit, NEW i \in Invoice, NEW S \in SUBSET Service, Issue(i, S)
  PROVE  AsksFit'
<1> USE DEF Typed, TypeOK
<1>1. /\ status[i] = "none" /\ fees[i] = 0 /\ crossed[i] = {}
      /\ \A j \in Invoice \ {i} : status'[j] = status[j] /\ total'[j] = total[j] /\ lines'[j] = lines[j]
      /\ status'[i] = "unpaid" /\ lines'[i] = S /\ total'[i] = Price * Cardinality(S)
      /\ UNCHANGED <<fees, picked, subtotal, crossed, unseen, leavePc, todo, leaveAt, rest>>
  BY DEF Issue, InvoiceTypes, AsksFit, feeVars, leaveVars
<1>2. AskedFits'
  <2>1. FitsOf(i, total[i], lines[i], fees[i])'
    <3>1. Cardinality(S) \in Nat /\ Cardinality(crossed[i]) \in Nat
      BY LinesCount DEF FeeTypes
    <3>2. Price * Cardinality(S) + Fee * 0 = Price * Cardinality(S)
      BY <3>1, AmountsAssumption, Dearer
    <3>3. Fits(Price * Cardinality(S) + Fee * 0, Cardinality(S), Cardinality(crossed[i]), 0, 0)
      BY <3>1, FitsExactly
    <3>4. Seen(i, fees[i])' = 0
      BY <1>1 DEF Seen
    <3> QED BY <1>1, <3>2, <3>3, <3>4 DEF FitsOf
  <2>2. \A j \in Invoice \ {i} : status'[j] \in {"unpaid", "paid"} => FitsOf(j, total[j], lines[j], fees[j])'
    BY <1>1 DEF AsksFit, AskedFits, FitsOf, Seen
  <2> QED BY <2>1, <2>2 DEF AskedFits
<1>3. SelectedFits'
  BY <1>1 DEF AsksFit, SelectedFits, FitsOf, Seen, FeeTypes
<1>4. ReadFits'
  <2>1. \A s \in Leaving : \A j \in todo[s] : j \in Invoice /\ j # i
    <3>1. \A s \in Leaving : \A j \in todo[s] : status[j] # "none"
      BY DEF AsksFit, ReadFits
    <3>2. \A s \in Leaving : todo[s] \subseteq Invoice
      BY DEF LeaveTypes
    <3> QED BY <1>1, <3>1, <3>2
  <2>2. \A s \in Leaving : leavePc[s] # "check" => leaveAt[s] \in Invoice /\ leaveAt[s] # i
    BY <1>1 DEF AsksFit, ReadFits, Aims
  <2>3. ASSUME NEW s \in Leaving
        PROVE  /\ \A j \in todo'[s] : status'[j] # "none"
               /\ leavePc'[s] # "check" => status'[leaveAt'[s]] # "none"
    <3>1. /\ \A j \in todo[s] : status[j] # "none"
          /\ leavePc[s] # "check" => status[leaveAt[s]] # "none"
      BY DEF AsksFit, ReadFits
    <3>2. todo'[s] = todo[s] /\ leavePc'[s] = leavePc[s] /\ leaveAt'[s] = leaveAt[s]
      BY <1>1
    <3>3. \A j \in todo[s] : j \in Invoice \ {i}
      BY <2>1
    <3>4. \A j \in Invoice \ {i} : status'[j] = status[j]
      BY <1>1
    <3>5. leavePc[s] # "check" => leaveAt[s] \in Invoice \ {i}
      BY <2>2
    <3>6. \A j \in todo[s] : status'[j] # "none"
      BY <3>1, <3>3, <3>4
    <3>7. leavePc[s] # "check" => status'[leaveAt[s]] # "none"
      BY <3>1, <3>4, <3>5
    <3> QED BY ONLY <3>2, <3>6, <3>7
  <2>4. ASSUME NEW s \in Leaving, leavePc'[s] = "write"
        PROVE  FitsOf(leaveAt[s], rest[s], lines[leaveAt[s]] \ {s}, fees[leaveAt[s]])'
    <3>1. PICK j \in Invoice : j = leaveAt[s] /\ j # i
      BY <1>1, <2>2, <2>4
    <3>2. FitsOf(j, rest[s], lines[j] \ {s}, fees[j])
      BY <1>1, <2>4, <3>1 DEF AsksFit, ReadFits
    <3> QED BY <1>1, <3>1, <3>2 DEF FitsOf, Seen
  <2> QED BY <2>3, <2>4 DEF ReadFits
<1> QED BY <1>1, <1>2, <1>3, <1>4 DEF AsksFit

LEMMA SelectAsks ==
  ASSUME Typed, AsksFit, NEW a \in Run, FeeSelect(a)
  PROVE  AsksFit'
<1> USE DEF Typed, TypeOK
<1>1. /\ UNCHANGED <<status, lines, fees, total, crossed, unseen, leavePc, todo, leaveAt, rest>>
      /\ \A b \in Run \ {a} : picked'[b] = picked[b] /\ subtotal'[b] = subtotal[b]
      /\ \A i \in picked'[a] : i \in Invoice /\ status[i] = "unpaid" /\ fees[i] = 0 /\ subtotal'[a][i] = total[i]
  BY DEF FeeSelect, FeeTypes, InvoiceTypes, invoiceVars, leaveVars
<1>2. AskedFits' /\ ReadFits'
  BY <1>1 DEF AsksFit, AskedFits, ReadFits, FitsOf, Seen
<1>3. SelectedFits'
  <2>1. \A i \in picked'[a] : /\ status'[i] # "none"
                              /\ fees'[i] = 0 => FitsOf(i, subtotal[a][i], lines[i], 0)'
    BY <1>1 DEF AsksFit, AskedFits, FitsOf, Seen
  <2>2. ASSUME NEW b \in Run \ {a}, NEW i \in picked'[b]
        PROVE  status'[i] # "none" /\ (fees'[i] = 0 => FitsOf(i, subtotal[b][i], lines[i], 0)')
    BY <1>1, <2>2 DEF AsksFit, SelectedFits, FitsOf, Seen
  <2> QED BY <2>1, <2>2 DEF SelectedFits
<1> QED BY <1>1, <1>2, <1>3 DEF AsksFit

LEMMA FeeAsks ==
  ASSUME Typed, AsksFit, NEW a \in Run, NEW i \in Invoice, FeeAdd(a, i)
  PROVE  AsksFit'
<1> USE DEF Typed, TypeOK
<1>1. /\ i \in picked[a]
      /\ UNCHANGED <<status, lines, crossed, leavePc, todo, leaveAt, rest>>
      /\ \A b \in Run : /\ picked'[b] \subseteq picked[b]
                        /\ \A j \in picked'[b] : subtotal'[b][j] = subtotal[b][j]
  BY DEF FeeAdd, FeeTypes, leaveVars
<1>2. CASE Claims(i)
  <2>1. /\ fees[i] = 0 /\ status[i] = "unpaid" /\ fees'[i] = 1
        /\ total'[i] = subtotal[a][i] + Fee
        /\ \A j \in Invoice \ {i} : fees'[j] = fees[j] /\ total'[j] = total[j]
        /\ unseen \subseteq unseen' /\ unseen' \subseteq unseen \cup {i}
        /\ \A s \in Leaving : HasRead(s, i) => i \in unseen'
    BY <1>2 DEF FeeAdd, Claims, InvoiceTypes
  <2>2. /\ Cardinality(lines[i]) \in Nat /\ Cardinality(crossed[i]) \in Nat /\ subtotal[a][i] \in Nat
        /\ FitsOf(i, subtotal[a][i], lines[i], 0)
    BY <1>1, <2>1, LinesCount DEF AsksFit, SelectedFits, InvoiceTypes, FeeTypes
  <2>3. FitsOf(i, total[i], lines[i], fees[i])'
    <3>1. PICK g \in {0, 1} : g = Seen(i, fees[i])'
      BY <2>1 DEF Seen
    <3>2. Fits(subtotal[a][i], Cardinality(lines[i]), Cardinality(crossed[i]), 0, 0)
      BY <2>2 DEF FitsOf, Seen
    <3>3. Fits(subtotal[a][i] + Fee, Cardinality(lines[i]), Cardinality(crossed[i]), g, 1)
      BY <2>2, <3>2, FitsFee
    <3> QED BY <1>1, <2>1, <3>1, <3>3 DEF FitsOf
  <2>4. AskedFits'
    BY <1>1, <2>1, <2>3 DEF AsksFit, AskedFits, FitsOf, Seen
  <2>5. SelectedFits'
    <3>1. ASSUME NEW b \in Run, NEW j \in picked'[b]
          PROVE  status'[j] # "none" /\ (fees'[j] = 0 => FitsOf(j, subtotal[b][j], lines[j], 0)')
      <4>1. j \in picked[b] /\ j \in Invoice /\ subtotal'[b][j] = subtotal[b][j]
        BY <1>1, <3>1 DEF FeeTypes
      <4> QED BY <1>1, <2>1, <4>1 DEF AsksFit, SelectedFits, FitsOf, Seen
    <3> QED BY <3>1 DEF SelectedFits
  <2>6. ReadFits'
    <3>1. ASSUME NEW s \in Leaving, leavePc[s] = "write"
          PROVE  FitsOf(leaveAt[s], rest[s], lines[leaveAt[s]] \ {s}, fees[leaveAt[s]])'
      <4>1. /\ leaveAt[s] \in Invoice /\ rest[s] \in Nat
            /\ FitsOf(leaveAt[s], rest[s], lines[leaveAt[s]] \ {s}, fees[leaveAt[s]])
        BY <3>1 DEF Aims, LeaveTypes, AsksFit, ReadFits
      <4>2. CASE leaveAt[s] # i
        BY <1>1, <2>1, <4>1, <4>2 DEF FitsOf, Seen
      <4>3. CASE leaveAt[s] = i
        <5>1. i \in unseen'
          BY <2>1, <3>1, <4>3 DEF HasRead
        <5>2. Cardinality(lines[i] \ {s}) \in Nat
          <6>1. lines[i] \ {s} \in SUBSET Service
            BY DEF InvoiceTypes
          <6> QED BY <6>1, LinesCount
        <5>3. Fits(rest[s], Cardinality(lines[i] \ {s}), Cardinality(crossed[i]), 0, 1)
          <6>1. Fits(rest[s], Cardinality(lines[i] \ {s}), Cardinality(crossed[i]), 0, 0)
            BY <2>1, <4>1, <4>3 DEF FitsOf, Seen
          <6> QED BY <2>2, <4>1, <5>2, <6>1, FitsFee
        <5> QED BY <1>1, <2>1, <4>3, <5>1, <5>3 DEF FitsOf, Seen
      <4> QED BY <4>2, <4>3
    <3> QED BY <1>1, <3>1 DEF AsksFit, ReadFits
  <2> QED BY <1>1, <2>1, <2>4, <2>5, <2>6 DEF AsksFit
<1>3. CASE ~Claims(i)
  <2>1. UNCHANGED <<fees, total, unseen>>
    BY <1>3 DEF FeeAdd
  <2>2. AskedFits' /\ ReadFits'
    BY <1>1, <2>1 DEF AsksFit, AskedFits, ReadFits, FitsOf, Seen
  <2>3. SelectedFits'
    BY <1>1, <2>1 DEF AsksFit, SelectedFits, FitsOf, Seen
  <2> QED BY <1>1, <2>1, <2>2, <2>3 DEF AsksFit
<1> QED BY <1>2, <1>3

\* What was held of the invoice fits it still when a line leaves it.
LEMMA LeavingFits ==
  ASSUME Typed, AsksFit, NEW s \in Leaving, LeaveWrite(s), NEW m \in Nat, NEW f \in Nat,
         NEW K \in SUBSET Leaving, NEW i \in Invoice, i = leaveAt[s],
         crossed'[i] = crossed[i] \cup {s},
         FitsOf(i, m, lines[i] \ K, f)
  PROVE  Fits(m, Cardinality((lines[i] \ {s}) \ K), Cardinality(crossed'[i]), Seen(i, f)', f)
<1> USE DEF Typed, TypeOK
<1> DEFINE L == lines[i] \ K  C == crossed[i]
<1>1. /\ L \in SUBSET Service /\ C \in SUBSET Service /\ s \in Service
      /\ L \cap C = {}
      /\ (lines[i] \ {s}) \ K = L \ {s} /\ crossed'[i] = C \cup {s}
  BY BillingSetsAssumption DEF AsksFit, InvoiceTypes, FeeTypes
<1>2. PICK g \in Nat : g = Seen(i, f)
  BY DEF Seen
<1>3. Seen(i, f)' = g
  BY <1>2 DEF LeaveWrite, Seen
<1>4. Fits(m, Cardinality(L), Cardinality(C), g, f)
  BY <1>2 DEF FitsOf
<1> HIDE DEF L, C
<1>5. /\ Cardinality(L \ {s}) <= Cardinality(L)
      /\ Cardinality(L) + Cardinality(C) <= Cardinality(L \ {s}) + Cardinality(C \cup {s})
      /\ {Cardinality(L), Cardinality(C), Cardinality(L \ {s}), Cardinality(C \cup {s})} \subseteq Nat
  BY ONLY <1>1, LineLeaves
<1>6. Fits(m, Cardinality(L \ {s}), Cardinality(C \cup {s}), g, f)
  <2> DEFINE n == Cardinality(L)  n2 == Cardinality(L \ {s})  c == Cardinality(C)  c2 == Cardinality(C \cup {s})
  <2>1. Fits(m, n, c, g, f) /\ n \in Nat /\ n2 \in Nat /\ c \in Nat /\ c2 \in Nat /\ n2 <= n /\ n + c <= n2 + c2
    BY <1>4, <1>5
  <2> HIDE DEF n, n2, c, c2
  <2>2. Fits(m, n2, c2, g, f)
    BY ONLY <2>1, FitsLooser, m \in Nat, f \in Nat, g \in Nat
  <2> QED BY <2>2 DEF n2, c2
<1> QED BY <1>1, <1>3, <1>6

LEMMA WriteAsks ==
  ASSUME Typed, AsksFit, NEW s \in Leaving, LeaveWrite(s)
  PROVE  AsksFit'
<1> USE DEF Typed, TypeOK
<1>0. PICK i \in Invoice : i = leaveAt[s]
  BY DEF LeaveWrite, Aims
<1>1. /\ status[i] # "none" /\ rest[s] \in Nat
      /\ FitsOf(i, rest[s], lines[i] \ {s}, fees[i])
  BY <1>0 DEF LeaveWrite, AsksFit, ReadFits, LeaveTypes
<1>2. /\ leavePc[s] = "write" /\ leavePc'[s] = "check" /\ lines'[i] = lines[i] \ {s}
      /\ \A t \in Leaving \ {s} : leavePc'[t] = leavePc[t] /\ rest'[t] = rest[t]
      /\ \A j \in Invoice \ {i} : /\ lines'[j] = lines[j] /\ status'[j] = status[j] /\ total'[j] = total[j]
                                 /\ crossed'[j] = crossed[j]
      /\ crossed'[i] = IF CopyHeld(s, i) THEN crossed[i] \cup {s} ELSE crossed[i]
      /\ UNCHANGED <<fees, todo, leaveAt, picked, subtotal, unseen>>
  BY <1>0 DEF LeaveWrite, InvoiceTypes, LeaveTypes, FeeTypes
<1>3. \/ status'[i] = "cancelled"
      \/ status'[i] = status[i] /\ total'[i] = rest[s]
  BY <1>0 DEF LeaveWrite, InvoiceTypes
<1>4. /\ lines[i] \ {s} \in SUBSET Service /\ crossed[i] \in SUBSET Service /\ s \in Service
      /\ crossed'[i] \in SUBSET Service /\ crossed[i] \subseteq crossed'[i]
      /\ crossed[i] \cap lines[i] = {} /\ crossed'[i] \cap lines'[i] = {}
  BY <1>2, BillingSetsAssumption DEF InvoiceTypes, FeeTypes, AsksFit
<1>6. Fits(rest[s], Cardinality(lines'[i]), Cardinality(crossed'[i]), Seen(i, fees[i])', fees'[i])
  <2> DEFINE n == Cardinality(lines[i] \ {s})  c == Cardinality(crossed[i])
             c2 == Cardinality(crossed'[i])    g == Seen(i, fees[i])  f == fees[i]  m == rest[s]
  <2>1. n \in Nat /\ c \in Nat /\ c2 \in Nat /\ g \in Nat /\ f \in Nat /\ m \in Nat
    BY <1>1, <1>4, LinesCount DEF InvoiceTypes, Seen
  <2>2. c <= c2
    BY <1>4, LinesCount, FS_Subset
  <2>3. Fits(m, n, c, g, f)
    BY <1>1 DEF FitsOf
  <2>4. g = Seen(i, fees[i])' /\ n = Cardinality(lines'[i]) /\ f = fees'[i]
    BY <1>2 DEF Seen
  <2>5. Fits(m, n, c2, g, f)
    <3> HIDE DEF n, c, c2, g, f, m
    <3>1. n <= n /\ n + c <= n + c2
      BY ONLY <2>1, <2>2
    <3> QED BY ONLY <2>1, <2>3, <3>1, FitsLooser
  <2> QED BY <2>4, <2>5
<1>7. AskedFits'
  <2>1. status'[i] \in {"unpaid", "paid"} => FitsOf(i, total[i], lines[i], fees[i])'
    BY <1>3, <1>6 DEF FitsOf, Seen
  <2>2. \A j \in Invoice \ {i} : status'[j] \in {"unpaid", "paid"} => FitsOf(j, total[j], lines[j], fees[j])'
    BY <1>2 DEF AsksFit, AskedFits, FitsOf, Seen
  <2> QED BY <2>1, <2>2 DEF AskedFits
<1>8. \A j \in Invoice : status[j] # "none" => status'[j] # "none"
  BY <1>1, <1>2, <1>3
<1>9. SelectedFits'
  <2>1. ASSUME NEW a \in Run, NEW j \in picked'[a]
        PROVE  status'[j] # "none" /\ (fees'[j] = 0 => FitsOf(j, subtotal[a][j], lines[j], 0)')
    <3>1. /\ j \in picked[a] /\ j \in Invoice /\ status[j] # "none" /\ subtotal[a][j] \in Nat
          /\ fees[j] = 0 => FitsOf(j, subtotal[a][j], lines[j], 0)
      BY <1>2, <2>1 DEF FeeTypes, AsksFit, SelectedFits
    <3>2. CASE j # i
      BY <1>2, <1>8, <3>1, <3>2 DEF FitsOf, Seen
    <3>3. ASSUME j = i, fees[i] = 0 PROVE FitsOf(i, subtotal[a][i], lines[i], 0)'
      <4>1. crossed'[i] = crossed[i] \cup {s}
        BY <1>2, <3>1, <3>3 DEF CopyHeld
      <4>2. lines[i] \ {} = lines[i] /\ (lines[i] \ {s}) \ {} = lines[i] \ {s} /\ {} \in SUBSET Leaving
        OBVIOUS
      <4>3. FitsOf(i, subtotal[a][i], lines[i] \ {}, 0) /\ subtotal[a][i] \in Nat /\ 0 \in Nat
        BY <3>1, <3>3, <4>2
      <4>4. Fits(subtotal[a][i], Cardinality((lines[i] \ {s}) \ {}), Cardinality(crossed'[i]), Seen(i, 0)', 0)
        BY <1>0, <4>1, <4>2, <4>3, LeavingFits
      <4> QED BY <1>2, <4>2, <4>4 DEF FitsOf, Seen
    <3> QED BY <1>2, <1>8, <3>1, <3>2, <3>3
  <2> QED BY <2>1 DEF SelectedFits
<1>10. ReadFits'
  <2>1. ASSUME NEW t \in Leaving, leavePc'[t] = "write"
        PROVE  FitsOf(leaveAt[t], rest[t], lines[leaveAt[t]] \ {t}, fees[leaveAt[t]])'
    <3>1. /\ t # s /\ leavePc[t] = "write" /\ rest'[t] = rest[t] /\ rest[t] \in Nat
          /\ leaveAt[t] \in Invoice /\ leaveAt'[t] = leaveAt[t]
          /\ FitsOf(leaveAt[t], rest[t], lines[leaveAt[t]] \ {t}, fees[leaveAt[t]])
      BY <1>2, <2>1 DEF LeaveTypes, Aims, AsksFit, ReadFits
    <3>2. CASE leaveAt[t] # i
      BY <1>2, <3>1, <3>2 DEF FitsOf, Seen
    <3>3. CASE leaveAt[t] = i
      <4>1. crossed'[i] = crossed[i] \cup {s}
        BY <1>2, <3>1, <3>3 DEF CopyHeld, HasRead
      <4>2. Fits(rest[t], Cardinality((lines[i] \ {s}) \ {t}), Cardinality(crossed'[i]), Seen(i, fees[i])', fees[i])
        <5>1. PICK f \in Nat : f = fees[i]
          BY DEF InvoiceTypes
        <5>2. PICK m \in Nat : m = rest[t]
          BY <3>1
        <5>3. {t} \in SUBSET Leaving /\ FitsOf(i, m, lines[i] \ {t}, f)
          BY <3>1, <3>3, <5>1, <5>2
        <5>4. Fits(m, Cardinality((lines[i] \ {s}) \ {t}), Cardinality(crossed'[i]), Seen(i, f)', f)
          BY <1>0, <4>1, <5>3, LeavingFits
        <5>5. Seen(i, fees[i])' = Seen(i, f)'
          BY <1>2, <5>1 DEF Seen
        <5> QED BY <5>1, <5>2, <5>4, <5>5
      <4> QED BY <1>2, <3>1, <3>3, <4>2 DEF FitsOf, Seen
    <3> QED BY <3>2, <3>3
  <2>2. ASSUME NEW t \in Leaving
        PROVE  /\ \A j \in todo'[t] : status'[j] # "none"
               /\ leavePc'[t] # "check" => status'[leaveAt'[t]] # "none"
    <3>1. \A j \in todo[t] : j \in Invoice /\ status[j] # "none"
      BY DEF LeaveTypes, AsksFit, ReadFits
    <3>2. leavePc'[t] # "check" => leaveAt[t] \in Invoice /\ status[leaveAt[t]] # "none"
      BY <1>2 DEF Aims, AsksFit, ReadFits
    <3> QED BY <1>2, <1>8, <3>1, <3>2
  <2> QED BY <2>1, <2>2 DEF ReadFits
<1>11. \A j \in Invoice : /\ crossed'[j] \cap lines'[j] = {}
                          /\ status'[j] = "none" => fees'[j] = 0 /\ crossed'[j] = {}
  <2>1. \A j \in Invoice \ {i} : /\ crossed'[j] \cap lines'[j] = {}
                                 /\ status'[j] = "none" => fees'[j] = 0 /\ crossed'[j] = {}
    BY <1>2 DEF AsksFit
  <2> QED BY <1>1, <1>4, <1>8, <2>1
<1>12. \A j \in Invoice : fees'[j] <= 1
  BY <1>2 DEF AsksFit
<1> QED BY <1>7, <1>9, <1>10, <1>11, <1>12 DEF AsksFit

LEMMA LeaveAsks ==
  ASSUME Typed, AsksFit, NEW s \in Leaving, LeaveStep(s)
  PROVE  AsksFit'
<1> USE DEF Typed, TypeOK
<1>1. ASSUME UNCHANGED <<invoiceVars, feeVars>>, ReadFits' PROVE AsksFit'
  <2>1. UNCHANGED <<status, lines, fees, total, picked, subtotal, crossed, unseen>>
    BY <1>1 DEF invoiceVars, feeVars
  <2>2. AskedFits' /\ SelectedFits'
    BY <2>1 DEF AsksFit, AskedFits, SelectedFits, FitsOf, Seen
  <2> QED BY <1>1, <2>1, <2>2 DEF AsksFit
<1>2. CASE LeaveSelect(s)
  <2>1. /\ UNCHANGED <<invoiceVars, feeVars, status, lines, fees, crossed, unseen, leavePc, leaveAt, rest>>
        /\ \A t \in Leaving \ {s} : todo'[t] = todo[t]
        /\ \A i \in todo'[s] : status[i] = "unpaid"
    BY <1>2 DEF LeaveSelect, LeaveTypes, invoiceVars, feeVars
  <2>2. ReadFits'
    BY <2>1 DEF AsksFit, ReadFits, FitsOf, Seen
  <2> QED BY <1>1, <2>1, <2>2
<1>3. ASSUME NEW i \in Invoice, LeaveCheck(s, i) PROVE AsksFit'
  <2>1. /\ UNCHANGED <<invoiceVars, feeVars, status, lines, fees, crossed, unseen, rest>>
        /\ i \in todo[s] /\ leavePc[s] = "check"
        /\ \A t \in Leaving : todo'[t] \subseteq todo[t]
        /\ \A t \in Leaving \ {s} : leavePc'[t] = leavePc[t] /\ leaveAt'[t] = leaveAt[t]
        /\ \/ leavePc'[s] = "read" /\ leaveAt'[s] = i
           \/ leavePc'[s] = "check"
    BY <1>3 DEF LeaveCheck, LeaveTypes, invoiceVars, feeVars
  <2>2. \A j \in todo[s] : status[j] # "none"
    BY DEF AsksFit, ReadFits
  <2>3. ReadFits'
    BY <2>1, <2>2 DEF AsksFit, ReadFits, FitsOf, Seen
  <2> QED BY <1>1, <2>1, <2>3
<1>4. CASE LeaveRead(s)
  <2>0. PICK i \in Invoice : i = leaveAt[s]
    BY <1>4 DEF LeaveRead, Aims
  <2>1. /\ UNCHANGED <<invoiceVars, feeVars, status, lines, fees, crossed, unseen, todo, leaveAt>>
        /\ leavePc[s] = "read"
        /\ \A t \in Leaving \ {s} : leavePc'[t] = leavePc[t] /\ rest'[t] = rest[t]
        /\ rest'[s] = Price * Cardinality(lines[i] \ {s}) + Fee * fees[i]
    BY <1>4, <2>0 DEF LeaveRead, LeaveTypes, invoiceVars, feeVars
  <2>2. FitsOf(leaveAt[s], rest[s], lines[leaveAt[s]] \ {s}, fees[leaveAt[s]])'
    <3>1. /\ Cardinality(lines[i] \ {s}) \in Nat /\ Cardinality(crossed[i]) \in Nat
          /\ fees[i] \in Nat /\ Seen(i, fees[i]) \in {0, fees[i]}
      <4>1. lines[i] \ {s} \in SUBSET Service /\ crossed[i] \in SUBSET Service
        BY DEF InvoiceTypes, FeeTypes
      <4> QED BY <4>1, LinesCount DEF InvoiceTypes, Seen
    <3>2. Fits(rest'[s], Cardinality(lines[i] \ {s}), Cardinality(crossed[i]), Seen(i, fees[i]), fees[i])
      BY <2>1, <3>1, FitsExactly
    <3> QED BY <2>0, <2>1, <3>2 DEF FitsOf, Seen
  <2>3. ReadFits'
    BY <2>1, <2>2 DEF AsksFit, ReadFits, FitsOf, Seen
  <2> QED BY <1>1, <2>1, <2>3
<1>5. CASE LeaveWrite(s)
  BY <1>5, WriteAsks
<1> QED BY <1>2, <1>3, <1>4, <1>5 DEF LeaveStep

LEMMA AskedStep ==
  ASSUME Typed, AsksFit, [Next]_vars
  PROVE  AsksFit'
<1> USE DEF Typed, TypeOK
<1>1. ASSUME UNCHANGED <<status, lines, fees, total, feeVars, leaveVars>> PROVE AsksFit'
  <2>1. GoesForward
    BY <1>1 DEF GoesForward
  <2> QED BY <1>1, <2>1, AskedStays
<1>2. ASSUME NEW i \in Invoice, NEW n, AddTransaction(i, n), UNCHANGED <<lines, fees, total, feeVars, leaveVars>>
      PROVE  AsksFit'
  <2>1. CASE UNCHANGED status
    BY <1>1, <1>2, <2>1
  <2>2. CASE status' = [status EXCEPT ![i] = "paid"] /\ status[i] = "unpaid"
    BY <1>2, <2>2, ForwardBySettling, AskedStays
  <2> QED BY <1>2, <2>1, <2>2, Settles
<1>3. ASSUME NEW p \in Payment, payFor[p] \in Invoice, RecordReference(p),
             UNCHANGED <<lines, fees, total, feeVars, leaveVars>>
      PROVE  AsksFit'
  BY <1>1, <1>2, <1>3 DEF RecordReference
<1>4. ASSUME NEW i \in Invoice, NEW S \in SUBSET Service, Issue(i, S) PROVE AsksFit'
  BY <1>4, IssueAsks
<1>5. ASSUME NEW i \in Invoice, AddPayment(i, Price) \/ CreditNote(i) \/ CancelInvoice(i) PROVE AsksFit'
  <2>1. CASE AddPayment(i, Price)
    BY <1>2, <2>1 DEF AddPayment
  <2>2. CASE CreditNote(i)
    BY <2>2, ForwardBySettling, AskedStays DEF CreditNote
  <2>3. CASE CancelInvoice(i)
    BY <2>3, ForwardBySettling, AskedStays DEF CancelInvoice
  <2> QED BY <1>5, <2>1, <2>2, <2>3
<1>6. ASSUME NEW i \in Invoice, CreditStep(i) PROVE AsksFit'
  BY <1>1, <1>2, <1>6 DEF CreditStep, CreditDue, CreditBalance, CreditSpend, CreditRecord, invoiceVars
<1>7. ASSUME NEW p \in Payment, Deliver(p) PROVE AsksFit'
  BY <1>3, <1>7 DEF Deliver, Aims
<1>8. ASSUME NEW c \in Charger, ChargeAnswer(c) PROVE AsksFit'
  BY <1>1, <1>3, <1>8 DEF ChargeAnswer, Aims
<1>9. ASSUME NEW i \in Invoice, FulfilStep(i) \/ GrowLate(i) \/ DaysPass(i) PROVE AsksFit'
  BY <1>1, <1>9 DEF FulfilStep, FulfilStart, FulfilLine, GrowLate, DaysPass, invoiceVars
<1>10. ASSUME NEW i \in Invoice, NEW p \in Payment, PayHosted(i, p) PROVE AsksFit'
  BY <1>1, <1>10 DEF PayHosted, invoiceVars
<1>11. ASSUME NEW p \in Payment, Capture(p) \/ Refuse(p) \/ DebitFailed(p) PROVE AsksFit'
  BY <1>1, <1>11 DEF Capture, Refuse, DebitFailed, invoiceVars
<1>12. ASSUME NEW c \in Charger,
              ChargeRead(c) \/ ChargeDue(c) \/ ChargeCount(c) \/ ChargeCall(c) \/ ChargeLost(c)
                \/ \E i \in Invoice : ChargeSelect(c, i)
       PROVE  AsksFit'
  BY <1>1, <1>12 DEF ChargeRead, ChargeDue, ChargeCount, ChargeCall, ChargeLost, ChargeSelect, invoiceVars
<1>13. ASSUME NEW a \in Run, FeeSelect(a) PROVE AsksFit'
  BY <1>13, SelectAsks
<1>14. ASSUME NEW a \in Run, NEW i \in Invoice, FeeAdd(a, i) PROVE AsksFit'
  BY <1>14, FeeAsks
<1>15. ASSUME NEW s \in Leaving, LeaveStep(s) PROVE AsksFit'
  BY <1>15, LeaveAsks
<1>16. CASE Crash
  <2>1. UNCHANGED <<status, lines, fees, total, crossed, unseen>>
    BY <1>16 DEF Crash, invoiceVars
  <2>2. SelectedFits' /\ ReadFits'
    BY <1>16 DEF Crash, SelectedFits, ReadFits
  <2> QED BY <2>1, <2>2 DEF AsksFit, AskedFits, FitsOf, Seen
<1>17. CASE UNCHANGED vars
  BY <1>1, <1>17 DEF vars, invoiceVars
<1> QED
  BY <1>4, <1>5, <1>6, <1>7, <1>8, <1>9, <1>10, <1>11, <1>12, <1>13, <1>14, <1>15, <1>16, <1>17
  DEF Next, FeeStep, ChargeStep

LEMMA AskedInit ==
  ASSUME Init
  PROVE  AsksFit
BY DEF Init, Zero, AsksFit, AskedFits, SelectedFits, ReadFits

\* However many runs of late fees and requests to cancel cross, and wherever the
\* process ends: an invoice asks for its lines and one fee; for more only by lines
\* that left while somebody held a copy of it, for less only by a fee that came
\* while somebody did (the subtotals of billing.ts:765 and 588).
THEOREM FeesAndDepartures == Spec => []AsksForLines
<1>1. Init => Typed /\ AsksFit
  BY TypedInit, AskedInit
<1>2. (Typed /\ AsksFit) /\ [Next]_vars => (Typed /\ AsksFit)'
  BY TypedStep, AskedStep
<1>3. Typed /\ AsksFit => AsksForLines
  <2> SUFFICES ASSUME Typed, AsksFit, NEW i \in Invoice, status[i] \in {"unpaid", "paid"}
               PROVE  /\ fees[i] <= 1
                      /\ total[i] <= Price * (Cardinality(lines[i]) + Cardinality(crossed[i])) + Fee * fees[i]
                      /\ total[i] >= Price * Cardinality(lines[i]) + (IF i \in unseen THEN 0 ELSE Fee * fees[i])
    BY DEF AsksForLines
  <2>1. FitsOf(i, total[i], lines[i], fees[i])
    BY DEF AsksFit, AskedFits
  <2>2. Fee * 0 = 0
    BY AmountsAssumption
  <2> QED BY <2>1, <2>2 DEF FitsOf, Seen, Fits, AsksFit
<1> QED BY <1>1, <1>2, <1>3, PTL DEF Spec

-----------------------------------------------------------------------------
(* Where nothing crosses.                                                  *)

\* Runs of late fees and requests to cancel do not cross one another.
Undisturbed == Leaving = {} \/ (Run = {} /\ \A s, t \in Leaving : s = t)
Calm   == unseen = {} /\ \A i \in Invoice : crossed[i] = {}
Summed == AsksFit /\ Calm

LEMMA CalmStep ==
  ASSUME Undisturbed, Typed, Calm, [Next]_vars
  PROVE  Calm'
<1> USE DEF Typed, TypeOK
<1>1. ASSUME UNCHANGED <<crossed, unseen>> PROVE Calm'
  BY <1>1 DEF Calm
<1>2. ASSUME NEW i \in Invoice, NEW S \in SUBSET Service, Issue(i, S) PROVE Calm'
  BY <1>1, <1>2 DEF Issue, feeVars
<1>3. ASSUME NEW i \in Invoice,
             AddPayment(i, Price) \/ CreditNote(i) \/ CancelInvoice(i) \/ GrowLate(i) \/ DaysPass(i)
      PROVE  Calm'
  BY <1>1, <1>3 DEF AddPayment, CreditNote, CancelInvoice, GrowLate, DaysPass, feeVars
<1>4. ASSUME NEW i \in Invoice, CreditStep(i) \/ FulfilStep(i) PROVE Calm'
  BY <1>1, <1>4 DEF CreditStep, CreditDue, CreditBalance, CreditSpend, CreditRecord,
                    FulfilStep, FulfilStart, FulfilLine, feeVars
<1>5. ASSUME NEW i \in Invoice, NEW p \in Payment, PayHosted(i, p) PROVE Calm'
  BY <1>1, <1>5 DEF PayHosted, feeVars
<1>6. ASSUME NEW p \in Payment, Capture(p) \/ Deliver(p) \/ Refuse(p) \/ DebitFailed(p) PROVE Calm'
  BY <1>1, <1>6 DEF Capture, Deliver, Refuse, DebitFailed, feeVars
<1>7. ASSUME NEW a \in Run, FeeStep(a) PROVE Calm'
  <2>1. CASE FeeSelect(a)
    BY <1>1, <2>1 DEF FeeSelect
  <2>2. ASSUME NEW i \in Invoice, FeeAdd(a, i) PROVE Calm'
    <3>1. Leaving = {}
      BY DEF Undisturbed
    <3> QED BY <1>1, <2>2, <3>1 DEF FeeAdd
  <2> QED BY <1>7, <2>1, <2>2 DEF FeeStep
<1>8. ASSUME NEW s \in Leaving, LeaveStep(s) PROVE Calm'
  <2>1. Run = {} /\ \A t \in Leaving : t = s
    BY DEF Undisturbed
  <2>2. CASE LeaveWrite(s)
    <3>1. ~CopyHeld(s, leaveAt[s])
      BY <2>1 DEF CopyHeld
    <3>2. crossed' = [crossed EXCEPT ![leaveAt[s]] = crossed[leaveAt[s]]] /\ unseen' = unseen
      BY <2>2, <3>1 DEF LeaveWrite
    <3> QED BY <3>2 DEF Calm, FeeTypes
  <2>3. CASE LeaveSelect(s) \/ LeaveRead(s) \/ \E i \in Invoice : LeaveCheck(s, i)
    BY <1>1, <2>3 DEF LeaveSelect, LeaveRead, LeaveCheck, feeVars
  <2> QED BY <1>8, <2>2, <2>3 DEF LeaveStep
<1>9. ASSUME NEW c \in Charger, ChargeStep(c) \/ ChargeLost(c) \/ \E i \in Invoice : ChargeSelect(c, i) PROVE Calm'
  BY <1>1, <1>9 DEF ChargeStep, ChargeRead, ChargeDue, ChargeCount, ChargeCall, ChargeAnswer, ChargeLost, ChargeSelect, feeVars
<1>10. CASE Crash \/ UNCHANGED vars
  BY <1>1, <1>10 DEF Crash, vars, feeVars
<1> QED BY <1>2, <1>3, <1>4, <1>5, <1>6, <1>7, <1>8, <1>9, <1>10 DEF Next

LEMMA SummedStep ==
  ASSUME Undisturbed, Typed, Summed, [Next]_vars
  PROVE  Summed'
BY AskedStep, CalmStep DEF Summed

LEMMA SummedInit ==
  ASSUME Init
  PROVE  Summed
BY AskedInit DEF Init, Summed, Calm

\* Then one amount fits: the sum of the lines, and of those that will be left.
LEMMA SummedExactly ==
  ASSUME Typed, Summed
  PROVE  /\ TotalIsLines
         /\ \A s \in Leaving : leavePc[s] = "write" =>
              /\ status[leaveAt[s]] # "none"
              /\ rest[s] = Price * Cardinality(lines[leaveAt[s]] \ {s}) + Fee * fees[leaveAt[s]]
<1> USE DEF Typed, TypeOK
<1>1. ASSUME NEW i \in Invoice, NEW m \in Nat, NEW L \in SUBSET Service, FitsOf(i, m, L, fees[i])
      PROVE  m = Price * Cardinality(L) + Fee * fees[i]
  <2>1. crossed[i] = {} /\ i \notin unseen /\ Cardinality({}) = 0
    BY FS_EmptySet DEF Summed, Calm
  <2>2. Cardinality(L) \in Nat /\ fees[i] \in Nat
    BY LinesCount DEF InvoiceTypes
  <2>3. Fits(m, Cardinality(L), 0, fees[i], fees[i])
    BY <1>1, <2>1 DEF FitsOf, Seen
  <2> QED BY <2>2, <2>3, FitsOne
<1>2. TotalIsLines
  <2>1. ASSUME NEW i \in Invoice, status[i] \in {"unpaid", "paid"}
        PROVE  total[i] = Price * Cardinality(lines[i]) + Fee * fees[i]
    <3>1. FitsOf(i, total[i], lines[i], fees[i]) /\ total[i] \in Nat /\ lines[i] \in SUBSET Service
      BY <2>1 DEF Summed, AsksFit, AskedFits, InvoiceTypes
    <3> QED BY <1>1, <3>1
  <2> QED BY <2>1 DEF TotalIsLines
<1>3. ASSUME NEW s \in Leaving, leavePc[s] = "write"
      PROVE  /\ status[leaveAt[s]] # "none"
             /\ rest[s] = Price * Cardinality(lines[leaveAt[s]] \ {s}) + Fee * fees[leaveAt[s]]
  <2>0. PICK i \in Invoice : i = leaveAt[s]
    BY <1>3 DEF Aims
  <2>1. /\ status[i] # "none" /\ FitsOf(i, rest[s], lines[i] \ {s}, fees[i])
        /\ rest[s] \in Nat /\ lines[i] \ {s} \in SUBSET Service
    BY <1>3, <2>0 DEF Summed, AsksFit, ReadFits, InvoiceTypes, LeaveTypes
  <2>2. rest[s] = Price * Cardinality(lines[i] \ {s}) + Fee * fees[i]
    BY <1>1, <2>1
  <2> QED BY <2>0, <2>1, <2>2
<1> QED BY <1>2, <1>3

\* With customers leaving one at a time and no late fee meanwhile, or late fees and
\* nobody leaving, what an invoice asks for is the sum of its lines, wherever the
\* process ends (requestCancellation's transaction, step 6 of runAutomation).
THEOREM TotalsAddUp ==
  ASSUME Leaving = {} \/ (Run = {} /\ \A s, t \in Leaving : s = t)
  PROVE  Spec => []TotalIsLines
<1>1. Init => Typed /\ Summed
  BY TypedInit, SummedInit
<1>2. (Typed /\ Summed) /\ [Next]_vars => (Typed /\ Summed)'
  BY TypedStep, SummedStep DEF Undisturbed
<1>3. Typed /\ Summed => TotalIsLines
  BY SummedExactly
<1> QED BY <1>1, <1>2, <1>3, PTL DEF Spec

-----------------------------------------------------------------------------
(* One charge.                                                             *)

\* What the charger relies on where it stands: at an invoice it read as open no
\* money was taken, what it will ask for still settles it, and the answer it
\* waits for is about that invoice.
ChargerKnows(c) ==
  LET i == charged[c]
  IN  /\ chargePc[c] # "idle" => status[i] # "none"
      /\ chargePc[c] \in {"due", "count", "call"} => Taken(i) = {}
      /\ chargePc[c] \in {"count", "call"} /\ status[i] = "unpaid" => received[i] + ask[c] >= total[i]
      /\ chargePc[c] = "answer" => /\ answer[c] \notin Hosted /\ payFor[answer[c]] = i
                                   /\ Taken(i) \subseteq {answer[c]}

\* Money that was taken is remembered: as the debit on its way, as a transaction,
\* or by the charger waiting for the answer; once recorded it settles the invoice.
Answering(p) == \E c \in Charger : chargePc[c] = "answer" /\ answer[c] = p
TakenKnown(i, p) ==
  /\ status[i] # "none"
  /\ pending[i] = p \/ p \in recorded \/ Answering(p)
  /\ status[i] = "unpaid" => p \notin recorded /\ received[i] + amount[p] >= total[i]

OneCharge ==
  /\ crashes = 0
  /\ \A p \in Payment \ Hosted : gate[p] # "open"
  /\ \A p \in recorded : gate[p] = "captured"
  /\ \A c \in Charger : ChargerKnows(c)
  /\ \A i \in Invoice : \A p \in Taken(i) : TakenKnown(i, p) /\ \A q \in Taken(i) : p = q

\* A step that takes no money and moves no charger: an open invoice asks for no
\* more than before, and a new transaction settles its invoice.
Eased ==
  /\ \A j \in Invoice : status[j] # "none" =>
       /\ status'[j] # "none"
       /\ status'[j] = "unpaid" => status[j] = "unpaid" /\ received[j] <= received'[j] /\ total'[j] <= total[j]
  /\ recorded \subseteq recorded'
  /\ \A p \in recorded' : \/ p \in recorded
                          \/ gate[p] = "captured" /\ (p \in Hosted \/ status'[payFor[p]] # "unpaid")

\* Chargers stand where they stood or are done, and what was taken stays remembered.
Waits ==
  \A c \in Charger :
    chargePc'[c] # "idle" => /\ chargePc'[c] = chargePc[c] /\ charged'[c] = charged[c]
                            /\ ask'[c] = ask[c] /\ answer'[c] = answer[c]
Remembered ==
  \A i \in Invoice : \A p \in Taken(i) : pending'[i] = p \/ p \in recorded' \/ Answering(p)'

LEMMA EasedIsFine ==
  ASSUME Typed, Typed', OneCharge, Eased, Waits, Remembered, UNCHANGED <<gateVars, crashes>>
  PROVE  OneCharge'
<1> USE DEF Typed, TypeOK
<1>1. /\ UNCHANGED <<gate, payFor, amount, crashes>>
      /\ \A j \in Invoice : Taken(j)' = Taken(j) /\ Taken(j) \subseteq Payment \ Hosted
  BY DEF gateVars, Taken
<1>2. \A j \in Invoice :
        /\ {received[j], received'[j], total[j], total'[j]} \subseteq Nat
        /\ status[j] # "none" => status'[j] # "none"
        /\ status[j] # "none" /\ status'[j] = "unpaid" =>
             status[j] = "unpaid" /\ received[j] <= received'[j] /\ total'[j] <= total[j]
  BY DEF Eased, InvoiceTypes, MoneyTypes
<1>3. \A p \in recorded' : gate'[p] = "captured"
  BY <1>1 DEF Eased, OneCharge
<1>4. ASSUME NEW c \in Charger PROVE ChargerKnows(c)'
  <2>1. CASE chargePc'[c] = "idle"
    BY <2>1 DEF ChargerKnows
  <2>2. CASE chargePc'[c] # "idle"
    <3> DEFINE i == charged[c]
    <3>0. /\ chargePc'[c] = chargePc[c] /\ charged'[c] = charged[c]
          /\ ask'[c] = ask[c] /\ answer'[c] = answer[c]
      BY <2>2 DEF Waits
    <3>1. i \in Invoice /\ ChargerKnows(c) /\ ask[c] \in Nat
      BY <2>2, <3>0 DEF Aims, OneCharge, ChargeTypes
    <3>2. status'[i] # "none" /\ Taken(i)' = Taken(i) /\ charged'[c] = i
      BY <1>1, <1>2, <2>2, <3>0, <3>1 DEF ChargerKnows
    <3>3. status'[i] = "unpaid" => status[i] = "unpaid" /\ received[i] <= received'[i] /\ total'[i] <= total[i]
      BY <1>2, <2>2, <3>0, <3>1 DEF ChargerKnows
    <3>4. chargePc[c] \in {"count", "call"} /\ status'[i] = "unpaid" => received'[i] + ask[c] >= total'[i]
      <4>1. ASSUME chargePc[c] \in {"count", "call"}, status'[i] = "unpaid"
            PROVE  received'[i] + ask[c] >= total'[i]
        <5>1. received[i] + ask[c] >= total[i] /\ received[i] <= received'[i] /\ total'[i] <= total[i]
          BY <3>1, <3>3, <4>1 DEF ChargerKnows
        <5>2. {received[i], received'[i], total[i], total'[i]} \subseteq Nat
          BY <1>2, <3>1
        <5> HIDE DEF i
        <5> QED BY <3>1, <5>1, <5>2
      <4> QED BY <4>1
    <3> QED BY <1>1, <3>0, <3>1, <3>2, <3>4 DEF ChargerKnows
  <2> QED BY <2>1, <2>2
<1>5. ASSUME NEW i \in Invoice, NEW p \in Taken(i) PROVE TakenKnown(i, p)'
  <2>1. TakenKnown(i, p) /\ p \in Payment \ Hosted /\ payFor[p] = i /\ amount[p] \in Nat
    BY <1>1, <1>5 DEF OneCharge, Taken, GateTypes
  <2>2. status'[i] # "none" /\ (pending'[i] = p \/ p \in recorded' \/ Answering(p)')
    BY <1>2, <1>5, <2>1 DEF TakenKnown, Remembered
  <2>3. ASSUME status'[i] = "unpaid" PROVE p \notin recorded' /\ received'[i] + amount'[p] >= total'[i]
    <3>1. /\ p \notin recorded /\ received[i] + amount[p] >= total[i]
          /\ received[i] <= received'[i] /\ total'[i] <= total[i]
      BY <1>2, <2>1, <2>3 DEF TakenKnown
    <3>2. p \notin recorded'
      BY <2>1, <2>3, <3>1 DEF Eased
    <3>3. {received[i], received'[i], total[i], total'[i]} \subseteq Nat
      BY <1>2
    <3> QED BY <1>1, <2>1, <3>1, <3>2, <3>3
  <2> QED BY <2>2, <2>3 DEF TakenKnown
<1>6. \A i \in Invoice : \A p \in Taken(i)' : TakenKnown(i, p)' /\ \A q \in Taken(i)' : p = q
  BY <1>1, <1>5 DEF OneCharge
<1>7. crashes' = 0 /\ \A p \in Payment \ Hosted : gate'[p] # "open"
  BY <1>1 DEF OneCharge
<1> QED BY <1>3, <1>4, <1>6, <1>7 DEF OneCharge

\* A transaction, and a payment at a gateway being recorded.
LEMMA TransactionEases ==
  ASSUME Typed, NEW i \in Invoice, NEW n \in Nat, AddTransaction(i, n), UNCHANGED <<total, recorded>>
  PROVE  Eased
<1> USE DEF Typed, TypeOK, InvoiceTypes, MoneyTypes
<1>1. received[i] <= received[i] + n
  OBVIOUS
<1>2. \A j \in Invoice : received[j] <= received'[j] /\ total'[j] <= total[j]
  BY <1>1 DEF AddTransaction
<1>3. UNCHANGED status \/ (status[i] = "unpaid" /\ status' = [status EXCEPT ![i] = "paid"])
  BY Settles
<1> QED BY <1>2, <1>3 DEF Eased

LEMMA ReferenceEases ==
  ASSUME Typed, OneCharge, NEW p \in Payment, gate[p] = "captured", RecordReference(p), UNCHANGED total
  PROVE  Eased
<1> USE DEF Typed, TypeOK, InvoiceTypes, MoneyTypes
<1>1. CASE p \in recorded
  BY <1>1 DEF RecordReference, Eased
<1>2. CASE p \notin recorded
  <2> DEFINE i == payFor[p]
  <2>1. /\ AddTransaction(i, amount[p]) /\ recorded' = recorded \cup {p}
        /\ i \in Invoice /\ amount[p] \in Nat
    BY <1>2 DEF RecordReference, Aims, GateTypes
  <2>2. /\ UNCHANGED status \/ (status[i] = "unpaid" /\ status' = [status EXCEPT ![i] = "paid"])
        /\ \A j \in Invoice : received[j] <= received'[j] /\ total'[j] <= total[j]
    <3> HIDE DEF i
    <3>1. UNCHANGED status \/ (status[i] = "unpaid" /\ status' = [status EXCEPT ![i] = "paid"])
      BY <2>1, Settles
    <3>2. received[i] <= received[i] + amount[p]
      BY <2>1
    <3>3. \A j \in Invoice : received[j] <= received'[j] /\ total'[j] <= total[j]
      BY <2>1, <3>2 DEF AddTransaction
    <3> QED BY <3>1, <3>3
  <2>3. p \in Hosted \/ status'[i] # "unpaid"
    <3>1. ASSUME p \notin Hosted, status[i] = "unpaid" PROVE status'[i] = "paid"
      <4>1. p \in Taken(i)
        BY <3>1 DEF Taken
      <4>2. received[i] + amount[p] >= total[i]
        BY <2>1, <3>1, <4>1 DEF OneCharge, TakenKnown
      <4> HIDE DEF i
      <4> QED BY <2>1, <3>1, <4>2 DEF AddTransaction, BecomesPaid
    <3> QED BY <2>1, <2>2, <3>1
  <2> QED BY <2>1, <2>2, <2>3 DEF Eased
<1> QED BY <1>1, <1>2

\* A service leaves an invoice, which asks for less then.
LEMMA LeavingEases ==
  ASSUME Typed, Summed, Run = {}, NEW s \in Leaving, LeaveWrite(s)
  PROVE  Eased
<1> DEFINE i == leaveAt[s]
<1> USE DEF Typed, TypeOK, InvoiceTypes
<1>1. /\ i \in Invoice /\ status[i] # "none"
      /\ rest[s] = Price * Cardinality(lines[i] \ {s}) + Fee * fees[i]
  BY SummedExactly DEF LeaveWrite, Aims
<1>2. /\ UNCHANGED <<received, recorded>>
      /\ \A j \in Invoice \ {i} : status'[j] = status[j] /\ total'[j] = total[j]
      /\ \/ status'[i] = "cancelled"
         \/ status'[i] = status[i] /\ total'[i] = rest[s]
  BY <1>1 DEF LeaveWrite, moneyVars
<1>3. ASSUME status[i] = "unpaid" PROVE rest[s] <= total[i]
  <2>1. total[i] = Price * Cardinality(lines[i]) + Fee * fees[i]
    BY <1>1, <1>3, SummedExactly DEF TotalIsLines
  <2>2. /\ Cardinality(lines[i]) \in Nat /\ Cardinality(lines[i] \ {s}) \in Nat
        /\ Cardinality(lines[i] \ {s}) <= Cardinality(lines[i])
    <3>1. IsFiniteSet(lines[i]) /\ lines[i] \ {s} \subseteq lines[i]
      BY <1>1, BillingSetsAssumption, FS_Subset
    <3> QED BY <3>1, FS_Subset, FS_CardinalityType
  <2>3. Price \in Nat /\ Fee \in Nat /\ fees[i] \in Nat
    BY <1>1, AmountsAssumption
  <2>4. \A p, a, b \in Nat : a <= b => p * a <= p * b
    OBVIOUS
  <2>5. Price * Cardinality(lines[i] \ {s}) <= Price * Cardinality(lines[i])
    BY <2>2, <2>3, <2>4
  <2> QED BY <1>1, <2>1, <2>2, <2>3, <2>5
<1> HIDE DEF i
<1>4. \A j \in Invoice : received[j] <= received[j] /\ total[j] <= total[j]
  BY DEF MoneyTypes
<1> QED BY <1>1, <1>2, <1>3, <1>4 DEF Eased

\* What happens at the gateways takes no more money than a charger asked for.
LEMMA GatewaysAreFine ==
  ASSUME Typed, OneCharge, NEW p \in Payment,
         (\E i \in Invoice : PayHosted(i, p)) \/ Capture(p) \/ Refuse(p)
  PROVE  OneCharge'
<1> USE DEF Typed, TypeOK
<1>1. /\ UNCHANGED <<status, total, received, recorded, chargePc, charged, ask, answer, pending, crashes>>
      /\ \A q \in Payment : q # p => gate'[q] = gate[q]
      /\ \A q \in Payment \ Hosted : payFor'[q] = payFor[q] /\ amount'[q] = amount[q]
      /\ gate[p] # "captured"
      /\ p \notin Hosted => gate[p] = "processing" /\ gate'[p] \in {"captured", "refused"}
  BY DEF PayHosted, Capture, Refuse, invoiceVars, moneyVars, chargeVars, columns, GateTypes, OneCharge
<1>2. \A i \in Invoice : Taken(i)' \subseteq Taken(i) /\ Taken(i) \subseteq Payment \ Hosted
  BY <1>1 DEF Taken
<1>3. \A q \in recorded' : gate'[q] = "captured"
  BY <1>1 DEF OneCharge, MoneyTypes
<1>4. ASSUME NEW c \in Charger PROVE ChargerKnows(c)'
  <2>1. ChargerKnows(c) /\ (chargePc[c] # "idle" => charged[c] \in Invoice)
        /\ (chargePc[c] = "answer" => answer[c] \in Payment)
    BY DEF OneCharge, Aims
  <2>2. chargePc[c] \in {"due", "count", "call"} => Taken(charged[c])' = {}
    BY <1>1, <2>1 DEF ChargerKnows, Taken
  <2>3. chargePc[c] = "answer" => /\ answer[c] \notin Hosted /\ payFor'[answer[c]] = charged[c]
                                 /\ Taken(charged[c])' \subseteq {answer[c]}
    BY <1>1, <1>2, <2>1 DEF ChargerKnows, Taken
  <2> QED BY <1>1, <2>1, <2>2, <2>3 DEF ChargerKnows
<1>5. \A i \in Invoice : \A q \in Taken(i)' : TakenKnown(i, q)' /\ \A r \in Taken(i)' : q = r
  <2>1. \A i \in Invoice : \A q \in Taken(i) : TakenKnown(i, q) /\ \A r \in Taken(i) : q = r
    BY DEF OneCharge
  <2>2. \A i \in Invoice : \A q \in Taken(i) : TakenKnown(i, q) => TakenKnown(i, q)'
    BY <1>1, <1>2 DEF TakenKnown, Answering
  <2> QED BY <1>2, <2>1, <2>2
<1>6. crashes' = 0 /\ \A q \in Payment \ Hosted : gate'[q] # "open"
  BY <1>1 DEF OneCharge
<1> QED BY <1>3, <1>4, <1>5, <1>6 DEF OneCharge

\* The webhook of a refused debit forgets nothing that was taken.
LEMMA DebitFailedIsFine ==
  ASSUME Typed, Typed', OneCharge, NEW p \in Payment, DebitFailed(p)
  PROVE  OneCharge'
<1> USE DEF Typed, TypeOK
<1>1. UNCHANGED <<status, total, received, recorded, chargeVars, gateVars, crashes>> /\ gate[p] = "refused"
  BY DEF DebitFailed, invoiceVars, moneyVars
<1>2. Eased
  BY <1>1 DEF Eased, InvoiceTypes, MoneyTypes
<1>3. Waits
  BY <1>1 DEF Waits, chargeVars
<1>4. Remembered
  <2>1. ASSUME NEW i \in Invoice, NEW q \in Taken(i), pending[i] = q PROVE pending'[i] = q
    BY <1>1, <2>1 DEF Taken, DebitFailed, ColumnTypes
  <2>2. \A q : Answering(q)' = Answering(q)
    BY <1>1 DEF Answering, chargeVars
  <2> QED BY <1>1, <2>1, <2>2 DEF Remembered, OneCharge, TakenKnown
<1> QED BY <1>1, <1>2, <1>3, <1>4, EasedIsFine

\* A charger takes up an invoice, reads it, looks at what is due and counts the attempt.
LEMMA SelectIsFine ==
  ASSUME Typed, OneCharge, \A b, d \in Charger : b = d, NEW c \in Charger, NEW i \in Invoice, ChargeSelect(c, i)
  PROVE  OneCharge'
<1> USE DEF Typed, TypeOK
<1>1. /\ UNCHANGED <<status, total, received, recorded, gate, payFor, amount, ask, answer, pending, crashes>>
      /\ chargePc[c] = "idle" /\ chargePc'[c] = "read" /\ charged'[c] = i /\ status[i] = "unpaid"
  BY DEF ChargeSelect, invoiceVars, moneyVars, gateVars, columns, ChargeTypes
<1>2. \A d \in Charger : d = c
  OBVIOUS
<1>3. \A d \in Charger : ChargerKnows(d)'
  BY <1>1, <1>2 DEF ChargerKnows
<1>4. \A j \in Invoice : \A p \in Taken(j) : TakenKnown(j, p)' /\ \A q \in Taken(j) : p = q
  BY <1>1, <1>2 DEF OneCharge, TakenKnown, Answering
<1>5. \A j \in Invoice : Taken(j)' = Taken(j)
  BY <1>1 DEF Taken
<1> QED BY <1>1, <1>3, <1>4, <1>5 DEF OneCharge

LEMMA ReadIsFine ==
  ASSUME Typed, OneCharge, \A b, d \in Charger : b = d, NEW c \in Charger, ChargeRead(c)
  PROVE  OneCharge'
<1> USE DEF Typed, TypeOK
<1>1. /\ UNCHANGED <<status, total, received, recorded, gate, payFor, amount, pending, crashes>>
      /\ chargePc[c] = "read" /\ charged[c] \in Invoice /\ chargePc'[c] \in {"idle", "due"}
      /\ chargePc'[c] = "due" => charged'[c] = charged[c] /\ status[charged[c]] = "unpaid" /\ pending[charged[c]] = None
  BY DEF ChargeRead, GoesOn, Returns, invoiceVars, moneyVars, gateVars, columns, ChargeTypes, Aims
<1>2. \A d \in Charger : d = c
  OBVIOUS
<1>3. ASSUME chargePc'[c] = "due" PROVE Taken(charged[c]) = {}
  <2>1. ASSUME NEW p \in Taken(charged[c]) PROVE FALSE
    <3>1. TakenKnown(charged[c], p)
      BY <1>1, <2>1 DEF OneCharge
    <3>2. pending[charged[c]] # p
      BY <1>1, <1>3, <2>1, BillingSetsAssumption DEF Taken
    <3>3. ~Answering(p)
      BY <1>1, <1>2 DEF Answering
    <3> QED BY <1>1, <1>3, <3>1, <3>2, <3>3 DEF TakenKnown
  <2> QED BY <2>1
<1>4. \A d \in Charger : ChargerKnows(d)'
  <2>1. CASE chargePc'[c] = "due"
    <3>1. (Taken(charged[c]))' = {}
      BY <1>1, <1>3, <2>1 DEF Taken
    <3> QED BY <1>1, <1>2, <2>1, <3>1 DEF ChargerKnows
  <2>2. CASE chargePc'[c] = "idle"
    BY <1>1, <1>2, <2>2 DEF ChargerKnows
  <2> QED BY <1>1, <2>1, <2>2
<1>5. \A j \in Invoice : \A p \in Taken(j) : TakenKnown(j, p)' /\ \A q \in Taken(j) : p = q
  BY <1>1, <1>2 DEF OneCharge, TakenKnown, Answering
<1>6. \A j \in Invoice : Taken(j)' = Taken(j)
  BY <1>1 DEF Taken
<1> QED BY <1>1, <1>4, <1>5, <1>6 DEF OneCharge

LEMMA DueIsFine ==
  ASSUME Typed, OneCharge, \A b, d \in Charger : b = d, NEW c \in Charger, ChargeDue(c) \/ ChargeCount(c)
  PROVE  OneCharge'
<1> USE DEF Typed, TypeOK
<1> DEFINE i == charged[c]
<1>1. /\ UNCHANGED <<status, total, received, recorded, gate, payFor, amount, pending, crashes>>
      /\ chargePc[c] \in {"due", "count"} /\ i \in Invoice /\ chargePc'[c] \in {"idle", "count", "call"}
      /\ chargePc'[c] # "idle" => charged'[c] = i
  BY DEF ChargeDue, ChargeCount, GoesOn, Returns, invoiceVars, moneyVars, gateVars, columns, ChargeTypes, Aims
<1>2. \A d \in Charger : d = c
  OBVIOUS
<1>3. chargePc'[c] # "idle" /\ status[i] = "unpaid" => received[i] + ask'[c] >= total[i]
  <2>1. CASE ChargeDue(c)
    <3>1. ASSUME chargePc'[c] # "idle", status[i] = "unpaid" PROVE received[i] + ask'[c] >= total[i]
      <4>1. Due(i) > 0 /\ ask'[c] = Due(i)
        BY <2>1, <3>1 DEF ChargeDue, Returns, ChargeTypes
      <4>2. received[i] \in Nat /\ total[i] \in Nat
        BY <1>1 DEF InvoiceTypes, MoneyTypes
      <4> HIDE DEF i
      <4> QED BY <4>1, <4>2 DEF Due
    <3> QED BY <3>1
  <2>2. CASE ChargeCount(c)
    BY <2>2 DEF ChargeCount, OneCharge, ChargerKnows
  <2> QED BY <2>1, <2>2
<1>4. Taken(i) = {} /\ status[i] # "none"
  BY <1>1 DEF OneCharge, ChargerKnows
<1>5. \A d \in Charger : ChargerKnows(d)'
  <2>1. CASE chargePc'[c] = "idle"
    BY <1>2, <2>1 DEF ChargerKnows
  <2>2. CASE chargePc'[c] # "idle"
    <3>1. charged'[c] = i /\ (Taken(charged[c]))' = {}
      BY <1>1, <1>4, <2>2 DEF Taken
    <3> HIDE DEF i
    <3> QED BY <1>1, <1>2, <1>3, <1>4, <2>2, <3>1 DEF ChargerKnows
  <2> QED BY <2>1, <2>2
<1>6. \A j \in Invoice : \A p \in Taken(j) : TakenKnown(j, p)' /\ \A q \in Taken(j) : p = q
  BY <1>1, <1>2 DEF OneCharge, TakenKnown, Answering
<1>7. \A j \in Invoice : Taken(j)' = Taken(j)
  BY <1>1 DEF Taken
<1> QED BY <1>1, <1>5, <1>6, <1>7 DEF OneCharge

\* Stripe takes the money, puts a debit on its way, declines, or answers as it did before.
LEMMA CallIsFine ==
  ASSUME Typed, OneCharge, \A b, d \in Charger : b = d, NEW c \in Charger, ChargeCall(c)
  PROVE  OneCharge'
<1> USE DEF Typed, TypeOK
<1> DEFINE i == charged[c]
<1>1. /\ UNCHANGED <<status, total, received, recorded, charged, ask, pending, crashes>>
      /\ chargePc[c] = "call" /\ i \in Invoice /\ chargePc'[c] = "answer"
  BY DEF ChargeCall, GoesOn, invoiceVars, moneyVars, columns, ChargeTypes, Aims
<1>2. \A d \in Charger : d = c
  OBVIOUS
<1>3. /\ Taken(i) = {} /\ status[i] # "none"
      /\ status[i] = "unpaid" => received[i] + ask[c] >= total[i]
  BY <1>1 DEF OneCharge, ChargerKnows
<1>4. \A q : ~Answering(q)
  BY <1>1, <1>2 DEF Answering
<1>5. ASSUME NEW p \in Keyed(i, try[c]), answer' = [answer EXCEPT ![c] = p], UNCHANGED gateVars
      PROVE  OneCharge'
  <2>1. /\ UNCHANGED <<gate, payFor, amount>>
        /\ answer'[c] = p /\ p \in Payment \ Hosted /\ payFor[p] = i
    BY <1>5 DEF gateVars, Keyed, ChargeTypes
  <2>2. \A d \in Charger : ChargerKnows(d)'
    <3> HIDE DEF i
    <3>1. charged'[c] = i
      BY <1>1 DEF i
    <3>2. (Taken(charged[c]))' = {}
      BY <1>3, <2>1, <3>1 DEF Taken
    <3> QED BY <1>1, <1>2, <1>3, <2>1, <3>1, <3>2 DEF ChargerKnows
  <2>3. \A j \in Invoice : \A q \in Taken(j) : TakenKnown(j, q)' /\ \A r \in Taken(j) : q = r
    BY <1>1, <1>4, <2>1 DEF OneCharge, TakenKnown
  <2>4. \A j \in Invoice : Taken(j)' = Taken(j)
    BY <2>1 DEF Taken
  <2> QED BY <1>1, <2>1, <2>2, <2>3, <2>4 DEF OneCharge
<1>6. ASSUME NEW p \in Payment \ Hosted, NEW g \in {"captured", "processing", "declined"}, gate[p] = "free",
             gate' = [gate EXCEPT ![p] = g], payFor' = [payFor EXCEPT ![p] = i],
             amount' = [amount EXCEPT ![p] = ask[c]], answer' = [answer EXCEPT ![c] = p]
      PROVE  OneCharge'
  <2>1. /\ gate'[p] = g /\ payFor'[p] = i /\ amount'[p] = ask[c] /\ answer'[c] = p
        /\ \A q \in Payment \ {p} : gate'[q] = gate[q] /\ payFor'[q] = payFor[q] /\ amount'[q] = amount[q]
    BY <1>6 DEF GateTypes, ChargeTypes
  <2>2. p \notin recorded
    BY <1>6 DEF OneCharge
  <2> HIDE DEF i
  <2>3. charged'[c] = i
    BY <1>1 DEF i
  <2>4. \A d \in Charger : ChargerKnows(d)'
    <3>1. (Taken(charged[c]))' \subseteq {p}
      BY <1>3, <2>1, <2>3 DEF Taken
    <3> QED BY <1>1, <1>2, <1>3, <2>1, <2>3, <3>1 DEF ChargerKnows
  <2>5. \A j \in Invoice : \A q \in Taken(j)' :
          (q # p /\ q \in Taken(j)) \/ (q = p /\ j = i)
    BY <2>1 DEF Taken
  <2>6. ASSUME NEW j \in Invoice, NEW q \in Taken(j)'
        PROVE  TakenKnown(j, q)' /\ \A r \in Taken(j)' : q = r
    <3>1. CASE q # p /\ q \in Taken(j)
      <4>1. q \in Payment /\ j # i
        BY <1>3, <3>1 DEF Taken
      <4>2. TakenKnown(j, q)
        BY <3>1 DEF OneCharge
      <4>3. TakenKnown(j, q)'
        BY <1>1, <1>4, <2>1, <3>1, <4>1, <4>2 DEF TakenKnown
      <4>4. \A r \in Taken(j)' : r \in Taken(j)
        BY <2>5, <4>1
      <4> QED BY <3>1, <4>3, <4>4 DEF OneCharge
    <3>2. CASE q = p /\ j = i
      <4>1. Answering(p)'
        BY <1>1, <2>1 DEF Answering
      <4>2. TakenKnown(j, q)'
        BY <1>1, <1>3, <2>1, <2>2, <3>2, <4>1 DEF TakenKnown
      <4>3. \A r \in Taken(j)' : r = p
        BY <1>3, <2>5, <3>2
      <4> QED BY <3>2, <4>2, <4>3
    <3> QED BY <2>5, <3>1, <3>2
  <2>7. \A q \in Payment \ Hosted : gate'[q] # "open"
    BY <2>1 DEF OneCharge
  <2>8. \A q \in recorded' : gate'[q] = "captured"
    BY <1>1, <2>1, <2>2 DEF OneCharge, MoneyTypes
  <2> QED BY <1>1, <2>4, <2>6, <2>7, <2>8 DEF OneCharge
<1> QED BY <1>5, <1>6 DEF ChargeCall

\* The answer comes: a debit is remembered, a payment recorded.
LEMMA AnswerIsFine ==
  ASSUME Typed, Typed', OneCharge, \A b, d \in Charger : b = d, NEW c \in Charger, ChargeAnswer(c)
  PROVE  OneCharge'
<1> USE DEF Typed, TypeOK
<1> DEFINE i == charged[c]  p == answer[c]
<1>1. /\ UNCHANGED <<total, gateVars, crashes>>
      /\ chargePc[c] = "answer" /\ chargePc'[c] = "idle"
      /\ i \in Invoice /\ p \in Payment \ Hosted /\ payFor[p] = i
  BY DEF ChargeAnswer, Returns, ChargeTypes, Aims, OneCharge, ChargerKnows
<1>2. \A d \in Charger : d = c
  OBVIOUS
<1>3. Waits
  BY <1>1, <1>2 DEF Waits
<1>4. Eased
  <2>1. CASE reply[p] = "captured"
    <3>1. gate[p] = "captured"
      BY <1>1, <2>1 DEF Replied
    <3> QED BY <1>1, <2>1, <3>1, ReferenceEases DEF ChargeAnswer
  <2>2. CASE reply[p] # "captured"
    <3>1. UNCHANGED <<status, received, recorded>>
      BY <2>2 DEF ChargeAnswer
    <3> QED BY <1>1, <3>1 DEF Eased, InvoiceTypes, MoneyTypes
  <2> QED BY <2>1, <2>2
<1>5. Remembered
  <2>1. ASSUME NEW j \in Invoice, NEW q \in Taken(j)
        PROVE  pending'[j] = q \/ q \in recorded'
    <3>1. q \in Payment /\ payFor[q] = j /\ gate[q] \in {"captured", "processing"}
      BY <2>1 DEF Taken
    <3>2. CASE q = p
      <4>1. CASE reply[q] = "captured"
        BY <3>2, <4>1 DEF ChargeAnswer, RecordReference
      <4>2. CASE reply[q] = "processing"
        BY <1>1, <3>1, <3>2, <4>2 DEF ChargeAnswer, ColumnTypes
      <4>3. reply[q] \in {"captured", "processing"}
        BY <1>1, <3>1, <3>2 DEF Replied
      <4> QED BY <4>1, <4>2, <4>3
    <3>3. CASE q # p
      <4>1. pending[j] = q \/ q \in recorded
        BY <1>1, <1>2, <2>1, <3>3 DEF OneCharge, TakenKnown, Answering
      <4>2. q \in recorded => q \in recorded'
        BY <1>4 DEF Eased
      <4>3. ASSUME pending[j] = q PROVE pending'[j] = q
        <5>1. CASE j = i
          BY <1>1, <2>1, <3>3, <5>1 DEF OneCharge, ChargerKnows
        <5>2. CASE j # i
          BY <1>1, <4>3, <5>2 DEF ChargeAnswer, ColumnTypes
        <5> QED BY <5>1, <5>2
      <4> QED BY <4>1, <4>2, <4>3
    <3> QED BY <3>2, <3>3
  <2> QED BY <2>1 DEF Remembered
<1> QED BY <1>1, <1>3, <1>4, <1>5, EasedIsFine

\* One run of the cron, no answer lost, no end of the process, no late fee in between.
OneAtATime ==
  /\ Run = {} /\ ~Lossy /\ MaxCrashes = 0
  /\ \A s, t \in Leaving : s = t
  /\ \A c, d \in Charger : c = d

LEMMA OneChargeStep ==
  ASSUME OneAtATime, Typed, Summed, OneCharge, [Next]_vars
  PROVE  OneCharge'
<1> USE DEF OneAtATime
<1>0. Typed'
  BY TypedStep
<1>1. ASSUME Eased, UNCHANGED <<gateVars, chargeVars, pending, crashes>> PROVE OneCharge'
  <2>1. Waits
    BY <1>1 DEF Waits, chargeVars
  <2>2. \A p : Answering(p)' = Answering(p)
    BY <1>1 DEF Answering, chargeVars
  <2>3. Remembered
    BY <1>1, <2>2 DEF Remembered, OneCharge, TakenKnown, Eased
  <2> QED BY <1>0, <1>1, <2>1, <2>3, EasedIsFine
<1>2. ASSUME UNCHANGED <<total, received, recorded>>,
             \A j \in Invoice : status[j] # "none" =>
               status'[j] # "none" /\ (status'[j] = "unpaid" => status[j] = "unpaid")
      PROVE  Eased
  BY <1>2 DEF Eased, Typed, TypeOK, InvoiceTypes, MoneyTypes
<1>3. ASSUME UNCHANGED <<status, total, received, recorded, gateVars, chargeVars, pending, crashes>> PROVE OneCharge'
  BY <1>1, <1>2, <1>3
<1>4. ASSUME NEW i \in Invoice, NEW S \in SUBSET Service, Issue(i, S) PROVE OneCharge'
  <2>1. /\ status[i] = "none" /\ UNCHANGED <<received, recorded, gateVars, chargeVars, pending, crashes>>
        /\ \A j \in Invoice \ {i} : status'[j] = status[j] /\ total'[j] = total[j]
    BY <1>4 DEF Issue, moneyVars, columns, Typed, TypeOK, InvoiceTypes
  <2>2. Eased
    BY <2>1 DEF Eased, Typed, TypeOK, InvoiceTypes, MoneyTypes
  <2> QED BY <1>1, <2>1, <2>2
<1>5. ASSUME NEW i \in Invoice, AddPayment(i, Price) PROVE OneCharge'
  <2>1. Eased
    BY <1>5, AmountsAssumption, TransactionEases DEF AddPayment
  <2> QED BY <1>1, <1>5, <2>1 DEF AddPayment, columns
<1>6. ASSUME NEW i \in Invoice, CreditNote(i) \/ CancelInvoice(i) PROVE OneCharge'
  <2>1. Eased
    BY <1>2, <1>6 DEF CreditNote, CancelInvoice, moneyVars, Typed, TypeOK, InvoiceTypes
  <2> QED BY <1>1, <1>6, <2>1 DEF CreditNote, CancelInvoice, columns
<1>7. ASSUME NEW i \in Invoice, CreditStep(i) PROVE OneCharge'
  <2>1. CASE CreditRecord(i)
    <3>1. Eased
      BY <2>1, TransactionEases DEF CreditRecord, Typed, TypeOK, ApplyTypes
    <3> QED BY <1>1, <2>1, <3>1 DEF CreditRecord, columns
  <2>2. CASE CreditDue(i) \/ CreditBalance(i) \/ CreditSpend(i)
    BY <1>3, <2>2 DEF CreditDue, CreditBalance, CreditSpend, invoiceVars, moneyVars, columns
  <2> QED BY <1>7, <2>1, <2>2 DEF CreditStep
<1>8. ASSUME NEW i \in Invoice, GrowLate(i) \/ DaysPass(i) \/ FulfilStep(i) PROVE OneCharge'
  BY <1>3, <1>8 DEF GrowLate, DaysPass, FulfilStep, FulfilStart, FulfilLine, invoiceVars, moneyVars, columns
<1>9. ASSUME NEW p \in Payment, Deliver(p) PROVE OneCharge'
  <2>1. Eased
    BY <1>9, ReferenceEases DEF Deliver
  <2> QED BY <1>1, <1>9, <2>1 DEF Deliver, columns
<1>10. ASSUME NEW s \in Leaving, LeaveStep(s) PROVE OneCharge'
  <2>1. CASE LeaveWrite(s)
    <3>1. Eased
      BY <2>1, LeavingEases
    <3> QED BY <1>1, <2>1, <3>1 DEF LeaveWrite, columns
  <2>2. CASE LeaveSelect(s) \/ LeaveRead(s) \/ \E i \in Invoice : LeaveCheck(s, i)
    BY <1>3, <2>2 DEF LeaveSelect, LeaveRead, LeaveCheck, invoiceVars, moneyVars, columns
  <2> QED BY <1>10, <2>1, <2>2 DEF LeaveStep
<1>11. ASSUME NEW c \in Charger, ChargeStep(c) \/ ChargeLost(c) \/ \E i \in Invoice : ChargeSelect(c, i)
       PROVE  OneCharge'
  <2>1. ~ChargeLost(c)
    BY DEF ChargeLost
  <2>2. CASE \E i \in Invoice : ChargeSelect(c, i)
    BY <2>2, SelectIsFine
  <2>3. CASE ChargeRead(c)
    BY <2>3, ReadIsFine
  <2>4. CASE ChargeDue(c) \/ ChargeCount(c)
    BY <2>4, DueIsFine
  <2>5. CASE ChargeCall(c)
    BY <2>5, CallIsFine
  <2>6. CASE ChargeAnswer(c)
    BY <1>0, <2>6, AnswerIsFine
  <2> QED BY <1>11, <2>1, <2>2, <2>3, <2>4, <2>5, <2>6 DEF ChargeStep
<1>12. ASSUME NEW i \in Invoice, NEW p \in Payment, PayHosted(i, p) PROVE OneCharge'
  BY <1>12, GatewaysAreFine
<1>13. ASSUME NEW p \in Payment, Capture(p) \/ Refuse(p) PROVE OneCharge'
  BY <1>13, GatewaysAreFine
<1>14. ASSUME NEW p \in Payment, DebitFailed(p) PROVE OneCharge'
  BY <1>0, <1>14, DebitFailedIsFine
<1>15. ~Crash
  BY DEF Crash, OneCharge
<1>16. CASE UNCHANGED vars
  BY <1>3, <1>16 DEF vars, invoiceVars, moneyVars, columns
<1> QED
  BY <1>4, <1>5, <1>6, <1>7, <1>8, <1>9, <1>10, <1>11, <1>12, <1>13, <1>14, <1>15, <1>16 DEF Next

LEMMA OneChargeInit ==
  ASSUME Init
  PROVE  OneCharge
BY DEF Init, Zero, OneCharge, ChargerKnows, Taken

LEMMA OneIsAtMostOne ==
  ASSUME OneCharge
  PROVE  ChargedOnce
<1>1. ASSUME NEW i \in Invoice PROVE Cardinality(Taken(i)) <= 1
  <2>1. CASE Taken(i) = {}
    BY <2>1, FS_EmptySet
  <2>2. ASSUME NEW p \in Taken(i) PROVE Cardinality(Taken(i)) <= 1
    <3>1. Taken(i) = {p}
      BY <2>2 DEF OneCharge
    <3>2. Cardinality({p}) = 1
      BY FS_Singleton
    <3> QED BY <3>1, <3>2
  <2> QED BY <2>1, <2>2
<1> QED BY <1>1 DEF ChargedOnce

\* With one run of the automatic charges at a time that hears every answer, the
\* money of an invoice is taken once, whatever the customer, staff, the bank and
\* webhooks do in between: no second charge while one was taken or is on its way
\* (chargeInvoice: it reads chargePendingRef and the status again).
THEOREM ChargesOnce ==
  ASSUME Run = {}, ~Lossy, MaxCrashes = 0,
         \A s, t \in Leaving : s = t, \A c, d \in Charger : c = d
  PROVE  Spec => []ChargedOnce
<1>1. OneAtATime /\ Undisturbed
  BY DEF OneAtATime, Undisturbed
<1>2. Init => Typed /\ Summed /\ OneCharge
  BY TypedInit, SummedInit, OneChargeInit
<1>3. (Typed /\ Summed /\ OneCharge) /\ [Next]_vars => (Typed /\ Summed /\ OneCharge)'
  BY <1>1, TypedStep, SummedStep, OneChargeStep
<1>4. Typed /\ Summed /\ OneCharge => ChargedOnce
  BY OneIsAtMostOne
<1> QED BY <1>2, <1>3, <1>4, PTL DEF Spec

\* Among all that a company has, its money moves as Billing says.
LEMMA CompanyBills == CompanySpec => Spec
<1>1. CompanyInit => Init
  BY DEF CompanyInit
<1>2. [CompanyNext]_companyVars => [Next]_vars
  <2>1. ASSUME CompanyNext PROVE [Next]_vars
    BY <2>1 DEF CompanyNext
  <2>2. ASSUME UNCHANGED companyVars PROVE UNCHANGED vars
    BY <2>2 DEF companyVars
  <2> QED BY <2>1, <2>2
<1> QED BY <1>1, <1>2, PTL DEF CompanySpec, Spec

\* The company's invoices under those conditions: charged once, and asking for the
\* sum of their lines while services leave them (chargeInvoice, requestCancellation).
THEOREM ChargesAreRight ==
  ASSUME Run = {}, ~Lossy, MaxCrashes = 0,
         \A s, t \in Leaving : s = t, \A c, d \in Charger : c = d
  PROVE  CompanySpec => []ChargesRight
<1>1. Spec => []TotalIsLines
  BY TotalsAddUp
<1>2. Spec => []ChargedOnce
  BY ChargesOnce
<1>3. TotalIsLines /\ ChargedOnce => ChargesRight
  BY DEF ChargesRight, Where
<1> QED BY <1>1, <1>2, <1>3, CompanyBills, PTL
==============================================================================
