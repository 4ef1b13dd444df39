------------------------------- MODULE Fiscal -------------------------------
(***************************************************************************)
(* Electronic invoices on their way to the tax authority's exchange (SDI): *)
(* an invoice that was paid is handed to an intermediary, by itself or by  *)
(* staff, and the cron asks what became of it.                             *)
(*                                                                         *)
(* Some intermediaries take the file; one has the document created there   *)
(* and sent with a second call.  The exchange answers in its own time.     *)
(***************************************************************************)
EXTENDS Integers, Sequences, FiniteSetsExt

CONSTANTS
  Doc,         \* paid invoices
  Hand,        \* who sends or asks
  Cron,        \* those of them that only ask, of what is still sent
  TwoCalls,    \* those whose intermediary builds the document itself
  MaxSends,    \* bound: times staff presses the button
  MaxRefused,  \* bound: calls it refuses
  Overlap      \* two may be at one invoice at the same time

ASSUME FiscalBounds ==
  /\ {MaxSends, MaxRefused} \subseteq Nat
  /\ TwoCalls \subseteq Doc /\ Overlap \in BOOLEAN
  /\ Cron \subseteq Hand

VARIABLES
  row,      \* row[d]: sdi_status ("unsent" when there is none) and sdi_id (0 likewise)
  drafts,   \* drafts[d]: documents made at an intermediary that makes them
  handed,   \* handed[d]: what the exchange got, and what it said of each
  task,     \* what each hand is doing
  unnamed,  \* unnamed[d]: history, the copies handed over whose name got lost on the way back
  sends, refused

fiscalVars == <<row, drafts, handed, task, unnamed, sends, refused>>

NoDoc  == "no invoice"
Rest   == [pc |-> "rest", doc |-> NoDoc, id |-> 0, said |-> "nothing"]
Judged == {"NS", "MC", "RC", "NE", "DT"}

IsAt(h, pc) == task[h].pc = pc
Turns(h, pc) == task' = [task EXCEPT ![h].pc = pc]
Rests(h) == task' = [task EXCEPT ![h] = Rest]

FiscalTypeOK ==
  /\ \A d \in Doc : row[d].status \in {"unsent", "sent", "error", "rejected", "delivered", "not_delivered"}
  /\ \A d \in Doc : row[d].id \in 0 .. Len(handed[d])
  /\ \A d \in Doc : \A n \in DOMAIN handed[d] : handed[d][n] \in Judged \cup {"waits"}
  /\ drafts \in [Doc -> Nat]

FiscalInit ==
  /\ row = [d \in Doc |-> [status |-> "unsent", id |-> 0]]
  /\ drafts = [d \in Doc |-> 0]
  /\ handed = [d \in Doc |-> <<>>]
  /\ task = [h \in Hand |-> Rest]
  /\ unnamed = [d \in Doc |-> {}]
  /\ sends = 0 /\ refused = 0

\* Without Overlap an invoice is in one hand at a time.
Free(d) == Overlap \/ \A h \in Hand : task[h].doc # d

-----------------------------------------------------------------------------
(* Sending.                                                                *)

\* Mutant: what was sent is sent again when staff asks.
SendableAgain(s) == s # "delivered"
Sendable(s) == s \in {"unsent", "rejected", "error"}

\* sendToSdi loads the invoice,
SendLoad(h, d) ==
  /\ h \notin Cron /\ IsAt(h, "rest") /\ Free(d)
  /\ sends < MaxSends /\ sends' = sends + 1
  /\ Sendable(row[d].status)
  /\ task' = [task EXCEPT ![h] = [Rest EXCEPT !.pc = "mark", !.doc = d]]
  /\ UNCHANGED <<row, drafts, handed, unnamed, refused>>

\* marks it sent; the name it had at the intermediary stays,
SendMark(h) ==
  /\ IsAt(h, "mark")
  /\ row' = [row EXCEPT ![task[h].doc].status = "sent"]
  /\ Turns(h, IF task[h].doc \in TwoCalls THEN "draft" ELSE "send")
  /\ UNCHANGED <<drafts, handed, unnamed, sends, refused>>

\* has the document made where the intermediary makes it, which may be done
\* although the answer is lost,
SendDraft(h) ==
  LET d == task[h].doc
  IN /\ IsAt(h, "draft")
     /\ \/ /\ drafts' = [drafts EXCEPT ![d] = @ + 1] /\ UNCHANGED refused
           /\ Turns(h, "send") \/ Turns(h, "fail")
        \/ refused < MaxRefused /\ refused' = refused + 1 /\ Turns(h, "fail") /\ UNCHANGED drafts
     /\ UNCHANGED <<row, handed, unnamed, sends>>

\* and calls it: the exchange gets the invoice although an answer is lost.
SendCall(h) ==
  LET d == task[h].doc
      got == [handed EXCEPT ![d] = Append(@, "waits")]
  IN /\ IsAt(h, "send")
     /\ \/ /\ handed' = got /\ task' = [task EXCEPT ![h].pc = "name", ![h].id = Len(got[d])]
           /\ UNCHANGED <<unnamed, refused>>
        \/ /\ handed' = got /\ unnamed' = [unnamed EXCEPT ![d] = @ \cup {Len(got[d])}]
           /\ Turns(h, "fail") /\ UNCHANGED refused
        \/ refused < MaxRefused /\ refused' = refused + 1 /\ Turns(h, "fail") /\ UNCHANGED <<handed, unnamed>>
     /\ UNCHANGED <<row, drafts, sends>>

SendName(h) ==
  /\ IsAt(h, "name")
  /\ row' = [row EXCEPT ![task[h].doc].id = task[h].id]
  /\ Rests(h)
  /\ UNCHANGED <<drafts, handed, unnamed, sends, refused>>

\* Whatever went wrong, a lost answer included, the invoice shows an error.
SendFail(h) ==
  /\ IsAt(h, "fail")
  /\ row' = [row EXCEPT ![task[h].doc].status = "error"]
  /\ Rests(h)
  /\ UNCHANGED <<drafts, handed, unnamed, sends, refused>>

\* The process ends: the row stays as it is, and a name that was on its way is lost.
SendEnds(h) ==
  LET d == task[h].doc
  IN /\ task[h].pc \in {"mark", "draft", "send", "name", "fail"}
     /\ unnamed' = IF IsAt(h, "name") THEN [unnamed EXCEPT ![d] = @ \cup {task[h].id}] ELSE unnamed
     /\ Rests(h)
     /\ UNCHANGED <<row, drafts, handed, sends, refused>>

-----------------------------------------------------------------------------
(* Asking.                                                                 *)

\* The words an intermediary may have for what the exchange said, by the
\* parts of them that normalizeSdiStatus looks for.
Parts(said) ==
  CASE said = "NS"    -> {{"ns"}, {"scart"}, {"reject"}}
    [] said = "MC"    -> {{"mc"}, {"mancataconsegna"}, {"notdelivered", "delivered"}, {"undeliver", "delivered"}}
    [] said = "RC"    -> {{"rc"}, {"consegnat"}, {"delivered"}}
    [] said = "NE"    -> {{"ne"}, {"accepted"}, {"accettat"}}
    [] said = "DT"    -> {{"dt"}, {"decorrenza"}}
    [] said = "waits" -> {{}}

NormalizeSdiStatus(parts) ==
  IF parts \cap {"ns", "scart", "reject", "notificascarto", "invalid", "error"} # {} THEN "rejected"
  ELSE IF parts \cap {"mc", "mancataconsegna", "notdelivered", "nonconsegn", "impossibilit", "undeliver"} # {} THEN "not_delivered"
  ELSE IF parts \cap {"rc", "consegnat", "delivered", "accepted", "accettat", "ne", "dt", "decorrenza"} # {} THEN "delivered"
  ELSE "sent"

\* pollSdi picks what is still sent, staff whatever it looks at;
\* refreshSdiStatus reads the row and asks for the document it names,
Ask(h, d) ==
  /\ IsAt(h, "rest") /\ Free(d)
  /\ h \in Cron => row[d].status = "sent"
  /\ row[d].id # 0
  /\ \E parts \in Parts(handed[d][row[d].id]) :
       task' = [task EXCEPT ![h] = [Rest EXCEPT !.pc = "told", !.doc = d, !.said = NormalizeSdiStatus(parts)]]
  /\ UNCHANGED <<row, drafts, handed, unnamed, sends, refused>>

\* and writes what it was told.
Told(h) ==
  /\ IsAt(h, "told")
  /\ row' = [row EXCEPT ![task[h].doc].status = task[h].said]
  /\ Rests(h)
  /\ UNCHANGED <<drafts, handed, unnamed, sends, refused>>

\* The exchange decides.
Decide(d) ==
  \E n \in DOMAIN handed[d], said \in Judged :
    /\ handed[d][n] = "waits"
    /\ handed' = [handed EXCEPT ![d][n] = said]
    /\ UNCHANGED <<row, drafts, task, unnamed, sends, refused>>

-----------------------------------------------------------------------------
FiscalSteps(h) == SendMark(h) \/ SendDraft(h) \/ SendCall(h) \/ SendName(h) \/ SendFail(h) \/ Told(h)

FiscalNext ==
  \/ \E h \in Hand, d \in Doc : SendLoad(h, d) \/ Ask(h, d)
  \/ \E h \in Hand : FiscalSteps(h) \/ SendEnds(h)
  \/ \E d \in Doc : Decide(d)

\* What was begun goes on, the exchange decides, and the cron, which is at one
\* invoice after the other, asks again.
FiscalFairness ==
  /\ \A h \in Hand : WF_fiscalVars(FiscalSteps(h))
  /\ \A d \in Doc : WF_fiscalVars(Decide(d))

FiscalSpec ==
  FiscalInit /\ [][FiscalNext]_fiscalVars /\ FiscalFairness
  /\ \A d \in Doc : SF_fiscalVars(\E h \in Hand : Ask(h, d))

-----------------------------------------------------------------------------
(* Properties.                                                             *)

\* "Refuses to send the same document twice unless the SDI rejected it": of the
\* copies the exchange has, the panel knows the name of one that was not refused
\* at the most. It does send a document again whose answer it did not hear, though
\* "if the answer is lost, staff sees "sent"" (sdi.ts:35): the catch shows "error",
\* and each copy more is one whose name got lost.
SentOnce == \A d \in Doc : Cardinality({n \in DOMAIN handed[d] \ unnamed[d] : handed[d][n] # "NS"}) <= 1

\* A row that shows an outcome shows that of the document it names, and that is
\* the last one handed over but for those whose name got lost.
OutcomeTrue ==
  \A d \in Doc :
    row[d].status \in {"delivered", "not_delivered", "rejected"} =>
      LET said == handed[d][row[d].id]
      IN /\ row[d].id # 0 /\ row[d].id + 1 .. Len(handed[d]) \subseteq unnamed[d]
         /\ row[d].status = "delivered" => said \in {"RC", "NE", "DT"}
         /\ row[d].status = "not_delivered" => said = "MC"
         /\ row[d].status = "rejected" => said = "NS"

FiscalRight == SentOnce /\ OutcomeTrue

\* What the exchange said of an invoice that is shown as sent is seen, unless the
\* process ended before its first name was written.
OutcomeUnseen(d) == row[d].status = "sent" /\ (row[d].id # 0 \/ \E h \in Hand : task[h].doc = d)
OutcomeSeen == \A d \in Doc : OutcomeUnseen(d) ~> ~OutcomeUnseen(d)
=============================================================================
