------------------------------ MODULE Tickets -------------------------------
(***************************************************************************)
(* One ticket: the messages of both sides, from the panel or by email, and *)
(* the status, which says whose turn it is.  A reply is an insert of its   *)
(* message, an insert of its files and an update of the ticket.            *)
(***************************************************************************)
EXTENDS Naturals, Sequences, SequencesExt

CONSTANTS
  Writer,      \* replies that are being written at a time
  MaxSaid,     \* bound: messages
  MaxUnfiled,  \* bound: replies whose files could not be stored
  TalkOver     \* replies overlap

ASSUME TicketsAssumption == {MaxSaid, MaxUnfiled} \subseteq Nat /\ TalkOver \in BOOLEAN

VARIABLES
  said,     \* messages: who speaks in each
  turn,     \* tickets.status
  writing,  \* the status each reply in progress is about to write
  closedAt, \* how many messages there were when somebody last closed the ticket
  reopened, \* and when staff last opened it by hand
  unfiled   \* replies that ended after their message

ticketVars == <<said, turn, writing, closedAt, reopened, unfiled>>

Side == {"customer", "staff"}
TicketStatus == {"none", "open", "answered", "customer_reply", "closed"}

TicketsTypeOK ==
  /\ said \in Seq(Side) /\ Len(said) <= MaxSaid
  /\ turn \in TicketStatus
  /\ writing \in [Writer -> {"nothing", "answered", "customer_reply"}]
  /\ {closedAt, reopened} \subseteq 0..MaxSaid
  /\ unfiled \in 0..MaxUnfiled

TicketsInit ==
  /\ said = <<>> /\ turn = "none"
  /\ writing = [w \in Writer |-> "nothing"]
  /\ closedAt = 0 /\ reopened = 0 /\ unfiled = 0

NobodyWrites == \A w \in Writer : writing[w] = "nothing"

-----------------------------------------------------------------------------
(* Messages.                                                               *)

\* openTicket: ticket, message and files in one transaction.
OpenTicket ==
  /\ turn = "none" /\ MaxSaid > 0
  /\ turn' = "open" /\ said' = <<"customer">>
  /\ UNCHANGED <<writing, closedAt, reopened, unfiled>>

\* handleInboundMail without a ticket, for a customer: staff open none by email.
OpenByMail(staff) ==
  /\ ~staff
  /\ turn = "none" /\ MaxSaid > 0
  /\ turn' = "open" /\ said' = <<"customer">>
  /\ UNCHANGED <<writing, closedAt, reopened, unfiled>>

\* The message of a reply, whatever the ticket's status.
Says(w, side, status) ==
  /\ turn # "none" /\ Len(said) < MaxSaid
  /\ writing[w] = "nothing" /\ (TalkOver \/ NobodyWrites)
  /\ said' = Append(said, side)
  /\ writing' = [writing EXCEPT ![w] = status]
  /\ UNCHANGED <<turn, closedAt, reopened, unfiled>>

ReplyTicket(w) == Says(w, "customer", "customer_reply")
StaffReply(w) == Says(w, "staff", "answered")

\* A mail's sender is known here as staff, as a member of the company, or as both,
\* who writes as the customer; one who is neither is not listened to.
ReplyByMail(w, staff, mine) ==
  /\ staff \/ mine
  /\ IF staff /\ ~mine THEN Says(w, "staff", "answered") ELSE Says(w, "customer", "customer_reply")

\* The ticket is updated after the files of its message.
UpdateTicket(w) ==
  /\ writing[w] # "nothing"
  /\ turn' = writing[w]
  /\ writing' = [writing EXCEPT ![w] = "nothing"]
  /\ UNCHANGED <<said, closedAt, reopened, unfiled>>

\* attach fails, and the reply ends there: no transaction takes the message back.
NotFiled(w) ==
  /\ writing[w] # "nothing" /\ unfiled < MaxUnfiled
  /\ unfiled' = unfiled + 1
  /\ writing' = [writing EXCEPT ![w] = "nothing"]
  /\ UNCHANGED <<said, turn, closedAt, reopened>>

-----------------------------------------------------------------------------
(* The status by hand, at any time.                                        *)

\* closeTicket of the customer
CloseTicket ==
  /\ turn # "none"
  /\ turn' = "closed" /\ closedAt' = Len(said)
  /\ UNCHANGED <<said, writing, reopened, unfiled>>

\* setTicketStatus of staff
SetTicketStatus(status) ==
  /\ turn # "none"
  /\ turn' = status
  /\ IF status = "closed" THEN closedAt' = Len(said) /\ UNCHANGED reopened
                          ELSE reopened' = Len(said) /\ UNCHANGED closedAt
  /\ UNCHANGED <<said, writing, unfiled>>

TicketsNext ==
  \/ OpenTicket \/ CloseTicket
  \/ \E staff, mine \in BOOLEAN :
       OpenByMail(staff) \/ \E w \in Writer : ReplyByMail(w, staff, mine)
  \/ \E status \in {"open", "closed"} : SetTicketStatus(status)
  \/ \E w \in Writer : ReplyTicket(w) \/ StaffReply(w) \/ UpdateTicket(w) \/ NotFiled(w)

TicketsSpec == TicketsInit /\ [][TicketsNext]_ticketVars

-----------------------------------------------------------------------------
(* Properties.                                                             *)

\* "An answer re-opens a closed ticket": when no reply is being written, the status
\* says who spoke last, or what somebody set after that; nobody's message stays
\* in a ticket that was closed before it, or is shown as answered.
NobodyOverheard ==
  NobodyWrites /\ turn # "none" /\ unfiled = 0 =>
    \/ turn = "answered"       /\ Last(said) = "staff"
    \/ turn = "customer_reply" /\ Last(said) = "customer"
    \/ turn = "closed"         /\ closedAt = Len(said)
    \/ turn = "open"           /\ (reopened = Len(said) \/ Len(said) = 1)
=============================================================================
