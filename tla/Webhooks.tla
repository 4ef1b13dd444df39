------------------------------ MODULE Webhooks ------------------------------
(***************************************************************************)
(* The endpoint a company has its events sent to: deliveries that take     *)
(* their time, and the counter that switches an endpoint off which keeps   *)
(* failing.                                                                *)
(***************************************************************************)
EXTENDS Naturals

CONSTANTS
  Sender,       \* deliveries that are under way at a time
  MaxFailing,   \* MAX_FAILURES
  MaxSent       \* bound: deliveries

ASSUME WebhooksBounds == MaxFailing \in Nat \ {0} /\ MaxSent \in Nat

VARIABLES
  endpoint,  \* the row: exists, enabled, failures
  delivery,  \* what each sender is doing
  streak,    \* deliveries that failed since the last that arrived
  crossed,   \* history: deliveries crossed since one arrived that had the endpoint to itself
  sentOut

hookVars == <<endpoint, delivery, streak, crossed, sentOut>>

NoDelivery == [pc |-> "none"]

\* The row and the count are what the columns allow.
WebhooksTypeOK ==
  /\ endpoint \in [exists : BOOLEAN, enabled : BOOLEAN, failures : Nat]
  /\ streak \in Nat /\ crossed \in BOOLEAN /\ sentOut \in 0 .. MaxSent

WebhooksInit ==
  /\ endpoint = [exists |-> TRUE, enabled |-> TRUE, failures |-> 0]
  /\ delivery = [s \in Sender |-> NoDelivery]
  /\ streak = 0 /\ crossed = FALSE /\ sentOut = 0

Others(s) == {t \in Sender \ {s} : delivery[t] # NoDelivery}

\* Those under way are no longer alone once another begins.
Starts(s) ==
  /\ delivery[s] = NoDelivery
  /\ sentOut < MaxSent
  /\ endpoint.exists
  /\ delivery' = [t \in Sender |->
       IF t = s THEN [pc |-> "calling", failures |-> endpoint.failures, alone |-> Others(s) = {}]
       ELSE IF t \in Others(s) THEN [delivery[t] EXCEPT !.alone = FALSE]
       ELSE NoDelivery]
  /\ crossed' = (crossed \/ Others(s) # {})
  /\ sentOut' = sentOut + 1
  /\ UNCHANGED <<endpoint, streak>>

\* emitEvent reads the endpoints that are enabled, with their counters.
EmitEvent(s) == endpoint.enabled /\ Starts(s)

\* testWebhook takes the endpoint as it is, also one that is switched off.
TestWebhook(s) == Starts(s)

\* deliver: the endpoint takes it, refuses it or does not answer in time.
Deliver(s) ==
  /\ delivery[s].pc = "calling"
  /\ \E ok \in BOOLEAN :
       /\ streak' = IF ok THEN 0 ELSE streak + 1
       /\ delivery' = [delivery EXCEPT ![s] =
                         [pc |-> "answered", ok |-> ok, failures |-> @.failures, alone |-> @.alone]]
  /\ UNCHANGED <<endpoint, crossed, sentOut>>

\* deliver: the counter it read before the call, one up or back to zero.
Failures(s) == IF delivery[s].ok THEN 0 ELSE delivery[s].failures + 1

NoteResult(s) ==
  /\ delivery[s].pc = "answered"
  /\ endpoint' = IF endpoint.exists
                 THEN [endpoint EXCEPT !.failures = Failures(s), !.enabled = Failures(s) < MaxFailing]
                 ELSE endpoint
  /\ delivery' = [delivery EXCEPT ![s] = NoDelivery]
  /\ crossed' = (crossed /\ ~(delivery[s].ok /\ delivery[s].alone))
  /\ UNCHANGED <<streak, sentOut>>

DeleteWebhook ==
  /\ endpoint.exists
  /\ endpoint' = [endpoint EXCEPT !.exists = FALSE]
  /\ UNCHANGED <<delivery, streak, crossed, sentOut>>

WebhooksNext ==
  \/ \E s \in Sender : EmitEvent(s) \/ TestWebhook(s) \/ Deliver(s) \/ NoteResult(s)
  \/ DeleteWebhook

WebhooksSpec == WebhooksInit /\ [][WebhooksNext]_hookVars

-----------------------------------------------------------------------------
(* Properties.                                                             *)

\* "An endpoint that keeps failing is switched off": when no delivery is under way,
\* an endpoint is on exactly when fewer than MAX_FAILURES failed in a row. deliver
\* writes a counter it read before the call, so deliveries that cross undo each
\* other's; the count is right again once one has arrived that crossed no other.
SwitchedOffInTime ==
  endpoint.exists /\ ~crossed /\ (\A s \in Sender : delivery[s] = NoDelivery)
    => /\ endpoint.failures = streak
       /\ endpoint.enabled <=> streak < MaxFailing
=============================================================================
