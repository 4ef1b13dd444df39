------------------------------ MODULE MCPanel ------------------------------
(* What customers subscribe to, for TLC: services, domain names and the    *)
(* names' records.  The parts share no variable: one of them moves in each *)
(* behaviour.                                                              *)
EXTENDS Subscriptions, Domains, Dns

VARIABLE part

panelVars == <<subVars, domVars, dnsVars, part>>

PanelInit ==
  /\ part \in {"subscriptions", "domains", "zones"}
  /\ SubscriptionsInit /\ DomainsInit /\ DnsInit
  /\ part # "domains" => \A n \in Name : registry[n].state = "free"

PanelNext ==
  /\ UNCHANGED part
  /\ \/ part = "subscriptions" /\ SubscriptionsNext /\ UNCHANGED <<domVars, dnsVars>>
     \/ part = "domains"       /\ DomainsNext       /\ UNCHANGED <<subVars, dnsVars>>
     \/ part = "zones"         /\ DnsNext           /\ UNCHANGED <<subVars, domVars>>

\* Days pass and runs start where the subscriptions move; nothing fair is
\* enabled in the other parts when they stay as they began.
Passes(A) == part = "subscriptions" /\ A
PanelSpec ==
  /\ PanelInit /\ [][PanelNext]_panelVars
  /\ \A a \in Actor : WF_subVars(Goes(a))
  /\ \A r \in Run : WF_subVars(Passes(StartRun(r)))
  /\ WF_subVars(Passes(NextDay))
  /\ DomainsFairness /\ DnsFairness

\* Services, invoices, names, orders and zones are what their columns allow.
PanelTypeOK == SubscriptionsTypeOK /\ DomainsTypeOK /\ DnsTypeOK

\* Nothing hangs: who leaves is let go, a transfer becomes a name, what the
\* registry has reaches its row, and name servers answer again.
PanelEnds == LeavingEnds /\ SettingsConverge /\ TransferBecomesActive /\ NamesAnswered
=============================================================================
