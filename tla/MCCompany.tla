----------------------------- MODULE MCCompany -----------------------------
(* What a company's account holds, for TLC: its invoices charged to saved  *)
(* cards and the periods they are for, the settings of its sites, its      *)
(* team, its tickets, the databases and addresses it has, a site it brings *)
(* along, and its servers: their keys, and what is told of them.           *)
(* Everything promised here says what never happens, so nothing has to be  *)
(* fair.  The parts share no variable: one of them moves in each behaviour.*)
EXTENDS Billing, Settings, Teams, Tickets, Cards, ManagedDb, Monitoring, AddressBook,
        Terms, Migrations, Keys, TLC

VARIABLE part

deskVars == <<setVars, teamVars, ticketVars, cardVars>>
hostVars == <<dbVars, monVars, bookVars>>
ownVars  == <<termVars, moveVars, keyVars>>
companyVars == <<vars, deskVars, hostVars, ownVars, part>>

CompanyInit ==
  /\ part \in {"charges", "settings", "team", "ticket", "cards", "databases", "notices", "addresses",
              "terms", "migrations", "keys"}
  /\ Init /\ SettingsInit /\ TeamsInit /\ TicketsInit /\ CardsInit
  /\ ManagedDbInit /\ MonitoringInit /\ AddressBookInit
  /\ TermsInit /\ MigrationsInit /\ KeysInit
  /\ part # "databases" => engine = "redis"
  /\ part # "terms" => begun = [m |-> Min(FirstMonth), d |-> Min(FirstDay)]
                       /\ length = Min(Months) /\ price = Min(Plan)

DeskNext ==
  \/ part = "settings" /\ SettingsNext /\ UNCHANGED <<teamVars, ticketVars, cardVars>>
  \/ part = "team"     /\ TeamsNext    /\ UNCHANGED <<setVars, ticketVars, cardVars>>
  \/ part = "ticket"   /\ TicketsNext  /\ UNCHANGED <<setVars, teamVars, cardVars>>
  \/ part = "cards"    /\ CardsNext    /\ UNCHANGED <<setVars, teamVars, ticketVars>>

HostNext ==
  \/ part = "databases" /\ ManagedDbNext   /\ UNCHANGED <<monVars, bookVars>>
  \/ part = "notices"   /\ MonitoringNext  /\ UNCHANGED <<dbVars, bookVars>>
  \/ part = "addresses" /\ AddressBookNext /\ UNCHANGED <<dbVars, monVars>>

OwnNext ==
  \/ part = "terms"      /\ TermsNext      /\ UNCHANGED <<moveVars, keyVars>>
  \/ part = "migrations" /\ MigrationsNext /\ UNCHANGED <<termVars, keyVars>>
  \/ part = "keys"       /\ KeysNext       /\ UNCHANGED <<termVars, moveVars>>

CompanyNext ==
  /\ UNCHANGED part
  /\ \/ part = "charges" /\ Next /\ UNCHANGED <<deskVars, hostVars, ownVars>>
     \/ DeskNext /\ UNCHANGED <<vars, hostVars, ownVars>>
     \/ HostNext /\ UNCHANGED <<vars, deskVars, ownVars>>
     \/ OwnNext  /\ UNCHANGED <<vars, deskVars, hostVars>>

CompanySpec == CompanyInit /\ [][CompanyNext]_companyVars

\* A part that does not move stays as its Init made it, and is looked at where it moves.
Where(p, F) == part = p => F

\* Every part's rows are what their columns allow.
CompanyTypeOK ==
  /\ Where("charges", TypeOK)
  /\ Where("settings", SettingsTypeOK) /\ Where("team", TeamsTypeOK)
  /\ Where("ticket", TicketsTypeOK)    /\ Where("cards", CardsTypeOK)
  /\ Where("databases", ManagedDbTypeOK)
  /\ Where("notices", MonitoringTypeOK)
  /\ Where("addresses", AddressBookTypeOK)
  /\ Where("terms", TermsTypeOK) /\ Where("migrations", MigrationsTypeOK) /\ Where("keys", KeysTypeOK)

\* Automatic charges take the money of an invoice once, and while services leave an
\* invoice its total stays the sum of its lines (chargeInvoice, requestCancellation).
ChargesRight == Where("charges", TotalIsLines /\ ChargedOnce)

\* What a customer sets up is what is served, and who may set it up is never in
\* doubt: a company has one owner, a link that was used is dead; what it pays with
\* is one card, and a question nobody answered is not shown as answered.
CompanyRight ==
  /\ Where("settings", SettingsRight)
  /\ Where("team", TeamRight)
  /\ Where("cards", CardsRight)
  /\ Where("ticket", NobodyOverheard)

\* What runs for a company is kept well: databases keep what was asked of them, no
\* address is given out twice, each incident is told once when it begins and once
\* when it ends, a site is imported whole or can be had back, and the jobs a server
\* is given verify; periods meet, and a change of plan costs what it is worth.
UpkeepRight ==
  /\ Where("databases", DatabaseRight)
  /\ Where("notices", NoticesRight)
  /\ Where("addresses", BookRight)
  /\ Where("terms", TermsRight)
  /\ Where("migrations", MigrationRight)
  /\ Where("keys", KeysRight)

\* Which invoice, payment or charger is which makes no difference.
Alike == Permutations(Invoice) \cup Permutations(Payment \ Hosted) \cup Permutations(Charger)
=============================================================================
