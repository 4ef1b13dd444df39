------------------------------ MODULE Imports -------------------------------
(***************************************************************************)
(* Moving in from another billing system: runImport writes the customers,  *)
(* services and domains of a bundle, looking each one up before it inserts *)
(* it, so that a run that stopped halfway can be repeated.                 *)
(***************************************************************************)
EXTENDS Naturals, FiniteSets

CONSTANTS
  Customer,   \* customers of the bundle, by email
  Contract,   \* its services, all of one product the catalogue does not have
  Name,       \* its domain names
  Importer,   \* runs at a time
  MaxRuns,    \* bound: runs
  MaxStops,   \* bound: runs that end halfway
  Early,      \* a customer signs in while a run is at their rows
  Side        \* two runs at the same time

ASSUME ImportsBounds ==
  /\ {MaxRuns, MaxStops} \subseteq Nat
  /\ {Early, Side} \subseteq BOOLEAN

VARIABLES
  user,      \* users with a row
  company,   \* company[c]: companies c owns
  catalogue, \* products with the bundle's name
  service,   \* service[r]: rows of services with the importRef of contract or name r
  held,      \* names with a row in domain_names
  importer,  \* what each run is doing
  torn,      \* torn[n]: history, runs that ended between the two rows of name n
  runs, halts, whole

importVars == <<user, company, catalogue, service, held, importer, torn, runs, halts, whole>>
importRows == <<user, company, catalogue, service, held>>

Parked == [pc |-> "none"]
Tables == {"customers", "contracts", "names"}

\* A customer has a user at the most, and a name a row; runs are at a table.
ImportsTypeOK ==
  /\ user \subseteq Customer /\ held \subseteq Name
  /\ company \in [Customer -> Nat] /\ service \in [Contract \cup Name -> Nat] /\ catalogue \in Nat
  /\ \A i \in Importer : importer[i] # Parked => importer[i].at \in Tables
  /\ whole \in BOOLEAN

ImportsInit ==
  /\ user \in SUBSET Customer
  /\ company = [c \in Customer |-> 0] \/ company = [c \in Customer |-> IF c \in user THEN 1 ELSE 0]
  /\ catalogue = 0
  /\ service = [r \in Contract \cup Name |-> 0]
  /\ held = {}
  /\ importer = [i \in Importer |-> Parked]
  /\ torn = [n \in Name |-> 0]
  /\ runs = 0 /\ halts = 0 /\ whole = FALSE

Stands(i, pc) == importer[i].pc = pc
TurnsTo(i, state) == importer' = [importer EXCEPT ![i] = state]

\* The row is done: on to the next of its table.
RowDone(i) ==
  TurnsTo(i, [pc |-> "look", at |-> importer[i].at,
           done |-> importer[i].done \cup {importer[i].row}, known |-> importer[i].known])

-----------------------------------------------------------------------------
StartImport(i) ==
  /\ importer[i] = Parked /\ (Side \/ \A j \in Importer : importer[j] = Parked)
  /\ runs < MaxRuns /\ runs' = runs + 1
  /\ TurnsTo(i, [pc |-> "look", at |-> "customers", done |-> {}, known |-> FALSE])
  /\ UNCHANGED <<importRows, torn, halts, whole>>

\* The loop over a table looks at one row after the other.
Finds(i, r, pc) ==
  TurnsTo(i, [pc |-> pc, at |-> importer[i].at, row |-> r, done |-> importer[i].done, known |-> importer[i].known])
Skips(i, r) == TurnsTo(i, [importer[i] EXCEPT !.done = @ \cup {r}])

LookAtCustomer(i) ==
  /\ Stands(i, "look") /\ importer[i].at = "customers"
  /\ \E c \in Customer \ importer[i].done :
       \/ c \notin user /\ Finds(i, c, "user")
       \/ c \in user /\ company[c] = 0 /\ Finds(i, c, "company")
       \/ c \in user /\ company[c] > 0 /\ Skips(i, c)
  /\ UNCHANGED <<importRows, torn, runs, halts, whole>>

\* Emails are unique: a user that exists by now ends the run.
InsertUser(i) ==
  /\ Stands(i, "user")
  /\ \/ /\ importer[i].row \notin user
        /\ user' = user \cup {importer[i].row}
        /\ TurnsTo(i, [importer[i] EXCEPT !.pc = "company"])
     \/ importer[i].row \in user /\ TurnsTo(i, Parked) /\ UNCHANGED user
  /\ UNCHANGED <<company, catalogue, service, held, torn, runs, halts, whole>>

\* createCompany: the company and its owner in one transaction.
InsertCompany(i) ==
  /\ Stands(i, "company")
  /\ company' = [company EXCEPT ![importer[i].row] = @ + 1]
  /\ RowDone(i)
  /\ UNCHANGED <<user, catalogue, service, held, torn, runs, halts, whole>>

\* Names of products are read before the services.
ReadCatalogue(i) ==
  /\ Stands(i, "look") /\ importer[i].at = "customers" /\ importer[i].done = Customer
  /\ TurnsTo(i, [pc |-> "look", at |-> "contracts", done |-> {}, known |-> catalogue > 0])
  /\ UNCHANGED <<importRows, torn, runs, halts, whole>>

LookAtContract(i) ==
  /\ Stands(i, "look") /\ importer[i].at = "contracts"
  /\ \E r \in Contract \ importer[i].done :
       \/ service[r] > 0 /\ Skips(i, r)
       \/ service[r] = 0 /\ Finds(i, r, IF importer[i].known THEN "service" ELSE "product")
  /\ UNCHANGED <<importRows, torn, runs, halts, whole>>

\* productFor: a hidden product, remembered for the rest of the run.
InsertProduct(i) ==
  /\ Stands(i, "product")
  /\ catalogue' = catalogue + 1
  /\ TurnsTo(i, [importer[i] EXCEPT !.pc = "service", !.known = TRUE])
  /\ UNCHANGED <<user, company, service, held, torn, runs, halts, whole>>

InsertService(i) ==
  /\ Stands(i, "service")
  /\ service' = [service EXCEPT ![importer[i].row] = @ + 1]
  /\ IF importer[i].at = "names" THEN TurnsTo(i, [importer[i] EXCEPT !.pc = "name"]) ELSE RowDone(i)
  /\ UNCHANGED <<user, company, catalogue, held, torn, runs, halts, whole>>

StartNames(i) ==
  /\ Stands(i, "look") /\ importer[i].at = "contracts" /\ importer[i].done = Contract
  /\ TurnsTo(i, [pc |-> "look", at |-> "names", done |-> {}, known |-> TRUE])
  /\ UNCHANGED <<importRows, torn, runs, halts, whole>>

\* A domain is looked up by its name, not by the reference its service keeps.
LookAtName(i) ==
  /\ Stands(i, "look") /\ importer[i].at = "names"
  /\ \E n \in Name \ importer[i].done :
       \/ n \in held /\ Skips(i, n)
       \/ n \notin held /\ Finds(i, n, "service")
  /\ UNCHANGED <<importRows, torn, runs, halts, whole>>

\* Names are unique: one that is there by now ends the run.
InsertName(i) ==
  /\ Stands(i, "name")
  /\ \/ /\ importer[i].row \notin held
        /\ held' = held \cup {importer[i].row}
        /\ RowDone(i)
     \/ importer[i].row \in held /\ TurnsTo(i, Parked) /\ UNCHANGED held
  /\ UNCHANGED <<user, company, catalogue, service, torn, runs, halts, whole>>

EndImport(i) ==
  /\ Stands(i, "look") /\ importer[i].at = "names" /\ importer[i].done = Name
  /\ whole' = TRUE
  /\ TurnsTo(i, Parked)
  /\ UNCHANGED <<importRows, torn, runs, halts>>

-----------------------------------------------------------------------------
\* The process ends, or the request is given up; it may be between the two rows
\* of a domain, which are not of one transaction.
StopsHalfway(i) ==
  /\ importer[i] # Parked
  /\ halts < MaxStops /\ halts' = halts + 1
  /\ torn' = IF Stands(i, "name") THEN [torn EXCEPT ![importer[i].row] = @ + 1] ELSE torn
  /\ TurnsTo(i, Parked)
  /\ UNCHANGED <<importRows, runs, whole>>

\* listAccounts: a user without a company gets one at the first page.
SignsIn(c) ==
  /\ c \in user /\ company[c] = 0
  /\ Early \/ \A i \in Importer : importer[i] = Parked
  /\ company' = [company EXCEPT ![c] = 1]
  /\ UNCHANGED <<user, catalogue, service, held, importer, torn, runs, halts, whole>>

ImportsNext ==
  \/ \E i \in Importer :
       \/ StartImport(i) \/ LookAtCustomer(i) \/ InsertUser(i) \/ InsertCompany(i)
       \/ ReadCatalogue(i) \/ LookAtContract(i) \/ InsertProduct(i) \/ InsertService(i)
       \/ StartNames(i) \/ LookAtName(i) \/ InsertName(i) \/ EndImport(i) \/ StopsHalfway(i)
  \/ \E c \in Customer : SignsIn(c)

ImportsSpec == ImportsInit /\ [][ImportsNext]_importVars

-----------------------------------------------------------------------------
(* Properties.                                                             *)

\* "Running the same import again adds nothing": whatever runs stopped where,
\* nobody has two companies and no contract two services. A domain does get a
\* second service, which is billed as the first is, for each run that ended between
\* its two rows: it is looked up by its name, whose row comes last.
NothingTwice ==
  /\ \A c \in Customer : company[c] <= 1
  /\ \A r \in Contract : service[r] <= 1
  /\ \A n \in Name : service[n] <= 1 + torn[n]
  /\ catalogue <= 1

\* "a partial run can simply be repeated": after one that went through,
\* everything is there, what earlier ones left half-written included.
RepeatCompletes ==
  whole => /\ user = Customer /\ \A c \in Customer : company[c] > 0
           /\ held = Name /\ \A r \in Contract \cup Name : service[r] > 0

ImportRight == NothingTwice /\ RepeatCompletes
=============================================================================
