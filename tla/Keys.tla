--------------------------------- MODULE Keys --------------------------------
(***************************************************************************)
(* What a server and the control plane know each other by: the token of a  *)
(* server, of which the row has a hash, and the key jobs are signed with,  *)
(* which its agent was given when it was installed.  The key is made by    *)
(* the first request that needs it, and is in one row of settings with the *)
(* token for statistics; a change of either writes the row whole.          *)
(***************************************************************************)
EXTENDS Naturals

CONSTANTS
  Rack,      \* servers
  Admin,     \* requests of administrators in progress
  MaxAsks,   \* bound: requests
  Newborn    \* requests overlap while there is no key yet

ASSUME KeysBounds == MaxAsks \in Nat /\ Newborn \in BOOLEAN /\ Rack # {}

VARIABLES
  group,   \* settings "platform": the signing key and metricsToken, 0 when empty
  hash,    \* nodes.tokenHash, 0 when the server has no row
  commands,   \* commands[n]: the commands that install the agent of a server
  agent,   \* agent[n]: the token and the key its agent was started with
  admin,   \* what each request is doing
  given,   \* history: the token for statistics that was given out last
  asks

keyVars == <<group, hash, commands, agent, admin, given, asks>>

KeyRow   == [key : 0 .. MaxAsks, scrape : 0 .. MaxAsks]
Command == [token : 0 .. MaxAsks, key : 0 .. MaxAsks]
NoKeys   == [key |-> 0, scrape |-> 0]
Asked(pc, n, mine, old) == [pc |-> pc, n |-> n, mine |-> mine, old |-> old]
NoRack  == CHOOSE n \in Rack : TRUE
Unasked == Asked("none", NoRack, 0, NoKeys)

KeysTypeOK ==
  /\ group \in KeyRow /\ hash \in [Rack -> 0 .. MaxAsks]
  /\ commands \in [Rack -> SUBSET Command] /\ agent \in [Rack -> Command]
  /\ \A a \in Admin : admin[a].pc \in {"none", "keys", "save", "write", "scrape"} /\ admin[a].old \in KeyRow

KeysInit ==
  /\ group = NoKeys
  /\ hash = [n \in Rack |-> 0] /\ commands = [n \in Rack |-> {}]
  /\ agent = [n \in Rack |-> [token |-> 0, key |-> 0]]
  /\ admin = [a \in Admin |-> Unasked] /\ given = 0 /\ asks = 0

-----------------------------------------------------------------------------
\* Tokens and keys are drawn at random: no two requests draw the same.
Asks(a) ==
  /\ admin[a].pc = "none" /\ asks < MaxAsks /\ asks' = asks + 1
  /\ Newborn \/ group.key > 0 \/ \A b \in Admin : admin[b].pc = "none"

Goes(a, pc) == admin' = [admin EXCEPT ![a].pc = pc]
Shows(a, key) ==
  /\ commands' = [commands EXCEPT ![admin[a].n] = @ \cup {[token |-> admin[a].mine, key |-> key]}]
  /\ admin' = [admin EXCEPT ![a] = Unasked]

\* createNode, createCloudNode and rotateNodeToken: the hash of a new token is stored.
NewToken(a, n) ==
  /\ Asks(a)
  /\ hash' = [hash EXCEPT ![n] = asks']
  /\ admin' = [admin EXCEPT ![a] = Asked("keys", n, asks', NoKeys)]
  /\ UNCHANGED <<group, commands, agent, given>>

\* signingKeys: the key there is goes into the command, or else one is made.
ReadKeys(a) ==
  /\ admin[a].pc = "keys"
  /\ IF group.key > 0 THEN Shows(a, group.key) ELSE Goes(a, "save") /\ UNCHANGED commands
  /\ UNCHANGED <<group, hash, agent, given, asks>>

\* updateSettings: the row is read once more ...
ReadGroup(a) ==
  /\ admin[a].pc = "save"
  /\ admin' = [admin EXCEPT ![a].pc = "write", ![a].old = group]
  /\ UNCHANGED <<group, hash, commands, agent, given, asks>>

\* ... and written whole, with what is new in it.
Merged(old, patch) == [k \in DOMAIN old |-> IF k \in DOMAIN patch THEN patch[k] ELSE old[k]]
WriteKeys(a) ==
  /\ admin[a].pc = "write"
  /\ group' = Merged(admin[a].old, [key |-> admin[a].mine])
  /\ Shows(a, admin[a].mine)
  /\ UNCHANGED <<hash, agent, given, asks>>

\* rotateMetricsToken: the row is read, and all of it is the patch.
ReadScrape(a) ==
  /\ Asks(a)
  /\ admin' = [admin EXCEPT ![a] = Asked("scrape", NoRack, asks', group)]
  /\ UNCHANGED <<group, hash, commands, agent, given>>
ScrapePatch(a, token) == [admin[a].old EXCEPT !.scrape = token]
RotateMetrics(a) ==
  /\ admin[a].pc = "scrape"
  /\ \E token \in {0, admin[a].mine} :
       group' = Merged(group, ScrapePatch(a, token)) /\ given' = token
  /\ admin' = [admin EXCEPT ![a] = Unasked]
  /\ UNCHANGED <<hash, commands, agent, asks>>

\* Somebody runs one of the commands that were shown on the server.
Install(n) ==
  /\ \E c \in commands[n] : agent' = [agent EXCEPT ![n] = c]
  /\ UNCHANGED <<group, hash, commands, admin, given, asks>>

KeysNext ==
  \/ \E a \in Admin : ReadKeys(a) \/ ReadGroup(a) \/ WriteKeys(a) \/ ReadScrape(a) \/ RotateMetrics(a)
  \/ \E a \in Admin : \E n \in Rack : NewToken(a, n)
  \/ \E n \in Rack : Install(n)

-----------------------------------------------------------------------------
\* authenticateAgent and Agent.reject.
LetIn(c, n) == hash[n] > 0 /\ c.token = hash[n]
Verifies(c) == c.key = group.key

\* A server whose agent is let in takes the jobs it is given: no change of settings
\* and no other server ever replaces the key it trusts (signingKeys, updateSettings).
JobsVerify == \A n \in Rack : \A c \in commands[n] \cup {agent[n]} : LetIn(c, n) => Verifies(c)

\* Of the commands shown for a server the one of its newest token lets it in, once
\* nobody is at work on it: a server can be connected again (rotateNodeToken).
CanConnect ==
  \A n \in Rack :
    hash[n] > 0 /\ (\A a \in Admin : admin[a].n = n => admin[a].pc \notin {"keys", "save", "write"})
      => \E c \in commands[n] : LetIn(c, n) /\ Verifies(c)

\* The token for statistics that was given out last is the one the endpoint takes:
\* making the key does not lose it (rotateMetricsToken, updateSettings).
ScrapeKept == group.scrape = given

KeysRight == JobsVerify /\ CanConnect /\ ScrapeKept
=============================================================================
