------------------------------- MODULE Teams --------------------------------
(***************************************************************************)
(* The people of one company: who was invited, who joined, who owns it.    *)
(* A person has at most one row (a unique index on company and address);   *)
(* a row that was deleted and inserted again is another row.               *)
(*                                                                         *)
(* Requests are sequences of statements at PostgreSQL's default isolation: *)
(* an update selects the rows it changes when it begins, waits for those   *)
(* another transaction has changed, and looks at them once more.           *)
(***************************************************************************)
EXTENDS Naturals

CONSTANTS
  Person,      \* people, by address
  Founder,     \* the one who created the company
  Seat,        \* requests at a time
  MaxInvites,  \* bound: invitations sent
  Together     \* requests of the team overlap

ASSUME TeamsAssumption ==
  /\ Founder \in Person
  /\ MaxInvites \in Nat
  /\ Together \in BOOLEAN

VARIABLES
  team,  \* company_members: the row of a person, if there is one
  seat,    \* requests in progress
  sent     \* invitations sent; each has its number for a link, and for a new row

teamVars == <<team, seat, sent>>

\* "developer" stands for billing as well: no request here tells them apart.
Role == {"owner", "admin", "developer"}
Row == [id : 0..MaxInvites, role : Role \cup {"none"}, joined : BOOLEAN, link : 0..MaxInvites, limited : BOOLEAN]
NoRow == [id |-> 0, role |-> "none", joined |-> FALSE, link |-> 0, limited |-> FALSE]
OwnerRow == [NoRow EXCEPT !.role = "owner", !.joined = TRUE]

Request ==
  [pc : {"idle", "invite", "accept", "pick", "demote", "promote"},
   on : Person, id : 0..MaxInvites, role : Role \ {"owner"}, rows : SUBSET Person]
NoRequest == [pc |-> "idle", on |-> Founder, id |-> 0, role |-> "developer", rows |-> {}]

TeamsTypeOK ==
  /\ team \in [Person -> Row]
  /\ seat \in [Seat -> Request]
  /\ sent \in 0..MaxInvites

\* createCompany: the company and the row of its owner, in one transaction.
TeamsInit ==
  /\ team = [p \in Person |-> IF p = Founder THEN OwnerRow ELSE NoRow]
  /\ seat = [s \in Seat |-> NoRequest]
  /\ sent = 0

Owns(p) == team[p].role = "owner"
There(p) == team[p].role # "none"

\* requireAccount("manage")
Manages(p) == team[p].joined /\ team[p].role \in {"owner", "admin"}

\* No request of the team is in progress, or they need not wait for one another.
TeamIdle == Together \/ \A s \in Seat : seat[s].pc = "idle"

\* Rows that other transactions than that of s have changed and not committed.
Locked(s) == UNION {seat[r].rows : r \in {q \in Seat \ {s} : seat[q].pc = "promote"}}

Ends(s) == seat' = [seat EXCEPT ![s] = NoRequest]

-----------------------------------------------------------------------------
(* Invitations.                                                            *)

\* inviteMember looks at the row of the address: an owner or a member is refused.
InviteLook(s, p) ==
  /\ TeamIdle /\ seat[s].pc = "idle"
  /\ sent < MaxInvites
  /\ \E by \in Person : Manages(by)
  /\ ~Owns(p) /\ ~team[p].joined
  /\ \E r \in Role \ {"owner"} : seat' = [seat EXCEPT ![s] = [NoRequest EXCEPT !.pc = "invite", !.on = p, !.role = r]]
  /\ UNCHANGED <<team, sent>>

\* The insert, which refreshes role and link of a row that is there already.
InviteWrite(s) ==
  LET p == seat[s].on
      row == IF There(p) THEN team[p] ELSE [NoRow EXCEPT !.id = sent + 1]
  IN /\ seat[s].pc = "invite"
     /\ p \notin Locked(s)
     /\ sent < MaxInvites
     /\ sent' = sent + 1
     /\ team' = [team EXCEPT ![p] = [row EXCEPT !.role = seat[s].role, !.link = sent + 1]]
     /\ Ends(s)

\* findInvite: a link that is neither used nor older than seven days.
AcceptLook(s, p) ==
  /\ TeamIdle /\ seat[s].pc = "idle"
  /\ There(p) /\ ~team[p].joined /\ team[p].link # 0
  /\ seat' = [seat EXCEPT ![s] = [NoRequest EXCEPT !.pc = "accept", !.on = p, !.id = team[p].id]]
  /\ UNCHANGED <<team, sent>>

\* acceptInvite writes the row it found, unless that is gone.
AcceptWrite(s) ==
  LET p == seat[s].on
  IN /\ seat[s].pc = "accept"
     /\ p \notin Locked(s)
     /\ team' = IF There(p) /\ team[p].id = seat[s].id
                  THEN [team EXCEPT ![p].joined = TRUE, ![p].link = 0]
                  ELSE team
     /\ Ends(s)
     /\ UNCHANGED sent

\* INVITE_DAYS pass: findInvite finds the link no longer.
InviteExpires(p) ==
  /\ team[p].link # 0
  /\ team' = [team EXCEPT ![p].link = 0]
  /\ UNCHANGED <<seat, sent>>

-----------------------------------------------------------------------------
(* Members.                                                                *)

\* memberOf: a row of the company that is not its owner's.
MemberOf(p) == There(p) /\ ~Owns(p)

ChangeRole(p) ==
  /\ TeamIdle
  /\ \E by \in Person : Manages(by)
  /\ MemberOf(p)
  /\ \E r \in Role \ {"owner"} : team' = [team EXCEPT ![p].role = r]
  /\ UNCHANGED <<seat, sent>>

SetMemberSites(p) ==
  /\ TeamIdle
  /\ \E by \in Person : Manages(by)
  /\ MemberOf(p)
  /\ \E only \in BOOLEAN : team' = [team EXCEPT ![p].limited = only]
  /\ UNCHANGED <<seat, sent>>

RemoveMember(p) ==
  /\ TeamIdle
  /\ \E by \in Person : Manages(by)
  /\ MemberOf(p)
  /\ team' = [team EXCEPT ![p] = NoRow]
  /\ UNCHANGED <<seat, sent>>

LeaveTeam(p) ==
  /\ TeamIdle
  /\ team[p].joined /\ ~Owns(p)
  /\ team' = [team EXCEPT ![p] = NoRow]
  /\ UNCHANGED <<seat, sent>>

-----------------------------------------------------------------------------
(* transferOwnership: one transaction of a select and two updates.         *)

TransferPick(s, p) ==
  /\ TeamIdle /\ seat[s].pc = "idle"
  /\ \E by \in Person : team[by].joined /\ Owns(by)
  /\ MemberOf(p) /\ team[p].joined
  /\ seat' = [seat EXCEPT ![s] = [NoRequest EXCEPT !.pc = "pick", !.on = p, !.id = team[p].id]]
  /\ UNCHANGED <<team, sent>>

\* The first update begins with the owners there are,
TransferSelect(s) ==
  /\ seat[s].pc = "pick"
  /\ seat' = [seat EXCEPT ![s].pc = "demote", ![s].rows = {p \in Person : Owns(p)}]
  /\ UNCHANGED <<team, sent>>

\* waits until none of them is locked, and takes those who are owners still.
TransferDemote(s) ==
  /\ seat[s].pc = "demote"
  /\ seat[s].rows \cap Locked(s) = {}
  /\ seat' = [seat EXCEPT ![s].pc = "promote", ![s].rows = {p \in @ : Owns(p)}]
  /\ UNCHANGED <<team, sent>>

\* The second update goes by the row's id; with the commit others see both.
TransferPromote(s) ==
  LET p == seat[s].on
      next == There(p) /\ team[p].id = seat[s].id
  IN /\ seat[s].pc = "promote"
     /\ p \notin Locked(s)
     /\ team' = [m \in Person |->
          IF m = p /\ next THEN [team[m] EXCEPT !.role = "owner", !.limited = FALSE]
          ELSE IF m \in seat[s].rows THEN [team[m] EXCEPT !.role = "admin"]
          ELSE team[m]]
     /\ Ends(s)
     /\ UNCHANGED sent

NextStatement(s) ==
  \/ InviteWrite(s) \/ AcceptWrite(s)
  \/ TransferSelect(s) \/ TransferDemote(s) \/ TransferPromote(s)

TeamsNext ==
  \/ \E s \in Seat : NextStatement(s) \/ \E p \in Person : InviteLook(s, p) \/ AcceptLook(s, p) \/ TransferPick(s, p)
  \/ \E p \in Person : InviteExpires(p) \/ ChangeRole(p) \/ SetMemberSites(p) \/ RemoveMember(p) \/ LeaveTeam(p)

TeamsSpec == TeamsInit /\ [][TeamsNext]_teamVars

-----------------------------------------------------------------------------
(* Properties.                                                             *)

\* "Only the owner can hand the company to another active member; the old owner
\* stays as administrator": a company has one owner, who has joined and whom
\* nothing is kept from, whoever is invited, leaves or is handed the company.
OneOwner ==
  \E p \in Person :
    /\ Owns(p) /\ team[p].joined /\ ~team[p].limited
    /\ \A q \in Person : Owns(q) => q = p

\* "Can be used once", "old links die": nobody who joined has a link left.
LinksDie == \A p \in Person : team[p].joined => team[p].link = 0

TeamRight == OneOwner /\ LinksDie
=============================================================================
