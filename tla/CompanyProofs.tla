---------------------------- MODULE CompanyProofs ----------------------------
(***************************************************************************)
(* What a company's account says of who owns it and what it pays with, and *)
(* what is kept for it: the notices of its servers, the addresses given    *)
(* out and the keys of the agents; for any number of each.                 *)
(***************************************************************************)
EXTENDS BillingProofs, SequenceTheorems

-----------------------------------------------------------------------------
(* A company has one owner, as long as the requests of its team come one   *)
(* after another.                                                          *)

\* One request at a time.
OneSeat == \A s, t \in Seat : seat[s].pc # "idle" /\ seat[t].pc # "idle" => s = t

\* What a request has read still holds when it writes: nobody writes beside it.
ReadsHold ==
  \A s \in Seat :
    LET p == seat[s].on
    IN /\ seat[s].pc = "invite" => ~Owns(p) /\ ~team[p].joined
       /\ seat[s].pc \in {"pick", "demote", "promote"} =>
            /\ There(p) /\ ~Owns(p) /\ team[p].joined
            /\ team[p].id = seat[s].id
       /\ seat[s].pc \in {"demote", "promote"} => seat[s].rows = {q \in Person : Owns(q)}

TeamInv == TeamsTypeOK /\ OneSeat /\ ReadsHold /\ OneOwner /\ LinksDie

LEMMA TeamInvInit ==
  ASSUME TeamsInit
  PROVE  TeamInv
<1> USE TeamsAssumption DEF TeamsInit, NoRequest, NoRow, OwnerRow
<1>1. Founder \in Person /\ 0 \in 0..MaxInvites
  OBVIOUS
<1>2a. OwnerRow \in Row /\ NoRow \in Row
  BY <1>1 DEF Row, Role
<1>2b. NoRequest \in Request
  BY <1>1 DEF Request, Role
<1>2c. TeamsTypeOK
  BY <1>1, <1>2a, <1>2b DEF TeamsTypeOK
<1>2. OneSeat /\ ReadsHold
  BY DEF OneSeat, ReadsHold
<1>3. OneOwner
  BY DEF OneOwner, Owns
<1>4. LinksDie
  BY DEF LinksDie
<1> QED BY <1>2c, <1>2, <1>3, <1>4 DEF TeamInv

\* A request that begins reads and writes nothing: what it read holds now.
LEMMA Beginning ==
  ASSUME ~Together, TeamInv, TeamIdle,
         NEW s \in Seat, NEW q \in Request, seat' = [seat EXCEPT ![s] = q],
         UNCHANGED <<team, sent>>,
         q.pc = "invite" => ~Owns(q.on) /\ ~team[q.on].joined,
         q.pc = "pick" => There(q.on) /\ ~Owns(q.on) /\ team[q.on].joined /\ team[q.on].id = q.id,
         q.pc \in {"invite", "accept", "pick"}
  PROVE  TeamInv'
<1>1. \A t \in Seat : seat[t].pc = "idle"
  BY DEF TeamIdle
<1>2. /\ TeamsTypeOK'
      /\ seat'[s] = q /\ \A t \in Seat : t # s => seat'[t] = seat[t]
  BY DEF TeamInv, TeamsTypeOK
<1>3. OneSeat'
  BY <1>1, <1>2 DEF OneSeat
<1>4. ReadsHold'
  BY <1>1, <1>2 DEF ReadsHold, Owns, There
<1>5. OneOwner' /\ LinksDie'
  BY DEF TeamInv, OneOwner, LinksDie, Owns
<1> QED BY <1>2, <1>3, <1>4, <1>5 DEF TeamInv

\* A change of a row that is not the owner's, when nobody's request is under way.
LEMMA Changing ==
  ASSUME ~Together, TeamInv, TeamIdle,
         NEW p \in Person, ~Owns(p),
         NEW r \in Row, r.role # "owner", r.joined => r.link = 0,
         team' = [team EXCEPT ![p] = r],
         UNCHANGED <<seat, sent>>
  PROVE  TeamInv'
<1>1. \A t \in Seat : seat'[t].pc = "idle"
  BY DEF TeamIdle
<1>2. /\ TeamsTypeOK'
      /\ team'[p] = r /\ \A q \in Person : q # p => team'[q] = team[q]
  BY DEF TeamInv, TeamsTypeOK
<1>3. OneSeat' /\ ReadsHold'
  BY <1>1 DEF OneSeat, ReadsHold
<1>4. OneOwner'
  BY <1>2 DEF TeamInv, OneOwner, Owns
<1>5. LinksDie'
  BY <1>2 DEF TeamInv, LinksDie
<1> QED BY <1>2, <1>3, <1>4, <1>5 DEF TeamInv

\* The end of a request that wrote a row which is not the owner's.
LEMMA Writing ==
  ASSUME TeamInv, NEW s \in Seat, seat[s].pc # "idle",
         NEW p \in Person, ~Owns(p),
         NEW r \in Row, r.role # "owner", r.joined => r.link = 0,
         team' = [team EXCEPT ![p] = r],
         seat' = [seat EXCEPT ![s] = NoRequest],
         sent' \in 0..MaxInvites
  PROVE  TeamInv'
<1>1. \A t \in Seat : seat'[t].pc = "idle"
  BY DEF TeamInv, TeamsTypeOK, OneSeat, NoRequest
<1>2. /\ NoRequest \in Request
      /\ team'[p] = r /\ \A q \in Person : q # p => team'[q] = team[q]
  BY TeamsAssumption DEF TeamInv, TeamsTypeOK, NoRequest, Request, Role
<1>3. TeamsTypeOK'
  BY <1>2 DEF TeamInv, TeamsTypeOK
<1>4. OneSeat' /\ ReadsHold'
  BY <1>1 DEF OneSeat, ReadsHold
<1>5. OneOwner'
  BY <1>2 DEF TeamInv, OneOwner, Owns
<1>6. LinksDie'
  BY <1>2 DEF TeamInv, LinksDie
<1> QED BY <1>3, <1>4, <1>5, <1>6 DEF TeamInv

\* An invitation, new or refreshed.
LEMMA InviteSteps ==
  ASSUME TeamInv, NEW s \in Seat, InviteWrite(s)
  PROVE  TeamInv'
<1> DEFINE p == seat[s].on
           row == IF There(p) THEN team[p] ELSE [NoRow EXCEPT !.id = sent + 1]
           r == [row EXCEPT !.role = seat[s].role, !.link = sent + 1]
<1>1. /\ seat[s].pc = "invite" /\ seat[s] \in Request
      /\ sent < MaxInvites /\ sent' = sent + 1 /\ sent \in 0..MaxInvites
      /\ team' = [team EXCEPT ![p] = r]
      /\ seat' = [seat EXCEPT ![s] = NoRequest]
  BY DEF TeamInv, TeamsTypeOK, InviteWrite, Ends
<1>2. ~Owns(p) /\ ~team[p].joined /\ p \in Person /\ team[p] \in Row
  BY <1>1 DEF TeamInv, TeamsTypeOK, ReadsHold, Request
<1>3. sent + 1 \in 0..MaxInvites
  BY <1>1, TeamsAssumption
<1>4. row \in Row /\ ~row.joined
  <2>1. NoRow \in Row /\ ~NoRow.joined
    BY TeamsAssumption DEF NoRow, Row
  <2>2. [NoRow EXCEPT !.id = sent + 1] \in Row /\ ~[NoRow EXCEPT !.id = sent + 1].joined
    BY <1>3, <2>1 DEF Row
  <2>3. CASE There(p)
    BY <1>2, <2>3
  <2>4. CASE ~There(p)
    <3>1. row = [NoRow EXCEPT !.id = sent + 1]
      BY <2>4
    <3> HIDE DEF row
    <3> QED BY <2>2, <3>1
  <2> QED BY <2>3, <2>4
<1>5. r \in Row /\ ~r.joined /\ r.role = seat[s].role
  BY <1>1, <1>3, <1>4 DEF Row, Request
<1>6. seat[s].role # "owner"
  BY <1>1 DEF Request
<1>7. sent' \in 0..MaxInvites /\ seat[s].pc # "idle" /\ r.role # "owner"
  BY <1>1, <1>3, <1>5, <1>6
<1> HIDE DEF p, row, r
<1> QED BY <1>1, <1>2, <1>5, <1>7, Writing

\* A link that is used; the row it was found in is there, nobody deleted it.
LEMMA AcceptSteps ==
  ASSUME TeamInv, NEW s \in Seat, AcceptWrite(s)
  PROVE  TeamInv'
<1> DEFINE p == seat[s].on
           r == [team[p] EXCEPT !.joined = TRUE, !.link = 0]
<1>1. /\ seat[s].pc = "accept" /\ seat[s] \in Request /\ p \in Person /\ team[p] \in Row
      /\ seat' = [seat EXCEPT ![s] = NoRequest] /\ sent' = sent /\ sent \in 0..MaxInvites
  BY DEF TeamInv, TeamsTypeOK, AcceptWrite, Ends, Request
<1>2. r \in Row /\ r.role = team[p].role /\ r.link = 0
  <2>1. 0 \in 0..MaxInvites
    BY TeamsAssumption
  <2> QED BY <1>1, <2>1 DEF Row
<1>3. \A t \in Seat : seat'[t].pc = "idle"
  BY <1>1 DEF TeamInv, TeamsTypeOK, OneSeat, NoRequest
<1>4. OneSeat' /\ ReadsHold'
  BY <1>3 DEF OneSeat, ReadsHold
<1>5. NoRequest \in Request
  BY TeamsAssumption DEF NoRequest, Request, Role
<1>6. CASE team' = team
  <2>1. TeamsTypeOK'
    BY <1>1, <1>5, <1>6 DEF TeamInv, TeamsTypeOK
  <2>2. OneOwner' /\ LinksDie'
    BY <1>6 DEF TeamInv, OneOwner, LinksDie, Owns
  <2> QED BY <2>1, <2>2, <1>4 DEF TeamInv
<1>7. CASE team' = [team EXCEPT ![p] = r]
  <2>1. /\ team'[p] = r /\ \A q \in Person : q # p => team'[q] = team[q]
        /\ TeamsTypeOK'
    BY <1>1, <1>2, <1>5, <1>7 DEF TeamInv, TeamsTypeOK
  <2>2. \A q \in Person : Owns(q)' <=> Owns(q)
    BY <1>2, <2>1 DEF Owns
  <2>3. r.joined /\ r.limited = team[p].limited
    BY <1>1 DEF Row
  <2>4. OneOwner'
    <3>1. PICK o \in Person : Owns(o) /\ team[o].joined /\ ~team[o].limited /\ \A q \in Person : Owns(q) => q = o
      BY DEF TeamInv, OneOwner
    <3>2. team'[o].joined /\ ~team'[o].limited
      BY <2>1, <2>3, <3>1
    <3> QED BY <2>2, <3>1, <3>2 DEF OneOwner
  <2>5. LinksDie'
    BY <1>2, <2>1 DEF TeamInv, LinksDie
  <2> QED BY <2>1, <2>4, <2>5, <1>4 DEF TeamInv
<1> QED BY <1>6, <1>7 DEF AcceptWrite

\* The three statements of a transfer.
LEMMA TransferSteps ==
  ASSUME TeamInv, NEW s \in Seat, TransferSelect(s) \/ TransferDemote(s) \/ TransferPromote(s)
  PROVE  TeamInv'
<1> DEFINE owners == {q \in Person : Owns(q)}
<1>1. ASSUME NEW q \in Request, seat' = [seat EXCEPT ![s] = q], UNCHANGED <<team, sent>>,
             seat[s].pc \in {"pick", "demote"}, q.pc \in {"demote", "promote"},
             q.on = seat[s].on, q.id = seat[s].id, q.rows = owners
      PROVE  TeamInv'
  <2>1. /\ TeamsTypeOK'
        /\ seat'[s] = q /\ \A t \in Seat : t # s => seat'[t] = seat[t]
    BY <1>1 DEF TeamInv, TeamsTypeOK
  <2>2. OneSeat'
    BY <1>1, <2>1 DEF TeamInv, OneSeat
  <2>3. \A t \in Seat : t # s => seat'[t].pc = "idle"
    BY <1>1, <2>1 DEF TeamInv, OneSeat
  <2>4. ReadsHold'
    BY <1>1, <2>1, <2>3 DEF TeamInv, ReadsHold, Owns, There
  <2>5. OneOwner' /\ LinksDie'
    BY <1>1 DEF TeamInv, OneOwner, LinksDie, Owns
  <2> QED BY <2>1, <2>2, <2>4, <2>5 DEF TeamInv
<1>2. seat[s] \in Request /\ owners \in SUBSET Person
  BY DEF TeamInv, TeamsTypeOK
<1>3. CASE TransferSelect(s)
  <2> DEFINE q == [seat[s] EXCEPT !.pc = "demote", !.rows = owners]
  <2>1. /\ q \in Request /\ q.pc = "demote" /\ q.on = seat[s].on /\ q.id = seat[s].id /\ q.rows = owners
    BY <1>2 DEF Request
  <2>2. /\ seat[s].pc = "pick" /\ UNCHANGED <<team, sent>>
        /\ seat' = [seat EXCEPT ![s] = q]
    BY <1>3, <1>2 DEF TransferSelect, TeamInv, TeamsTypeOK
  <2> HIDE DEF q, owners
  <2> QED BY <2>1, <2>2, <1>1
<1>4. CASE TransferDemote(s)
  <2> DEFINE still == {p \in seat[s].rows : Owns(p)}
             q == [seat[s] EXCEPT !.pc = "promote", !.rows = still]
  <2>1. seat[s].pc = "demote" /\ UNCHANGED <<team, sent>> /\ seat[s].rows = owners
    BY <1>4 DEF TransferDemote, TeamInv, ReadsHold
  <2>2. still = owners
    BY <2>1
  <2>3. /\ q \in Request /\ q.pc = "promote" /\ q.on = seat[s].on /\ q.id = seat[s].id /\ q.rows = owners
    BY <1>2, <2>2 DEF Request
  <2>4. seat' = [seat EXCEPT ![s] = q]
    BY <1>4, <1>2 DEF TransferDemote, TeamInv, TeamsTypeOK
  <2> HIDE DEF q, owners
  <2> QED BY <2>1, <2>3, <2>4, <1>1
<1>5. CASE TransferPromote(s)
  <2> DEFINE n == seat[s].on
  <2>1. /\ seat[s].pc = "promote" /\ n \in Person
        /\ There(n) /\ ~Owns(n) /\ team[n].joined /\ team[n].id = seat[s].id
        /\ seat[s].rows = owners
    BY <1>2, <1>5 DEF TransferPromote, TeamInv, ReadsHold, Request
  <2>2. /\ team' = [m \in Person |->
               IF m = n THEN [team[m] EXCEPT !.role = "owner", !.limited = FALSE]
               ELSE IF m \in owners THEN [team[m] EXCEPT !.role = "admin"]
               ELSE team[m]]
        /\ seat' = [seat EXCEPT ![s] = NoRequest] /\ sent' = sent
    BY <1>5, <2>1 DEF TransferPromote, Ends
  <2>3. \A t \in Seat : seat'[t].pc = "idle"
    BY <2>1, <2>2 DEF TeamInv, TeamsTypeOK, OneSeat, NoRequest
  <2>4. OneSeat' /\ ReadsHold'
    BY <2>3 DEF OneSeat, ReadsHold
  <2>5. NoRequest \in Request
    BY TeamsAssumption DEF NoRequest, Request, Role
  <2>6. \A m \in Person : team[m] \in Row
    BY DEF TeamInv, TeamsTypeOK
  <2>7. ASSUME NEW m \in Person
        PROVE  /\ team'[m] \in Row
               /\ team'[m].joined = team[m].joined /\ team'[m].link = team[m].link
               /\ team'[m].role = "owner" <=> m = n
    BY <2>2, <2>6 DEF Row, Role, Owns
  <2>8. TeamsTypeOK'
    BY <2>2, <2>5, <2>7 DEF TeamInv, TeamsTypeOK
  <2>9. team'[n].limited = FALSE
    BY <2>1, <2>2, <2>6 DEF Row
  <2>10. OneOwner'
    BY <2>1, <2>7, <2>9 DEF OneOwner, Owns
  <2>11. LinksDie'
    BY <2>7 DEF TeamInv, LinksDie
  <2> QED BY <2>4, <2>8, <2>10, <2>11 DEF TeamInv
<1> QED BY <1>3, <1>4, <1>5

LEMMA TeamInvNext ==
  ASSUME ~Together, TeamInv, [TeamsNext]_teamVars
  PROVE  TeamInv'
<1> USE DEF TeamInv, TeamsTypeOK
<1>1. ASSUME NEW s \in Seat, NEW p \in Person, InviteLook(s, p) PROVE TeamInv'
  <2>1. PICK r \in Role \ {"owner"} : seat' = [seat EXCEPT ![s] = [NoRequest EXCEPT !.pc = "invite", !.on = p, !.role = r]]
    BY <1>1 DEF InviteLook
  <2> DEFINE q == [NoRequest EXCEPT !.pc = "invite", !.on = p, !.role = r]
  <2>2. q \in Request /\ q.pc = "invite" /\ q.on = p
    <3>1. 0 \in 0..MaxInvites
      BY TeamsAssumption
    <3> QED BY <2>1, <3>1 DEF NoRequest, Request
  <2>3. TeamIdle /\ ~Owns(p) /\ ~team[p].joined /\ UNCHANGED <<team, sent>>
    BY <1>1 DEF InviteLook
  <2> HIDE DEF q, TeamInv, TeamsTypeOK
  <2> QED BY <2>1, <2>2, <2>3, Beginning DEF q
<1>2. ASSUME NEW s \in Seat, NEW p \in Person, AcceptLook(s, p) PROVE TeamInv'
  <2> DEFINE q == [NoRequest EXCEPT !.pc = "accept", !.on = p, !.id = team[p].id]
  <2>1. team[p].id \in 0..MaxInvites
    BY DEF Row
  <2>2. q \in Request /\ q.pc = "accept"
    BY <2>1, TeamsAssumption DEF NoRequest, Request, Role
  <2>3. TeamIdle /\ UNCHANGED <<team, sent>> /\ seat' = [seat EXCEPT ![s] = q]
    BY <1>2 DEF AcceptLook
  <2> HIDE DEF q, TeamInv, TeamsTypeOK
  <2> QED BY <2>2, <2>3, Beginning
<1>3. ASSUME NEW s \in Seat, NEW p \in Person, TransferPick(s, p) PROVE TeamInv'
  <2> DEFINE q == [NoRequest EXCEPT !.pc = "pick", !.on = p, !.id = team[p].id]
  <2>1. team[p].id \in 0..MaxInvites
    BY DEF Row
  <2>2. q \in Request /\ q.pc = "pick" /\ q.on = p /\ q.id = team[p].id
    BY <2>1, TeamsAssumption DEF NoRequest, Request, Role
  <2>3. /\ TeamIdle /\ UNCHANGED <<team, sent>> /\ seat' = [seat EXCEPT ![s] = q]
        /\ There(p) /\ ~Owns(p) /\ team[p].joined
    BY <1>3 DEF TransferPick, MemberOf
  <2> HIDE DEF q, TeamInv, TeamsTypeOK
  <2> QED BY <2>2, <2>3, Beginning
<1>4. ASSUME NEW p \in Person, InviteExpires(p) PROVE TeamInv'
  <2> DEFINE r == [team[p] EXCEPT !.link = 0]
  <2>1. /\ team' = [team EXCEPT ![p] = r] /\ UNCHANGED <<seat, sent>>
        /\ r \in Row /\ r.link = 0 /\ r.role = team[p].role /\ r.joined = team[p].joined
        /\ r.limited = team[p].limited /\ r.id = team[p].id
    BY <1>4, TeamsAssumption DEF InviteExpires, Row
  <2>2. /\ team'[p] = r /\ \A q \in Person : q # p => team'[q] = team[q]
        /\ TeamsTypeOK'
    BY <2>1
  <2> HIDE DEF r
  <2>3. \A q \in Person : (Owns(q)' <=> Owns(q)) /\ (There(q)' <=> There(q))
                         /\ team'[q].joined = team[q].joined /\ team'[q].id = team[q].id
                         /\ team'[q].limited = team[q].limited
    BY <2>1, <2>2 DEF Owns, There
  <2>4. OneSeat' /\ ReadsHold'
    <3>1. \A s \in Seat : seat[s].on \in Person
      BY DEF Request
    <3> QED BY <2>1, <2>3, <3>1 DEF OneSeat, ReadsHold
  <2>5. OneOwner' /\ LinksDie'
    BY <2>1, <2>2, <2>3 DEF OneOwner, LinksDie
  <2> QED BY <2>2, <2>4, <2>5
<1>5. ASSUME NEW p \in Person, ChangeRole(p) PROVE TeamInv'
  <2>1. PICK role \in Role \ {"owner"} : team' = [team EXCEPT ![p].role = role]
    BY <1>5 DEF ChangeRole
  <2> DEFINE r == [team[p] EXCEPT !.role = role]
  <2>2. /\ r \in Row /\ r.role # "owner" /\ (r.joined => r.link = 0)
        /\ team' = [team EXCEPT ![p] = r]
    BY <2>1 DEF Row, LinksDie
  <2>3. TeamIdle /\ ~Owns(p) /\ UNCHANGED <<seat, sent>>
    BY <1>5 DEF ChangeRole, MemberOf
  <2> HIDE DEF r, TeamInv, TeamsTypeOK
  <2> QED BY <2>2, <2>3, Changing
<1>6. ASSUME NEW p \in Person, SetMemberSites(p) PROVE TeamInv'
  <2>1. PICK only \in BOOLEAN : team' = [team EXCEPT ![p].limited = only]
    BY <1>6 DEF SetMemberSites
  <2> DEFINE r == [team[p] EXCEPT !.limited = only]
  <2>2. TeamIdle /\ ~Owns(p) /\ UNCHANGED <<seat, sent>>
    BY <1>6 DEF SetMemberSites, MemberOf
  <2>3. /\ r \in Row /\ r.role # "owner" /\ (r.joined => r.link = 0)
        /\ team' = [team EXCEPT ![p] = r]
    BY <2>1, <2>2 DEF Row, LinksDie, Owns
  <2> HIDE DEF r, TeamInv, TeamsTypeOK
  <2> QED BY <2>2, <2>3, Changing
<1>7. ASSUME NEW p \in Person, RemoveMember(p) \/ LeaveTeam(p) PROVE TeamInv'
  <2>1. TeamIdle /\ ~Owns(p) /\ UNCHANGED <<seat, sent>> /\ team' = [team EXCEPT ![p] = NoRow]
    BY <1>7 DEF RemoveMember, LeaveTeam, MemberOf
  <2>2. NoRow \in Row /\ NoRow.role # "owner" /\ ~NoRow.joined
    BY TeamsAssumption DEF NoRow, Row
  <2> HIDE DEF TeamInv, TeamsTypeOK
  <2> QED BY <2>1, <2>2, Changing
<1>8. CASE UNCHANGED teamVars
  BY <1>8 DEF teamVars, OneSeat, ReadsHold, OneOwner, LinksDie, Owns, There
<1> HIDE DEF TeamInv, TeamsTypeOK
<1> QED BY <1>1, <1>2, <1>3, <1>4, <1>5, <1>6, <1>7, <1>8, InviteSteps, AcceptSteps, TransferSteps
        DEF TeamsNext, NextStatement

\* Members, links and requests keep their types.
THEOREM TeamsTyped ==
  ASSUME ~Together
  PROVE  TeamsSpec => []TeamsTypeOK
<1>1. TeamsInit => TeamInv
  BY TeamInvInit
<1>2. TeamInv /\ [TeamsNext]_teamVars => TeamInv'
  BY TeamInvNext
<1>3. TeamInv => TeamsTypeOK
  BY DEF TeamInv
<1> QED BY <1>1, <1>2, <1>3, PTL DEF TeamsSpec

\* A company always has exactly one owner, who joined and whom nothing is kept from,
\* and a link is gone once it was used.
THEOREM CompanyHasOneOwner ==
  ASSUME ~Together
  PROVE  TeamsSpec => []TeamRight
<1>1. TeamsInit => TeamInv
  BY TeamInvInit
<1>2. TeamInv /\ [TeamsNext]_teamVars => TeamInv'
  BY TeamInvNext
<1>3. TeamInv => TeamRight
  BY DEF TeamInv, TeamRight
<1> QED BY <1>1, <1>2, <1>3, PTL DEF TeamsSpec

-----------------------------------------------------------------------------
(* One card is the default, as long as only the reports of one payment     *)
(* overlap and none comes after its card was removed.                      *)

\* Requests that are in progress together report the same payment.
Serial ==
  \A s, t \in Teller :
    ~Resting(s) /\ ~Resting(t) =>
      s = t \/ (teller[s].pc = "save" /\ teller[t].pc = "save" /\ teller[s].on = teller[t].on)

NoDefault == \A c \in Card : ~kept[c].chosen

\* What a request has read still holds.
Reads(t) ==
  /\ \A c \in Card :
       /\ At(t, "save", c) =>
            /\ stripe[c] = "attached"
            /\ IF teller[t].was THEN HasDefault ELSE \A d \in Card : kept[d].chosen => d = c
       /\ At(t, "choose", c) => kept[c].there
       /\ At(t, "detach", c) \/ At(t, "delete", c) =>
            kept[c].there /\ (teller[t].was <=> kept[c].chosen)
       /\ At(t, "name", c) => kept[c].there
  /\ teller[t].pc \in {"seek", "name"} => NoDefault

AtMostOne ==
  /\ \A c, d \in Card : kept[c].chosen /\ kept[d].chosen => c = d
  /\ \A c \in Card : kept[c].chosen => kept[c].there

\* While a new default is looked for there is none.
Chosen ==
  cuts = 0 => \/ \A c \in Card : ~kept[c].there
              \/ HasDefault
              \/ \E t \in Teller : teller[t].pc \in {"seek", "name"}

CardInv ==
  /\ CardsTypeOK
  /\ Serial
  /\ \A t \in Teller : Reads(t)
  /\ AtMostOne /\ Chosen /\ BothForget

LEMMA CardInvInit ==
  ASSUME CardsInit
  PROVE  CardInv
<1> USE CardsAssumption DEF CardsInit, NoCard, NoTask
<1>1. CardsTypeOK
  BY DEF CardsTypeOK, CardRow, CardTask, TellerPc
<1>2. Serial /\ \A t \in Teller : Reads(t)
  BY DEF Serial, Reads, Resting, At
<1>3. AtMostOne /\ Chosen /\ BothForget
  BY DEF AtMostOne, Chosen, BothForget
<1> QED BY <1>1, <1>2, <1>3 DEF CardInv

\* Types are kept by every step.
LEMMA CardTypes ==
  ASSUME CardsTypeOK, [CardsNext]_cardVars
  PROVE  CardsTypeOK'
<1> USE CardsAssumption DEF CardsTypeOK, CardRow, CardTask, TellerPc
<1>1. ASSUME NEW c \in Card, Checkout(c) PROVE CardsTypeOK'
  BY <1>1 DEF Checkout
<1>2. ASSUME NEW t \in Teller, NEW c \in Card, Remember(t, c) PROVE CardsTypeOK'
  <2>1. HasDefault \in BOOLEAN
    BY DEF HasDefault
  <2> QED BY <1>2, <2>1 DEF Remember, Serves
<1>3. ASSUME NEW t \in Teller, NEW c \in Card, SaveCard(t, c) PROVE CardsTypeOK'
  <2>1. \A b \in BOOLEAN : [there |-> TRUE, age |-> saves, chosen |-> b] \in CardRow
    OBVIOUS
  <2>2. (~teller[t].was) \in BOOLEAN
    OBVIOUS
  <2>3. kept' \in [Card -> CardRow] /\ saves' \in 0 .. MaxSaves
    <3> HIDE DEF CardRow
    <3>1. CASE kept[c].there
      BY <1>3, <3>1 DEF SaveCard
    <3>2. CASE ~kept[c].there
      <4> DEFINE r == [there |-> TRUE, age |-> saves, chosen |-> ~teller[t].was]
      <4>1. r \in CardRow /\ kept' = [kept EXCEPT ![c] = r] /\ saves < MaxSaves /\ saves' = saves + 1
        BY <1>3, <2>1, <2>2, <3>2 DEF SaveCard
      <4> HIDE DEF r
      <4> QED BY <4>1
    <3> QED BY <3>1, <3>2
  <2>4. UNCHANGED <<stripe, cuts>> /\ teller' = [teller EXCEPT ![t] = NoTask]
    BY <1>3 DEF SaveCard, Served
  <2> QED BY <2>3, <2>4 DEF NoTask
<1>4. ASSUME NEW t \in Teller, NEW c \in Card, FindCard(t, c) PROVE CardsTypeOK'
  BY <1>4 DEF FindCard, Serves
<1>5. ASSUME NEW t \in Teller, NEW c \in Card, ChooseCard(t, c) PROVE CardsTypeOK'
  BY <1>5, ZenonT(60) DEF ChooseCard, Served, NoTask
<1>6. ASSUME NEW t \in Teller, NEW c \in Card, RemoveCard(t, c) PROVE CardsTypeOK'
  BY <1>6 DEF RemoveCard, Serves
<1>7. ASSUME NEW t \in Teller, NEW c \in Card, DetachCard(t, c) PROVE CardsTypeOK'
  BY <1>7, SMTT(30) DEF DetachCard, GoesTo
<1>8. ASSUME NEW t \in Teller, NEW c \in Card, DeleteCard(t, c) PROVE CardsTypeOK'
  <2>1. UNCHANGED <<stripe, saves, cuts>> /\ kept' \in [Card -> CardRow]
    BY <1>8 DEF DeleteCard, NoCard
  <2>2. CASE GoesTo(t, "seek")
    <3>1. teller' \in [Teller -> CardTask]
      BY <2>2 DEF GoesTo
    <3> QED BY <2>1, <3>1
  <2>3. CASE Served(t)
    <3>1. teller' \in [Teller -> CardTask]
      BY <2>3 DEF Served, NoTask
    <3> QED BY <2>1, <3>1
  <2>4. GoesTo(t, "seek") \/ Served(t)
    BY <1>8 DEF DeleteCard
  <2> QED BY <2>2, <2>3, <2>4
<1>9. ASSUME NEW t \in Teller, NEW c \in Card, NameNext(t, c) PROVE CardsTypeOK'
  BY <1>9 DEF NameNext, Served, NoTask
<1>10. ASSUME NEW t \in Teller, SeekNext(t) PROVE CardsTypeOK'
  <2>1. ASSUME NEW c \in Card, teller' = [teller EXCEPT ![t].pc = "name", ![t].on = {c}] PROVE CardsTypeOK'
    BY <1>10, <2>1, ZenonT(60) DEF SeekNext
  <2>2. CASE Served(t)
    BY <1>10, <2>2 DEF SeekNext, Served, NoTask
  <2> QED BY <1>10, <2>1, <2>2 DEF SeekNext
<1>11. ASSUME NEW t \in Teller, CutShort(t) PROVE CardsTypeOK'
  BY <1>11 DEF CutShort, Served, NoTask
<1>12. CASE UNCHANGED cardVars
  BY <1>12 DEF cardVars
<1> QED BY <1>1, <1>2, <1>3, <1>4, <1>5, <1>6, <1>7, <1>8, <1>9, <1>10, <1>11, <1>12 DEF CardsNext

\* A request that begins stands alone, or reports what others report.
LEMMA CardBegins ==
  ASSUME ~Abreast, CardInv, NEW t \in Teller, NEW c \in Card, NEW b \in BOOLEAN,
         NEW pc \in {"save", "choose", "detach"},
         Serves(t, [pc |-> pc, on |-> {c}, was |-> b]),
         UNCHANGED <<kept, stripe, saves, cuts>>,
         pc = "save" => stripe[c] = "attached" /\ (b <=> HasDefault),
         pc # "save" => kept[c].there,
         pc = "detach" => (b <=> kept[c].chosen),
         CardsTypeOK'
  PROVE  CardInv'
<1> USE DEF CardInv
<1>1. /\ teller[t].pc = "idle"
      /\ \A s \in Teller : s # t => teller'[s] = teller[s]
      /\ teller'[t] = [pc |-> pc, on |-> {c}, was |-> b]
      /\ \A s \in Teller : Resting(s) \/ (teller[s].pc = "save" /\ pc = "save" /\ teller[s].on = {c})
  BY DEF Serves, CardsTypeOK, Resting
<1>2. Serial'
  <2>1. \A s \in Teller : ~Resting(s)' => s = t \/ (pc = "save" /\ teller'[s].pc = "save" /\ teller'[s].on = {c})
    BY <1>1 DEF Resting
  <2>2. teller'[t].pc = pc /\ teller'[t].on = {c}
    BY <1>1
  <2>3. ASSUME NEW r \in Teller, NEW s \in Teller, ~Resting(r)', ~Resting(s)', r # s
        PROVE  teller'[r].pc = "save" /\ teller'[s].pc = "save" /\ teller'[r].on = teller'[s].on
    BY <2>1, <2>2, <2>3
  <2> QED BY <2>3 DEF Serial
<1>3. (HasDefault <=> HasDefault') /\ (NoDefault <=> NoDefault')
  BY DEF HasDefault, NoDefault
<1>4. Reads(t)'
  <2>1. ~HasDefault => \A d \in Card : kept[d].chosen => d = c
    BY DEF HasDefault
  <2>2. \A d \in Card : {d} = {c} => d = c
    OBVIOUS
  <2>3. \A d \in Card, p \in TellerPc : At(t, p, d)' => p = pc /\ d = c
    BY <1>1, <2>2 DEF At
  <2>4. pc \notin {"delete", "seek", "name"}
    OBVIOUS
  <2> QED BY <1>1, <1>3, <2>1, <2>3, <2>4 DEF Reads, TellerPc
<1>5. ASSUME NEW s \in Teller, s # t PROVE Reads(s)'
  BY <1>1, <1>3, <1>5 DEF Reads, At
<1>6. AtMostOne' /\ Chosen' /\ BothForget'
  <2>1. \A s \in Teller : teller[s].pc \in {"seek", "name", "delete"} => s # t
    BY <1>1
  <2> QED BY <1>1, <1>3, <2>1 DEF AtMostOne, Chosen, BothForget, At
<1> QED BY <1>2, <1>4, <1>5, <1>6

\* When a request of a customer moves, no other is in progress.
LEMMA CardAlone ==
  ASSUME CardInv, NEW t \in Teller, teller[t].pc \notin {"idle", "save"}
  PROVE  \A s \in Teller : s # t => teller[s].pc = "idle"
BY DEF CardInv, Serial, Resting

\* Such a step, which may move the request or end it.
LEMMA CardMoves ==
  ASSUME CardInv, NEW t \in Teller, teller[t].pc # "save", ~Resting(t),
         CardsTypeOK', \A s \in Teller : s # t => teller'[s] = teller[s],
         Reads(t)', AtMostOne', Chosen', BothForget'
  PROVE  CardInv'
<1>1. \A s \in Teller : s # t => teller'[s].pc = "idle"
  BY CardAlone DEF Resting
<1>2. Serial'
  BY <1>1 DEF Serial, Resting
<1>3. \A s \in Teller : s # t => Reads(s)'
  BY <1>1 DEF Reads, At
<1> QED BY <1>2, <1>3 DEF CardInv

\* Every step keeps the invariant.
LEMMA CardStep ==
  ASSUME ~Abreast, ~Belated, CardInv, [CardsNext]_cardVars
  PROVE  CardInv'
<1> USE DEF CardInv
<1>0. CardsTypeOK'
  BY CardTypes
<1>1. ASSUME NEW c \in Card, Checkout(c) PROVE CardInv'
  <2>1. stripe[c] = "none" /\ \A d \in Card : d # c => stripe'[d] = stripe[d]
    BY <1>1 DEF Checkout, CardsTypeOK
  <2>2. stripe'[c] = "attached" /\ UNCHANGED <<kept, teller, cuts>>
    BY <1>1 DEF Checkout, CardsTypeOK
  <2>3. Serial' /\ AtMostOne' /\ Chosen' /\ (HasDefault <=> HasDefault') /\ (NoDefault <=> NoDefault')
    BY <2>2 DEF Serial, Resting, AtMostOne, Chosen, HasDefault, NoDefault
  <2>4. \A t \in Teller : Reads(t)'
    BY <2>1, <2>2, <2>3 DEF Reads, At
  <2>5. BothForget'
    BY <2>1, <2>2 DEF BothForget, At
  <2> QED BY <1>0, <2>3, <2>4, <2>5
<1>2. ASSUME NEW t \in Teller, NEW c \in Card, Remember(t, c) PROVE CardInv'
  <2>1. HasDefault \in BOOLEAN
    BY DEF HasDefault
  <2> DEFINE b == HasDefault
  <2>2. Serves(t, [pc |-> "save", on |-> {c}, was |-> b]) /\ stripe[c] = "attached"
        /\ UNCHANGED <<kept, stripe, saves, cuts>>
    BY <1>2 DEF Remember
  <2>3. b \in BOOLEAN /\ (b <=> HasDefault)
    BY <2>1
  <2> HIDE DEF b
  <2> QED BY <1>0, <2>2, <2>3, CardBegins
<1>3. ASSUME NEW t \in Teller, NEW c \in Card, SaveCard(t, c) PROVE CardInv'
  <2>1. /\ At(t, "save", c) /\ stripe[c] = "attached" /\ UNCHANGED <<stripe, cuts>>
        /\ IF teller[t].was THEN HasDefault ELSE \A d \in Card : kept[d].chosen => d = c
    BY <1>3 DEF SaveCard, Reads
  <2>2. teller'[t].pc = "idle" /\ \A s \in Teller : s # t => teller'[s] = teller[s]
    BY <1>3 DEF SaveCard, Served, CardsTypeOK, NoTask
  <2>3. Serial'
    BY <2>2 DEF Serial, Resting
  <2>4. \A d \in Card : d # c => kept'[d] = kept[d]
    BY <1>3 DEF SaveCard, CardsTypeOK
  <2>5. /\ kept'[c].there
        /\ kept[c].there => kept'[c] = kept[c]
        /\ ~kept[c].there => (kept'[c].chosen <=> ~teller[t].was)
    <3>1. CASE kept[c].there
      BY <1>3, <3>1 DEF SaveCard
    <3>2. CASE ~kept[c].there
      <4> DEFINE b == ~teller[t].was
      <4>1. b \in BOOLEAN /\ kept'[c] = [there |-> TRUE, age |-> saves, chosen |-> b]
        BY <1>3, <3>2 DEF SaveCard, CardsTypeOK
      <4>2. (b <=> ~teller[t].was)
        OBVIOUS
      <4> HIDE DEF b
      <4>3. kept'[c].there /\ (kept'[c].chosen <=> b)
        BY <4>1
      <4> QED BY <3>2, <4>2, <4>3
    <3> QED BY <3>1, <3>2
  <2>6. \A s \in Teller : s # t => teller[s].pc = "idle" \/ (teller[s].pc = "save" /\ teller[s].on = {c})
    BY <2>1 DEF Serial, Resting, At
  <2>7. AtMostOne'
    BY <2>1, <2>4, <2>5 DEF AtMostOne, HasDefault
  <2>8. HasDefault => HasDefault'
    BY <2>4, <2>5 DEF HasDefault, AtMostOne
  <2>9. Chosen'
    <3>1. CASE ~kept[c].there
      BY <3>1, <2>1, <2>5, <2>8 DEF Chosen, HasDefault
    <3>2. CASE kept[c].there
      BY <3>2, <2>1, <2>6, <2>8 DEF Chosen, At
    <3> QED BY <3>1, <3>2
  <2>10. ASSUME NEW s \in Teller PROVE Reads(s)'
    <3>1. CASE s = t
      BY <3>1, <2>2 DEF Reads, At
    <3>2. CASE s # t
      <4>1. teller'[s] = teller[s] /\ (teller[s].pc = "idle" \/ At(s, "save", c))
        BY <3>2, <2>2, <2>6 DEF At
      <4>2. CASE teller[s].pc = "idle"
        BY <4>1, <4>2 DEF Reads, At
      <4>3. CASE At(s, "save", c)
        <5>1. IF teller[s].was THEN HasDefault ELSE \A d \in Card : kept[d].chosen => d = c
          BY <4>3 DEF Reads
        <5>2. \A d \in Card, pc \in TellerPc : At(s, pc, d)' => d = c /\ pc = "save"
          BY <4>1, <4>3 DEF At
        <5>3. teller'[s].pc = "save"
          BY <4>1, <4>3 DEF At
        <5> QED BY <5>1, <5>2, <5>3, <4>1, <2>1, <2>4, <2>8 DEF Reads, TellerPc
      <4> QED BY <4>1, <4>2, <4>3
    <3> QED BY <3>1, <3>2
  <2>11. BothForget'
    <3>1. \A s \in Teller, d \in Card : At(s, "delete", d)' <=> At(s, "delete", d)
      BY <2>1, <2>2 DEF At
    <3> QED BY <3>1, <2>1, <2>4 DEF BothForget
  <2> QED BY <1>0, <2>3, <2>7, <2>9, <2>10, <2>11
<1>4. ASSUME NEW t \in Teller, NEW c \in Card, FindCard(t, c) PROVE CardInv'
  BY <1>0, <1>4, CardBegins DEF FindCard
<1>5. ASSUME NEW t \in Teller, NEW c \in Card, ChooseCard(t, c) PROVE CardInv'
  <2>1. At(t, "choose", c) /\ kept[c].there /\ UNCHANGED <<stripe, cuts>>
    BY <1>5 DEF ChooseCard, Reads
  <2>2. teller'[t].pc = "idle" /\ \A s \in Teller : s # t => teller'[s] = teller[s]
    BY <1>5 DEF ChooseCard, Served, CardsTypeOK, NoTask
  <2>3. \A d \in Card : kept'[d].there = kept[d].there /\ (kept'[d].chosen <=> d = c)
    <3>1. \A d \in Card : kept'[d] = [kept[d] EXCEPT !.chosen = (d = c /\ kept[d].there)]
      BY <1>5 DEF ChooseCard
    <3>2. \A d \in Card, b \in BOOLEAN :
            LET r == [kept[d] EXCEPT !.chosen = b] IN r.there = kept[d].there /\ (r.chosen <=> b)
      BY DEF CardsTypeOK, CardRow
    <3>3. ASSUME NEW d \in Card PROVE kept'[d].there = kept[d].there /\ (kept'[d].chosen <=> d = c)
      <4> DEFINE b == (d = c /\ kept[d].there)
      <4>1. b \in BOOLEAN /\ (b <=> d = c) /\ kept'[d] = [kept[d] EXCEPT !.chosen = b]
        BY <2>1, <3>1
      <4> HIDE DEF b
      <4> QED BY <3>2, <4>1
    <3> QED BY <3>3
  <2>4. Reads(t)' /\ AtMostOne' /\ Chosen'
    BY <2>1, <2>2, <2>3 DEF Reads, AtMostOne, Chosen, At, HasDefault
  <2>5. BothForget'
    <3>1. \A s \in Teller, d \in Card : At(s, "delete", d)' <=> At(s, "delete", d)
      BY <2>1, <2>2 DEF At
    <3> QED BY <3>1, <2>1, <2>3 DEF BothForget
  <2> HIDE DEF CardInv
  <2> QED BY <1>0, <2>1, <2>2, <2>4, <2>5, CardMoves DEF At, Resting
<1>6. ASSUME NEW t \in Teller, NEW c \in Card, RemoveCard(t, c) PROVE CardInv'
  <2> DEFINE b == kept[c].chosen
  <2>1. b \in BOOLEAN /\ kept[c].there
    BY <1>6 DEF RemoveCard, CardsTypeOK, CardRow
  <2>2. Serves(t, [pc |-> "detach", on |-> {c}, was |-> b]) /\ UNCHANGED <<kept, stripe, saves, cuts>>
    BY <1>6 DEF RemoveCard
  <2>3. b <=> kept[c].chosen
    BY <2>1
  <2> HIDE DEF b
  <2> QED BY <1>0, <2>1, <2>2, <2>3, CardBegins
<1>7. ASSUME NEW t \in Teller, NEW c \in Card, DetachCard(t, c) PROVE CardInv'
  <2>1. /\ At(t, "detach", c) /\ UNCHANGED kept
        /\ cuts' = 0 => cuts = 0
        /\ \A d \in Card : d # c => stripe'[d] = stripe[d]
    BY <1>7, CardsAssumption DEF DetachCard, CardsTypeOK
  <2>2. /\ teller'[t].pc = "delete" /\ teller'[t].on = {c} /\ teller'[t].was = teller[t].was
        /\ \A s \in Teller : s # t => teller'[s] = teller[s]
    <3>1. teller' = [teller EXCEPT ![t].pc = "delete"]
      BY <1>7 DEF DetachCard, GoesTo
    <3> QED BY <2>1, <3>1 DEF CardsTypeOK, CardTask, At
  <2>3. Reads(t)'
    BY <2>1, <2>2 DEF Reads, At
  <2>4. \A s \in Teller : teller[s].pc \in {"seek", "name", "delete"} => s # t
    BY <2>1 DEF At
  <2>5. AtMostOne' /\ Chosen'
    BY <2>1, <2>2, <2>4 DEF AtMostOne, Chosen, HasDefault
  <2>6. BothForget'
    BY <2>1, <2>2, <2>4 DEF BothForget, At
  <2> HIDE DEF CardInv
  <2> QED BY <1>0, <2>1, <2>2, <2>3, <2>5, <2>6, CardMoves DEF At, Resting
<1>8. ASSUME NEW t \in Teller, NEW c \in Card, DeleteCard(t, c) PROVE CardInv'
  <2>1. /\ At(t, "delete", c) /\ UNCHANGED <<stripe, cuts>>
        /\ teller[t].was <=> kept[c].chosen
        /\ \A d \in Card : d # c => kept'[d] = kept[d]
        /\ ~kept'[c].there /\ ~kept'[c].chosen
    BY <1>8 DEF DeleteCard, Reads, CardsTypeOK, NoCard
  <2>2. /\ teller'[t].pc = (IF teller[t].was THEN "seek" ELSE "idle")
        /\ \A s \in Teller : s # t => teller'[s] = teller[s]
    <3>1. CASE teller[t].was
      BY <1>8, <3>1 DEF DeleteCard, GoesTo, CardsTypeOK, CardTask
    <3>2. CASE ~teller[t].was
      BY <1>8, <3>2 DEF DeleteCard, Served, CardsTypeOK, NoTask
    <3> QED BY <3>1, <3>2
  <2>3. Reads(t)'
    BY <2>1, <2>2 DEF Reads, At, NoDefault, AtMostOne
  <2>4. AtMostOne'
    BY <2>1 DEF AtMostOne
  <2>5. Chosen'
    <3>1. CASE teller[t].was
      BY <3>1, <2>2 DEF Chosen
    <3>2. CASE ~teller[t].was
      BY <3>2, <2>1, <2>2, CardAlone DEF Chosen, HasDefault, At
    <3> QED BY <3>1, <3>2
  <2>6. BothForget'
    BY <2>1, <2>2 DEF BothForget, At
  <2> HIDE DEF CardInv
  <2> QED BY <1>0, <2>1, <2>2, <2>3, <2>4, <2>5, <2>6, CardMoves DEF At, Resting
<1>9. ASSUME NEW t \in Teller, NEW c \in Card, NameNext(t, c) PROVE CardInv'
  <2>1. At(t, "name", c) /\ kept[c].there /\ NoDefault /\ UNCHANGED <<stripe, cuts>>
    BY <1>9 DEF NameNext, Reads, At
  <2>2. teller'[t].pc = "idle" /\ \A s \in Teller : s # t => teller'[s] = teller[s]
    BY <1>9 DEF NameNext, Served, CardsTypeOK, NoTask
  <2>3. kept'[c].chosen /\ kept'[c].there /\ \A d \in Card : d # c => kept'[d] = kept[d]
    <3>1. kept' = [kept EXCEPT ![c].chosen = kept[c].there]
      BY <1>9 DEF NameNext
    <3> QED BY <3>1, <2>1 DEF CardsTypeOK, CardRow
  <2>4. Reads(t)' /\ AtMostOne' /\ Chosen'
    BY <2>1, <2>2, <2>3 DEF Reads, AtMostOne, Chosen, At, HasDefault, NoDefault
  <2>5. BothForget'
    <3>1. \A s \in Teller, d \in Card : At(s, "delete", d)' <=> At(s, "delete", d)
      BY <2>1, <2>2 DEF At
    <3> QED BY <3>1, <2>1, <2>3 DEF BothForget
  <2> HIDE DEF CardInv
  <2> QED BY <1>0, <2>1, <2>2, <2>4, <2>5, CardMoves DEF At, Resting
<1>10. ASSUME NEW t \in Teller, SeekNext(t) PROVE CardInv'
  <2>1. teller[t].pc = "seek" /\ NoDefault /\ UNCHANGED <<kept, stripe, cuts>>
    BY <1>10 DEF SeekNext, Reads
  <2>2. /\ \A s \in Teller : s # t => teller'[s] = teller[s]
        /\ \/ \E c \in Card : At(t, "name", c)' /\ kept[c].there
           \/ teller'[t].pc = "idle" /\ \A c \in Card : ~kept[c].there
    <3>1. ASSUME NEW c \in Card, Oldest(c), teller' = [teller EXCEPT ![t].pc = "name", ![t].on = {c}]
          PROVE  (\A s \in Teller : s # t => teller'[s] = teller[s]) /\ At(t, "name", c)' /\ kept[c].there
      BY <3>1 DEF CardsTypeOK, CardTask, At, Oldest
    <3>2. ASSUME Served(t)
          PROVE  (\A s \in Teller : s # t => teller'[s] = teller[s]) /\ teller'[t].pc = "idle"
      BY <3>2 DEF Served, CardsTypeOK, NoTask
    <3> QED BY <1>10, <3>1, <3>2 DEF SeekNext
  <2>3. Reads(t)'
    BY <2>1, <2>2 DEF Reads, At, NoDefault
  <2>4. AtMostOne' /\ Chosen'
    BY <2>1, <2>2 DEF AtMostOne, Chosen, At
  <2>5. BothForget'
    BY <2>1, <2>2 DEF BothForget, At
  <2> HIDE DEF CardInv
  <2> QED BY <1>0, <2>1, <2>2, <2>3, <2>4, <2>5, CardMoves DEF Resting
<1>11. ASSUME NEW t \in Teller, CutShort(t) PROVE CardInv'
  <2>1. /\ UNCHANGED <<kept, stripe>> /\ cuts' # 0
        /\ teller'[t].pc = "idle" /\ \A s \in Teller : s # t => teller'[s] = teller[s]
    BY <1>11, CardsAssumption DEF CutShort, Served, CardsTypeOK, NoTask
  <2>2. Serial' /\ AtMostOne' /\ Chosen' /\ BothForget'
    BY <2>1 DEF Serial, Resting, AtMostOne, Chosen, BothForget
  <2>3. (HasDefault <=> HasDefault') /\ (NoDefault <=> NoDefault')
    BY <2>1 DEF HasDefault, NoDefault
  <2>4. \A s \in Teller : Reads(s)'
    BY <2>1, <2>3 DEF Reads, At
  <2> QED BY <1>0, <2>2, <2>4
<1>12. CASE UNCHANGED cardVars
  <2>1. Serial' /\ AtMostOne' /\ Chosen' /\ BothForget' /\ (HasDefault <=> HasDefault') /\ (NoDefault <=> NoDefault')
    BY <1>12 DEF cardVars, Serial, Resting, AtMostOne, Chosen, BothForget, HasDefault, NoDefault, At
  <2>2. \A s \in Teller : Reads(s)'
    BY <1>12, <2>1 DEF cardVars, Reads, At
  <2> QED BY <1>0, <2>1, <2>2
<1> HIDE DEF CardInv
<1> QED BY <1>1, <1>2, <1>3, <1>4, <1>5, <1>6, <1>7, <1>8, <1>9, <1>10, <1>11, <1>12 DEF CardsNext

\* Rows, requests and what Stripe has keep their types.
THEOREM CardsTyped == CardsSpec => []CardsTypeOK
<1>1. CardsInit => CardsTypeOK
  BY CardInvInit DEF CardInv
<1>2. CardsTypeOK /\ [CardsNext]_cardVars => CardsTypeOK'
  BY CardTypes
<1> QED BY <1>1, <1>2, PTL DEF CardsSpec

\* There is one default as long as there are cards, and what has a row can be
\* charged, for any number of cards: while only reports of one payment overlap, and
\* none comes after the card was removed.
THEOREM OneCardIsCharged ==
  ASSUME ~Abreast, ~Belated
  PROVE  CardsSpec => []CardsRight
<1>1. CardsInit => CardInv
  BY CardInvInit
<1>2. CardInv /\ [CardsNext]_cardVars => CardInv'
  BY CardStep
<1>3. CardInv => CardsRight
  BY DEF CardInv, CardsRight, OneDefault, AtMostOne, Chosen, NobodyServed, Resting, HasDefault
<1> QED BY <1>1, <1>2, <1>3, PTL DEF CardsSpec

-----------------------------------------------------------------------------
(* Nobody is told twice of one beginning or one end, as long as one call   *)
(* of the cron ends before the next starts.                                *)

Check == [at : Nat, ok : BOOLEAN]
HostRow == [seen : {"never", "lately", "long ago"}, stats : SUBSET Trouble,
            disabled : BOOLEAN, alerts : SUBSET Problem]

\* What a call may be doing.
WatchState ==
  [pc : {"rest", "servers"}]
    \cup [pc : {"probe"}, at : Nat]
    \cup [pc : {"record"}, at : Nat, ok : BOOLEAN, previous : SUBSET Check]
    \cup [pc : {"tell"}, left : SUBSET Machine, rows : [Machine -> HostRow]]

MonKinds ==
  /\ watches \in Nat
  /\ checks \subseteq Check
  /\ incident \in Count
  /\ host \in [Machine -> HostRow]
  /\ notice \in [Machine -> [Problem -> Count]]
  /\ watch \in [Watch -> WatchState]

\* One call at a time, each later than every check there is.
OneCall == \A v, w \in Watch : watch[v] # Unstarted /\ watch[w] # Unstarted => v = w
Ordered ==
  /\ \A c \in checks : c.at <= watches
  /\ \A c, d \in checks : c.at = d.at => c = d
  /\ \A w \in Watch : watch[w].pc \in {"probe", "record"} =>
       /\ watch[w].at <= watches
       /\ \A c \in checks : c.at < watch[w].at

\* What a call has read is still so when it writes.
ReadIsCurrent ==
  \A w \in Watch :
    /\ watch[w].pc = "record" => watch[w].previous = Newest
    /\ watch[w].pc = "tell" => \A m \in watch[w].left : watch[w].rows[m].alerts = host[m].alerts

MonInv == MonKinds /\ OneCall /\ Ordered /\ ReadIsCurrent /\ NoticesRight

-----------------------------------------------------------------------------
(* The two newest checks when one more is newer than all.                  *)

\* Of two newest checks that failed, the newer one failed.
LEMMA LatestOfBoth ==
  ASSUME checks \subseteq Check, \A c, d \in checks : c.at = d.at => c = d, BothFailed(Newest)
  PROVE  LatestFailed(Newest)
<1>1. PICK a \in Newest, b \in Newest : a # b
  BY DEF BothFailed
<1>2. a \in checks /\ b \in checks /\ a.at # b.at
  BY <1>1 DEF Newest
<1>3. \A d \in checks : d.at \in Nat
  BY DEF Check
<1>4. \A x, y \in Newest : x.at > y.at => \A d \in Newest : d.at <= x.at
  <2>1. SUFFICES ASSUME NEW x \in Newest, NEW y \in Newest, x.at > y.at, NEW d \in Newest, ~(d.at <= x.at)
                 PROVE  FALSE
    OBVIOUS
  <2>2. x \in checks /\ y \in checks /\ d \in checks
    BY <2>1 DEF Newest
  <2>3. d.at > y.at /\ d.at > x.at
    BY <1>3, <2>1, <2>2
  <2>4. d = x
    BY <2>1, <2>2, <2>3 DEF Newest
  <2> QED BY <1>3, <2>2, <2>3, <2>4
<1>5. a.at > b.at \/ b.at > a.at
  BY <1>2, <1>3
<1> QED BY <1>1, <1>4, <1>5 DEF BothFailed, LatestFailed

\* After a new check c, both newest failed exactly when c and the latest did.
LEMMA OneMoreCheck ==
  ASSUME checks \subseteq Check, checks' \subseteq Check,
         \A d, e \in checks : d.at = e.at => d = e,
         NEW c \in Check, \A d \in checks : d.at < c.at,
         checks' = checks \cup {c}
  PROVE  BothFailed(Newest') <=> ~c.ok /\ LatestFailed(Newest)
<1>0. \A d \in checks' : d.at \in Nat
  BY DEF Check
<1>1. c \in Newest' /\ c \notin checks
  BY <1>0 DEF Newest
<1>2. ASSUME ~c.ok, LatestFailed(Newest) PROVE BothFailed(Newest')
  <2>1. PICK a \in Newest : ~a.ok /\ \A d \in Newest : d.at <= a.at
    BY <1>2 DEF LatestFailed
  <2>2. a \in checks /\ \A d, e \in checks : d.at > a.at /\ e.at > a.at => d = e
    BY DEF Newest
  <2>3. ASSUME NEW d \in checks PROVE d.at <= a.at
    <3>1. CASE d.at > a.at
      <4>1. \A e, f \in checks : e.at > d.at /\ f.at > d.at => e = f
        BY <1>0, <2>2, <3>1
      <4>2. d \in Newest
        BY <4>1 DEF Newest
      <4> QED BY <1>0, <2>1, <2>2, <3>1, <4>2
    <3> QED BY <1>0, <2>2, <3>1
  <2>4. a \in Newest'
    <3>1. \A d \in checks' : d.at > a.at => d = c
      BY <1>0, <2>2, <2>3
    <3> QED BY <2>2, <3>1 DEF Newest
  <2>5. \A d \in Newest' : ~d.ok
    <3>1. SUFFICES ASSUME NEW d \in Newest', d # c PROVE d = a
      BY <1>2, <2>1
    <3>2. d \in checks /\ a \in checks /\ a \in checks' /\ c \in checks'
      BY <2>2, <3>1 DEF Newest
    <3>3. ~(a.at > d.at)
      <4>1. a # c /\ c.at > d.at
        BY <1>1, <3>2
      <4> QED BY <3>2, <4>1 DEF Newest
    <3>4. d.at = a.at
      BY <1>0, <2>3, <3>2, <3>3
    <3> QED BY <3>2, <3>4
  <2> QED BY <1>1, <2>2, <2>4, <2>5 DEF BothFailed
<1>3. ASSUME BothFailed(Newest') PROVE ~c.ok /\ LatestFailed(Newest)
  <2>1. ~c.ok
    BY <1>1, <1>3 DEF BothFailed
  <2>2. PICK a \in Newest' : a # c
    BY <1>3 DEF BothFailed
  <2>3. a \in checks /\ ~a.ok
    BY <1>3, <2>2 DEF BothFailed, Newest
  <2>4. \A d \in checks : ~(d.at > a.at)
    <3>1. SUFFICES ASSUME NEW d \in checks, d.at > a.at PROVE FALSE
      OBVIOUS
    <3>2. c.at > a.at /\ d # c
      BY <1>0, <1>1, <2>3, <3>1
    <3> QED BY <2>2, <3>1, <3>2 DEF Newest
  <2>5. a \in Newest
    BY <2>3, <2>4 DEF Newest
  <2>6. \A d \in Newest : d.at <= a.at
    BY <1>0, <2>3, <2>4 DEF Newest
  <2> QED BY <2>1, <2>3, <2>5, <2>6 DEF LatestFailed
<1> QED BY <1>2, <1>3
-----------------------------------------------------------------------------
(* The invariant.                                                          *)

\* Steps that leave the checks alone leave the newest ones alone.
LEMMA SameNewest ==
  ASSUME checks' = checks
  PROVE  Newest' = Newest /\ (BothFailed(Newest))' = BothFailed(Newest)
BY DEF Newest, BothFailed

LEMMA MonInvInit ==
  ASSUME MonitoringInit
  PROVE  MonInv
<1>1. MonKinds
  BY DEF MonitoringInit, MonKinds, Count, NoNotice, HostRow, WatchState, Unstarted
<1>2. OneCall /\ Ordered /\ ReadIsCurrent
  BY DEF MonitoringInit, OneCall, Ordered, ReadIsCurrent, Unstarted
<1>3. NoticesRight
  BY DEF MonitoringInit, NoticesRight, IncidentsPaired, AlertsPaired, NoNotice, BothFailed, Newest
<1> QED BY <1>1, <1>2, <1>3 DEF MonInv

\* The site stops or a server changes: its alerts, the checks and the calls stay.
LEMMA WorldSteps ==
  ASSUME MonInv, UNCHANGED <<checks, incident, notice, watch, watches>>,
         host' \in [Machine -> HostRow], \A m \in Machine : host'[m].alerts = host[m].alerts
  PROVE  MonInv'
<1>1. Newest' = Newest /\ (BothFailed(Newest))' = BothFailed(Newest)
  BY SameNewest
<1>2. MonKinds' /\ OneCall' /\ Ordered'
  BY DEF MonInv, MonKinds, OneCall, Ordered
<1>3. ReadIsCurrent'
  <2>1. \A w \in Watch : watch[w].pc = "tell" => watch[w].left \subseteq Machine
    BY DEF MonInv, MonKinds, WatchState
  <2> QED BY <1>1, <2>1 DEF MonInv, ReadIsCurrent
<1>4. NoticesRight'
  BY <1>1 DEF MonInv, NoticesRight, IncidentsPaired, AlertsPaired
<1> QED BY <1>2, <1>3, <1>4 DEF MonInv

LEMMA SiteSteps ==
  ASSUME MonInv, SiteStops
  PROVE  MonInv'
<1>1. host' = host /\ UNCHANGED <<checks, incident, notice, watch, watches>>
  BY DEF SiteStops
<1> QED BY <1>1, WorldSteps DEF MonInv, MonKinds

LEMMA HostSteps ==
  ASSUME MonInv, NEW m \in Machine, Heartbeat(m) \/ FallsSilent(m) \/ SwitchMachine(m)
  PROVE  MonInv'
<1>1. host \in [Machine -> HostRow]
  BY DEF MonInv, MonKinds
<1>2. PICK row \in HostRow : Changes(m, row) /\ row.alerts = host[m].alerts
  <2>0. host[m] \in HostRow
    BY <1>1
  <2>1. CASE Heartbeat(m)
    <3>1. PICK s \in SUBSET Trouble : Changes(m, [host[m] EXCEPT !.seen = "lately", !.stats = s])
      BY <2>1 DEF Heartbeat
    <3>2. /\ [host[m] EXCEPT !.seen = "lately", !.stats = s] \in HostRow
          /\ [host[m] EXCEPT !.seen = "lately", !.stats = s].alerts = host[m].alerts
      BY <2>0 DEF HostRow
    <3> QED BY <3>1, <3>2
  <2>2. CASE FallsSilent(m)
    <3>1. /\ [host[m] EXCEPT !.seen = "long ago"] \in HostRow
          /\ [host[m] EXCEPT !.seen = "long ago"].alerts = host[m].alerts
      BY <2>0 DEF HostRow
    <3> QED BY <2>2, <3>1 DEF FallsSilent
  <2>3. CASE SwitchMachine(m)
    <3>1. /\ [host[m] EXCEPT !.disabled = ~@] \in HostRow
          /\ [host[m] EXCEPT !.disabled = ~@].alerts = host[m].alerts
      BY <2>0 DEF HostRow
    <3> QED BY <2>3, <3>1 DEF SwitchMachine
  <2> QED BY <2>1, <2>2, <2>3
<1>3. /\ host' \in [Machine -> HostRow]
      /\ \A n \in Machine : host'[n].alerts = host[n].alerts
  BY <1>1, <1>2 DEF Changes
<1>4. UNCHANGED <<checks, incident, notice, watch, watches>>
  BY <1>2 DEF Changes
<1> QED BY <1>3, <1>4, WorldSteps

LEMMA StartSteps ==
  ASSUME ~Crowded, MonInv, NEW w \in Watch, StartWatch(w)
  PROVE  MonInv'
<1>1. /\ watches' = watches + 1 /\ UNCHANGED <<checks, incident, host, notice>>
      /\ \A v \in Watch : watch[v] = Unstarted
      /\ watch' = [watch EXCEPT ![w] = watch'[w]]
      /\ watch'[w] \in {[pc |-> "probe", at |-> watches'], [pc |-> "servers"]}
  BY DEF StartWatch, MonInv, MonKinds
<1>2. Newest' = Newest /\ (BothFailed(Newest))' = BothFailed(Newest)
  BY <1>1, SameNewest
<1>3. watches \in Nat /\ watch \in [Watch -> WatchState]
  BY DEF MonInv, MonKinds
<1>4. MonKinds'
  <2>1. watch' \in [Watch -> WatchState]
    BY <1>1, <1>3 DEF WatchState
  <2> QED BY <1>1, <1>3, <2>1 DEF MonInv, MonKinds
<1>5. \A v \in Watch : v # w => watch'[v] = Unstarted
  BY <1>1, <1>3
<1>6. OneCall'
  BY <1>5 DEF OneCall
<1>7. Ordered'
  <2>1. \A c \in checks : c.at \in Nat /\ c.at <= watches
    BY DEF MonInv, MonKinds, Check, Ordered
  <2>2. watch'[w].pc \in {"probe", "record"} => watch'[w].at = watches'
    BY <1>1
  <2>3. \A c, d \in checks : c.at = d.at => c = d
    BY DEF MonInv, Ordered
  <2> QED BY <1>1, <1>3, <1>5, <2>1, <2>2, <2>3 DEF Ordered, Unstarted
<1>8. ReadIsCurrent'
  BY <1>1, <1>5 DEF ReadIsCurrent, Unstarted
<1>9. NoticesRight'
  BY <1>1, <1>2 DEF MonInv, NoticesRight, IncidentsPaired, AlertsPaired
<1> QED BY <1>4, <1>6, <1>7, <1>8, <1>9 DEF MonInv

\* A call at work moves on: the others rest, and nothing is written.
LEMMA QuietSteps ==
  ASSUME MonInv, NEW w \in Watch, watch[w] # Unstarted,
         UNCHANGED <<checks, incident, host, notice, watches>>,
         NEW s \in WatchState, watch' = [watch EXCEPT ![w] = s],
         s.pc \in {"probe", "record"} => watch[w].pc \in {"probe", "record"} /\ s.at = watch[w].at,
         s.pc = "record" => s.previous = Newest,
         s.pc = "tell" => \A m \in s.left : s.rows[m].alerts = host[m].alerts
  PROVE  MonInv'
<1>1. Newest' = Newest /\ (BothFailed(Newest))' = BothFailed(Newest)
  BY SameNewest
<1>2. watch \in [Watch -> WatchState]
  BY DEF MonInv, MonKinds
<1>3. watch'[w] = s /\ \A v \in Watch : v # w => watch'[v] = watch[v]
  BY <1>2
<1>4. MonKinds'
  BY <1>2 DEF MonInv, MonKinds
<1>5. OneCall'
  BY <1>3 DEF MonInv, OneCall
<1>6. Ordered'
  <2>1. \A v \in Watch : watch'[v].pc \in {"probe", "record"} =>
          watch[v].pc \in {"probe", "record"} /\ watch'[v].at = watch[v].at
    BY <1>3
  <2> QED BY <2>1 DEF MonInv, Ordered
<1>7. ReadIsCurrent'
  BY <1>1, <1>3 DEF MonInv, ReadIsCurrent
<1>8. NoticesRight'
  BY <1>1 DEF MonInv, NoticesRight, IncidentsPaired, AlertsPaired
<1> QED BY <1>4, <1>5, <1>6, <1>7, <1>8 DEF MonInv

LEMMA ReadingSteps ==
  ASSUME MonInv, NEW w \in Watch, Probe(w) \/ ReadServers(w) \/ EndWatch(w)
  PROVE  MonInv'
<1>1. watch[w] \in WatchState /\ Newest \subseteq Check /\ host \in [Machine -> HostRow]
  BY DEF MonInv, MonKinds, Newest
<1>2. CASE Probe(w)
  <2>1. PICK up \in BOOLEAN :
          watch' = [watch EXCEPT ![w] = [pc |-> "record", at |-> watch[w].at, ok |-> up, previous |-> Newest]]
    BY <1>2, <1>1 DEF Probe, MonInv, MonKinds
  <2> DEFINE s == [pc |-> "record", at |-> watch[w].at, ok |-> up, previous |-> Newest]
  <2>2. watch[w].pc = "probe" /\ watch[w] # Unstarted /\ UNCHANGED <<checks, incident, host, notice, watches>>
    BY <1>2 DEF Probe, Unstarted
  <2>3. s \in WatchState
    BY <1>1, <2>2 DEF WatchState
  <2>4. s.pc = "record" /\ s.at = watch[w].at /\ s.previous = Newest
    OBVIOUS
  <2>5. watch' = [watch EXCEPT ![w] = s]
    BY <2>1
  <2> HIDE DEF s
  <2> QED BY <2>2, <2>3, <2>4, <2>5, QuietSteps
<1>3. CASE ReadServers(w)
  <2> DEFINE s == [pc |-> "tell", left |-> {m \in Machine : ~host[m].disabled}, rows |-> host]
  <2>1. watch' = [watch EXCEPT ![w] = s] /\ UNCHANGED <<checks, incident, host, notice, watches>>
    BY <1>3 DEF ReadServers
  <2>2. watch[w] # Unstarted
    BY <1>3 DEF ReadServers, Unstarted
  <2>3. s \in WatchState
    BY <1>1 DEF WatchState
  <2>4. s.pc = "tell" /\ \A m \in s.left : s.rows[m].alerts = host[m].alerts
    OBVIOUS
  <2> HIDE DEF s
  <2> QED BY <2>1, <2>2, <2>3, <2>4, QuietSteps
<1>4. CASE EndWatch(w)
  <2>1. /\ watch' = [watch EXCEPT ![w] = Unstarted] /\ watch[w] # Unstarted
        /\ UNCHANGED <<checks, incident, host, notice, watches>>
    BY <1>4 DEF EndWatch, Unstarted
  <2>2. Unstarted \in WatchState /\ Unstarted.pc = "rest"
    BY DEF Unstarted, WatchState
  <2> QED BY <2>1, <2>2, QuietSteps
<1> QED BY <1>2, <1>3, <1>4

LEMMA RecordSteps ==
  ASSUME MonInv, NEW w \in Watch, Record(w)
  PROVE  MonInv'
<1> DEFINE c == [at |-> watch[w].at, ok |-> watch[w].ok]
<1>1. /\ watch[w].pc = "record" /\ watch[w] \in WatchState /\ watch \in [Watch -> WatchState]
      /\ checks' = checks \cup {c} /\ watch' = [watch EXCEPT ![w] = [pc |-> "servers"]]
      /\ UNCHANGED <<host, notice, watches>>
  BY DEF Record, MonInv, MonKinds
<1>2. c \in Check /\ watch[w].ok \in BOOLEAN
  BY <1>1 DEF WatchState, Check
<1>3. /\ checks \subseteq Check /\ \A d, e \in checks : d.at = e.at => d = e
      /\ \A d \in checks : d.at < c.at
      /\ c.at <= watches /\ watches \in Nat
      /\ watch[w].previous = Newest
  BY <1>1 DEF MonInv, MonKinds, Ordered, ReadIsCurrent
<1>4. checks' \subseteq Check
  BY <1>1, <1>2, <1>3
<1>5. (BothFailed(Newest))' <=> ~c.ok /\ LatestFailed(Newest)
  BY <1>1, <1>2, <1>3, <1>4, OneMoreCheck DEF BothFailed
<1>6. BothFailed(Newest) => LatestFailed(Newest)
  BY <1>3, LatestOfBoth
<1>7. \A v \in Watch : v # w => watch'[v] = watch[v] /\ watch[v] = Unstarted
  BY <1>1 DEF MonInv, OneCall, Unstarted
<1>8. MonKinds'
  <2>1. incident' \in Count
    BY DEF MonInv, MonKinds, Record, Count
  <2>2. watch' \in [Watch -> WatchState]
    BY <1>1 DEF WatchState
  <2> QED BY <1>1, <1>4, <2>1, <2>2 DEF MonInv, MonKinds
<1>9. OneCall'
  BY <1>7 DEF OneCall
<1>10. Ordered'
  <2>1. \A d \in checks' : d.at <= watches' /\ d.at \in Nat
    BY <1>1, <1>3, <1>4 DEF MonInv, Ordered, Check
  <2>2. \A d, e \in checks' : d.at = e.at => d = e
    BY <1>1, <1>2, <1>3 DEF Check
  <2>3. \A v \in Watch : watch'[v].pc \notin {"probe", "record"}
    BY <1>1, <1>7 DEF Unstarted
  <2> QED BY <2>1, <2>2, <2>3 DEF Ordered
<1>11. ReadIsCurrent'
  BY <1>1, <1>7 DEF ReadIsCurrent, Unstarted
<1>12. IncidentsPaired'
  <2>1. incident \in Count /\ incident.opened = incident.closed + (IF BothFailed(Newest) THEN 1 ELSE 0)
    BY DEF MonInv, MonKinds, NoticesRight, IncidentsPaired
  <2>2. CASE ~watch[w].ok /\ LatestFailed(Newest) /\ ~BothFailed(Newest)
    <3>1. incident' = [incident EXCEPT !.opened = @ + 1]
      BY <1>3, <2>2 DEF Record, Opens
    <3> QED BY <1>5, <2>1, <2>2, <3>1 DEF IncidentsPaired, Count
  <2>3. CASE watch[w].ok /\ BothFailed(Newest)
    <3>1. incident' = [incident EXCEPT !.closed = @ + 1]
      BY <1>3, <2>3 DEF Record, Opens
    <3> QED BY <1>5, <2>1, <2>3, <3>1 DEF IncidentsPaired, Count
  <2>4. CASE ~(~watch[w].ok /\ LatestFailed(Newest) /\ ~BothFailed(Newest)) /\ ~(watch[w].ok /\ BothFailed(Newest))
    <3>1. incident' = incident
      BY <1>3, <2>4 DEF Record, Opens
    <3>2. (BothFailed(Newest))' <=> BothFailed(Newest)
      BY <1>2, <1>5, <1>6, <2>4
    <3> QED BY <2>1, <3>1, <3>2 DEF IncidentsPaired
  <2> QED BY <2>2, <2>3, <2>4
<1>13. AlertsPaired'
  BY <1>1 DEF MonInv, NoticesRight, AlertsPaired
<1> QED BY <1>8, <1>9, <1>10, <1>11, <1>12, <1>13 DEF MonInv, NoticesRight

LEMMA TellSteps ==
  ASSUME MonInv, NEW w \in Watch, NEW m \in Machine, Tell(w, m)
  PROVE  MonInv'
<1> DEFINE row == watch[w].rows[m]
           now == NodeProblems(row)
<1>1. /\ watch[w].pc = "tell" /\ m \in watch[w].left
      /\ watch[w] \in WatchState /\ watch \in [Watch -> WatchState] /\ host \in [Machine -> HostRow]
      /\ UNCHANGED <<checks, incident, watches>>
  BY DEF Tell, MonInv, MonKinds
<1>2. /\ watch' = [watch EXCEPT ![w].left = @ \ {m}]
      /\ host' = IF now # row.alerts THEN [host EXCEPT ![m].alerts = now] ELSE host
  BY DEF Tell
<1>3. row \in HostRow /\ row.alerts = host[m].alerts /\ now \in SUBSET Problem
  <2>1. row \in HostRow
    BY <1>1 DEF WatchState
  <2>2. row.alerts = host[m].alerts
    BY <1>1 DEF MonInv, ReadIsCurrent
  <2> QED BY <2>1, <2>2 DEF NodeProblems, HostRow, Problem
<1> HIDE DEF now, row
<1>4. host' \in [Machine -> HostRow] /\ host'[m].alerts = now
      /\ \A n \in Machine : n # m => host'[n] = host[n]
  BY <1>1, <1>2, <1>3 DEF HostRow
<1>5. /\ watch' \in [Watch -> WatchState]
      /\ watch'[w] = [watch[w] EXCEPT !.left = @ \ {m}]
      /\ \A v \in Watch : v # w => watch'[v] = watch[v] /\ watch[v] = Unstarted
  <2>1. watch'[w] = [watch[w] EXCEPT !.left = @ \ {m}] /\ \A v \in Watch : v # w => watch'[v] = watch[v]
    BY <1>1, <1>2
  <2>2. watch'[w] \in WatchState
    BY <1>1, <2>1 DEF WatchState
  <2>3. \A v \in Watch : v # w => watch[v] = Unstarted
    BY <1>1 DEF MonInv, OneCall, Unstarted
  <2> QED BY <1>1, <1>2, <2>1, <2>2, <2>3
<1>6. /\ notice' \in [Machine -> [Problem -> Count]]
      /\ \A n \in Machine : n # m => notice'[n] = notice[n]
      /\ \A k \in Problem :
           /\ notice'[m][k].opened = notice[m][k].opened + (IF k \in now \ row.alerts THEN 1 ELSE 0)
           /\ notice'[m][k].closed = notice[m][k].closed + (IF k \in row.alerts \ now THEN 1 ELSE 0)
  <2>1. notice \in [Machine -> [Problem -> Count]]
    BY DEF MonInv, MonKinds
  <2>2. notice' = [notice EXCEPT ![m] = [k \in Problem |->
                     [opened |-> notice[m][k].opened + (IF k \in now \ row.alerts THEN 1 ELSE 0),
                      closed |-> notice[m][k].closed + (IF k \in row.alerts \ now THEN 1 ELSE 0)]]]
    BY <2>1 DEF Tell, now, row
  <2> QED BY <2>1, <2>2 DEF Count
<1>7. MonKinds'
  BY <1>1, <1>4, <1>5, <1>6 DEF MonInv, MonKinds
<1>8. OneCall'
  BY <1>5 DEF OneCall
<1>9. Newest' = Newest /\ (BothFailed(Newest))' = BothFailed(Newest)
  BY <1>1, SameNewest
<1>10. watch'[w].pc = "tell" /\ watch'[w].left = watch[w].left \ {m} /\ watch'[w].rows = watch[w].rows
  BY <1>1, <1>5 DEF WatchState
<1>11. Ordered'
  BY <1>1, <1>5, <1>10 DEF MonInv, Ordered
<1>12. ReadIsCurrent'
  <2>1. watch[w].left \subseteq Machine
    BY <1>1 DEF WatchState
  <2>2. \A n \in watch'[w].left : watch'[w].rows[n].alerts = host'[n].alerts
    BY <1>1, <1>4, <1>10, <2>1 DEF MonInv, ReadIsCurrent
  <2>3. \A v \in Watch : v # w => watch'[v].pc = "rest"
    BY <1>5 DEF Unstarted
  <2>4. watch'[w].pc = "tell"
    BY <1>10
  <2> QED BY <2>2, <2>3, <2>4 DEF ReadIsCurrent
<1>13. IncidentsPaired'
  BY <1>1, <1>9 DEF MonInv, NoticesRight, IncidentsPaired
<1>14. AlertsPaired'
  <2>1. \A n \in Machine, k \in Problem :
          /\ notice[n][k] \in Count
          /\ notice[n][k].opened = notice[n][k].closed + (IF k \in host[n].alerts THEN 1 ELSE 0)
    BY DEF MonInv, MonKinds, NoticesRight, AlertsPaired
  <2>2. \A k \in Problem :
          notice'[m][k].opened = notice'[m][k].closed + (IF k \in host'[m].alerts THEN 1 ELSE 0)
    BY <1>3, <1>4, <1>6, <2>1 DEF Count
  <2>3. \A n \in Machine, k \in Problem : n # m =>
          notice'[n][k].opened = notice'[n][k].closed + (IF k \in host'[n].alerts THEN 1 ELSE 0)
    BY <1>4, <1>6, <2>1
  <2> QED BY <2>2, <2>3 DEF AlertsPaired
<1> QED BY <1>7, <1>8, <1>11, <1>12, <1>13, <1>14 DEF MonInv, NoticesRight

\* While the cron is never called twice at once, customers and staff are told
\* of each beginning and each end once: runUptimeChecks and checkNodes.
THEOREM ToldOncePerChange ==
  ASSUME ~Crowded
  PROVE  MonitoringSpec => []NoticesRight
<1>1. MonitoringInit => MonInv
  BY MonInvInit
<1>2. MonInv /\ [MonitoringNext]_monVars => MonInv'
  <2>1. SUFFICES ASSUME MonInv, [MonitoringNext]_monVars PROVE MonInv'
    OBVIOUS
  <2>2. CASE SiteStops
    BY <2>1, <2>2, SiteSteps
  <2>3. CASE \E m \in Machine : Heartbeat(m) \/ FallsSilent(m) \/ SwitchMachine(m)
    BY <2>1, <2>3, HostSteps
  <2>4. CASE \E w \in Watch : StartWatch(w)
    BY <2>1, <2>4, StartSteps
  <2>5. CASE \E w \in Watch : Probe(w) \/ ReadServers(w) \/ EndWatch(w)
    BY <2>1, <2>5, ReadingSteps
  <2>6. CASE \E w \in Watch : Record(w)
    BY <2>1, <2>6, RecordSteps
  <2>7. CASE \E w \in Watch, m \in Machine : Tell(w, m)
    BY <2>1, <2>7, TellSteps
  <2>8. CASE UNCHANGED monVars
    BY <2>1, <2>8, WorldSteps DEF monVars, MonInv, MonKinds
  <2> QED BY <2>1, <2>2, <2>3, <2>4, <2>5, <2>6, <2>7, <2>8 DEF MonitoringNext
<1>3. MonInv => NoticesRight
  BY DEF MonInv
<1> QED BY <1>1, <1>2, <1>3, PTL DEF MonitoringSpec

-----------------------------------------------------------------------------
(* For every space and every set of block sizes: pools created one at a    *)
(* time never overlap, and what is handed out lies in the pool that did.   *)

Orders == {NoOrder} \cup [pc : {"insert"}, block : Blocks]
          \cup [pc : {"read"}, pool : Pool, tries : Nat]
          \cup [pc : {"book"}, pool : Pool, tries : Nat, address : Addresses]

BookTypes ==
  /\ stands \subseteq Pool /\ past \subseteq Pool /\ stands \cap past = {}
  /\ cidr \in [Pool -> Blocks \cup {NoOrder}]
  /\ \A p \in stands \cup past : cidr[p] \in Blocks
  /\ leaseOf \in [Addresses -> Pool \cup {NoPool}]
  /\ booker \in [Booker -> Orders]
  /\ \A k \in Booker : booker[k].pc \in {"read", "book"} => booker[k].tries < Attempts

\* The block of a request about to insert was compared with every pool there is.
Compared ==
  \A k \in Booker : booker[k].pc = "insert" =>
    /\ \A p \in stands : ~Clash(booker[k].block, cidr[p])
    /\ \A j \in Booker : booker[j].pc = "insert" => j = k

NoClash == \A p, q \in stands : p # q => ~Clash(cidr[p], cidr[q])

\* A booking is for an address of its pool; one of the pools there were.
Aimed ==
  \A k \in Booker : booker[k].pc \in {"read", "book"} =>
    /\ booker[k].pool \in stands \cup past
    /\ booker[k].pc = "book" => booker[k].address \in Handed(cidr[booker[k].pool])

BookInv == BookTypes /\ Compared /\ NoClash /\ Aimed /\ LeasesInside

-----------------------------------------------------------------------------
\* A block is an interval of the space.
LEMMA BlockIsInterval ==
  ASSUME NEW b \in Blocks
  PROVE  /\ b.base \in Int /\ b.base >= 0 /\ b.size \in Int /\ b.size > 0
         /\ Space \in Int /\ b.base + b.size <= Space
<1>1. b \in [base : Addresses, size : BlockSize] /\ b.base + b.size <= Space
  BY Zenon DEF Blocks
<1>2. b.base \in Addresses /\ b.size \in BlockSize
  BY <1>1
<1>3. Space \in Int
  BY AddressBookBounds
<1>4. b.size \in Nat \ {0}
  BY <1>2, AddressBookBounds
<1>5. b.base \in Int /\ b.base >= 0
  BY <1>2, <1>3 DEF Addresses
<1> QED BY <1>1, <1>3, <1>4, <1>5

\* Blocks that do not contain each other's first address have none in common.
LEMMA ApartIsDisjoint ==
  ASSUME NEW b \in Blocks, NEW c \in Blocks, ~Clash(b, c), NEW a \in Int
  PROVE  ~(Covers(b, a) /\ Covers(c, a))
<1>1. b.base \in Int /\ c.base \in Int /\ b.size \in Int /\ c.size \in Int
  BY BlockIsInterval
<1> QED BY <1>1 DEF Clash, Covers

\* What a pool hands out lies in its block.
LEMMA UsableIsContained ==
  ASSUME NEW b \in Blocks, NEW a \in Handed(b)
  PROVE  a \in Int /\ Covers(b, a) /\ a \in Addresses
<1>1. b.base \in Int /\ b.base >= 0 /\ b.size \in Int /\ Space \in Int /\ b.base + b.size <= Space
  BY BlockIsInterval
<1> QED BY <1>1 DEF Handed, Skip, Covers, Addresses

LEMMA BookInvInit ==
  ASSUME AddressBookInit
  PROVE  BookInv
<1> USE DEF AddressBookInit
<1>1. BookTypes
  BY DEF BookTypes, Orders, NoOrder
<1>2. Compared /\ NoClash /\ Aimed /\ LeasesInside
  BY DEF Compared, NoClash, Aimed, LeasesInside, NoOrder
<1> QED BY <1>1, <1>2 DEF BookInv

LEMMA BookInvNext ==
  ASSUME Alone, BookInv, [AddressBookNext]_bookVars
  PROVE  BookInv'
<1> USE DEF BookInv
<1>1. ASSUME NEW k \in Booker, CheckClash(k) PROVE BookInv'
  <2>1. PICK b \in Blocks :
          /\ \A p \in stands : ~Clash(b, cidr[p])
          /\ booker' = [booker EXCEPT ![k] = [pc |-> "insert", block |-> b]]
    BY <1>1 DEF CheckClash
  <2>2. /\ UNCHANGED <<stands, past, cidr, leaseOf>>
        /\ \A j \in Booker : booker[j].pc # "insert"
    BY <1>1 DEF CheckClash
  <2>3. BookTypes'
    BY <2>1, <2>2 DEF BookTypes, Orders
  <2>4. Compared'
    BY <2>1, <2>2 DEF BookTypes, Compared
  <2>5. Aimed'
    BY <2>1, <2>2 DEF BookTypes, Aimed, Handed, Skip
  <2>6. NoClash' /\ LeasesInside'
    BY <2>2 DEF NoClash, LeasesInside
  <2> QED BY <2>3, <2>4, <2>5, <2>6
<1>2. ASSUME NEW k \in Booker, InsertPool(k) PROVE BookInv'
  <2>1. PICK p \in Pool \ (stands \cup past) :
          /\ stands' = stands \cup {p}
          /\ cidr' = [cidr EXCEPT ![p] = booker[k].block]
    BY <1>2 DEF InsertPool
  <2>2. /\ booker[k].pc = "insert" /\ booker' = [booker EXCEPT ![k] = NoOrder]
        /\ UNCHANGED <<past, leaseOf>>
    BY <1>2 DEF InsertPool
  <2>3. booker[k].block \in Blocks
    BY <2>2 DEF BookTypes, Orders, NoOrder
  <2>4. /\ cidr'[p] = booker[k].block
        /\ \A q \in stands \cup past : cidr'[q] = cidr[q]
    BY <2>1 DEF BookTypes
  <2>5. BookTypes'
    BY <2>1, <2>2, <2>3, <2>4 DEF BookTypes, Orders, NoOrder
  <2>6. Compared'
    BY <2>2 DEF BookTypes, Compared, NoOrder
  <2>7. NoClash'
    BY <2>1, <2>2, <2>4 DEF NoClash, Compared, Clash
  <2>8. Aimed'
    BY <2>1, <2>2, <2>4 DEF BookTypes, Aimed, Handed, Skip, NoOrder
  <2>9. LeasesInside'
    BY <2>1, <2>2, <2>4 DEF LeasesInside, Handed, Skip
  <2> QED BY <2>5, <2>6, <2>7, <2>8, <2>9
<1>3. ASSUME NEW k \in Booker, AskAddress(k) PROVE BookInv'
  <2>1. PICK p \in stands : booker' = [booker EXCEPT ![k] = [pc |-> "read", pool |-> p, tries |-> 0]]
    BY <1>3 DEF AskAddress
  <2>2. UNCHANGED <<stands, past, cidr, leaseOf>> /\ Attempts > 0
    BY <1>3 DEF AskAddress
  <2>3. BookTypes'
    BY <2>1, <2>2 DEF BookTypes, Orders
  <2>4. Compared' /\ NoClash' /\ LeasesInside'
    BY <2>1, <2>2 DEF BookTypes, Compared, NoClash, LeasesInside
  <2>5. Aimed'
    BY <2>1, <2>2 DEF BookTypes, Aimed, Handed, Skip
  <2> QED BY <2>3, <2>4, <2>5
<1>4. ASSUME NEW k \in Booker, ReadTaken(k) PROVE BookInv'
  <2>1. /\ booker[k].pc = "read" /\ booker[k] \in Orders
        /\ UNCHANGED <<stands, past, cidr, leaseOf>>
    BY <1>4 DEF ReadTaken, BookTypes
  <2>2. booker[k].pool \in Pool /\ booker[k].tries \in Nat /\ booker[k].tries < Attempts
    BY <2>1 DEF Orders, NoOrder, BookTypes
  <2>3. NoClash' /\ LeasesInside'
    BY <2>1 DEF NoClash, LeasesInside
  <2>4. CASE booker' = [booker EXCEPT ![k] = NoOrder]
    BY <2>1, <2>3, <2>4 DEF BookTypes, Compared, Aimed, Orders, NoOrder, Handed, Skip
  <2>5. ASSUME NEW a \in Unheld(booker[k].pool),
               booker' = [booker EXCEPT ![k] =
                 [pc |-> "book", pool |-> booker[k].pool, tries |-> booker[k].tries, address |-> a]]
        PROVE  BookInv'
    <3>1. a \in Handed(cidr[booker[k].pool])
      BY DEF Unheld
    <3>2. a \in Addresses
      BY <2>1, <3>1, UsableIsContained DEF BookTypes, Aimed
    <3>3. BookTypes'
      BY <2>1, <2>2, <2>5, <3>2 DEF BookTypes, Orders
    <3>4. Compared'
      BY <2>1, <2>5 DEF BookTypes, Compared
    <3>5. Aimed'
      BY <2>1, <2>5, <3>1 DEF BookTypes, Aimed, Handed, Skip
    <3> QED BY <2>3, <3>3, <3>4, <3>5
  <2> QED BY <1>4, <2>4, <2>5 DEF ReadTaken
<1>5. ASSUME NEW k \in Booker, TakeAddress(k) PROVE BookInv'
  <2>1. /\ booker[k].pc = "book" /\ booker[k] \in Orders /\ booker[k].pool \in stands
        /\ leaseOf' = [leaseOf EXCEPT ![booker[k].address] = booker[k].pool]
        /\ booker' = [booker EXCEPT ![k] = NoOrder]
        /\ UNCHANGED <<stands, past, cidr>>
    BY <1>5 DEF TakeAddress, Bookable, BookTypes
  <2>2. booker[k].pool \in Pool /\ booker[k].address \in Addresses
    BY <2>1 DEF Orders, NoOrder
  <2>3. BookTypes'
    BY <2>1, <2>2 DEF BookTypes, Orders, NoOrder
  <2>4. Compared' /\ NoClash'
    BY <2>1 DEF BookTypes, Compared, NoClash, NoOrder
  <2>5. Aimed'
    BY <2>1 DEF BookTypes, Aimed, NoOrder, Handed, Skip
  <2>6. LeasesInside'
    <3>1. booker[k].address \in Handed(cidr[booker[k].pool])
      BY <2>1 DEF Aimed
    <3> QED BY <2>1, <2>2, <3>1 DEF BookTypes, LeasesInside, Handed, Skip
  <2> QED BY <2>3, <2>4, <2>5, <2>6
<1>6. ASSUME NEW k \in Booker, TryAgain(k) PROVE BookInv'
  <2>1. /\ booker[k].pc = "book" /\ booker[k] \in Orders
        /\ booker' = [booker EXCEPT ![k] =
             IF booker[k].tries + 1 < Attempts
             THEN [pc |-> "read", pool |-> booker[k].pool, tries |-> booker[k].tries + 1]
             ELSE NoOrder]
        /\ UNCHANGED <<stands, past, cidr, leaseOf>>
    BY <1>6 DEF TryAgain, BookTypes
  <2>2. booker[k].pool \in Pool /\ booker[k].tries + 1 \in Nat
    BY <2>1 DEF Orders, NoOrder
  <2>3. BookTypes'
    BY <2>1, <2>2 DEF BookTypes, Orders, NoOrder
  <2>4. Compared' /\ NoClash' /\ LeasesInside'
    BY <2>1 DEF BookTypes, Compared, NoClash, LeasesInside, NoOrder
  <2>5. Aimed'
    BY <2>1 DEF BookTypes, Aimed, NoOrder, Handed, Skip
  <2> QED BY <2>3, <2>4, <2>5
<1>7. ASSUME NEW a \in Addresses, FreeAddress(a) PROVE BookInv'
  <2>1. /\ leaseOf' = [leaseOf EXCEPT ![a] = NoPool]
        /\ UNCHANGED <<stands, past, cidr, booker>>
    BY <1>7 DEF FreeAddress
  <2>2. BookTypes'
    BY <2>1 DEF BookTypes
  <2>3. Compared' /\ NoClash'
    BY <2>1 DEF Compared, NoClash
  <2>4. Aimed' /\ LeasesInside'
    BY <2>1 DEF BookTypes, Aimed, LeasesInside, Handed, Skip
  <2> QED BY <2>2, <2>3, <2>4
<1>8. ASSUME NEW p \in Pool, RemovePool(p) PROVE BookInv'
  <2>1. /\ p \in stands /\ \A a \in Addresses : leaseOf[a] # p
        /\ stands' = stands \ {p} /\ past' = past \cup {p}
        /\ UNCHANGED <<cidr, leaseOf, booker>>
    BY <1>8 DEF RemovePool
  <2>2. BookTypes'
    BY <2>1 DEF BookTypes
  <2>3. Compared' /\ NoClash'
    BY <2>1 DEF Compared, NoClash
  <2>4. Aimed' /\ LeasesInside'
    BY <2>1 DEF Aimed, LeasesInside, Handed, Skip
  <2> QED BY <2>2, <2>3, <2>4
<1>9. CASE UNCHANGED bookVars
  BY <1>9 DEF bookVars, BookTypes, Compared, NoClash, Aimed, LeasesInside, Handed, Skip
<1> QED BY <1>1, <1>2, <1>3, <1>4, <1>5, <1>6, <1>7, <1>8, <1>9 DEF AddressBookNext

\* The invariant gives the three properties.
LEMMA BookInvRight ==
  ASSUME BookInv
  PROVE  BookRight
<1> USE DEF BookInv
<1>1. PoolsApart
  <2> SUFFICES ASSUME NEW p \in stands, NEW q \in stands, p # q, NEW a \in Addresses
               PROVE  ~(Covers(cidr[p], a) /\ Covers(cidr[q], a))
    BY DEF PoolsApart
  <2>1. cidr[p] \in Blocks /\ cidr[q] \in Blocks /\ ~Clash(cidr[p], cidr[q])
    BY DEF BookTypes, NoClash
  <2> QED BY <2>1, ApartIsDisjoint DEF Addresses
<1>2. SeesWhatIsTaken
  <2> SUFFICES ASSUME NEW k \in Booker, booker[k].pc = "book", booker[k].pool \in stands,
                      leaseOf[booker[k].address] # NoPool
               PROVE  leaseOf[booker[k].address] = booker[k].pool
    BY DEF SeesWhatIsTaken
  <2> DEFINE a == booker[k].address
             p == booker[k].pool
             q == leaseOf[a]
  <2>1. a \in Handed(cidr[p]) /\ cidr[p] \in Blocks
    BY DEF Aimed, BookTypes
  <2>2. a \in Addresses /\ Covers(cidr[p], a)
    BY <2>1, UsableIsContained
  <2>3. q \in stands /\ a \in Handed(cidr[q]) /\ cidr[q] \in Blocks
    BY <2>2 DEF LeasesInside, BookTypes
  <2>4. Covers(cidr[q], a)
    BY <2>3, UsableIsContained
  <2> QED BY <1>1, <2>2, <2>3, <2>4 DEF PoolsApart
<1> QED BY <1>1, <1>2 DEF BookRight

\* With pools created one at a time the rows stay as their columns allow, and the
\* bounds on retries of assignAddress hold.
THEOREM BookTyped ==
  ASSUME Alone
  PROVE  AddressBookSpec => []AddressBookTypeOK
<1>1. AddressBookInit => BookInv
  BY BookInvInit
<1>2. BookInv /\ [AddressBookNext]_bookVars => BookInv'
  BY BookInvNext
<1>3. BookInv => AddressBookTypeOK
  BY DEF BookInv, BookTypes, AddressBookTypeOK
<1> QED BY <1>1, <1>2, <1>3, PTL DEF AddressBookSpec

\* With pools created one at a time, no address lies in two pools, every lease
\* lies in a pool that stands, and a booking that fails sees why: createIpPool,
\* assignAddress, releaseAddress and deleteIpPool.
THEOREM BookIsRight ==
  ASSUME Alone
  PROVE  AddressBookSpec => []BookRight
<1>1. AddressBookInit => BookInv
  BY BookInvInit
<1>2. BookInv /\ [AddressBookNext]_bookVars => BookInv'
  BY BookInvNext
<1>3. BookInv => BookRight
  BY BookInvRight
<1> QED BY <1>1, <1>2, <1>3, PTL DEF AddressBookSpec

-----------------------------------------------------------------------------
(* For any number of servers and requests: once requests do not overlap    *)
(* while the signing key is being made, every agent that is let in takes   *)
(* the jobs it is given, and every server can be connected again.          *)
(*                                                                         *)
(* Without a key no more than one request is at work (OneAtFirst), so the  *)
(* one that found none is the one that makes it (StillNone), and nothing   *)
(* was shown before (NothingShown); from then on a change of statistics    *)
(* writes back the key it read, which is the one there is (SameKey).       *)
(* Tokens are new when they are drawn (Drawn), so that a new one lets      *)
(* nobody in before its command is shown (BeingTold).                       *)

IsAt(a, pcs) == admin[a].pc \in pcs
Making == {"keys", "save", "write"}

KeyKinds ==
  /\ group \in KeyRow /\ hash \in [Rack -> 0 .. MaxAsks]
  /\ commands \in [Rack -> SUBSET Command] /\ agent \in [Rack -> Command]
  /\ admin \in [Admin -> [pc : {"none", "keys", "save", "write", "scrape"}, n : Rack,
                          mine : 0 .. MaxAsks, old : KeyRow]]
  /\ given \in 0 .. MaxAsks /\ asks \in 0 .. MaxAsks

Drawn ==
  /\ \A n \in Rack : hash[n] <= asks /\ \A c \in commands[n] \cup {agent[n]} : c.token <= asks
  /\ \A a \in Admin : IsAt(a, {"keys", "save", "write", "scrape"}) => admin[a].mine \in 1 .. asks

OneAtFirst == group.key = 0 => \A a, b \in Admin : ~IsAt(a, {"none"}) /\ ~IsAt(b, {"none"}) => a = b
StillNone == \A a \in Admin : IsAt(a, {"save", "write"}) => group.key = 0
SameKey == \A a \in Admin : /\ IsAt(a, {"scrape"}) => admin[a].old.key = group.key
                            /\ IsAt(a, {"write"}) => admin[a].old = group
NothingShown == group.key = 0 => \A n \in Rack : commands[n] = {} /\ agent[n].token = 0
BeingTold ==
  \A n \in Rack : hash[n] > 0 =>
    \/ \E a \in Admin : IsAt(a, Making) /\ admin[a].n = n /\ admin[a].mine = hash[n]
    \/ \E c \in commands[n] : LetIn(c, n) /\ Verifies(c)

KeysInv == /\ KeyKinds /\ Drawn /\ OneAtFirst /\ StillNone /\ SameKey /\ NothingShown
           /\ JobsVerify /\ BeingTold /\ ScrapeKept

KeysSpec == KeysInit /\ [][KeysNext]_keyVars

-----------------------------------------------------------------------------
(* A new key leaves the rest of the row alone; a whole row replaces it.    *)
LEMMA MergedKey ==
  ASSUME NEW old \in KeyRow, NEW k \in 0 .. MaxAsks
  PROVE  Merged(old, [key |-> k]) = [key |-> k, scrape |-> old.scrape]
BY DEF Merged, KeyRow

LEMMA MergedRow ==
  ASSUME NEW old \in KeyRow, NEW patch \in KeyRow
  PROVE  Merged(old, patch) = patch
BY DEF Merged, KeyRow

\* A request that is not at work.
LEMMA BlankRow ==
  /\ NoRack \in Rack /\ NoKeys \in KeyRow /\ Unasked.pc = "none"
  /\ Unasked \in [pc : {"none", "keys", "save", "write", "scrape"}, n : Rack, mine : 0 .. MaxAsks, old : KeyRow]
<1>1. NoRack \in Rack
  BY KeysBounds DEF NoRack
<1> QED
  BY <1>1, KeysBounds DEF Unasked, Asked, NoKeys, KeyRow

\* The first state.
LEMMA KeysStart == KeysInit => KeysInv
<1> SUFFICES ASSUME KeysInit PROVE KeysInv
  OBVIOUS
<1>1. NoRack \in Rack
  BY BlankRow
<1>2. /\ Unasked = [pc |-> "none", n |-> NoRack, mine |-> 0, old |-> NoKeys]
      /\ NoKeys \in KeyRow
  BY KeysBounds DEF Unasked, Asked, NoKeys, KeyRow
<1>3. [token |-> 0, key |-> 0] \in Command
  BY KeysBounds DEF Command
<1>4. KeyKinds
  BY <1>1, <1>2, <1>3, KeysBounds DEF KeysInit, KeyKinds
<1>5. \A a \in Admin : IsAt(a, {"none"}) /\ ~IsAt(a, {"keys", "save", "write", "scrape"})
  BY <1>2 DEF KeysInit, IsAt
<1> QED
  BY <1>4, <1>5, KeysBounds
  DEF KeysInit, KeysInv, Drawn, OneAtFirst, StillNone, SameKey, NothingShown, JobsVerify,
      BeingTold, ScrapeKept, IsAt, LetIn, Verifies, NoKeys

\* createNode and rotateNodeToken: the old commands do not let the server in any more.
LEMMA NewTokenKeeps ==
  ASSUME KeysInv, ~Newborn, NEW a \in Admin, NEW n \in Rack, NewToken(a, n)
  PROVE  KeysInv'
<1> USE DEF KeysInv
<1>1. /\ asks' = asks + 1 /\ asks' \in 1 .. MaxAsks /\ hash' = [hash EXCEPT ![n] = asks']
      /\ UNCHANGED <<group, commands, agent, given>>
  BY KeysBounds DEF NewToken, Asks, KeyKinds
<1>2. /\ admin' = [admin EXCEPT ![a] = admin'[a]]
      /\ admin'[a] = [pc |-> "keys", n |-> n, mine |-> asks', old |-> NoKeys]
      /\ NoKeys \in KeyRow
  BY <1>1, KeysBounds DEF NewToken, KeyKinds, Asked, NoKeys, KeyRow
<1>3. KeyKinds'
  BY <1>1, <1>2 DEF KeyKinds
<1>4. Drawn'
  BY <1>1, <1>2 DEF Drawn, IsAt, KeyKinds, Command
<1>5. OneAtFirst' /\ StillNone' /\ SameKey' /\ NothingShown' /\ ScrapeKept'
  BY <1>1, <1>2 DEF OneAtFirst, StillNone, SameKey, NothingShown, ScrapeKept, IsAt, NewToken, Asks, KeyKinds
<1>6. JobsVerify'
  BY <1>1 DEF JobsVerify, Drawn, LetIn, Verifies, KeyKinds, Command
<1>7. BeingTold'
  BY <1>1, <1>2 DEF BeingTold, LetIn, Verifies, IsAt, Making, KeyKinds, NewToken, Asks
<1> QED
  BY <1>3, <1>4, <1>5, <1>6, <1>7

\* A command is shown: with the key there is, or the first one there is now.
LEMMA ShowsKeeps ==
  ASSUME KeysInv, NEW a \in Admin, NEW k \in 1 .. MaxAsks,
         IsAt(a, Making), Shows(a, k), group' \in KeyRow, group'.key = k, group'.scrape = group.scrape,
         group.key # 0 => group' = group,
         UNCHANGED <<hash, agent, given, asks>>
  PROVE  KeysInv'
<1> USE DEF KeysInv
<1> DEFINE r == admin[a].n
           c == [token |-> admin[a].mine, key |-> k]
<1>1. /\ admin' = [admin EXCEPT ![a] = Unasked]
      /\ commands' = [commands EXCEPT ![r] = commands[r] \cup {c}]
  BY DEF Shows
<1>2. r \in Rack /\ c \in Command
  BY KeysBounds DEF KeyKinds, Command
<1> HIDE DEF r, c
<1>3. KeyKinds'
  BY <1>1, <1>2, BlankRow DEF KeyKinds
<1>4. /\ admin'[a].pc = "none"
      /\ \A b \in Admin : b # a => admin'[b] = admin[b]
      /\ \A n \in Rack : commands'[n] = IF n = r THEN commands[n] \cup {c} ELSE commands[n]
  BY <1>1, <1>2, BlankRow DEF KeyKinds
<1>5. Drawn'
  <2>1. c.token = admin[a].mine /\ admin[a].mine <= asks
    BY DEF c, Drawn, IsAt, Making, KeyKinds
  <2> QED
    BY <1>2, <1>4, <2>1, ZenonT(60) DEF Drawn, IsAt
<1>6. group.key = 0 => \A b \in Admin : b # a => IsAt(b, {"none"})
  BY DEF OneAtFirst, IsAt, Making
<1>7. k # 0 /\ group'.key # 0
  BY KeysBounds
<1>8. OneAtFirst' /\ NothingShown'
  BY <1>7 DEF OneAtFirst, NothingShown
<1>9. StillNone'
  BY <1>4, <1>6, <1>7 DEF StillNone, IsAt
<1>10. SameKey'
  BY <1>4, <1>6, <1>7 DEF SameKey, IsAt
<1>11. JobsVerify'
  <2>1. /\ c.key = group'.key /\ hash' = hash /\ agent' = agent
        /\ group.key # 0 => group' = group
    BY DEF c
  <2>2. CASE group.key = 0
    <3> SUFFICES ASSUME NEW n \in Rack, NEW x \in commands'[n] \cup {agent'[n]}, LetIn(x, n)'
                 PROVE  Verifies(x)'
      BY DEF JobsVerify
    <3>1. commands[n] = {} /\ agent[n].token = 0
      BY <2>2 DEF NothingShown
    <3>2. x = c \/ x = agent[n]
      BY <3>1, <1>4, <2>1
    <3>3. hash[n] > 0 /\ x.token = hash[n] /\ hash[n] \in Nat
      BY <2>1 DEF LetIn, KeyKinds
    <3>4. x = c
      BY <3>1, <3>2, <3>3
    <3> QED
      BY <3>4, <2>1 DEF Verifies
  <2>3. CASE group.key # 0
    BY <1>4, <2>1, <2>3, ZenonT(60) DEF JobsVerify, LetIn, Verifies
  <2> QED
    BY <2>2, <2>3
<1>12. BeingTold'
  <2> SUFFICES ASSUME NEW n \in Rack, hash[n] > 0
               PROVE  \/ \E b \in Admin : IsAt(b, Making)' /\ admin'[b].n = n /\ admin'[b].mine = hash[n]
                      \/ \E x \in commands'[n] : LetIn(x, n)' /\ Verifies(x)'
    BY DEF BeingTold
  <2>1. CASE \E x \in commands[n] : LetIn(x, n) /\ Verifies(x)
    BY <2>1, <1>4 DEF NothingShown, LetIn, Verifies
  <2>2. CASE \E b \in Admin : IsAt(b, Making) /\ admin[b].n = n /\ admin[b].mine = hash[n]
    <3>1. PICK b \in Admin : IsAt(b, Making) /\ admin[b].n = n /\ admin[b].mine = hash[n]
      BY <2>2
    <3>2. CASE b = a
      <4>1. n = r /\ c.token = hash[n] /\ c.key = group'.key /\ hash' = hash
        BY <3>1, <3>2 DEF c, r
      <4>2. c \in commands'[n]
        BY <4>1, <1>4
      <4> QED
        BY <4>1, <4>2 DEF LetIn, Verifies
    <3>3. CASE b # a
      BY <3>1, <3>3, <1>4 DEF IsAt
    <3> QED
      BY <3>2, <3>3
  <2> QED
    BY <2>1, <2>2 DEF BeingTold
<1>13. ScrapeKept'
  BY DEF ScrapeKept
<1> QED
  BY <1>3, <1>5, <1>8, <1>9, <1>10, <1>11, <1>12, <1>13

\* signingKeys: the key there is, or the way to the first one.
LEMMA ReadKeysKeeps ==
  ASSUME KeysInv, NEW a \in Admin, ReadKeys(a)
  PROVE  KeysInv'
<1> USE DEF KeysInv
<1>1. CASE group.key > 0
  <2>1. group.key \in 1 .. MaxAsks /\ Shows(a, group.key) /\ UNCHANGED <<group, hash, agent, given, asks>>
    BY <1>1, KeysBounds DEF ReadKeys, KeyKinds, KeyRow
  <2> QED
    BY <2>1, ShowsKeeps DEF ReadKeys, IsAt, Making, KeyKinds
<1>2. CASE ~(group.key > 0)
  <2>1. group.key = 0
    BY <1>2, KeysBounds DEF KeyKinds, KeyRow
  <2>2. /\ admin' = [admin EXCEPT ![a] = [admin[a] EXCEPT !.pc = "save"]]
        /\ UNCHANGED <<group, hash, commands, agent, given, asks>>
    BY <1>2 DEF ReadKeys, Goes
  <2>3. /\ admin'[a] = [admin[a] EXCEPT !.pc = "save"] /\ admin[a].pc = "keys"
        /\ \A b \in Admin : b # a => admin'[b] = admin[b]
    BY <2>2 DEF KeyKinds, ReadKeys
  <2>4. KeyKinds'
    BY <2>2 DEF KeyKinds
  <2>5. Drawn' /\ OneAtFirst' /\ StillNone' /\ SameKey' /\ NothingShown' /\ JobsVerify' /\ ScrapeKept'
    BY <2>1, <2>2, <2>3
    DEF Drawn, OneAtFirst, StillNone, SameKey, NothingShown, JobsVerify, ScrapeKept, IsAt, LetIn, Verifies, KeyKinds
  <2>6. BeingTold'
    BY <2>2, <2>3 DEF BeingTold, IsAt, Making, LetIn, Verifies, KeyKinds
  <2> QED
    BY <2>4, <2>5, <2>6
<1> QED
  BY <1>1, <1>2

\* updateSettings reads the row: what it reads is what is there until it writes.
LEMMA ReadGroupKeeps ==
  ASSUME KeysInv, NEW a \in Admin, ReadGroup(a)
  PROVE  KeysInv'
<1> USE DEF KeysInv
<1>1. /\ admin' = [admin EXCEPT ![a] = [admin[a] EXCEPT !.pc = "write", !.old = group]]
      /\ UNCHANGED <<group, hash, commands, agent, given, asks>>
      /\ admin[a].pc = "save"
  BY DEF ReadGroup
<1>2. /\ admin'[a] = [admin[a] EXCEPT !.pc = "write", !.old = group]
      /\ \A b \in Admin : b # a => admin'[b] = admin[b]
  BY <1>1 DEF KeyKinds
<1>3. KeyKinds'
  BY <1>1 DEF KeyKinds
<1>4. Drawn' /\ OneAtFirst' /\ StillNone' /\ SameKey' /\ NothingShown' /\ JobsVerify' /\ ScrapeKept'
  BY <1>1, <1>2
  DEF Drawn, OneAtFirst, StillNone, SameKey, NothingShown, JobsVerify, ScrapeKept, IsAt, LetIn, Verifies, KeyKinds
<1>5. BeingTold'
  BY <1>1, <1>2 DEF BeingTold, IsAt, Making, LetIn, Verifies, KeyKinds
<1> QED
  BY <1>3, <1>4, <1>5

\* The first key is written beside what the row had.
LEMMA WriteKeysKeeps ==
  ASSUME KeysInv, NEW a \in Admin, WriteKeys(a)
  PROVE  KeysInv'
<1> USE DEF KeysInv
<1>1. admin[a].pc = "write" /\ group.key = 0 /\ admin[a].old = group
  BY DEF WriteKeys, StillNone, SameKey, IsAt
<1>2. admin[a].mine \in 1 .. MaxAsks
  BY <1>1, KeysBounds DEF Drawn, KeyKinds, IsAt
<1>3. group' = [key |-> admin[a].mine, scrape |-> group.scrape]
  BY <1>1, <1>2, MergedKey DEF WriteKeys, KeyKinds
<1>4. group' \in KeyRow /\ group'.key = admin[a].mine /\ group'.scrape = group.scrape
  BY <1>2, <1>3 DEF KeyKinds, KeyRow
<1> QED
  BY <1>1, <1>2, <1>4, ShowsKeeps DEF WriteKeys, IsAt, Making

\* rotateMetricsToken reads the row ...
LEMMA ReadScrapeKeeps ==
  ASSUME KeysInv, ~Newborn, NEW a \in Admin, ReadScrape(a)
  PROVE  KeysInv'
<1> USE DEF KeysInv
<1>1. /\ asks' = asks + 1 /\ asks' \in 1 .. MaxAsks /\ admin[a].pc = "none"
      /\ UNCHANGED <<group, hash, commands, agent, given>>
      /\ group.key > 0 \/ \A b \in Admin : admin[b].pc = "none"
  BY KeysBounds DEF ReadScrape, Asks, KeyKinds
<1>2. admin' = [admin EXCEPT ![a] = [pc |-> "scrape", n |-> NoRack, mine |-> asks', old |-> group]]
  BY DEF ReadScrape, Asked
<1>3. /\ admin'[a] = [pc |-> "scrape", n |-> NoRack, mine |-> asks', old |-> group]
      /\ \A b \in Admin : b # a => admin'[b] = admin[b]
  BY <1>2 DEF KeyKinds
<1>4. KeyKinds'
  BY <1>1, <1>2, BlankRow DEF KeyKinds
<1>5. Drawn'
  <2>1. \A n \in Rack : hash'[n] <= asks' /\ \A x \in commands'[n] \cup {agent'[n]} : x.token <= asks'
    BY <1>1 DEF Drawn, KeyKinds, Command
  <2>2. \A b \in Admin : b # a /\ IsAt(b, {"keys", "save", "write", "scrape"}) => admin[b].mine \in 1 .. asks'
    BY <1>1 DEF Drawn, KeyKinds
  <2>3. admin'[a].mine \in 1 .. asks'
    BY <1>1, <1>3
  <2> QED
    BY <2>1, <2>2, <2>3, <1>3 DEF Drawn, IsAt
<1>6. OneAtFirst' /\ StillNone' /\ SameKey' /\ NothingShown' /\ JobsVerify' /\ ScrapeKept'
  <2>1. OneAtFirst'
    BY <1>1, <1>3 DEF OneAtFirst, IsAt, KeyKinds, KeyRow
  <2>2. StillNone' /\ NothingShown' /\ ScrapeKept'
    BY <1>1, <1>3 DEF StillNone, NothingShown, ScrapeKept, IsAt
  <2>3. SameKey'
    BY <1>1, <1>3 DEF SameKey, IsAt
  <2>4. JobsVerify'
    BY <1>1 DEF JobsVerify, LetIn, Verifies
  <2> QED
    BY <2>1, <2>2, <2>3, <2>4
<1>7. BeingTold'
  BY <1>1, <1>3 DEF BeingTold, IsAt, Making, LetIn, Verifies, KeyKinds
<1> QED
  BY <1>4, <1>5, <1>6, <1>7

\* ... and writes it back: its key is the one there is.
LEMMA RotateMetricsKeeps ==
  ASSUME KeysInv, NEW a \in Admin, RotateMetrics(a)
  PROVE  KeysInv'
<1> USE DEF KeysInv
<1>1. PICK token \in {0, admin[a].mine} : group' = Merged(group, ScrapePatch(a, token)) /\ given' = token
  BY DEF RotateMetrics
<1>2. admin[a].pc = "scrape" /\ admin[a].old.key = group.key /\ token \in 0 .. MaxAsks
  BY KeysBounds DEF RotateMetrics, SameKey, IsAt, KeyKinds
<1>3. /\ ScrapePatch(a, token) \in KeyRow
      /\ ScrapePatch(a, token).key = group.key /\ ScrapePatch(a, token).scrape = token
  BY <1>2 DEF ScrapePatch, KeyKinds, KeyRow
<1>4. group' \in KeyRow /\ group'.key = group.key /\ group'.scrape = given'
  BY <1>1, <1>3, MergedRow DEF KeyKinds
<1>5. admin' = [admin EXCEPT ![a] = Unasked] /\ UNCHANGED <<hash, commands, agent, asks>>
  BY DEF RotateMetrics
<1>6. /\ admin'[a].pc = "none"
      /\ \A b \in Admin : b # a => admin'[b] = admin[b]
  BY <1>5, BlankRow DEF KeyKinds
<1>7. KeyKinds'
  BY <1>1, <1>2, <1>4, <1>5, BlankRow DEF KeyKinds
<1>8. Drawn' /\ OneAtFirst' /\ StillNone' /\ NothingShown' /\ JobsVerify' /\ ScrapeKept'
  BY <1>4, <1>5, <1>6
  DEF Drawn, OneAtFirst, StillNone, NothingShown, JobsVerify, ScrapeKept, IsAt, LetIn, Verifies
<1>9. SameKey'
  <2>1. \A b \in Admin : b # a /\ IsAt(b, {"write"}) => FALSE
    BY <1>2 DEF StillNone, OneAtFirst, IsAt
  <2> QED
    BY <2>1, <1>4, <1>6 DEF SameKey, IsAt
<1>10. BeingTold'
  BY <1>2, <1>4, <1>5, <1>6 DEF BeingTold, IsAt, Making, LetIn, Verifies
<1> QED
  BY <1>7, <1>8, <1>9, <1>10

\* An agent is started with a command that was shown.
LEMMA InstallKeeps ==
  ASSUME KeysInv, NEW n \in Rack, Install(n)
  PROVE  KeysInv'
<1> USE DEF KeysInv
<1>1. PICK c \in commands[n] : agent' = [agent EXCEPT ![n] = c]
  BY DEF Install
<1>2. UNCHANGED <<group, hash, commands, admin, given, asks>>
  BY DEF Install
<1>3. KeyKinds' /\ Drawn' /\ JobsVerify'
  BY <1>1, <1>2 DEF KeyKinds, Drawn, JobsVerify, LetIn, Verifies, IsAt
<1>4. NothingShown'
  BY <1>1, <1>2 DEF NothingShown, KeyKinds
<1>5. OneAtFirst' /\ StillNone' /\ SameKey' /\ ScrapeKept' /\ BeingTold'
  BY <1>2 DEF OneAtFirst, StillNone, SameKey, ScrapeKept, BeingTold, IsAt, LetIn, Verifies
<1> QED
  BY <1>3, <1>4, <1>5

-----------------------------------------------------------------------------
\* Once the first key is made by one request alone, every agent that is let in
\* verifies the jobs it gets, every server can be connected again, and making the
\* key loses no token for statistics, for any number of servers and requests.
THEOREM KeysAgree ==
  ASSUME ~Newborn
  PROVE  KeysSpec => []KeysRight
<1>1. KeysInv /\ [KeysNext]_keyVars => KeysInv'
  <2> SUFFICES ASSUME KeysInv, [KeysNext]_keyVars PROVE KeysInv'
    OBVIOUS
  <2>1. CASE \E a \in Admin : ReadKeys(a) \/ ReadGroup(a) \/ WriteKeys(a) \/ ReadScrape(a) \/ RotateMetrics(a)
    BY <2>1, ReadKeysKeeps, ReadGroupKeeps, WriteKeysKeeps, ReadScrapeKeeps, RotateMetricsKeeps
  <2>2. CASE \E a \in Admin : \E n \in Rack : NewToken(a, n)
    BY <2>2, NewTokenKeeps
  <2>3. CASE \E n \in Rack : Install(n)
    BY <2>3, InstallKeeps
  <2>4. CASE UNCHANGED keyVars
    BY <2>4 DEF keyVars, KeysInv, KeyKinds, Drawn, OneAtFirst, StillNone, SameKey, NothingShown,
                JobsVerify, BeingTold, ScrapeKept, IsAt, LetIn, Verifies
  <2> QED
    BY <2>1, <2>2, <2>3, <2>4 DEF KeysNext
<1>2. KeysInv => KeysRight
  BY DEF KeysInv, KeysRight, BeingTold, CanConnect, IsAt, Making
<1> QED
  BY KeysStart, <1>1, <1>2, PTL DEF KeysSpec

-----------------------------------------------------------------------------
(* The settings of sites: types.                                           *)

Conf   == [own : 0 .. MaxForms, groups : SUBSET Group, on : BOOLEAN, port : Nat]
Answer == [n : Nat, gs : SUBSET Group, on : BOOLEAN]
Recipe == [own : 0 .. MaxForms, on : BOOLEAN, port : Nat,
           shared : UNION {[G -> Nat] : G \in SUBSET Group}, hosts : SUBSET Host, first : Host \cup {Sys}]
Deed   == {"update", "clone", "push", "delete"}
Errand == [w : Sited, kind : Deed]
Task   == [kind : Deed, spec : Recipe]
Place  == {"away", "ports", "write", "insert", "next", "users", "drop", "build", "queue"}
Form   == {"none", "own", "quiet", "groups", "sftp", "drop", "stage"}
Entry  == [pc : Place, op : Form, w : Sited \cup {Nil}, mine : Conf, val : Answer,
           left : Seq(Errand), spec : Recipe \cup {Nil}]

Shaped(d) ==
  /\ desk[d].pc \in {"ports", "write", "insert", "next"} => desk[d].w \in Sited
  /\ desk[d].pc \in {"build", "queue"} => desk[d].left # <<>>
  /\ desk[d].pc = "queue" => desk[d].spec \in Recipe
  /\ desk[d].op = "own" => desk[d].val.n <= MaxForms

SetTyped ==
  /\ life \in [Sited -> {"none", "live", "error", "deleting", "deleted"}]
  /\ cfg \in [Sited -> Conf] /\ wish \in [Sited -> Conf]
  /\ slug \in [Twin -> [of : Sited \cup {Nil}, n : Nat]]
  /\ at \in [Host -> Sited \cup {Nil}]
  /\ primary \in [Sited -> SUBSET (Host \cup {Sys})]
  /\ shared \in [Group -> Nat] /\ \A g \in Group : shared[g] <= forms
  /\ desk \in [Desk -> Entry] /\ \A d \in Desk : Shaped(d)
  /\ queued \in [Sited -> Seq(Task)]
  /\ runs \in [Sited -> Recipe \cup {Nil}]
  /\ opens \in [Sited -> Nat]
  /\ fine \subseteq Sited
  /\ forms \in 0 .. MaxForms

LEMMA SitesFinite ==
  /\ IsFiniteSet(Sited)
  /\ \A S \in SUBSET Sited : IsFiniteSet(S) /\ Cardinality(S) \in Nat
<1>1. IsFiniteSet(Sited)
  BY SettingsBounds DEF Sited
<1> QED BY <1>1, FS_Subset, FS_CardinalityType

LEMMA BlanksTyped ==
  /\ Fresh \in Conf /\ Blank \in Answer /\ <<>> \in Seq(Errand)
  /\ Away \in Entry
<1>1. MaxForms \in Nat
  BY SettingsBounds
<1>2. Fresh \in Conf
  BY <1>1 DEF Fresh, Conf
<1>3. Blank \in Answer
  BY DEF Blank, Answer
<1>4. <<>> \in Seq(Errand)
  OBVIOUS
<1> QED BY <1>2, <1>3, <1>4 DEF Away, Entry, Place, Form

LEMMA SharedTyped ==
  ASSUME SetTyped, NEW G \in SUBSET Group
  PROVE  [g \in G |-> shared[g]] \in UNION {[H -> Nat] : H \in SUBSET Group}
<1>1. [g \in G |-> shared[g]] \in [G -> Nat]
  BY DEF SetTyped
<1> QED BY <1>1

LEMMA FirstTyped ==
  ASSUME SetTyped, NEW w \in Sited
  PROVE  First(w) \in Host \cup {Sys}
<1>1. primary[w] \in SUBSET (Host \cup {Sys})
  BY DEF SetTyped
<1> QED BY <1>1 DEF First

LEMMA SpecTyped ==
  ASSUME SetTyped, NEW w \in Sited
  PROVE  SpecOf(w) \in Recipe
<1>1. cfg[w] \in Conf
  BY DEF SetTyped
<1>2. PICK own \in 0 .. MaxForms, gs \in SUBSET Group, on \in BOOLEAN, port \in Nat :
        cfg[w] = [own |-> own, groups |-> gs, on |-> on, port |-> port]
  BY <1>1 DEF Conf
<1>3. [g \in gs |-> shared[g]] \in UNION {[G -> Nat] : G \in SUBSET Group}
  BY SharedTyped
<1>4. {h \in Host : at[h] = w} \in SUBSET Host
  OBVIOUS
<1>5. (IF on THEN port ELSE 0) \in Nat
  OBVIOUS
<1> DEFINE s == [g \in gs |-> shared[g]]  hs == {h \in Host : at[h] = w}  p == IF on THEN port ELSE 0
           f1 == First(w)
<1>6. SpecOf(w) = [own |-> own, on |-> on, port |-> p, shared |-> s, hosts |-> hs, first |-> f1]
  BY <1>2 DEF SpecOf
<1>7. f1 \in Host \cup {Sys}
  BY FirstTyped
<1> HIDE DEF s, hs, p, f1
<1> QED BY <1>3, <1>4, <1>5, <1>6, <1>7 DEF Recipe, s, hs, p

\* The errands for some sites: each of them once.
ErrandsFor(S, kind) == [k \in 1 .. Cardinality(S) |-> [w |-> SetToSeq(S)[k], kind |-> kind]]
Listed(q, S, kind) ==
  /\ q \in Seq(Errand) /\ DOMAIN q = 1 .. Len(q)
  /\ \A i \in DOMAIN q : q[i].w \in S /\ q[i].kind = kind
  /\ \A i, j \in DOMAIN q : i # j => q[i].w # q[j].w
  /\ \A x \in S : \E i \in DOMAIN q : q[i].w = x
  /\ q = <<>> <=> S = {}
LEMMA ErrandsOnce ==
  ASSUME NEW S \in SUBSET Sited, NEW kind \in Deed
  PROVE  Listed(ErrandsFor(S, kind), S, kind)
<1> SUFFICES ASSUME NEW q, q = ErrandsFor(S, kind) PROVE Listed(q, S, kind)
  OBVIOUS
<1> DEFINE n == Cardinality(S)  f == SetToSeq(S)
<1>1. IsFiniteSet(S) /\ n \in Nat /\ ExistsBijection(1 .. n, S)
  BY SitesFinite, FS_CardinalityType
<1>2. \E g \in [1 .. n -> S] : IsInjective(g)
  BY <1>1 DEF ExistsBijection, Bijection, Injection
<1>3. f \in [1 .. n -> S] /\ IsInjective(f)
  BY <1>2 DEF SetToSeq
<1>4. f \in Surjection(1 .. n, S)
  <2>1. f \in Injection(1 .. n, S)
    BY <1>3 DEF Injection
  <2>2. Cardinality(1 .. n) = n
    BY <1>1, FS_Interval
  <2> QED BY <1>1, <2>1, <2>2, FS_Injection
<1> HIDE DEF f, n
<1>5. q = [k \in 1 .. n |-> [w |-> f[k], kind |-> kind]]
  BY DEF ErrandsFor, f, n
<1>6. \A k \in 1 .. n : f[k] \in Sited /\ f[k] \in S
  BY <1>3
<1>7. \A k \in 1 .. n : q[k] = [w |-> f[k], kind |-> kind]
  BY <1>5
<1>8. \A k \in 1 .. n : q[k] \in Errand /\ q[k].w = f[k] /\ q[k].kind = kind
  <2> SUFFICES ASSUME NEW k \in 1 .. n PROVE q[k] \in Errand /\ q[k].w = f[k] /\ q[k].kind = kind
    OBVIOUS
  <2>1. PICK x \in Sited : x = f[k]
    BY <1>6
  <2>2. q[k] = [w |-> x, kind |-> kind]
    BY <1>7, <2>1
  <2> QED BY <2>1, <2>2 DEF Errand
<1>9. q \in [1 .. n -> Errand]
  BY <1>5, <1>8
<1>10. q \in Seq(Errand) /\ Len(q) = n /\ DOMAIN q = 1 .. n
  BY <1>1, <1>9, SeqDef
<1>11. \A i, j \in 1 .. n : i # j => f[i] # f[j]
  BY <1>3 DEF IsInjective
<1>12. \A x \in S : \E i \in 1 .. n : f[i] = x
  BY <1>4 DEF Surjection
<1>13. q = <<>> <=> S = {}
  <2>1. q = <<>> => n = 0
    BY <1>10
  <2>2. n = 0 => S = {}
    BY <1>12
  <2>3. S = {} => n = 0
    BY FS_EmptySet DEF n
  <2>4. n = 0 => q = <<>>
    BY <1>10
  <2> QED BY <2>1, <2>2, <2>3, <2>4
<1> QED BY <1>6, <1>8, <1>10, <1>11, <1>12, <1>13 DEF Listed


LEMMA Appended ==
  ASSUME NEW S, NEW r \in Seq(S), NEW e \in S
  PROVE  /\ Append(r, e) \in Seq(S) /\ Append(r, e) # <<>>
         /\ Len(Append(r, e)) = Len(r) + 1 /\ DOMAIN Append(r, e) = 1 .. Len(r) + 1
         /\ \A i \in 1 .. Len(r) : Append(r, e)[i] = r[i]
         /\ Append(r, e)[Len(r) + 1] = e
         /\ Len(r) \in Nat /\ DOMAIN r = 1 .. Len(r)
         /\ r = <<>> <=> Len(r) = 0
OBVIOUS

LEMMA TailOf ==
  ASSUME NEW S, NEW q \in Seq(S), q # <<>>
  PROVE  /\ Len(q) \in Nat /\ Len(q) >= 1 /\ DOMAIN q = 1 .. Len(q) /\ Head(q) = q[1] /\ Head(q) \in S
         /\ Tail(q) \in Seq(S) /\ Len(Tail(q)) = Len(q) - 1 /\ DOMAIN Tail(q) = 1 .. Len(q) - 1
         /\ \A i \in 1 .. Len(q) - 1 : Tail(q)[i] = q[i + 1]
         /\ Tail(q) = <<>> <=> Len(q) = 1
<1>1. Len(q) \in Nat /\ Len(q) >= 1 /\ DOMAIN q = 1 .. Len(q) /\ Head(q) = q[1]
  OBVIOUS
<1>2. q[1] \in S
  BY <1>1
<1>3. Tail(q) \in Seq(S) /\ Len(Tail(q)) = Len(q) - 1 /\ DOMAIN Tail(q) = 1 .. Len(q) - 1
  BY <1>1
<1>4. \A i \in 1 .. Len(q) - 1 : Tail(q)[i] = q[i + 1]
  BY <1>1, <1>3
<1>5. Tail(q) = <<>> <=> Len(q) = 1
  <2>1. \A y \in Seq(S) : y = <<>> <=> Len(y) = 0
    OBVIOUS
  <2>2. Tail(q) = <<>> <=> Len(Tail(q)) = 0
    BY <1>3, <2>1
  <2> QED BY <1>1, <1>3, <2>2
<1> QED BY <1>1, <1>2, <1>3, <1>4, <1>5

-----------------------------------------------------------------------------
(* What a request becomes.                                                 *)

\* The other requests stay as they are.
Solely(d) == desk' \in [Desk -> Entry] /\ \A e \in Desk \ {d} : desk'[e] = desk[e]

LEMMA DeskBecomes ==
  ASSUME SetTyped, NEW d \in Desk, NEW x \in Entry, desk' = [desk EXCEPT ![d] = x]
  PROVE  Solely(d) /\ desk'[d] = x
BY DEF SetTyped, Solely

LEMMA AwayIs ==
  /\ Away.pc = "away" /\ Away.op = "none" /\ Away.w = Nil /\ Away.mine = Fresh /\ Away.val = Blank
  /\ Away.left = <<>> /\ Away.spec = Nil
BY DEF Away

\* The request goes on to build and queue jobs for S, if there are any.
Applied(d, S, kind) ==
  /\ Solely(d)
  /\ S = {} => desk'[d] = Away
  /\ S # {} => /\ desk'[d].pc = "build" /\ desk'[d].op = desk[d].op /\ desk'[d].w = desk[d].w
               /\ desk'[d].mine = desk[d].mine /\ desk'[d].val = desk[d].val
               /\ Listed(desk'[d].left, S, kind)
LEMMA AppliesDoes ==
  ASSUME SetTyped, NEW d \in Desk, NEW S \in SUBSET Sited, NEW kind \in Deed, Applies(d, S, kind)
  PROVE  Applied(d, S, kind)
<1>1. desk[d] \in Entry
  BY DEF SetTyped
<1>2. CASE S = {}
  <2>1. desk' = [desk EXCEPT ![d] = Away]
    BY <1>2 DEF Applies
  <2> QED BY <1>2, <2>1, BlanksTyped, DeskBecomes DEF Applied
<1>3. CASE S # {}
  <2>1. PICK q : q = ErrandsFor(S, kind)
    OBVIOUS
  <2>2. Listed(q, S, kind)
    BY <2>1, ErrandsOnce
  <2>3. desk' = [desk EXCEPT ![d] = [desk[d] EXCEPT !.pc = "build", !.left = q]]
    BY <1>3, <2>1 DEF Applies, ErrandsFor
  <2>4. PICK x : x = [desk[d] EXCEPT !.pc = "build", !.left = q]
    OBVIOUS
  <2>5. q \in Seq(Errand) /\ "build" \in Place
    BY <2>2 DEF Listed, Place
  <2>6. /\ x \in Entry /\ x.pc = "build" /\ x.op = desk[d].op /\ x.w = desk[d].w /\ x.mine = desk[d].mine
        /\ x.val = desk[d].val /\ x.left = q
    BY <1>1, <2>4, <2>5 DEF Entry
  <2>7. Solely(d) /\ desk'[d] = x
    BY <2>3, <2>4, <2>6, DeskBecomes
  <2> QED BY <1>3, <2>2, <2>6, <2>7 DEF Applied
<1> QED BY <1>2, <1>3

\* A request opens.
Opened(d, op, w, val, pc) ==
  /\ Solely(d)
  /\ desk'[d].pc = pc /\ desk'[d].op = op /\ desk'[d].w = w /\ desk'[d].val = val
  /\ desk'[d].mine = IF w = Nil THEN Fresh ELSE cfg[w]
LEMMA OpensDoes ==
  ASSUME SetTyped, NEW d \in Desk, NEW op \in Form, NEW w \in Sited \cup {Nil}, NEW val \in Answer, NEW pc \in Place,
         OpensForm(d, op, w, val, pc)
  PROVE  Opened(d, op, w, val, pc)
<1> DEFINE m == IF w = Nil THEN Fresh ELSE cfg[w]
<1>1. m \in Conf
  BY BlanksTyped DEF SetTyped
<1>2. desk' = [desk EXCEPT ![d] = [Away EXCEPT !.pc = pc, !.op = op, !.w = w, !.mine = m, !.val = val]]
  BY DEF OpensForm
<1> HIDE DEF m
<1>3. PICK x : x = [Away EXCEPT !.pc = pc, !.op = op, !.w = w, !.mine = m, !.val = val]
  OBVIOUS
<1>4. x \in Entry /\ x.pc = pc /\ x.op = op /\ x.w = w /\ x.mine = m /\ x.val = val
  BY <1>1, <1>3, BlanksTyped DEF Entry
<1>5. Solely(d) /\ desk'[d] = x
  BY <1>2, <1>3, <1>4, DeskBecomes
<1> QED BY <1>4, <1>5 DEF Opened, m

\* What is asked, as an answer.
LEMMA AnswersTyped ==
  ASSUME NEW n \in Nat, NEW gs \in SUBSET Group, NEW on \in BOOLEAN
  PROVE  /\ \A x : x = [Blank EXCEPT !.n = n] => x \in Answer /\ x.n = n /\ x.gs = {} /\ x.on = FALSE
         /\ \A x : x = [Blank EXCEPT !.gs = gs] => x \in Answer /\ x.n = 0 /\ x.gs = gs /\ x.on = FALSE
         /\ \A x : x = [Blank EXCEPT !.on = on] => x \in Answer /\ x.n = 0 /\ x.gs = {} /\ x.on = on
<1>1. Blank \in Answer /\ Blank.n = 0 /\ Blank.gs = {} /\ Blank.on = FALSE
  BY BlanksTyped DEF Blank
<1> QED BY <1>1 DEF Answer

\* The request is done with the head of its errands.
Went(d) ==
  /\ Solely(d)
  /\ Len(desk[d].left) = 1 => desk'[d] = Away
  /\ Len(desk[d].left) # 1 =>
       /\ desk'[d].pc = "build" /\ desk'[d].op = desk[d].op /\ desk'[d].w = desk[d].w
       /\ desk'[d].mine = desk[d].mine /\ desk'[d].val = desk[d].val
       /\ desk'[d].left = Tail(desk[d].left)
LEMMA WentDoes ==
  ASSUME SetTyped, NEW d \in Desk, desk[d].left # <<>>, desk' = [desk EXCEPT ![d] = NextErrand(d)]
  PROVE  Went(d)
<1>0. PICK x : x = NextErrand(d)
  OBVIOUS
<1>1. desk[d] \in Entry
  BY DEF SetTyped
<1>2. CASE Len(desk[d].left) = 1
  BY <1>0, <1>2, BlanksTyped, DeskBecomes DEF Went, NextErrand
<1>3. CASE Len(desk[d].left) # 1
  <2>1. x = [desk[d] EXCEPT !.pc = "build", !.left = Tail(desk[d].left)]
    BY <1>0, <1>3 DEF NextErrand
  <2>2. desk[d].left \in Seq(Errand)
    BY <1>1 DEF Entry
  <2>3. Tail(desk[d].left) \in Seq(Errand)
    BY <2>2
  <2>4. /\ x \in Entry /\ x.pc = "build" /\ x.op = desk[d].op /\ x.w = desk[d].w
        /\ x.mine = desk[d].mine /\ x.val = desk[d].val /\ x.left = Tail(desk[d].left)
    BY <1>1, <2>1, <2>3 DEF Entry, Place
  <2>5. Solely(d) /\ desk'[d] = x
    BY <1>0, <2>4, DeskBecomes
  <2> QED BY <1>3, <2>4, <2>5 DEF Went
<1> QED BY <1>2, <1>3

\* Another place, with another site or answer.
Placed(d, pc, w, val) ==
  Solely(d) /\ desk'[d].pc = pc /\ desk'[d].op = "none" /\ desk'[d].w = w /\ desk'[d].val = val
LEMMA NextDoes ==
  ASSUME SetTyped, NEW d \in Desk, NEW w \in Sited,
         desk' = [desk EXCEPT ![d] = [Away EXCEPT !.pc = "next", !.w = w]]
  PROVE  Placed(d, "next", w, Blank)
<1>1. PICK x : x = [Away EXCEPT !.pc = "next", !.w = w]
  OBVIOUS
<1>2. x \in Entry /\ x.pc = "next" /\ x.op = "none" /\ x.w = w /\ x.val = Blank
  BY <1>1, BlanksTyped, AwayIs DEF Entry, Place
<1> QED BY <1>1, <1>2, DeskBecomes DEF Placed

LEMMA UsersDoes ==
  ASSUME SetTyped, NEW d \in Desk, NEW g \in Group,
         desk' = [desk EXCEPT ![d] = [Away EXCEPT !.pc = "users", !.val.gs = {g}]]
  PROVE  Solely(d) /\ desk'[d].pc = "users" /\ desk'[d].op = "none" /\ desk'[d].val.gs = {g}
<1>1. PICK v : v = [Blank EXCEPT !.gs = {g}]
  OBVIOUS
<1>2. v \in Answer /\ v.gs = {g}
  BY <1>1, BlanksTyped DEF Answer
<1>3. PICK x : x = [Away EXCEPT !.pc = "users", !.val = v]
  OBVIOUS
<1>4. x \in Entry /\ x.pc = "users" /\ x.op = "none" /\ x.val = v
  BY <1>2, <1>3, BlanksTyped, AwayIs DEF Entry, Place
<1>5. x = [Away EXCEPT !.pc = "users", !.val.gs = {g}]
  BY <1>1, <1>3, AwayIs
<1> QED BY <1>2, <1>4, <1>5, DeskBecomes

\* A port is chosen.
LEMMA AllocateDoes ==
  ASSUME SetTyped, NEW d \in Desk, NEW p \in Nat,
         desk' = [desk EXCEPT ![d].pc = "write", ![d].mine.port = p]
  PROVE  /\ Solely(d) /\ desk'[d].pc = "write"
         /\ desk'[d].op = desk[d].op /\ desk'[d].w = desk[d].w /\ desk'[d].val = desk[d].val
         /\ desk'[d].mine.own = desk[d].mine.own /\ desk'[d].mine.groups = desk[d].mine.groups
         /\ desk'[d].mine.on = desk[d].mine.on /\ desk'[d].mine.port = p
<1>1. desk[d] \in Entry /\ desk[d].mine \in Conf
  BY DEF SetTyped, Entry
<1>2. PICK m : m = [desk[d].mine EXCEPT !.port = p]
  OBVIOUS
<1>3. m \in Conf /\ m.own = desk[d].mine.own /\ m.groups = desk[d].mine.groups /\ m.on = desk[d].mine.on /\ m.port = p
  BY <1>1, <1>2 DEF Conf
<1>4. PICK x : x = [desk[d] EXCEPT !.pc = "write", !.mine = m]
  OBVIOUS
<1>5. x \in Entry /\ x.pc = "write" /\ x.op = desk[d].op /\ x.w = desk[d].w /\ x.val = desk[d].val /\ x.mine = m
  BY <1>1, <1>3, <1>4 DEF Entry, Place
<1>6. desk' = [desk EXCEPT ![d] = x]
  BY <1>1, <1>2, <1>4 DEF SetTyped, Entry
<1> QED BY <1>3, <1>5, <1>6, DeskBecomes

LEMMA QueueDoes ==
  ASSUME SetTyped, NEW d \in Desk, NEW s \in Recipe,
         desk' = [desk EXCEPT ![d].pc = "queue", ![d].spec = s]
  PROVE  /\ Solely(d) /\ desk'[d].pc = "queue" /\ desk'[d].spec = s
         /\ desk'[d].op = desk[d].op /\ desk'[d].w = desk[d].w /\ desk'[d].val = desk[d].val
         /\ desk'[d].mine = desk[d].mine /\ desk'[d].left = desk[d].left
<1>1. desk[d] \in Entry
  BY DEF SetTyped
<1>2. PICK x : x = [desk[d] EXCEPT !.pc = "queue", !.spec = s]
  OBVIOUS
<1>3. /\ x \in Entry /\ x.pc = "queue" /\ x.spec = s /\ x.op = desk[d].op /\ x.w = desk[d].w
      /\ x.val = desk[d].val /\ x.mine = desk[d].mine /\ x.left = desk[d].left
  BY <1>1, <1>2 DEF Entry, Place
<1>4. desk' = [desk EXCEPT ![d] = x]
  BY <1>1, <1>2 DEF SetTyped, Entry
<1> QED BY <1>3, <1>4, DeskBecomes

\* The deletion of a site, after its copies.
Deletion(w) ==
  IF w \in Wp THEN Append(ErrandsFor(TwinsOf(w), "delete"), [w |-> w, kind |-> "delete"])
              ELSE <<[w |-> w, kind |-> "delete"]>>
Deletes(q, w) ==
  /\ q \in Seq(Errand) /\ q # <<>> /\ DOMAIN q = 1 .. Len(q)
  /\ \A i \in DOMAIN q : q[i].w \in {w} \cup TwinsOf(w) /\ q[i].kind = "delete"
  /\ \A i, j \in DOMAIN q : i # j => q[i].w # q[j].w
LEMMA DeletionListed ==
  ASSUME SetTyped, NEW w \in Sited
  PROVE  Deletes(Deletion(w), w)
<1> DEFINE e == [w |-> w, kind |-> "delete"]
<1>1. e \in Errand /\ e.w = w /\ e.kind = "delete"
  BY DEF Errand, Deed
<1> HIDE DEF e
<1> SUFFICES ASSUME NEW q, q = IF w \in Wp THEN Append(ErrandsFor(TwinsOf(w), "delete"), e) ELSE <<e>>
             PROVE  /\ q \in Seq(Errand) /\ q # <<>> /\ DOMAIN q = 1 .. Len(q)
                    /\ \A i \in DOMAIN q : q[i].w \in {w} \cup TwinsOf(w) /\ q[i].kind = "delete"
                    /\ \A i, j \in DOMAIN q : i # j => q[i].w # q[j].w
  BY DEF e, Deletion, Deletes
<1>2. CASE w \notin Wp
  BY <1>1, <1>2
<1>3. CASE w \in Wp
  <2>1. PICK r : r = ErrandsFor(TwinsOf(w), "delete")
    OBVIOUS
  <2>2. TwinsOf(w) \in SUBSET Sited /\ w \notin TwinsOf(w)
    BY <1>3, SettingsBounds DEF TwinsOf, Sited
  <2>3. Listed(r, TwinsOf(w), "delete")
    BY <2>1, <2>2, ErrandsOnce DEF Deed
  <2>4. r \in Seq(Errand) /\ q = Append(r, e)
    BY <1>3, <2>1, <2>3 DEF Listed
  <2>5. /\ q \in Seq(Errand) /\ q # <<>> /\ DOMAIN q = 1 .. Len(r) + 1 /\ Len(q) = Len(r) + 1
        /\ \A i \in 1 .. Len(r) : q[i] = r[i]
        /\ q[Len(r) + 1] = e /\ DOMAIN r = 1 .. Len(r) /\ Len(r) \in Nat
    <3>1. r \in Seq(Errand) /\ e \in Errand
      BY <1>1, <2>4
    <3>2. /\ Append(r, e) \in Seq(Errand) /\ Append(r, e) # <<>>
          /\ Len(Append(r, e)) = Len(r) + 1 /\ DOMAIN Append(r, e) = 1 .. Len(r) + 1
          /\ \A i \in 1 .. Len(r) : Append(r, e)[i] = r[i]
          /\ Append(r, e)[Len(r) + 1] = e
          /\ Len(r) \in Nat /\ DOMAIN r = 1 .. Len(r)
      BY <3>1, Appended
    <3>3. q = Append(r, e)
      BY <2>4
    <3> QED BY <3>2, <3>3
  <2>6. \A i \in DOMAIN q : q[i].w \in {w} \cup TwinsOf(w) /\ q[i].kind = "delete"
    BY <1>1, <2>3, <2>5 DEF Listed
  <2>7. ASSUME NEW i \in DOMAIN q, NEW j \in DOMAIN q, i # j PROVE q[i].w # q[j].w
    <3>1. CASE i \in DOMAIN r /\ j \in DOMAIN r
      BY <2>3, <2>5, <2>7, <3>1 DEF Listed
    <3>2. CASE i \in DOMAIN r /\ j = Len(r) + 1
      BY <1>1, <2>2, <2>3, <2>5, <3>2 DEF Listed
    <3>3. CASE j \in DOMAIN r /\ i = Len(r) + 1
      BY <1>1, <2>2, <2>3, <2>5, <3>3 DEF Listed
    <3> QED BY <2>5, <2>7, <3>1, <3>2, <3>3
  <2> QED BY <2>5, <2>6, <2>7
<1> QED BY <1>2, <1>3
LEMMA DeleteDoes ==
  ASSUME SetTyped, NEW d \in Desk, NEW q \in Seq(Errand),
         desk' = [desk EXCEPT ![d] = [Away EXCEPT !.pc = "build", !.left = q]]
  PROVE  Solely(d) /\ desk'[d].pc = "build" /\ desk'[d].op = "none" /\ desk'[d].left = q
<1>1. PICK x : x = [Away EXCEPT !.pc = "build", !.left = q]
  OBVIOUS
<1>2. x \in Entry /\ x.pc = "build" /\ x.op = "none" /\ x.left = q
  BY <1>1, BlanksTyped, AwayIs DEF Entry, Place
<1> QED BY <1>1, <1>2, DeskBecomes

-----------------------------------------------------------------------------
(* Types, step by step.                                                    *)

\* A request that moves, and what it may write.
LEMMA DeskTyped ==
  ASSUME SetTyped, NEW d \in Desk, Solely(d), Shaped(d)', UNCHANGED <<runs, opens, fine>>,
         life' \in [Sited -> {"none", "live", "error", "deleting", "deleted"}],
         cfg' \in [Sited -> Conf], wish' \in [Sited -> Conf],
         slug' \in [Twin -> [of : Sited \cup {Nil}, n : Nat]],
         at' \in [Host -> Sited \cup {Nil}],
         primary' \in [Sited -> SUBSET (Host \cup {Sys})],
         shared' \in [Group -> Nat], \A g \in Group : shared'[g] <= forms',
         queued' \in [Sited -> Seq(Task)],
         forms' \in 0 .. MaxForms
  PROVE  SetTyped'
<1>1. \A e \in Desk : Shaped(e)'
  <2>1. ASSUME NEW e \in Desk \ {d} PROVE Shaped(e)'
    <3>1. desk'[e] = desk[e] /\ Shaped(e)
      BY DEF SetTyped, Solely
    <3> QED BY <3>1 DEF Shaped
  <2> QED BY <2>1
<1> QED BY <1>1 DEF SetTyped, Solely

\* One more request.
LEMMA FormsGoOn ==
  ASSUME SetTyped, forms < MaxForms, forms' = forms + 1
  PROVE  /\ forms' \in 0 .. MaxForms /\ forms + 1 \in 0 .. MaxForms
         /\ shared' = shared => \A g \in Group : shared'[g] <= forms'
<1>1. MaxForms \in Nat /\ forms \in Nat /\ forms <= MaxForms /\ \A g \in Group : shared[g] \in Nat /\ shared[g] <= forms
  BY SettingsBounds DEF SetTyped
<1> QED BY <1>1

LEMMA OpensTyped ==
  ASSUME SetTyped, NEW d \in Desk, NEW op \in Form, NEW w \in Sited \cup {Nil}, NEW val \in Answer, NEW pc \in Place,
         OpensForm(d, op, w, val, pc),
         pc \in {"ports", "write", "insert", "drop"}, pc # "drop" => w \in Sited,
         op = "own" => val.n <= MaxForms
  PROVE  SetTyped' /\ Opened(d, op, w, val, pc)
<1>1. Opened(d, op, w, val, pc)
  BY OpensDoes
<1>2. Shaped(d)'
  BY <1>1 DEF Opened, Shaped
<1>3. UNCHANGED <<setRows, setConf, queued, setNode>> /\ forms < MaxForms /\ forms' = forms + 1
  BY DEF OpensForm
<1>4. forms' \in 0 .. MaxForms /\ \A g \in Group : shared'[g] <= forms'
  BY <1>3, FormsGoOn DEF setRows
<1> QED BY <1>1, <1>2, <1>3, <1>4, DeskTyped DEF Opened, setRows, setConf, setNode, SetTyped

LEMMA AppliedShaped ==
  ASSUME SetTyped, NEW d \in Desk, NEW S, NEW kind, Applied(d, S, kind)
  PROVE  Shaped(d)'
<1>1. Shaped(d)
  BY DEF SetTyped
<1>2. CASE S = {}
  BY <1>2, AwayIs DEF Applied, Shaped
<1>3. CASE S # {}
  BY <1>1, <1>3 DEF Applied, Shaped, Listed
<1> QED BY <1>2, <1>3

LEMMA WentShaped ==
  ASSUME SetTyped, NEW d \in Desk, Went(d), desk[d].left # <<>>
  PROVE  Shaped(d)'
<1>1. Shaped(d) /\ desk[d].left \in Seq(Errand)
  BY DEF SetTyped, Entry
<1>2. CASE Len(desk[d].left) = 1
  BY <1>2, AwayIs DEF Went, Shaped
<1>3. CASE Len(desk[d].left) # 1
  <2>1. Tail(desk[d].left) # <<>>
    BY <1>1, <1>3, TailOf
  <2> QED BY <1>1, <1>3, <2>1 DEF Went, Shaped
<1> QED BY <1>2, <1>3

-----------------------------------------------------------------------------
LEMMA SaveTyped ==
  ASSUME SetTyped, NEW d \in Desk, NEW w \in Sited, SaveConfig(d, w) \/ SaveQuietly(d, w)
  PROVE  /\ SetTyped' /\ w \in Live
         /\ \E op \in {"own", "quiet"}, val \in Answer : Opened(d, op, w, val, "write") /\ OpensForm(d, op, w, val, "write")
<1>1. CASE SaveConfig(d, w)
  <2>1. PICK val : val = [Blank EXCEPT !.n = forms + 1]
    OBVIOUS
  <2>2. OpensForm(d, "own", w, val, "write") /\ w \in Live /\ forms < MaxForms /\ forms' = forms + 1
    BY <1>1, <2>1 DEF SaveConfig, OpensForm
  <2>3. forms + 1 \in 0 .. MaxForms
    BY <2>2, FormsGoOn
  <2>4. forms + 1 \in Nat /\ MaxForms \in Nat
    BY <2>3, SettingsBounds
  <2>5. val \in Answer /\ val.n = forms + 1
    BY <2>1, <2>4, AnswersTyped
  <2>6. SetTyped' /\ Opened(d, "own", w, val, "write")
    BY <2>2, <2>3, <2>5, OpensTyped DEF Place, Form
  <2> QED BY <2>2, <2>5, <2>6
<1>2. CASE SaveQuietly(d, w)
  <2>1. OpensForm(d, "quiet", w, Blank, "write") /\ w \in Live
    BY <1>2 DEF SaveQuietly
  <2>2. SetTyped' /\ Opened(d, "quiet", w, Blank, "write")
    BY <2>1, BlanksTyped, OpensTyped DEF Place, Form
  <2> QED BY <2>1, <2>2, BlanksTyped
<1> QED BY <1>1, <1>2

LEMMA AttachTyped ==
  ASSUME SetTyped, NEW d \in Desk, NEW w \in Sited, AttachEnvGroups(d, w)
  PROVE  /\ SetTyped' /\ w \in App \cap Live
         /\ \E val \in Answer : /\ \A g \in val.gs : shared[g] > 0
                                /\ Opened(d, "groups", w, val, "write") /\ OpensForm(d, "groups", w, val, "write")
<1>1. PICK gs \in SUBSET {g \in Group : shared[g] > 0} : OpensForm(d, "groups", w, [Blank EXCEPT !.gs = gs], "write")
  BY DEF AttachEnvGroups
<1>2. PICK val : val = [Blank EXCEPT !.gs = gs]
  OBVIOUS
<1>3. gs \in SUBSET Group
  BY <1>1
<1>4. val \in Answer /\ val.gs = gs
  BY <1>2, <1>3, AnswersTyped
<1>5. OpensForm(d, "groups", w, val, "write")
  BY <1>1, <1>2
<1>6. SetTyped' /\ Opened(d, "groups", w, val, "write")
  BY <1>4, <1>5, OpensTyped DEF Place, Form
<1> QED BY <1>1, <1>4, <1>5, <1>6 DEF AttachEnvGroups

LEMMA SftpTyped ==
  ASSUME SetTyped, NEW d \in Desk, NEW w \in Sited, SetSftp(d, w)
  PROVE  /\ SetTyped' /\ w \in (Wp \cup Twin) \cap Live
         /\ \E val \in Answer, pc \in {"ports", "write"} :
              /\ pc = "ports" => val.on /\ cfg[w].port = 0
              /\ Opened(d, "sftp", w, val, pc) /\ OpensForm(d, "sftp", w, val, pc)
<1>1. PICK on \in BOOLEAN : OpensForm(d, "sftp", w, [Blank EXCEPT !.on = on],
                                     IF on /\ cfg[w].port = 0 THEN "ports" ELSE "write")
  BY DEF SetSftp
<1>2. PICK val : val = [Blank EXCEPT !.on = on]
  OBVIOUS
<1>3. val \in Answer /\ val.on = on
  BY <1>2, AnswersTyped
<1>4. PICK pc \in {"ports", "write"} : pc = IF on /\ cfg[w].port = 0 THEN "ports" ELSE "write"
  OBVIOUS
<1>5. OpensForm(d, "sftp", w, val, pc)
  BY <1>1, <1>2, <1>4
<1>6. SetTyped' /\ Opened(d, "sftp", w, val, pc)
  BY <1>3, <1>5, OpensTyped DEF Place, Form
<1>7. pc = "ports" => val.on /\ cfg[w].port = 0
  BY <1>3, <1>4
<1> QED BY <1>3, <1>5, <1>6, <1>7 DEF SetSftp

LEMMA DropAsked ==
  ASSUME SetTyped, NEW d \in Desk, NEW g \in Group, DeleteEnvGroup(d, g)
  PROVE  /\ SetTyped' /\ UsersOf({g}) = {}
         /\ \E val \in Answer : val.gs = {g} /\ Opened(d, "drop", Nil, val, "drop") /\ OpensForm(d, "drop", Nil, val, "drop")
<1>0. PICK gs \in SUBSET Group : gs = {g}
  OBVIOUS
<1>1. PICK val : val = [Blank EXCEPT !.gs = gs]
  OBVIOUS
<1>2. val \in Answer /\ val.gs = gs
  BY <1>1, AnswersTyped
<1>3. OpensForm(d, "drop", Nil, val, "drop") /\ UsersOf({g}) = {}
  BY <1>0, <1>1 DEF DeleteEnvGroup
<1>4. SetTyped' /\ Opened(d, "drop", Nil, val, "drop")
  BY <1>2, <1>3, OpensTyped DEF Place, Form
<1> QED BY <1>0, <1>2, <1>3, <1>4

LEMMA StageTyped ==
  ASSUME SetTyped, NEW d \in Desk, NEW w \in Sited, CreateStaging(d, w)
  PROVE  /\ SetTyped' /\ w \in Wp \cap Live /\ (Plain => ~cfg[w].on /\ cfg[w].port = 0)
         /\ \E val \in Answer : Opened(d, "stage", w, val, "insert") /\ OpensForm(d, "stage", w, val, "insert")
<1>1. PICK val : val = [Blank EXCEPT !.n = Cardinality(TwinsOf(w)) + 1]
  OBVIOUS
<1>2. TwinsOf(w) \in SUBSET Sited
  BY DEF TwinsOf, Sited
<1>3. Cardinality(TwinsOf(w)) + 1 \in Nat
  BY <1>2, SitesFinite
<1>4. val \in Answer
  BY <1>1, <1>3, AnswersTyped
<1>5. OpensForm(d, "stage", w, val, "insert") /\ w \in Wp \cap Live /\ (Plain => ~cfg[w].on /\ cfg[w].port = 0)
  BY <1>1 DEF CreateStaging
<1>6. SetTyped' /\ Opened(d, "stage", w, val, "insert")
  BY <1>4, <1>5, OpensTyped DEF Place, Form
<1> QED BY <1>4, <1>5, <1>6

\* The lowest port that is free: not all are taken, when the site has none yet.
LEMMA LowestIsFree ==
  ASSUME SetTyped, NEW d \in Desk, NEW w \in Sited, cfg[w].port = 0
  PROVE  LowestPort(d) \in Nat /\ \A v \in Stands : cfg[v].port # LowestPort(d)
<1> DEFINE n == Cardinality(Sited)  S == {p \in 1 .. n : \A v \in Stands : cfg[v].port # p}
<1>1. n \in Nat /\ IsFiniteSet(Sited)
  BY SitesFinite
<1>2. \A v \in Sited : cfg[v].port \in Nat
  BY DEF SetTyped, Conf
<1>3. S # {}
  <2>1. SUFFICES ASSUME S = {} PROVE FALSE
    OBVIOUS
  <2>2. \A p \in 1 .. n : \E v \in Stands : cfg[v].port = p
    BY <2>1
  <2> DEFINE T == Sited \ {w}  f == [v \in T |-> cfg[v].port]
  <2>3. \A p \in 1 .. n : \E v \in T : f[v] = p
    <3>1. SUFFICES ASSUME NEW p \in 1 .. n PROVE \E v \in T : f[v] = p
      OBVIOUS
    <3>2. PICK v \in Stands : cfg[v].port = p
      BY <2>2
    <3>3. v \in T
      BY <3>2, <1>1 DEF Stands
    <3> QED BY <3>2, <3>3
  <2>4. IsFiniteSet(T) /\ Cardinality(T) = n - 1
    BY <1>1, FS_RemoveElement
  <2> HIDE DEF n
  <2>5. IsFiniteSet({f[v] : v \in T}) /\ Cardinality({f[v] : v \in T}) <= Cardinality(T)
    <3>1. f \in Surjection(T, {f[v] : v \in T})
      BY DEF Surjection
    <3> QED BY <2>4, <3>1, FS_Surjection
  <2>6. (1 .. n) \in SUBSET {f[v] : v \in T}
    BY <2>3
  <2>7. Cardinality(1 .. n) = n
    BY <1>1, FS_Interval
  <2>8. /\ Cardinality({f[v] : v \in T}) \in Nat
        /\ Cardinality(1 .. n) <= Cardinality({f[v] : v \in T})
    BY <2>5, <2>6, FS_Subset, FS_CardinalityType
  <2> QED BY <1>1, <2>4, <2>5, <2>7, <2>8
<1>4. S \in SUBSET Nat
  BY <1>1
<1> HIDE DEF S
<1>5. PICK x \in S : \A y \in S : ~(<<y, x>> \in OpToRel(<, Nat))
  BY <1>3, <1>4, NatLessThanWellFounded, WFMin
<1>6. ASSUME NEW y \in S, y < x PROVE FALSE
  <2>1. <<y, x>> \in OpToRel(<, Nat)
    BY <1>4, <1>6 DEF OpToRel
  <2> QED BY <1>5, <2>1
<1>7. \A y \in S : x =< y
  BY <1>4, <1>6
<1>8. Min(S) \in S
  BY <1>7 DEF Min
<1>9. LowestPort(d) = Min(S)
  BY DEF LowestPort, S, n
<1>10. \A p \in S : p \in Nat /\ \A v \in Stands : cfg[v].port # p
  BY <1>4 DEF S
<1> QED BY <1>8, <1>9, <1>10

LEMMA AllocateTyped ==
  ASSUME SetTyped, NEW d \in Desk, AllocatePort(d), cfg[desk[d].w].port = 0, desk[d].op # "own"
  PROVE  /\ SetTyped' /\ desk'[d].mine.port = LowestPort(d) /\ \A v \in Stands : cfg[v].port # LowestPort(d)
         /\ Solely(d) /\ desk'[d].pc = "write"
         /\ desk'[d].op = desk[d].op /\ desk'[d].w = desk[d].w /\ desk'[d].val = desk[d].val
         /\ desk'[d].mine.own = desk[d].mine.own /\ desk'[d].mine.groups = desk[d].mine.groups
         /\ desk'[d].mine.on = desk[d].mine.on
<1>1. desk[d].w \in Sited /\ Shaped(d)
  BY DEF SetTyped, Shaped, AllocatePort, Sits
<1>2. LowestPort(d) \in Nat /\ \A v \in Stands : cfg[v].port # LowestPort(d)
  BY <1>1, LowestIsFree
<1>3. desk' = [desk EXCEPT ![d].pc = "write", ![d].mine.port = LowestPort(d)]
  BY DEF AllocatePort
<1>4. /\ Solely(d) /\ desk'[d].pc = "write"
      /\ desk'[d].op = desk[d].op /\ desk'[d].w = desk[d].w /\ desk'[d].val = desk[d].val
      /\ desk'[d].mine.own = desk[d].mine.own /\ desk'[d].mine.groups = desk[d].mine.groups
      /\ desk'[d].mine.on = desk[d].mine.on /\ desk'[d].mine.port = LowestPort(d)
  BY <1>2, <1>3, AllocateDoes
<1>5. Shaped(d)'
  BY <1>1, <1>4 DEF Shaped
<1>6. UNCHANGED <<setRows, setConf, queued, forms, setNode>>
  BY DEF AllocatePort
<1>7. SetTyped'
  BY <1>4, <1>5, <1>6, DeskTyped DEF setRows, setConf, setNode, SetTyped
<1> QED BY <1>2, <1>4, <1>7

\* The configuration that is written.
LEMMA PatchedTyped ==
  ASSUME SetTyped, NEW d \in Desk, desk[d].w \in Sited
  PROVE  /\ Patched(d) \in Conf /\ WishOf(d, desk[d].w) \in Conf
         /\ Patched(d).port = desk[d].mine.port
         /\ Patched(d).own = IF desk[d].op = "own" THEN desk[d].val.n ELSE desk[d].mine.own
         /\ Patched(d).groups = IF desk[d].op = "groups" THEN desk[d].val.gs ELSE desk[d].mine.groups
         /\ Patched(d).on = IF desk[d].op = "sftp" THEN desk[d].val.on ELSE desk[d].mine.on
         /\ WishOf(d, desk[d].w).own = IF desk[d].op = "own" THEN desk[d].val.n ELSE wish[desk[d].w].own
         /\ WishOf(d, desk[d].w).groups = IF desk[d].op = "groups" THEN desk[d].val.gs ELSE wish[desk[d].w].groups
         /\ WishOf(d, desk[d].w).on = IF desk[d].op = "sftp" THEN desk[d].val.on ELSE wish[desk[d].w].on
<1> DEFINE w == desk[d].w
<1>1. desk[d] \in Entry /\ wish[w] \in Conf /\ Shaped(d)
  BY DEF SetTyped
<1>2. PICK m \in Conf : m = desk[d].mine
  BY <1>1 DEF Entry
<1>3. PICK u \in Conf : u = wish[w]
  BY <1>1
<1>4. PICK n \in Nat, gs \in SUBSET Group, on \in BOOLEAN : desk[d].val.n = n /\ desk[d].val.gs = gs /\ desk[d].val.on = on
  BY <1>1 DEF Entry, Answer
<1>5. desk[d].op = "own" => n \in 0 .. MaxForms
  BY <1>1, <1>4, SettingsBounds DEF Shaped
<1>6. CASE desk[d].op = "own"
  <2>1. Patched(d) = [m EXCEPT !.own = n] /\ WishOf(d, w) = [u EXCEPT !.own = n]
    BY <1>2, <1>3, <1>4, <1>6 DEF Patched, WishOf
  <2>2. PICK a, b : a = [m EXCEPT !.own = n] /\ b = [u EXCEPT !.own = n]
    OBVIOUS
  <2>3. /\ a \in Conf /\ b \in Conf /\ a.port = m.port /\ a.own = n /\ b.own = n /\ a.groups = m.groups
        /\ b.groups = u.groups /\ a.on = m.on /\ b.on = u.on
    BY <1>5, <1>6, <2>2 DEF Conf
  <2> QED BY <1>2, <1>3, <1>4, <1>6, <2>1, <2>2, <2>3
<1>7. CASE desk[d].op = "groups"
  <2>1. Patched(d) = [m EXCEPT !.groups = gs] /\ WishOf(d, w) = [u EXCEPT !.groups = gs]
    BY <1>2, <1>3, <1>4, <1>7 DEF Patched, WishOf
  <2>2. PICK a, b : a = [m EXCEPT !.groups = gs] /\ b = [u EXCEPT !.groups = gs]
    OBVIOUS
  <2>3. /\ a \in Conf /\ b \in Conf /\ a.port = m.port /\ a.own = m.own /\ b.own = u.own /\ a.groups = gs
        /\ b.groups = gs /\ a.on = m.on /\ b.on = u.on
    BY <2>2 DEF Conf
  <2> QED BY <1>2, <1>3, <1>4, <1>7, <2>1, <2>2, <2>3
<1>8. CASE desk[d].op = "sftp"
  <2>1. Patched(d) = [m EXCEPT !.on = on] /\ WishOf(d, w) = [u EXCEPT !.on = on]
    BY <1>2, <1>3, <1>4, <1>8 DEF Patched, WishOf
  <2>2. PICK a, b : a = [m EXCEPT !.on = on] /\ b = [u EXCEPT !.on = on]
    OBVIOUS
  <2>3. /\ a \in Conf /\ b \in Conf /\ a.port = m.port /\ a.own = m.own /\ b.own = u.own /\ a.groups = m.groups
        /\ b.groups = u.groups /\ a.on = on /\ b.on = on
    BY <2>2 DEF Conf
  <2> QED BY <1>2, <1>3, <1>4, <1>8, <2>1, <2>2, <2>3
<1>9. CASE desk[d].op \notin {"own", "groups", "sftp"}
  <2>1. Patched(d) = m /\ WishOf(d, w) = u
    BY <1>2, <1>3, <1>9 DEF Patched, WishOf
  <2> QED BY <1>2, <1>3, <1>9, <2>1
<1> QED BY <1>6, <1>7, <1>8, <1>9

LEMMA WriteTyped ==
  ASSUME SetTyped, NEW d \in Desk, WriteConfig(d)
  PROVE  /\ SetTyped' /\ desk[d].w \in Sited
         /\ Applied(d, IF desk[d].op = "quiet" THEN {} ELSE {desk[d].w}, "update")
<1> DEFINE w == desk[d].w  S == IF desk[d].op = "quiet" THEN {} ELSE {w}
<1>1. w \in Sited
  BY DEF SetTyped, Shaped, WriteConfig, Sits
<1>2. S \in SUBSET Sited /\ Applies(d, S, "update")
  BY <1>1 DEF WriteConfig
<1> HIDE DEF S
<1>3. Applied(d, S, "update")
  BY <1>2, AppliesDoes DEF Deed
<1>4. Shaped(d)' /\ Solely(d)
  BY <1>3, AppliedShaped DEF Applied
<1>5. Patched(d) \in Conf /\ WishOf(d, w) \in Conf
  BY <1>1, PatchedTyped
<1>6. /\ cfg' = [cfg EXCEPT ![w] = Patched(d)] /\ wish' = [wish EXCEPT ![w] = WishOf(d, w)]
      /\ UNCHANGED <<setRows, queued, forms, setNode>>
  BY DEF WriteConfig
<1>7. cfg' \in [Sited -> Conf] /\ wish' \in [Sited -> Conf]
  BY <1>5, <1>6 DEF SetTyped
<1>8. SetTyped'
  BY <1>4, <1>6, <1>7, DeskTyped DEF setRows, setNode, SetTyped
<1> QED BY <1>1, <1>3, <1>8 DEF S

LEMMA DomainTyped ==
  ASSUME SetTyped, NEW d \in Desk, NEW w \in Sited, NEW h \in Host, AddDomain(d, w, h)
  PROVE  SetTyped' /\ Applied(d, {w}, "update")
<1>1. {w} \in SUBSET Sited /\ Applies(d, {w}, "update")
  BY DEF AddDomain
<1>2. Applied(d, {w}, "update")
  BY <1>1, AppliesDoes DEF Deed
<1>3. Shaped(d)' /\ Solely(d)
  BY <1>2, AppliedShaped DEF Applied
<1>4. /\ forms < MaxForms /\ forms' = forms + 1 /\ at' = [at EXCEPT ![h] = w]
      /\ UNCHANGED <<life, slug, primary, shared, refused, setConf, queued, setNode>>
  BY DEF AddDomain
<1>5. forms' \in 0 .. MaxForms /\ \A g \in Group : shared'[g] <= forms'
  BY <1>4, FormsGoOn
<1>6. at' \in [Host -> Sited \cup {Nil}]
  BY <1>4 DEF SetTyped
<1>7. SetTyped'
  BY <1>3, <1>4, <1>5, <1>6, DeskTyped DEF setConf, setNode, SetTyped
<1> QED BY <1>2, <1>7

LEMMA RemoveTyped ==
  ASSUME SetTyped, NEW d \in Desk, NEW w \in Sited, NEW h \in Host, RemoveDomain(d, w, h)
  PROVE  /\ SetTyped'
         /\ h \in primary[w] => Placed(d, "next", w, Blank)
         /\ h \notin primary[w] => Applied(d, {w}, "update")
<1>1. /\ forms < MaxForms /\ forms' = forms + 1 /\ at' = [at EXCEPT ![h] = Nil]
      /\ primary' = [primary EXCEPT ![w] = @ \ {h}]
      /\ UNCHANGED <<life, slug, shared, refused, setConf, queued, setNode>>
  BY DEF RemoveDomain
<1>2. forms' \in 0 .. MaxForms /\ \A g \in Group : shared'[g] <= forms'
  BY <1>1, FormsGoOn
<1>3. at' \in [Host -> Sited \cup {Nil}] /\ primary' \in [Sited -> SUBSET (Host \cup {Sys})]
  BY <1>1 DEF SetTyped
<1>4. h \in primary[w] => Placed(d, "next", w, Blank)
  BY NextDoes DEF RemoveDomain
<1>5. h \notin primary[w] => Applied(d, {w}, "update")
  <2>1. {w} \in SUBSET Sited
    OBVIOUS
  <2> QED BY <2>1, AppliesDoes DEF RemoveDomain, Deed
<1>6. Shaped(d)' /\ Solely(d)
  <2>1. CASE h \in primary[w]
    BY <1>4, <2>1 DEF Placed, Shaped
  <2>2. CASE h \notin primary[w]
    BY <1>5, <2>2, AppliedShaped DEF Applied
  <2> QED BY <2>1, <2>2
<1>7. SetTyped'
  BY <1>1, <1>2, <1>3, <1>6, DeskTyped DEF setConf, setNode, SetTyped
<1> QED BY <1>4, <1>5, <1>7

LEMMA HandOnTyped ==
  ASSUME SetTyped, NEW d \in Desk, NextPrimary(d)
  PROVE  SetTyped' /\ desk[d].w \in Sited /\ Applied(d, {desk[d].w}, "update")
<1> DEFINE w == desk[d].w
<1>1. w \in Sited
  BY DEF SetTyped, Shaped, NextPrimary, Sits
<1>2. {w} \in SUBSET Sited /\ Applies(d, {w}, "update")
  BY <1>1 DEF NextPrimary
<1>3. Applied(d, {w}, "update")
  BY <1>2, AppliesDoes DEF Deed
<1>4. Shaped(d)' /\ Solely(d)
  BY <1>3, AppliedShaped DEF Applied
<1>5. /\ primary' = [primary EXCEPT ![w] = HandsOn(w)]
      /\ UNCHANGED <<life, slug, at, shared, refused, setConf, queued, forms, setNode>>
  BY DEF NextPrimary
<1>6. primary' \in [Sited -> SUBSET (Host \cup {Sys})]
  BY <1>1, <1>5 DEF SetTyped, HandsOn
<1>7. SetTyped'
  BY <1>4, <1>5, <1>6, DeskTyped DEF setConf, setNode, SetTyped
<1> QED BY <1>1, <1>3, <1>7

LEMMA PrimaryTyped ==
  ASSUME SetTyped, NEW d \in Desk, NEW w \in Sited, NEW h \in Host \cup {Sys}, SetPrimaryDomain(d, w, h)
  PROVE  SetTyped' /\ Applied(d, {w}, "update")
<1>1. {w} \in SUBSET Sited /\ Applies(d, {w}, "update")
  BY DEF SetPrimaryDomain
<1>2. Applied(d, {w}, "update")
  BY <1>1, AppliesDoes DEF Deed
<1>3. Shaped(d)' /\ Solely(d)
  BY <1>2, AppliedShaped DEF Applied
<1>4. /\ forms < MaxForms /\ forms' = forms + 1 /\ primary' = [primary EXCEPT ![w] = {h}]
      /\ UNCHANGED <<life, slug, at, shared, refused, setConf, queued, setNode>>
  BY DEF SetPrimaryDomain
<1>5. forms' \in 0 .. MaxForms /\ \A g \in Group : shared'[g] <= forms'
  BY <1>4, FormsGoOn
<1>6. primary' \in [Sited -> SUBSET (Host \cup {Sys})]
  BY <1>4 DEF SetTyped
<1>7. SetTyped'
  BY <1>3, <1>4, <1>5, <1>6, DeskTyped DEF setConf, setNode, SetTyped
<1> QED BY <1>2, <1>7

LEMMA GroupTyped ==
  ASSUME SetTyped, NEW d \in Desk, NEW g \in Group, SaveEnvGroup(d, g)
  PROVE  SetTyped' /\ Solely(d) /\ desk'[d].pc = "users" /\ desk'[d].val.gs = {g}
<1>1. /\ forms < MaxForms /\ forms' = forms + 1 /\ shared' = [shared EXCEPT ![g] = @ + 1]
      /\ desk' = [desk EXCEPT ![d] = [Away EXCEPT !.pc = "users", !.val.gs = {g}]]
      /\ UNCHANGED <<life, slug, at, primary, refused, setConf, queued, setNode>>
  BY DEF SaveEnvGroup
<1>2. Solely(d) /\ desk'[d].pc = "users" /\ desk'[d].op = "none" /\ desk'[d].val.gs = {g}
  BY <1>1, UsersDoes
<1>3. Shaped(d)'
  BY <1>2 DEF Shaped
<1>4. forms' \in 0 .. MaxForms /\ forms \in Nat
  BY <1>1, FormsGoOn DEF SetTyped
<1>5. shared' \in [Group -> Nat] /\ \A x \in Group : shared'[x] <= forms'
  BY <1>1, <1>4 DEF SetTyped
<1>6. SetTyped'
  BY <1>1, <1>2, <1>3, <1>4, <1>5, DeskTyped DEF setConf, setNode, SetTyped
<1> QED BY <1>2, <1>6

LEMMA UsersTyped ==
  ASSUME SetTyped, NEW d \in Desk, UsersOfGroup(d)
  PROVE  SetTyped' /\ Applied(d, UsersOf(desk[d].val.gs), "update")
<1>1. UsersOf(desk[d].val.gs) \in SUBSET Sited /\ Applies(d, UsersOf(desk[d].val.gs), "update")
  BY DEF UsersOfGroup, UsersOf, Stands
<1>2. Applied(d, UsersOf(desk[d].val.gs), "update")
  BY <1>1, AppliesDoes DEF Deed
<1>3. Shaped(d)' /\ Solely(d)
  BY <1>2, AppliedShaped DEF Applied
<1>4. UNCHANGED <<setRows, setConf, queued, forms, setNode>>
  BY DEF UsersOfGroup
<1>5. SetTyped'
  BY <1>3, <1>4, DeskTyped DEF setRows, setConf, setNode, SetTyped
<1> QED BY <1>2, <1>5

LEMMA DropTyped ==
  ASSUME SetTyped, NEW d \in Desk, DropGroup(d)
  PROVE  SetTyped' /\ Solely(d) /\ desk'[d] = Away
<1>1. /\ shared' = [g \in Group |-> IF g \in desk[d].val.gs THEN 0 ELSE shared[g]]
      /\ desk' = [desk EXCEPT ![d] = Away]
      /\ UNCHANGED <<life, slug, at, primary, refused, setConf, queued, forms, setNode>>
  BY DEF DropGroup, Closes
<1>2. Solely(d) /\ desk'[d] = Away
  BY <1>1, BlanksTyped, DeskBecomes
<1>3. Shaped(d)'
  BY <1>2, AwayIs DEF Shaped
<1>4. shared' \in [Group -> Nat] /\ \A x \in Group : shared'[x] <= forms'
  <2>1. forms \in Nat /\ forms' = forms /\ \A x \in Group : shared[x] \in Nat /\ shared[x] <= forms
    BY <1>1 DEF SetTyped
  <2> QED BY <1>1, <2>1
<1>5. SetTyped'
  BY <1>1, <1>2, <1>3, <1>4, DeskTyped DEF setConf, setNode, SetTyped
<1> QED BY <1>2, <1>5

LEMMA InsertTyped ==
  ASSUME SetTyped, NEW d \in Desk, InsertStaging(d)
  PROVE  /\ SetTyped' /\ desk[d].w \in Sited /\ desk[d].mine \in Conf
         /\ \/ Solely(d) /\ desk'[d] = Away /\ UNCHANGED <<life, cfg, wish>>
            \/ \E c \in Twin : /\ life[c] = "none" /\ Applied(d, {c}, "clone")
                               /\ life' = [life EXCEPT ![c] = "live"]
                               /\ cfg' = [cfg EXCEPT ![c] = desk[d].mine]
                               /\ wish' = [wish EXCEPT ![c] = desk[d].mine]
<1> DEFINE w == desk[d].w  s == [of |-> w, n |-> desk[d].val.n]
<1>1. w \in Sited /\ desk[d].mine \in Conf /\ desk[d].val.n \in Nat
  BY DEF SetTyped, Shaped, InsertStaging, Sits, Entry, Answer
<1>2. s \in [of : Sited \cup {Nil}, n : Nat]
  BY <1>1
<1>3. UNCHANGED <<at, primary, shared, queued, forms, setNode>>
  BY DEF InsertStaging
<1> HIDE DEF s
<1>4. CASE \E c \in Twin : slug[c] = s
  <2>1. desk' = [desk EXCEPT ![d] = Away] /\ UNCHANGED <<life, slug, setConf>>
    BY <1>4 DEF InsertStaging, Closes, s
  <2>2. Solely(d) /\ desk'[d] = Away
    BY <2>1, BlanksTyped, DeskBecomes
  <2>3. Shaped(d)'
    BY <2>2, AwayIs DEF Shaped
  <2>4. SetTyped'
    BY <1>3, <2>1, <2>2, <2>3, DeskTyped DEF setConf, setNode, SetTyped
  <2> QED BY <1>1, <2>1, <2>2, <2>4 DEF setConf
<1>5. CASE ~ \E c \in Twin : slug[c] = s
  <2>1. PICK c \in Twin : /\ life[c] = "none" /\ life' = [life EXCEPT ![c] = "live"]
                          /\ slug' = [slug EXCEPT ![c] = s]
                          /\ cfg' = [cfg EXCEPT ![c] = desk[d].mine]
                          /\ wish' = [wish EXCEPT ![c] = desk[d].mine]
                          /\ Applies(d, {c}, "clone")
    BY <1>5 DEF InsertStaging, s
  <2>2. {c} \in SUBSET Sited
    BY DEF Sited
  <2>3. Applied(d, {c}, "clone")
    BY <2>1, <2>2, AppliesDoes DEF Deed
  <2>4. Shaped(d)' /\ Solely(d)
    BY <2>3, AppliedShaped DEF Applied
  <2>5. /\ life' \in [Sited -> {"none", "live", "error", "deleting", "deleted"}]
        /\ cfg' \in [Sited -> Conf] /\ wish' \in [Sited -> Conf]
        /\ slug' \in [Twin -> [of : Sited \cup {Nil}, n : Nat]]
    BY <1>1, <1>2, <2>1 DEF SetTyped
  <2>6. SetTyped'
    BY <1>3, <2>4, <2>5, DeskTyped DEF setNode, SetTyped
  <2> QED BY <1>1, <2>1, <2>3, <2>6
<1> QED BY <1>4, <1>5

LEMMA PushTyped ==
  ASSUME SetTyped, NEW d \in Desk, NEW w \in Sited, PushStaging(d, w)
  PROVE  SetTyped' /\ Applied(d, {w}, "push")
<1>1. {w} \in SUBSET Sited /\ Applies(d, {w}, "push")
  BY DEF PushStaging
<1>2. Applied(d, {w}, "push")
  BY <1>1, AppliesDoes DEF Deed
<1>3. Shaped(d)' /\ Solely(d)
  BY <1>2, AppliedShaped DEF Applied
<1>4. forms < MaxForms /\ forms' = forms + 1 /\ UNCHANGED <<setRows, setConf, queued, setNode>>
  BY DEF PushStaging
<1>5. forms' \in 0 .. MaxForms /\ \A g \in Group : shared'[g] <= forms'
  BY <1>4, FormsGoOn DEF setRows
<1>6. SetTyped'
  BY <1>3, <1>4, <1>5, DeskTyped DEF setRows, setConf, setNode, SetTyped
<1> QED BY <1>2, <1>6

LEMMA DeleteTyped ==
  ASSUME SetTyped, NEW d \in Desk, NEW w \in Sited, DeleteSite(d, w)
  PROVE  SetTyped' /\ Solely(d) /\ desk'[d].pc = "build" /\ Deletes(desk'[d].left, w)
<1>1. PICK q : q = Deletion(w)
  OBVIOUS
<1>2. Deletes(q, w) /\ q \in Seq(Errand) /\ q # <<>>
  BY <1>1, DeletionListed DEF Deletes
<1>3. /\ desk' = [desk EXCEPT ![d] = [Away EXCEPT !.pc = "build", !.left = q]]
      /\ forms < MaxForms /\ forms' = forms + 1 /\ UNCHANGED <<setRows, setConf, queued, setNode>>
  BY <1>1 DEF DeleteSite, Deletion, ErrandsFor
<1>4. Solely(d) /\ desk'[d].pc = "build" /\ desk'[d].op = "none" /\ desk'[d].left = q
  BY <1>2, <1>3, DeleteDoes
<1>5. Shaped(d)'
  BY <1>2, <1>4 DEF Shaped
<1>6. forms' \in 0 .. MaxForms /\ \A g \in Group : shared'[g] <= forms'
  BY <1>3, FormsGoOn DEF setRows
<1>7. SetTyped'
  BY <1>3, <1>4, <1>5, <1>6, DeskTyped DEF setRows, setConf, setNode, SetTyped
<1> QED BY <1>2, <1>4, <1>7

\* The next errand: its site is gone, or its job is built.
InTurn(d) == desk[d].left[1]
LEMMA BuildTyped ==
  ASSUME SetTyped, NEW d \in Desk, BuildSpec(d)
  PROVE  /\ SetTyped' /\ desk[d].left # <<>> /\ InTurn(d) \in Errand /\ InTurn(d) = Head(desk[d].left)
         /\ \/ InTurn(d).w \notin Stands /\ Went(d) /\ UNCHANGED life
            \/ /\ InTurn(d).w \in Stands
               /\ Solely(d) /\ desk'[d].pc = "queue" /\ desk'[d].spec = SpecOf(InTurn(d).w)
               /\ desk'[d].op = desk[d].op /\ desk'[d].w = desk[d].w /\ desk'[d].val = desk[d].val
               /\ desk'[d].mine = desk[d].mine /\ desk'[d].left = desk[d].left
               /\ life' = IF InTurn(d).kind = "delete" THEN [life EXCEPT ![InTurn(d).w] = "deleting"] ELSE life
<1>1. desk[d].left \in Seq(Errand) /\ desk[d].left # <<>> /\ Shaped(d)
  BY DEF SetTyped, Entry, Shaped, BuildSpec, Sits
<1>2. InTurn(d) \in Errand /\ InTurn(d) = Head(desk[d].left)
  BY <1>1, TailOf DEF InTurn
<1>3. InTurn(d).w \in Sited
  BY <1>2 DEF Errand
<1>4. UNCHANGED <<slug, at, primary, shared, refused, setConf, queued, forms, setNode>>
  BY DEF BuildSpec
<1>5. CASE InTurn(d).w \notin Stands
  <2>1. /\ desk' = [desk EXCEPT ![d] = NextErrand(d)]
        /\ UNCHANGED life /\ desk[d].pc = "build"
    BY <1>2, <1>5 DEF BuildSpec, Sits
  <2>2. Went(d)
    BY <1>1, <2>1, WentDoes
  <2>3. Shaped(d)' /\ Solely(d)
    BY <1>1, <2>2, WentShaped DEF Went
  <2>4. SetTyped'
    BY <1>4, <2>1, <2>3, DeskTyped DEF setConf, setNode, SetTyped
  <2> QED BY <1>1, <1>2, <1>5, <2>1, <2>2, <2>4
<1>6. CASE InTurn(d).w \in Stands
  <2>1. /\ desk' = [desk EXCEPT ![d].pc = "queue", ![d].spec = SpecOf(InTurn(d).w)]
        /\ life' = IF InTurn(d).kind = "delete" THEN [life EXCEPT ![InTurn(d).w] = "deleting"] ELSE life
    BY <1>2, <1>6 DEF BuildSpec
  <2>2. SpecOf(InTurn(d).w) \in Recipe
    BY <1>3, SpecTyped
  <2>3. /\ Solely(d) /\ desk'[d].pc = "queue" /\ desk'[d].spec = SpecOf(InTurn(d).w)
        /\ desk'[d].op = desk[d].op /\ desk'[d].w = desk[d].w /\ desk'[d].val = desk[d].val
        /\ desk'[d].mine = desk[d].mine /\ desk'[d].left = desk[d].left
    BY <2>1, <2>2, QueueDoes
  <2>4. Shaped(d)'
    BY <1>1, <2>2, <2>3 DEF Shaped
  <2>5. life' \in [Sited -> {"none", "live", "error", "deleting", "deleted"}]
    BY <2>1 DEF SetTyped
  <2>6. SetTyped'
    BY <1>4, <2>3, <2>4, <2>5, DeskTyped DEF setConf, setNode, SetTyped
  <2> QED BY <1>1, <1>2, <1>6, <2>1, <2>3, <2>6
<1> QED BY <1>5, <1>6

LEMMA QueueTyped ==
  ASSUME SetTyped, NEW d \in Desk, QueueJob(d)
  PROVE  /\ SetTyped' /\ desk[d].left # <<>> /\ InTurn(d) \in Errand /\ InTurn(d) = Head(desk[d].left)
         /\ Went(d) /\ desk[d].spec \in Recipe
         /\ \E e \in Task : /\ e.kind = InTurn(d).kind /\ e.spec = desk[d].spec
                            /\ queued' = [queued EXCEPT ![InTurn(d).w] = Append(queued[InTurn(d).w], e)]
<1>1. desk[d].left \in Seq(Errand) /\ desk[d].left # <<>> /\ Shaped(d) /\ desk[d].spec \in Recipe /\ desk[d].pc = "queue"
  BY DEF SetTyped, Entry, Shaped, QueueJob, Sits
<1>2. InTurn(d) \in Errand /\ InTurn(d) = Head(desk[d].left)
  BY <1>1, TailOf DEF InTurn
<1>3. PICK e : e = [kind |-> InTurn(d).kind, spec |-> desk[d].spec]
  OBVIOUS
<1>4. e \in Task /\ e.kind = InTurn(d).kind /\ e.spec = desk[d].spec
  BY <1>1, <1>2, <1>3 DEF Task, Errand
<1>5. queued' = [queued EXCEPT ![InTurn(d).w] = Append(queued[InTurn(d).w], e)]
  BY <1>2, <1>3 DEF QueueJob
<1>6. Went(d)
  BY <1>1, WentDoes DEF QueueJob
<1>7. Shaped(d)' /\ Solely(d)
  BY <1>1, <1>6, WentShaped DEF Went
<1>8. queued' \in [Sited -> Seq(Task)]
  <2>1. InTurn(d).w \in Sited
    BY <1>2 DEF Errand
  <2>2. queued[InTurn(d).w] \in Seq(Task)
    BY <2>1 DEF SetTyped
  <2>3. Append(queued[InTurn(d).w], e) \in Seq(Task)
    BY <1>4, <2>2, Appended
  <2> QED BY <1>5, <2>3 DEF SetTyped
<1>9. UNCHANGED <<setRows, setConf, forms, setNode>>
  BY DEF QueueJob
<1>10. SetTyped'
  BY <1>7, <1>8, <1>9, DeskTyped DEF setRows, setConf, setNode, SetTyped
<1> QED BY <1>1, <1>2, <1>4, <1>5, <1>6, <1>10

-----------------------------------------------------------------------------
(* What the node does to a site.                                           *)

Foremost(w) == queued[w][1]
Port(w) == IF w \in App THEN 0 ELSE Foremost(w).spec.port

\* The oldest job of w is done; nothing happens to the other sites.
Works(w) ==
  /\ queued[w] # <<>> /\ queued' = [queued EXCEPT ![w] = Tail(queued[w])]
  /\ runs' \in [Sited -> Recipe \cup {Nil}] /\ opens' \in [Sited -> Nat]
  /\ \A v \in Sited \ {w} : runs'[v] = runs[v] /\ opens'[v] = opens[v] /\ (v \in fine' <=> v \in fine)
  /\ UNCHANGED setPanel

LEMMA WorksTyped ==
  ASSUME SetTyped, NEW w \in Sited, Works(w), fine' \subseteq Sited,
         life' \in [Sited -> {"none", "live", "error", "deleting", "deleted"}],
         at' \in [Host -> Sited \cup {Nil}],
         primary' \in [Sited -> SUBSET (Host \cup {Sys})]
  PROVE  SetTyped'
<1>1. queued[w] \in Seq(Task) /\ queued[w] # <<>>
  BY DEF SetTyped, Works
<1>2. Tail(queued[w]) \in Seq(Task)
  BY <1>1, TailOf
<1>3. queued' \in [Sited -> Seq(Task)]
  BY <1>2 DEF SetTyped, Works
<1>4. slug' = slug /\ shared' = shared /\ cfg' = cfg /\ wish' = wish /\ desk' = desk /\ forms' = forms
  BY DEF Works, setPanel, setConf
<1>5. \A d \in Desk : Shaped(d)'
  BY <1>4 DEF SetTyped, Shaped
<1> QED BY <1>3, <1>4, <1>5 DEF SetTyped, Works

LEMMA HeadOfQueue ==
  ASSUME SetTyped, NEW w \in Sited, queued[w] # <<>>
  PROVE  /\ Head(queued[w]) = Foremost(w) /\ Foremost(w) \in Task /\ Foremost(w).spec \in Recipe
         /\ Port(w) \in Nat
<1>1. queued[w] \in Seq(Task)
  BY DEF SetTyped
<1>2. Head(queued[w]) = Foremost(w) /\ Foremost(w) \in Task
  BY <1>1, TailOf DEF Foremost
<1>3. Foremost(w).spec \in Recipe
  BY <1>2 DEF Task
<1>4. Foremost(w).spec.port \in Nat
  BY <1>3 DEF Recipe
<1> QED BY <1>2, <1>3, <1>4 DEF Port

LEMMA RemadeTyped ==
  ASSUME SetTyped, NEW w \in Sited, NEW r \in Recipe \cup {Nil}, NEW p \in Nat, Remade(w, r, p)
  PROVE  /\ runs' \in [Sited -> Recipe \cup {Nil}] /\ opens' \in [Sited -> Nat]
         /\ runs'[w] = r /\ opens'[w] = p
         /\ \A v \in Sited \ {w} : runs'[v] = runs[v] /\ opens'[v] = opens[v]
BY DEF Remade, SetTyped

LEMMA UpdateTyped ==
  ASSUME SetTyped, NEW w \in Sited, UpdateJob(w)
  PROVE  /\ SetTyped' /\ Works(w) /\ Foremost(w).kind = "update" /\ UNCHANGED <<life, at, primary>>
         /\ \/ w \in fine' /\ runs'[w] = Foremost(w).spec /\ opens'[w] = Port(w)
            \/ w \notin fine' /\ opens'[w] \in {opens[w], 0, Port(w)}
         /\ runs[w] = Nil => runs'[w] = Nil /\ opens'[w] = opens[w]
<1>1. queued[w] # <<>> /\ Head(queued[w]).kind = "update" /\ queued' = [queued EXCEPT ![w] = Tail(queued[w])]
  BY DEF UpdateJob
<1>2. Head(queued[w]) = Foremost(w) /\ Foremost(w) \in Task /\ Foremost(w).spec \in Recipe /\ Port(w) \in Nat
  BY <1>1, HeadOfQueue
<1>3. UNCHANGED <<life, at, primary, setPanel>>
  BY DEF UpdateJob
<1> DEFINE s == Foremost(w).spec
<1>4. \/ /\ runs[w] # Nil /\ Remade(w, s, Port(w)) /\ fine' = fine \cup {w}
      \/ /\ fine' = fine \ {w}
         /\ \/ UNCHANGED <<runs, opens>>
            \/ runs[w] # Nil /\ Remade(w, s, 0)
            \/ runs[w] # Nil /\ Remade(w, s, Port(w))
  BY <1>2 DEF UpdateJob, Port
<1> HIDE DEF s
<1>5. s \in Recipe \cup {Nil} /\ 0 \in Nat
  BY <1>2 DEF s
<1>6. fine' \subseteq Sited /\ \A v \in Sited \ {w} : v \in fine' <=> v \in fine
  BY <1>4 DEF SetTyped
<1>7. /\ runs' \in [Sited -> Recipe \cup {Nil}] /\ opens' \in [Sited -> Nat]
      /\ \A v \in Sited \ {w} : runs'[v] = runs[v] /\ opens'[v] = opens[v]
      /\ \/ w \in fine' /\ runs'[w] = s /\ opens'[w] = Port(w)
         \/ w \notin fine' /\ opens'[w] \in {opens[w], 0, Port(w)}
      /\ runs[w] = Nil => runs'[w] = Nil /\ opens'[w] = opens[w]
  <2>1. CASE runs[w] # Nil /\ Remade(w, s, Port(w))
    BY <1>2, <1>4, <1>5, <2>1, RemadeTyped
  <2>2. CASE runs[w] # Nil /\ Remade(w, s, 0) /\ fine' = fine \ {w}
    BY <1>5, <2>2, RemadeTyped
  <2>3. CASE UNCHANGED <<runs, opens>> /\ fine' = fine \ {w}
    BY <2>3 DEF SetTyped
  <2> QED BY <1>4, <2>1, <2>2, <2>3
<1>8. Works(w)
  BY <1>1, <1>3, <1>6, <1>7 DEF Works
<1>9. SetTyped'
  BY <1>3, <1>6, <1>8, WorksTyped DEF SetTyped
<1> QED BY <1>1, <1>2, <1>3, <1>7, <1>8, <1>9 DEF s

LEMMA CloneTyped ==
  ASSUME SetTyped, NEW w \in Sited, CloneJob(w)
  PROVE  /\ SetTyped' /\ Works(w) /\ Foremost(w).kind \in {"clone", "push"} /\ UNCHANGED <<at, primary>>
         /\ opens'[w] = opens[w]
         /\ \/ fine' = fine /\ runs'[w] = Foremost(w).spec /\ life' = life
            \/ w \notin fine' /\ life' = [life EXCEPT ![w] = "error"]
<1>1. queued[w] # <<>> /\ Head(queued[w]).kind \in {"clone", "push"} /\ queued' = [queued EXCEPT ![w] = Tail(queued[w])]
  BY DEF CloneJob
<1>2. Head(queued[w]) = Foremost(w) /\ Foremost(w) \in Task /\ Foremost(w).spec \in Recipe
  BY <1>1, HeadOfQueue
<1>3. UNCHANGED <<at, primary, setPanel>>
  BY DEF CloneJob
<1>4. opens[w] \in Nat /\ runs[w] \in Recipe \cup {Nil}
  BY DEF SetTyped
<1>5. CASE Remade(w, Foremost(w).spec, opens[w]) /\ UNCHANGED <<life, fine, broken>>
  <2>1. /\ runs' \in [Sited -> Recipe \cup {Nil}] /\ opens' \in [Sited -> Nat]
        /\ runs'[w] = Foremost(w).spec /\ opens'[w] = opens[w]
        /\ \A v \in Sited \ {w} : runs'[v] = runs[v] /\ opens'[v] = opens[v]
    BY <1>2, <1>4, <1>5, RemadeTyped
  <2>2. Works(w)
    BY <1>1, <1>3, <1>5, <2>1 DEF Works
  <2>3. SetTyped'
    BY <1>3, <1>5, <2>2, WorksTyped DEF SetTyped
  <2> QED BY <1>1, <1>2, <1>3, <1>5, <2>1, <2>2, <2>3
<1>6. CASE /\ life' = [life EXCEPT ![w] = "error"] /\ fine' = fine \ {w}
           /\ UNCHANGED opens /\ \E r \in {runs[w], Foremost(w).spec} : runs' = [runs EXCEPT ![w] = r]
  <2>1. PICK r \in {runs[w], Foremost(w).spec} : runs' = [runs EXCEPT ![w] = r]
    BY <1>6
  <2>2. r \in Recipe \cup {Nil}
    BY <1>2, <1>4, <2>1
  <2>3. /\ runs' \in [Sited -> Recipe \cup {Nil}] /\ opens' \in [Sited -> Nat] /\ opens' = opens
        /\ \A v \in Sited \ {w} : runs'[v] = runs[v]
    BY <1>6, <2>1, <2>2 DEF SetTyped
  <2>4. fine' \subseteq Sited /\ \A v \in Sited \ {w} : v \in fine' <=> v \in fine
    BY <1>6 DEF SetTyped
  <2>5. Works(w)
    BY <1>1, <1>3, <2>3, <2>4 DEF Works
  <2>6. life' \in [Sited -> {"none", "live", "error", "deleting", "deleted"}]
    BY <1>6 DEF SetTyped
  <2>7. SetTyped'
    BY <1>3, <2>4, <2>5, <2>6, WorksTyped DEF SetTyped
  <2> QED BY <1>1, <1>2, <1>3, <1>6, <2>3, <2>5, <2>7
<1> QED BY <1>2, <1>5, <1>6 DEF CloneJob

LEMMA DeletedTyped ==
  ASSUME SetTyped, NEW w \in Sited, DeleteJob(w)
  PROVE  /\ SetTyped' /\ Works(w) /\ Foremost(w).kind = "delete"
         /\ \/ /\ runs'[w] = Nil /\ opens'[w] = 0 /\ life' = [life EXCEPT ![w] = "deleted"]
               /\ at' = [h \in Host |-> IF at[h] = w THEN Nil ELSE at[h]]
               /\ primary' = [primary EXCEPT ![w] = {}]
            \/ /\ w \notin fine' /\ life' = [life EXCEPT ![w] = "error"]
               /\ UNCHANGED <<runs, opens, at, primary>>
<1>1. queued[w] # <<>> /\ Head(queued[w]).kind = "delete" /\ queued' = [queued EXCEPT ![w] = Tail(queued[w])]
  BY DEF DeleteJob
<1>2. Head(queued[w]) = Foremost(w)
  BY <1>1, HeadOfQueue
<1>3. UNCHANGED setPanel
  BY DEF DeleteJob
<1>4. CASE /\ Remade(w, Nil, 0) /\ at' = [h \in Host |-> IF at[h] = w THEN Nil ELSE at[h]]
           /\ primary' = [primary EXCEPT ![w] = {}] /\ life' = [life EXCEPT ![w] = "deleted"] /\ fine' = fine \cup {w}
  <2>1. /\ runs' \in [Sited -> Recipe \cup {Nil}] /\ opens' \in [Sited -> Nat]
        /\ runs'[w] = Nil /\ opens'[w] = 0
        /\ \A v \in Sited \ {w} : runs'[v] = runs[v] /\ opens'[v] = opens[v]
    BY <1>4, RemadeTyped
  <2>2. fine' \subseteq Sited /\ \A v \in Sited \ {w} : v \in fine' <=> v \in fine
    BY <1>4 DEF SetTyped
  <2>3. Works(w)
    BY <1>1, <1>3, <2>1, <2>2 DEF Works
  <2>4. /\ life' \in [Sited -> {"none", "live", "error", "deleting", "deleted"}]
        /\ at' \in [Host -> Sited \cup {Nil}] /\ primary' \in [Sited -> SUBSET (Host \cup {Sys})]
    BY <1>4 DEF SetTyped
  <2>5. SetTyped'
    BY <2>2, <2>3, <2>4, WorksTyped
  <2> QED BY <1>1, <1>2, <1>4, <2>1, <2>3, <2>5
<1>5. CASE life' = [life EXCEPT ![w] = "error"] /\ fine' = fine \ {w} /\ UNCHANGED <<runs, opens, at, primary>>
  <2>1. fine' \subseteq Sited /\ \A v \in Sited \ {w} : v \in fine' <=> v \in fine
    BY <1>5 DEF SetTyped
  <2>2. Works(w)
    BY <1>1, <1>3, <1>5, <2>1 DEF Works, SetTyped
  <2>3. life' \in [Sited -> {"none", "live", "error", "deleting", "deleted"}]
    BY <1>5 DEF SetTyped
  <2>4. SetTyped'
    BY <1>5, <2>1, <2>2, <2>3, WorksTyped DEF SetTyped
  <2> QED BY <1>1, <1>2, <1>5, <2>2, <2>4
<1> QED BY <1>4, <1>5 DEF DeleteJob

-----------------------------------------------------------------------------
(* One request at a time.  What it read is still so; its errands differ,   *)
(* and so do the deletions in the queues.                                  *)

OneDesk == \A d, e \in Desk : d = e

\* What the request in progress read is still so.
Knows(d) ==
  LET w == desk[d].w
      mine == desk[d].mine
      val == desk[d].val
  IN /\ desk[d].pc \in {"ports", "write", "insert"} =>
          /\ mine.own = cfg[w].own /\ mine.groups = cfg[w].groups /\ mine.on = cfg[w].on
          /\ \A g \in mine.groups : shared[g] > 0
     /\ desk[d].pc = "ports" => desk[d].op = "sftp" /\ w \notin App /\ mine.port = 0 /\ cfg[w].port = 0
     /\ desk[d].pc = "write" =>
          /\ desk[d].op \in {"own", "quiet", "groups", "sftp"}
          /\ desk[d].op = "sftp" => w \notin App
          /\ desk[d].op = "groups" => \A g \in val.gs : shared[g] > 0
          /\ \/ mine.port = cfg[w].port
             \/ desk[d].op = "sftp" /\ cfg[w].port = 0 /\ \A v \in Stands : cfg[v].port # mine.port
     /\ desk[d].pc = "insert" => ~mine.on /\ mine.port = 0
     /\ desk[d].pc = "next" => primary[w] = {}
     /\ desk[d].pc = "drop" => UsersOf(desk[d].val.gs) = {}
     /\ desk[d].pc = "queue" =>
          /\ InTurn(d).w \in Stands => desk[d].spec = SpecOf(InTurn(d).w)
          /\ desk[d].spec.port \in {0, cfg[InTurn(d).w].port}
          /\ life[InTurn(d).w] # "none"

\* Its errands are of different sites, and none is for a site that goes.
Errands(d) ==
  desk[d].pc \in {"build", "queue"} =>
    /\ \A i, j \in DOMAIN desk[d].left : i # j => desk[d].left[i].w # desk[d].left[j].w
    /\ \A k \in DOMAIN desk[d].left : desk[d].left[k].kind # "update" => ~Condemned(desk[d].left[k].w)
    /\ desk[d].pc = "queue" /\ InTurn(d).kind # "update" => InTurn(d).w \in Stands
    /\ desk[d].pc = "queue" /\ InTurn(d).kind = "delete" => life[InTurn(d).w] # "live"

Handing(d, w) == desk[d].pc = "next" /\ desk[d].w = w
ToDo(d, w, kind) ==
  desk[d].pc \in {"build", "queue"} /\ \E k \in DOMAIN desk[d].left : desk[d].left[k].w = w /\ desk[d].left[k].kind = kind
\* An update of the site is on its way; so is the copy.
Applying(d, w) == ToDo(d, w, "update") \/ Handing(d, w) \/ (desk[d].pc = "users" /\ w \in UsersOf(desk[d].val.gs))
Copying(d, w) == ToDo(d, w, "clone")

\* The configuration is what was asked for; its port is the only one the site ever had.
Right(w) ==
  /\ wish[w].own = cfg[w].own /\ wish[w].groups = cfg[w].groups /\ wish[w].on = cfg[w].on
  /\ w \in App => ~cfg[w].on /\ cfg[w].port = 0
  /\ w \in Stands => \A g \in cfg[w].groups : shared[g] > 0
  /\ opens[w] \in {0, cfg[w].port}
  /\ \A k \in DOMAIN queued[w] : queued[w][k].spec.port \in {0, cfg[w].port}
  /\ w \notin Stands => opens[w] = 0 /\ runs[w] = Nil
  /\ life[w] = "none" => queued[w] = <<>> /\ primary[w] = {Sys}
Named(w) == w \in Stands => (\E x \in Host \cup {Sys} : primary[w] = {x}) \/ \E d \in Desk : Handing(d, w)
Several == \A w, v \in Stands : w # v => cfg[w].port = 0 \/ cfg[w].port # cfg[v].port

\* After a deletion come only updates, which find nothing.
Doom(w) ==
  /\ \A i, j \in DOMAIN queued[w] : i < j /\ queued[w][i].kind = "delete" => queued[w][j].kind = "update"
  /\ w \notin Stands => \A i \in DOMAIN queued[w] : queued[w][i].kind = "update"
  /\ life[w] = "live" => ~Condemned(w)

\* The last of its jobs carries what the site should be; a copy finds the port as it leaves it.
LastPort(w) == IF queued[w] = <<>> THEN w \in fine => opens[w] = SpecOf(w).port
               ELSE queued[w][Len(queued[w])].spec.port = SpecOf(w).port
LastSpec(w) == IF queued[w] = <<>> THEN w \in fine => runs[w] = SpecOf(w)
               ELSE queued[w][Len(queued[w])].spec = SpecOf(w)
Links(w) == \A k \in DOMAIN queued[w] : queued[w][k].kind \in {"clone", "push"} =>
  IF k = 1 THEN w \in fine => opens[w] = queued[w][k].spec.port
  ELSE queued[w][k - 1].spec.port = queued[w][k].spec.port
Delivered(w) ==
  /\ Links(w)
  /\ w \in Stands /\ (\A d \in Desk : ~Applying(d, w)) => LastPort(w)
  /\ w \in Stands /\ (\A d \in Desk : ~Applying(d, w) /\ ~Copying(d, w)) => LastSpec(w)

SetInv ==
  /\ SetTyped
  /\ \A d \in Desk : Knows(d) /\ Errands(d)
  /\ \A w \in Sited : Right(w) /\ Named(w) /\ Doom(w) /\ Delivered(w)
  /\ Several

-----------------------------------------------------------------------------
LEMMA RowsTyped ==
  ASSUME SetTyped, NEW w \in Sited
  PROVE  /\ cfg[w] \in Conf /\ cfg[w].port \in Nat /\ w # Nil /\ queued[w] \in Seq(Task)
         /\ DOMAIN queued[w] = 1 .. Len(queued[w]) /\ Len(queued[w]) \in Nat
         /\ queued[w] = <<>> <=> Len(queued[w]) = 0
         /\ w \in Stands <=> life[w] \notin {"none", "deleted"}
         /\ opens[w] \in Nat
<1>1. cfg[w] \in Conf /\ queued[w] \in Seq(Task) /\ opens[w] \in Nat
  BY DEF SetTyped
<1>2. cfg[w].port \in Nat
  BY <1>1 DEF Conf
<1>3. w # Nil
  BY SettingsBounds DEF Sited
<1>4. DOMAIN queued[w] = 1 .. Len(queued[w]) /\ Len(queued[w]) \in Nat /\ (queued[w] = <<>> <=> Len(queued[w]) = 0)
  BY <1>1
<1> QED BY <1>1, <1>2, <1>3, <1>4 DEF Stands

\* The specification of a site is that of its fields.
LEMMA SpecStays ==
  ASSUME NEW w \in Sited,
         cfg'[w].own = cfg[w].own, cfg'[w].on = cfg[w].on, cfg'[w].port = cfg[w].port, cfg'[w].groups = cfg[w].groups,
         \A g \in cfg[w].groups : shared'[g] = shared[g],
         \A h \in Host : at'[h] = w <=> at[h] = w,
         primary'[w] = primary[w]
  PROVE  SpecOf(w)' = SpecOf(w)
<1>1. [g \in cfg[w].groups |-> shared[g]]' = [g \in cfg[w].groups |-> shared[g]]
  OBVIOUS
<1>2. {h \in Host : at[h] = w}' = {h \in Host : at[h] = w}
  OBVIOUS
<1>3. First(w)' = First(w)
  BY DEF First
<1> QED BY <1>1, <1>2, <1>3 DEF SpecOf
LEMMA SpecsStay ==
  ASSUME UNCHANGED <<cfg, shared, at, primary>>
  PROVE  \A w \in Sited : SpecOf(w)' = SpecOf(w)
BY SpecStays

LEMMA PortOfSpec ==
  ASSUME NEW w \in Sited
  PROVE  SpecOf(w).port = IF cfg[w].on THEN cfg[w].port ELSE 0
BY DEF SpecOf

LEMMA RightStays ==
  ASSUME NEW w \in Sited, Right(w), UNCHANGED <<queued, runs, opens>>,
         cfg'[w] = cfg[w], wish'[w] = wish[w], w \in Stands' <=> w \in Stands, life'[w] = "none" => life[w] = "none",
         w \in Stands => \A g \in cfg[w].groups : shared'[g] > 0,
         life[w] = "none" => primary'[w] = primary[w]
  PROVE  Right(w)'
BY DEF Right
LEMMA DoomStays ==
  ASSUME NEW w \in Sited, Doom(w), UNCHANGED queued, w \in Stands' <=> w \in Stands, life'[w] = "live" => life[w] = "live"
  PROVE  Doom(w)'
BY DEF Doom, Condemned
LEMMA NamedStays ==
  ASSUME NEW w \in Sited, Named(w), w \in Stands' => w \in Stands, primary'[w] = primary[w],
         \A d \in Desk : Handing(d, w) => Handing(d, w)'
  PROVE  Named(w)'
BY DEF Named
LEMMA DeliveredStays ==
  ASSUME NEW w \in Sited, Delivered(w), UNCHANGED <<queued, runs, opens, fine>>, w \in Stands' => w \in Stands,
         w \in Stands /\ (\A d \in Desk : ~Applying(d, w)') => SpecOf(w)' = SpecOf(w) /\ \A d \in Desk : ~Applying(d, w),
         w \in Stands /\ (\A d \in Desk : ~Applying(d, w)' /\ ~Copying(d, w)') => \A d \in Desk : ~Copying(d, w)
  PROVE  Delivered(w)'
<1>1. Links(w)'
  BY DEF Delivered, Links
<1>2. ASSUME w \in Stands', \A d \in Desk : ~Applying(d, w)' PROVE LastPort(w)'
  BY <1>2 DEF Delivered, LastPort
<1>3. ASSUME w \in Stands', \A d \in Desk : ~Applying(d, w)' /\ ~Copying(d, w)' PROVE LastSpec(w)'
  BY <1>3 DEF Delivered, LastSpec
<1> QED BY <1>1, <1>2, <1>3 DEF Delivered

\* A step of a request that changes no data.
LEMMA DeskMoves ==
  ASSUME OneDesk, SetInv, SetTyped', NEW d \in Desk, Knows(d)', Errands(d)',
         UNCHANGED <<at, primary, shared, setConf, queued, setNode>>,
         Stands' = Stands, \A w \in Sited : (life'[w] = "live" => life[w] = "live") /\ (life'[w] = "none" => life[w] = "none"),
         \A w \in Stands : Applying(d, w) => Applying(d, w)',
         \A w \in Stands : Copying(d, w) => Copying(d, w)',
         \A w \in Stands : Handing(d, w) => Handing(d, w)'
  PROVE  SetInv'
<1>1. \A e \in Desk : e = d
  BY DEF OneDesk
<1>2. \A e \in Desk : Knows(e)' /\ Errands(e)'
  BY <1>1
<1>3. ASSUME NEW w \in Sited PROVE Right(w)' /\ Named(w)' /\ Doom(w)' /\ Delivered(w)'
  <2>1. SpecOf(w)' = SpecOf(w)
    BY SpecsStay DEF setConf
  <2>2. Right(w) /\ Named(w) /\ Doom(w) /\ Delivered(w)
    BY DEF SetInv
  <2>3. Right(w)'
    BY <2>2, RightStays DEF setConf, setNode, Right
  <2>4. Named(w)'
    <3>1. CASE w \in Stands
      BY <1>1, <2>2, <3>1 DEF Named
    <3>2. CASE w \notin Stands
      BY <3>2 DEF Named
    <3> QED BY <3>1, <3>2
  <2>5. Doom(w)'
    BY <2>2, DoomStays
  <2>6. Delivered(w)'
    <3>1. w \in Stands /\ (\A e \in Desk : ~Applying(e, w)') => \A e \in Desk : ~Applying(e, w)
      BY <1>1
    <3>2. w \in Stands /\ (\A e \in Desk : ~Applying(e, w)' /\ ~Copying(e, w)') => \A e \in Desk : ~Copying(e, w)
      BY <1>1
    <3> QED BY <2>1, <2>2, <3>1, <3>2, DeliveredStays DEF setNode
  <2> QED BY <2>3, <2>4, <2>5, <2>6
<1>4. Several'
  BY DEF SetInv, Several, setConf
<1> QED BY <1>2, <1>3, <1>4 DEF SetInv

\* Errands for S are begun.
LEMMA AppliedKnows ==
  ASSUME SetTyped, NEW d \in Desk, NEW S \in SUBSET Sited, NEW kind \in Deed, Applied(d, S, kind), queued' = queued,
         kind # "update" => \A x \in S : ~Condemned(x)
  PROVE  /\ Knows(d)' /\ Errands(d)'
         /\ \A w \in Sited : (w \in S <=> ToDo(d, w, kind)') /\ ~Handing(d, w)'
<1>1. CASE S = {}
  <2>1. desk'[d].pc = "away"
    BY <1>1, AwayIs DEF Applied
  <2> QED BY <1>1, <2>1 DEF Knows, Errands, ToDo, Handing
<1>2. CASE S # {}
  <2>1. desk'[d].pc = "build" /\ Listed(desk'[d].left, S, kind)
    BY <1>2 DEF Applied
  <2>2. Knows(d)' /\ \A w \in Sited : ~Handing(d, w)'
    BY <2>1 DEF Knows, Handing
  <2>3. Errands(d)'
    BY <2>1 DEF Errands, Listed, Condemned
  <2>4. \A w \in Sited : w \in S <=> ToDo(d, w, kind)'
    BY <2>1 DEF ToDo, Listed
  <2> QED BY <2>2, <2>3, <2>4
<1> QED BY <1>1, <1>2

-----------------------------------------------------------------------------
(* Requests that only read.                                                *)

LEMMA OpensKeeps ==
  ASSUME OneDesk, SetInv, SetTyped', NEW d \in Desk, NEW op \in Form, NEW w \in Sited \cup {Nil}, NEW val \in Answer,
         NEW pc \in {"ports", "write", "insert", "drop"},
         OpensForm(d, op, w, val, pc), Opened(d, op, w, val, pc), Knows(d)'
  PROVE  SetInv'
<1>1. desk[d].pc = "away" /\ UNCHANGED <<setRows, setConf, queued, setNode>>
  BY DEF OpensForm, Sits
<1>2. desk'[d].pc = pc
  BY DEF Opened
<1>3. Errands(d)'
  BY <1>2 DEF Errands
<1>4. \A v \in Sited : ~Applying(d, v) /\ ~Copying(d, v) /\ ~Handing(d, v)
  BY <1>1 DEF Applying, Copying, Handing, ToDo
<1>5. Stands' = Stands /\ life' = life
  BY <1>1 DEF Stands, setRows
<1>6. Stands \subseteq Sited
  BY DEF Stands
<1> QED BY <1>1, <1>3, <1>4, <1>5, <1>6, DeskMoves DEF setRows

\* What a request reads of a site that stands.
LEMMA ReadsRight ==
  ASSUME SetInv, NEW d \in Desk, NEW op \in Form, NEW w \in Sited, NEW val \in Answer, NEW pc \in Place,
         Opened(d, op, w, val, pc), w \in Live, UNCHANGED <<cfg, shared, life>>
  PROVE  /\ desk'[d].pc = pc /\ desk'[d].op = op /\ desk'[d].w = w /\ desk'[d].val = val
         /\ desk'[d].mine = cfg'[w] /\ \A g \in cfg'[w].groups : shared'[g] > 0
         /\ w \in Stands /\ Stands' = Stands
<1>1. w # Nil
  BY RowsTyped DEF SetInv
<1>2. w \in Stands
  BY DEF Live, Stands
<1>3. Right(w)
  BY DEF SetInv
<1> QED BY <1>1, <1>2, <1>3 DEF Opened, Right, Stands

LEMMA SaveKeeps ==
  ASSUME OneDesk, SetInv, NEW d \in Desk, NEW w \in Sited, SaveConfig(d, w) \/ SaveQuietly(d, w)
  PROVE  SetInv'
<1>1. SetTyped' /\ w \in Live
  BY SaveTyped DEF SetInv
<1>2. PICK op \in {"own", "quiet"}, val \in Answer : Opened(d, op, w, val, "write") /\ OpensForm(d, op, w, val, "write")
  BY SaveTyped DEF SetInv
<1>3. UNCHANGED <<cfg, shared, life>> /\ op \in Form /\ "write" \in Place
  BY <1>2 DEF OpensForm, setConf, setRows, Form, Place
<1>4. /\ desk'[d].pc = "write" /\ desk'[d].op = op /\ desk'[d].w = w
      /\ desk'[d].mine = cfg'[w] /\ \A g \in cfg'[w].groups : shared'[g] > 0
  BY <1>1, <1>2, <1>3, ReadsRight
<1>5. Knows(d)'
  BY <1>4 DEF Knows
<1> QED BY <1>1, <1>2, <1>3, <1>5, OpensKeeps

LEMMA AttachKeeps ==
  ASSUME OneDesk, SetInv, NEW d \in Desk, NEW w \in Sited, AttachEnvGroups(d, w)
  PROVE  SetInv'
<1>1. SetTyped' /\ w \in Live
  BY AttachTyped DEF SetInv
<1>2. PICK val \in Answer : /\ \A g \in val.gs : shared[g] > 0
                            /\ Opened(d, "groups", w, val, "write") /\ OpensForm(d, "groups", w, val, "write")
  BY AttachTyped DEF SetInv
<1>3. UNCHANGED <<cfg, shared, life>> /\ "groups" \in Form /\ "write" \in Place
  BY <1>2 DEF OpensForm, setConf, setRows, Form, Place
<1>4. /\ desk'[d].pc = "write" /\ desk'[d].op = "groups" /\ desk'[d].w = w /\ desk'[d].val = val
      /\ desk'[d].mine = cfg'[w] /\ \A g \in cfg'[w].groups : shared'[g] > 0
  BY <1>1, <1>2, <1>3, ReadsRight
<1>5. Knows(d)'
  BY <1>2, <1>3, <1>4 DEF Knows
<1> QED BY <1>1, <1>2, <1>3, <1>5, OpensKeeps

LEMMA SftpKeeps ==
  ASSUME OneDesk, SetInv, NEW d \in Desk, NEW w \in Sited, SetSftp(d, w)
  PROVE  SetInv'
<1>1. SetTyped' /\ w \in Live /\ w \in Wp \cup Twin
  BY SftpTyped DEF SetInv
<1>2. PICK val \in Answer, pc \in {"ports", "write"} :
        /\ pc = "ports" => val.on /\ cfg[w].port = 0
        /\ Opened(d, "sftp", w, val, pc) /\ OpensForm(d, "sftp", w, val, pc)
  BY SftpTyped DEF SetInv
<1>3. UNCHANGED <<cfg, shared, life>> /\ "sftp" \in Form /\ pc \in Place
  BY <1>2 DEF OpensForm, setConf, setRows, Form, Place
<1>4. /\ desk'[d].pc = pc /\ desk'[d].op = "sftp" /\ desk'[d].w = w /\ desk'[d].val = val
      /\ desk'[d].mine = cfg'[w] /\ \A g \in cfg'[w].groups : shared'[g] > 0
  BY <1>1, <1>2, <1>3, ReadsRight
<1>5. w \notin App
  BY <1>1, SettingsBounds
<1>6. Knows(d)'
  BY <1>2, <1>3, <1>4, <1>5 DEF Knows
<1> QED BY <1>1, <1>2, <1>3, <1>6, OpensKeeps

LEMMA AskDropKeeps ==
  ASSUME OneDesk, SetInv, NEW d \in Desk, NEW g \in Group, DeleteEnvGroup(d, g)
  PROVE  SetInv'
<1>1. SetTyped' /\ UsersOf({g}) = {}
  BY DropAsked DEF SetInv
<1>2. PICK val \in Answer : val.gs = {g} /\ Opened(d, "drop", Nil, val, "drop") /\ OpensForm(d, "drop", Nil, val, "drop")
  BY DropAsked DEF SetInv
<1>3. UNCHANGED <<cfg, shared, life>> /\ "drop" \in Form
  BY <1>2 DEF OpensForm, setConf, setRows, Form
<1>4. desk'[d].pc = "drop" /\ desk'[d].val.gs = {g}
  BY <1>2 DEF Opened
<1>5. UsersOf(desk[d].val.gs)' = {}
  BY <1>1, <1>3, <1>4 DEF UsersOf, Stands
<1>6. Knows(d)'
  BY <1>4, <1>5 DEF Knows
<1> QED BY <1>1, <1>2, <1>3, <1>6, OpensKeeps

LEMMA StageKeeps ==
  ASSUME OneDesk, Plain, SetInv, NEW d \in Desk, NEW w \in Sited, CreateStaging(d, w)
  PROVE  SetInv'
<1>1. SetTyped' /\ w \in Live /\ ~cfg[w].on /\ cfg[w].port = 0
  BY StageTyped DEF SetInv
<1>2. PICK val \in Answer : Opened(d, "stage", w, val, "insert") /\ OpensForm(d, "stage", w, val, "insert")
  BY StageTyped DEF SetInv
<1>3. UNCHANGED <<cfg, shared, life>> /\ "stage" \in Form /\ "insert" \in Place
  BY <1>2 DEF OpensForm, setConf, setRows, Form, Place
<1>4. /\ desk'[d].pc = "insert" /\ desk'[d].w = w
      /\ desk'[d].mine = cfg'[w] /\ \A g \in cfg'[w].groups : shared'[g] > 0
  BY <1>1, <1>2, <1>3, ReadsRight
<1>5. Knows(d)'
  BY <1>1, <1>3, <1>4 DEF Knows
<1> QED BY <1>1, <1>2, <1>3, <1>5, OpensKeeps

LEMMA AllocateKeeps ==
  ASSUME OneDesk, SetInv, NEW d \in Desk, AllocatePort(d)
  PROVE  SetInv'
<1>1. desk[d].pc = "ports" /\ UNCHANGED <<setRows, setConf, queued, setNode>>
  BY DEF AllocatePort, Sits
<1>2. Knows(d)
  BY DEF SetInv
<1>3. cfg[desk[d].w].port = 0 /\ desk[d].op = "sftp"
  BY <1>1, <1>2 DEF Knows
<1>4. /\ SetTyped' /\ \A v \in Stands : cfg[v].port # desk'[d].mine.port
      /\ desk'[d].pc = "write"
      /\ desk'[d].op = desk[d].op /\ desk'[d].w = desk[d].w /\ desk'[d].val = desk[d].val
      /\ desk'[d].mine.own = desk[d].mine.own /\ desk'[d].mine.groups = desk[d].mine.groups
      /\ desk'[d].mine.on = desk[d].mine.on
  BY <1>3, AllocateTyped DEF SetInv
<1>5. Stands' = Stands /\ life' = life
  BY <1>1 DEF Stands, setRows
<1>6. Knows(d)'
  BY <1>1, <1>2, <1>3, <1>4, <1>5 DEF Knows, setRows, setConf
<1>7. Errands(d)'
  BY <1>4 DEF Errands
<1>8. \A v \in Sited : ~Applying(d, v) /\ ~Copying(d, v) /\ ~Handing(d, v)
  BY <1>1 DEF Applying, Copying, Handing, ToDo
<1>9. Stands \subseteq Sited
  BY DEF Stands
<1> QED BY <1>1, <1>4, <1>5, <1>6, <1>7, <1>8, <1>9, DeskMoves DEF setRows

LEMMA UsersKeeps ==
  ASSUME OneDesk, SetInv, NEW d \in Desk, UsersOfGroup(d)
  PROVE  SetInv'
<1> DEFINE S == UsersOf(desk[d].val.gs)
<1>1. desk[d].pc = "users" /\ UNCHANGED <<setRows, setConf, queued, setNode>>
  BY DEF UsersOfGroup, Sits
<1>2. SetTyped /\ SetTyped' /\ Applied(d, S, "update")
  BY UsersTyped DEF SetInv
<1>3. S \in SUBSET Sited /\ Stands \subseteq Sited
  BY DEF UsersOf, Stands
<1>4. \A v \in Sited : Applying(d, v) => v \in S
  BY <1>1 DEF Applying, ToDo, Handing
<1>5. \A v \in Sited : ~Copying(d, v) /\ ~Handing(d, v)
  BY <1>1 DEF Copying, Handing, ToDo
<1> HIDE DEF S
<1>6. Knows(d)' /\ Errands(d)' /\ \A v \in Sited : v \in S <=> ToDo(d, v, "update")'
  BY <1>1, <1>2, <1>3, AppliedKnows DEF Deed
<1>7. Stands' = Stands /\ life' = life
  BY <1>1 DEF Stands, setRows
<1>8. \A v \in Sited : Applying(d, v) => Applying(d, v)'
  BY <1>4, <1>6 DEF Applying
<1> QED BY <1>1, <1>2, <1>3, <1>5, <1>6, <1>7, <1>8, DeskMoves DEF setRows

LEMMA PushKeeps ==
  ASSUME OneDesk, SetInv, NEW d \in Desk, NEW w \in Sited, PushStaging(d, w)
  PROVE  SetInv'
<1>1. desk[d].pc = "away" /\ UNCHANGED <<setRows, setConf, queued, setNode>> /\ w \in Live
  BY DEF PushStaging, Sits
<1>2. PICK S \in SUBSET Sited : S = {w}
  OBVIOUS
<1>3. SetTyped /\ SetTyped' /\ Applied(d, S, "push")
  BY <1>2, PushTyped DEF SetInv
<1>4. Doom(w) /\ life[w] = "live"
  BY <1>1 DEF SetInv, Live
<1>5. \A x \in S : ~Condemned(x)
  BY <1>2, <1>4 DEF Doom
<1>6. Knows(d)' /\ Errands(d)'
  BY <1>1, <1>3, <1>5, AppliedKnows DEF Deed
<1>7. Stands' = Stands /\ life' = life
  BY <1>1 DEF Stands, setRows
<1>8. \A v \in Sited : ~Applying(d, v) /\ ~Copying(d, v) /\ ~Handing(d, v)
  BY <1>1 DEF Applying, Copying, Handing, ToDo
<1>9. Stands \subseteq Sited
  BY DEF Stands
<1> QED BY <1>1, <1>3, <1>6, <1>7, <1>8, <1>9, DeskMoves DEF setRows

LEMMA DeleteKeeps ==
  ASSUME OneDesk, Plain, SetInv, NEW d \in Desk, NEW w \in Sited, DeleteSite(d, w)
  PROVE  SetInv'
<1>1. /\ desk[d].pc = "away" /\ UNCHANGED <<setRows, setConf, queued, setNode>>
      /\ \A v \in {w} \cup TwinsOf(w) : ~Condemned(v)
  BY DEF DeleteSite, Sits
<1>2. SetTyped' /\ desk'[d].pc = "build" /\ Deletes(desk'[d].left, w)
  BY DeleteTyped DEF SetInv
<1>3. Knows(d)'
  BY <1>2 DEF Knows
<1>4. Errands(d)'
  BY <1>1, <1>2 DEF Errands, Deletes, Condemned
<1>5. Stands' = Stands /\ life' = life
  BY <1>1 DEF Stands, setRows
<1>6. \A v \in Sited : ~Applying(d, v) /\ ~Copying(d, v) /\ ~Handing(d, v)
  BY <1>1 DEF Applying, Copying, Handing, ToDo
<1>7. Stands \subseteq Sited
  BY DEF Stands
<1> QED BY <1>1, <1>2, <1>3, <1>4, <1>5, <1>6, <1>7, DeskMoves DEF setRows

-----------------------------------------------------------------------------
(* Requests that write.                                                    *)

\* What a site should be changes only for those an update is on its way to.
LEMMA RowsMove ==
  ASSUME OneDesk, SetInv, SetTyped', NEW d \in Desk, Knows(d)', Errands(d)', UNCHANGED <<life, queued, setNode>>,
         \A w \in Sited : Right(w)' /\ Named(w)', Several',
         \A w \in Stands : Applying(d, w)' \/ (SpecOf(w)' = SpecOf(w) /\ ~Applying(d, w)),
         \A w \in Stands : ~Copying(d, w)
  PROVE  SetInv'
<1>1. \A e \in Desk : e = d
  BY DEF OneDesk
<1>2. \A e \in Desk : Knows(e)' /\ Errands(e)'
  BY <1>1
<1>3. Stands' = Stands
  BY DEF Stands
<1>4. ASSUME NEW w \in Sited PROVE Doom(w)' /\ Delivered(w)'
  <2>1. Doom(w) /\ Delivered(w)
    BY DEF SetInv
  <2>2. Doom(w)'
    BY <1>3, <2>1, DoomStays
  <2>3. w \in Stands /\ (\A e \in Desk : ~Applying(e, w)') => SpecOf(w)' = SpecOf(w) /\ \A e \in Desk : ~Applying(e, w)
    BY <1>1
  <2>4. w \in Stands => \A e \in Desk : ~Copying(e, w)
    BY <1>1
  <2>5. Delivered(w)'
    BY <1>3, <2>1, <2>3, <2>4, DeliveredStays DEF setNode
  <2> QED BY <2>2, <2>5
<1> QED BY <1>2, <1>4 DEF SetInv

LEMMA IdleDoes ==
  ASSUME NEW d \in Desk, desk[d].pc \in {"away", "ports", "write", "insert", "drop"}, NEW v \in Sited
  PROVE  ~Applying(d, v) /\ ~Copying(d, v) /\ ~Handing(d, v)
BY DEF Applying, Copying, Handing, ToDo

\* Nobody hands a primary on.
LEMMA NamedOnce ==
  ASSUME OneDesk, SetInv, NEW d \in Desk, desk[d].pc # "next", NEW w \in Stands
  PROVE  \E x \in Host \cup {Sys} : primary[w] = {x}
<1>1. Named(w) /\ w \in Sited
  BY DEF SetInv, Stands
<1>2. \A e \in Desk : ~Handing(e, w)
  BY DEF OneDesk, Handing
<1> QED BY <1>1, <1>2 DEF Named

LEMMA WriteKeeps ==
  ASSUME OneDesk, SetInv, NEW d \in Desk, WriteConfig(d)
  PROVE  SetInv'
<1>0. PICK w \in Sited : w = desk[d].w
  BY WriteTyped DEF SetInv
<1>1. /\ desk[d].pc = "write" /\ UNCHANGED <<setRows, queued, forms, setNode>>
      /\ cfg' = [cfg EXCEPT ![w] = Patched(d)] /\ wish' = [wish EXCEPT ![w] = WishOf(d, w)]
  BY <1>0 DEF WriteConfig, Sits
<1>2. SetTyped /\ SetTyped' /\ w \in Sited /\ Knows(d) /\ Right(w)
  BY <1>0, WriteTyped DEF SetInv
<1>3. PICK S \in SUBSET Sited : S = IF desk[d].op = "quiet" THEN {} ELSE {w}
  BY <1>2
<1>4. Applied(d, S, "update")
  BY <1>0, <1>2, <1>3, WriteTyped
<1>5. Knows(d)' /\ Errands(d)' /\ \A v \in Sited : v \in S <=> ToDo(d, v, "update")'
  BY <1>1, <1>2, <1>4, AppliedKnows DEF Deed
<1>6. Stands' = Stands /\ life' = life
  BY <1>1 DEF Stands, setRows
<1>7. cfg'[w] = Patched(d) /\ wish'[w] = WishOf(d, w) /\ \A v \in Sited \ {w} : cfg'[v] = cfg[v] /\ wish'[v] = wish[v]
  BY <1>1, <1>2 DEF SetTyped
<1>8. /\ cfg'[w].port = desk[d].mine.port
      /\ cfg'[w].own = IF desk[d].op = "own" THEN desk[d].val.n ELSE cfg[w].own
      /\ cfg'[w].groups = IF desk[d].op = "groups" THEN desk[d].val.gs ELSE cfg[w].groups
      /\ cfg'[w].on = IF desk[d].op = "sftp" THEN desk[d].val.on ELSE cfg[w].on
      /\ wish'[w].own = cfg'[w].own /\ wish'[w].groups = cfg'[w].groups /\ wish'[w].on = cfg'[w].on
  <2>1. desk[d].mine.own = cfg[w].own /\ desk[d].mine.groups = cfg[w].groups /\ desk[d].mine.on = cfg[w].on
    BY <1>0, <1>1, <1>2 DEF Knows
  <2>2. wish[w].own = cfg[w].own /\ wish[w].groups = cfg[w].groups /\ wish[w].on = cfg[w].on
    BY <1>2 DEF Right
  <2>3. /\ Patched(d).port = desk[d].mine.port
        /\ Patched(d).own = IF desk[d].op = "own" THEN desk[d].val.n ELSE desk[d].mine.own
        /\ Patched(d).groups = IF desk[d].op = "groups" THEN desk[d].val.gs ELSE desk[d].mine.groups
        /\ Patched(d).on = IF desk[d].op = "sftp" THEN desk[d].val.on ELSE desk[d].mine.on
    BY <1>0, <1>2, PatchedTyped
  <2>4. /\ WishOf(d, w).own = IF desk[d].op = "own" THEN desk[d].val.n ELSE wish[w].own
        /\ WishOf(d, w).groups = IF desk[d].op = "groups" THEN desk[d].val.gs ELSE wish[w].groups
        /\ WishOf(d, w).on = IF desk[d].op = "sftp" THEN desk[d].val.on ELSE wish[w].on
    BY <1>0, <1>2, PatchedTyped
  <2> QED BY <1>7, <2>1, <2>2, <2>3, <2>4
<1>9. /\ desk[d].op \in {"own", "quiet", "groups", "sftp"}
      /\ desk[d].op = "sftp" => w \notin App
      /\ \A g \in cfg'[w].groups : w \in Stands => shared[g] > 0
      /\ \/ cfg'[w].port = cfg[w].port
         \/ desk[d].op = "sftp" /\ cfg[w].port = 0 /\ \A v \in Stands : cfg[v].port # cfg'[w].port
  <2>1. /\ desk[d].op \in {"own", "quiet", "groups", "sftp"}
        /\ desk[d].op = "sftp" => w \notin App
        /\ desk[d].op = "groups" => \A g \in desk[d].val.gs : shared[g] > 0
    BY <1>0, <1>1, <1>2 DEF Knows
  <2>2. \/ desk[d].mine.port = cfg[w].port
        \/ desk[d].op = "sftp" /\ cfg[w].port = 0 /\ \A v \in Stands : cfg[v].port # desk[d].mine.port
    BY <1>0, <1>1, <1>2 DEF Knows
  <2>3. \A g \in cfg[w].groups : w \in Stands => shared[g] > 0
    BY <1>2 DEF Right
  <2> QED BY <1>8, <2>1, <2>2, <2>3
<1>10. Right(w)'
  <2>1. w \in App => ~cfg'[w].on /\ cfg'[w].port = 0
    BY <1>2, <1>8, <1>9 DEF Right
  <2>2. opens'[w] \in {0, cfg'[w].port} /\ \A k \in DOMAIN queued'[w] : queued'[w][k].spec.port \in {0, cfg'[w].port}
    BY <1>1, <1>2, <1>9 DEF Right, setNode
  <2> QED BY <1>1, <1>2, <1>6, <1>8, <1>9, <2>1, <2>2 DEF Right, setNode, setRows
<1>11. \A v \in Sited : ~Applying(d, v) /\ ~Copying(d, v) /\ ~Handing(d, v)
  BY <1>1, IdleDoes
<1>12. ASSUME NEW v \in Sited PROVE Right(v)' /\ Named(v)'
  <2>1. CASE v # w
    <3>1. Right(v)
      BY DEF SetInv
    <3> QED BY <1>1, <1>6, <1>7, <1>11, <2>1, <3>1, NamedOnce DEF Right, Named, setRows, setNode
  <2>2. CASE v = w
    BY <1>1, <1>6, <1>10, <2>2, NamedOnce DEF Named, setRows
  <2> QED BY <2>1, <2>2
<1>13. Several'
  <2> SUFFICES ASSUME NEW u \in Stands, NEW v \in Stands, u # v
               PROVE  cfg'[u].port = 0 \/ cfg'[u].port # cfg'[v].port
    BY <1>6 DEF Several
  <2>1. u \in Sited /\ v \in Sited /\ (cfg[u].port = 0 \/ cfg[u].port # cfg[v].port) /\ (cfg[v].port = 0 \/ cfg[u].port # cfg[v].port)
    BY DEF Stands, SetInv, Several
  <2> QED BY <1>7, <1>9, <2>1
<1>14. ASSUME NEW v \in Stands PROVE Applying(d, v)' \/ SpecOf(v)' = SpecOf(v)
  <2>0. v \in Sited
    BY DEF Stands
  <2>1. CASE v # w
    BY <1>1, <1>7, <2>0, <2>1, SpecStays DEF setRows
  <2>2. CASE v = w /\ desk[d].op # "quiet"
    BY <1>3, <1>5, <2>0, <2>2 DEF Applying
  <2>3. CASE v = w /\ desk[d].op = "quiet"
    BY <1>1, <1>8, <1>9, <2>0, <2>3, SpecStays DEF setRows
  <2> QED BY <2>1, <2>2, <2>3
<1>15. Stands \subseteq Sited
  BY DEF Stands
<1> QED BY <1>1, <1>2, <1>5, <1>6, <1>11, <1>12, <1>13, <1>14, <1>15, RowsMove

\* Nothing changes but the host names of the sites an update is on its way to.
LEMMA NamesMove ==
  ASSUME OneDesk, SetInv, SetTyped', NEW d \in Desk, desk[d].pc = "away", Knows(d)', Errands(d)', NEW w \in Stands,
         Applying(d, w)', UNCHANGED <<life, cfg, wish, shared, queued, setNode>>,
         \A v \in Sited \ {w} : primary'[v] = primary[v] /\ \A h \in Host : at'[h] = v <=> at[h] = v,
         (\E x \in Host \cup {Sys} : primary'[w] = {x}) \/ Handing(d, w)'
  PROVE  SetInv'
<1>1. Stands' = Stands /\ w \in Sited /\ Stands \subseteq Sited
  BY DEF Stands
<1>2. \A v \in Sited : ~Applying(d, v) /\ ~Copying(d, v) /\ ~Handing(d, v)
  BY IdleDoes
<1>3. ASSUME NEW v \in Sited PROVE Right(v)' /\ Named(v)'
  <2>1. Right(v) /\ SetTyped
    BY DEF SetInv
  <2>2. w \in Stands => life[w] # "none"
    BY DEF Stands
  <2>3. Right(v)'
    BY <1>1, <2>1, <2>2 DEF Right, setNode
  <2>4. CASE v # w
    BY <1>1, <2>3, <2>4, NamedOnce DEF Named
  <2>5. CASE v = w
    BY <1>1, <2>3, <2>5 DEF Named
  <2> QED BY <2>3, <2>4, <2>5
<1>4. Several'
  BY <1>1 DEF SetInv, Several
<1>5. \A v \in Stands : Applying(d, v)' \/ SpecOf(v)' = SpecOf(v)
  <2>1. \A v \in Sited \ {w} : SpecOf(v)' = SpecOf(v)
    BY SpecStays
  <2> QED BY <1>1, <2>1
<1> QED BY <1>1, <1>2, <1>3, <1>4, <1>5, RowsMove

LEMMA LiveStands == Live \subseteq Stands /\ Stands \subseteq Sited
BY DEF Live, Stands

LEMMA AddKeeps ==
  ASSUME OneDesk, SetInv, NEW d \in Desk, NEW w \in Sited, NEW h \in Host, AddDomain(d, w, h)
  PROVE  SetInv'
<1>1. /\ desk[d].pc = "away" /\ w \in Live /\ at[h] = Nil /\ at' = [at EXCEPT ![h] = w]
      /\ UNCHANGED <<life, slug, primary, shared, refused, setConf, queued, setNode>>
  BY DEF AddDomain, Sits
<1>2. PICK S \in SUBSET Sited : S = {w}
  OBVIOUS
<1>3. SetTyped /\ SetTyped' /\ Applied(d, S, "update") /\ w \in Stands
  BY <1>1, <1>2, DomainTyped, LiveStands DEF SetInv
<1>4. Knows(d)' /\ Errands(d)' /\ Applying(d, w)'
  BY <1>1, <1>2, <1>3, AppliedKnows DEF Deed, Applying
<1>5. \A v \in Sited \ {w} : primary'[v] = primary[v] /\ \A x \in Host : at'[x] = v <=> at[x] = v
  BY <1>1, <1>3, RowsTyped DEF SetTyped
<1>6. \E x \in Host \cup {Sys} : primary'[w] = {x}
  BY <1>1, <1>3, NamedOnce
<1> QED BY <1>1, <1>3, <1>4, <1>5, <1>6, NamesMove DEF setConf

LEMMA RemoveKeeps ==
  ASSUME OneDesk, SetInv, NEW d \in Desk, NEW w \in Sited, NEW h \in Host, RemoveDomain(d, w, h)
  PROVE  SetInv'
<1>1. /\ desk[d].pc = "away" /\ w \in Live /\ at[h] = w /\ at' = [at EXCEPT ![h] = Nil]
      /\ primary' = [primary EXCEPT ![w] = @ \ {h}]
      /\ UNCHANGED <<life, slug, shared, refused, setConf, queued, setNode>>
  BY DEF RemoveDomain, Sits
<1>2. SetTyped /\ SetTyped' /\ w \in Stands
  BY <1>1, RemoveTyped, LiveStands DEF SetInv
<1>3. \A v \in Sited \ {w} : primary'[v] = primary[v] /\ \A x \in Host : at'[x] = v <=> at[x] = v
  BY <1>1, <1>2, RowsTyped DEF SetTyped
<1>4. PICK x \in Host \cup {Sys} : primary[w] = {x}
  BY <1>1, <1>2, NamedOnce
<1>5. primary'[w] = primary[w] \ {h}
  BY <1>1 DEF SetTyped, SetInv
<1>6. CASE h \in primary[w]
  <2>1. desk'[d].pc = "next" /\ desk'[d].w = w
    BY <1>2, <1>6, RemoveTyped DEF Placed
  <2>2. primary'[w] = {}
    BY <1>4, <1>5, <1>6
  <2>3. Knows(d)' /\ Errands(d)' /\ Applying(d, w)' /\ Handing(d, w)'
    BY <2>1, <2>2 DEF Knows, Errands, Applying, Handing
  <2> QED BY <1>1, <1>2, <1>3, <2>3, NamesMove DEF setConf
<1>7. CASE h \notin primary[w]
  <2>1. PICK S \in SUBSET Sited : S = {w}
    OBVIOUS
  <2>2. Applied(d, S, "update")
    BY <1>2, <1>7, <2>1, RemoveTyped
  <2>3. Knows(d)' /\ Errands(d)' /\ Applying(d, w)'
    BY <1>1, <1>2, <2>1, <2>2, AppliedKnows DEF Deed, Applying
  <2>4. primary'[w] = {x}
    BY <1>4, <1>5, <1>7
  <2> QED BY <1>1, <1>2, <1>3, <2>3, <2>4, NamesMove DEF setConf
<1> QED BY <1>6, <1>7

LEMMA PrimaryKeeps ==
  ASSUME OneDesk, SetInv, NEW d \in Desk, NEW w \in Sited, NEW h \in Host \cup {Sys}, SetPrimaryDomain(d, w, h)
  PROVE  SetInv'
<1>1. /\ desk[d].pc = "away" /\ w \in Live /\ primary' = [primary EXCEPT ![w] = {h}]
      /\ UNCHANGED <<life, slug, at, shared, refused, setConf, queued, setNode>>
  BY DEF SetPrimaryDomain, Sits
<1>2. PICK S \in SUBSET Sited : S = {w}
  OBVIOUS
<1>3. SetTyped /\ SetTyped' /\ Applied(d, S, "update") /\ w \in Stands
  BY <1>1, <1>2, PrimaryTyped, LiveStands DEF SetInv
<1>4. Knows(d)' /\ Errands(d)' /\ Applying(d, w)'
  BY <1>1, <1>2, <1>3, AppliedKnows DEF Deed, Applying
<1>5. \A v \in Sited \ {w} : primary'[v] = primary[v] /\ \A x \in Host : at'[x] = v <=> at[x] = v
  BY <1>1, <1>3 DEF SetTyped
<1>6. primary'[w] = {h}
  BY <1>1, <1>3 DEF SetTyped
<1> QED BY <1>1, <1>3, <1>4, <1>5, <1>6, NamesMove DEF setConf

LEMMA HandOnKeeps ==
  ASSUME OneDesk, SetInv, NEW d \in Desk, NextPrimary(d)
  PROVE  SetInv'
<1>0. PICK w \in Sited : w = desk[d].w
  BY HandOnTyped DEF SetInv
<1>1. /\ desk[d].pc = "next" /\ primary' = [primary EXCEPT ![w] = HandsOn(w)]
      /\ UNCHANGED <<life, slug, at, shared, refused, setConf, queued, forms, setNode>>
  BY <1>0 DEF NextPrimary, Sits
<1>2. PICK S \in SUBSET Sited : S = {w}
  OBVIOUS
<1>3. SetTyped /\ SetTyped' /\ Applied(d, S, "update") /\ Knows(d)
  BY <1>0, <1>2, HandOnTyped DEF SetInv
<1>4. Knows(d)' /\ Errands(d)' /\ Applying(d, w)'
  BY <1>1, <1>2, <1>3, AppliedKnows DEF Deed, Applying
<1>5. primary[w] = {} /\ primary'[w] = {Sys} /\ \A v \in Sited \ {w} : primary'[v] = primary[v]
  BY <1>0, <1>1, <1>3 DEF SetTyped, HandsOn, Knows
<1>6. Stands' = Stands /\ Stands \subseteq Sited
  BY <1>1 DEF Stands
<1>7. ASSUME NEW v \in Sited PROVE Right(v)' /\ Named(v)'
  <2>1. Right(v) /\ Named(v)
    BY DEF SetInv
  <2>2. Right(v)'
    BY <1>1, <1>5, <1>6, <2>1 DEF Right, setConf, setNode
  <2>3. CASE v # w
    <3>1. \A e \in Desk : ~Handing(e, v)
      BY <1>0, <1>1, <2>3 DEF OneDesk, Handing
    <3> QED BY <1>5, <1>6, <2>1, <2>2, <2>3, <3>1 DEF Named
  <2>4. CASE v = w
    BY <1>5, <2>2, <2>4 DEF Named
  <2> QED BY <2>3, <2>4
<1>8. Several'
  BY <1>1, <1>6 DEF SetInv, Several, setConf
<1>9. \A v \in Stands : ~Copying(d, v)
  BY <1>1 DEF Copying, ToDo
<1>10. ASSUME NEW v \in Stands PROVE Applying(d, v)' \/ (SpecOf(v)' = SpecOf(v) /\ ~Applying(d, v))
  <2>1. CASE v # w
    BY <1>0, <1>1, <1>5, <1>6, <2>1, SpecStays DEF setConf, Applying, ToDo, Handing
  <2> QED BY <1>4, <2>1
<1> QED BY <1>1, <1>3, <1>4, <1>7, <1>8, <1>9, <1>10, RowsMove

\* A group changes, and the sites that use it are looked for.
LEMMA GroupsMove ==
  ASSUME OneDesk, SetInv, SetTyped', NEW d \in Desk, desk[d].pc \in {"away", "drop"}, Knows(d)', Errands(d)',
         UNCHANGED <<life, at, primary, setConf, queued, setNode>>,
         \A v \in Stands : (\A g \in cfg[v].groups : shared'[g] = shared[g])
                           \/ (Applying(d, v)' /\ \A g \in cfg[v].groups : shared'[g] >= shared[g])
  PROVE  SetInv'
<1>1. Stands' = Stands /\ Stands \subseteq Sited
  BY DEF Stands
<1>2. \A v \in Sited : ~Applying(d, v) /\ ~Copying(d, v) /\ ~Handing(d, v)
  BY IdleDoes
<1>3. ASSUME NEW v \in Sited PROVE Right(v)' /\ Named(v)'
  <2>1. Right(v)
    BY DEF SetInv
  <2>2. SetTyped /\ SetTyped' /\ cfg[v] \in Conf
    BY RowsTyped DEF SetInv
  <2>3. \A g \in cfg[v].groups : shared[g] \in Nat /\ shared'[g] \in Nat
    BY <2>2 DEF Conf, SetTyped
  <2>4. v \in Stands => \A g \in cfg[v].groups : shared'[g] > 0
    BY <2>1, <2>3 DEF Right
  <2>5. Right(v)'
    BY <1>1, <2>1, <2>4, RightStays DEF setConf, setNode
  <2>6. Named(v)'
    BY <1>1, NamedOnce DEF Named
  <2> QED BY <2>5, <2>6
<1>4. Several'
  BY <1>1 DEF SetInv, Several, setConf
<1>5. \A v \in Stands : Applying(d, v)' \/ SpecOf(v)' = SpecOf(v)
  BY <1>1, SpecStays DEF setConf
<1> QED BY <1>1, <1>2, <1>3, <1>4, <1>5, RowsMove

LEMMA GroupKeeps ==
  ASSUME OneDesk, SetInv, NEW d \in Desk, NEW g \in Group, SaveEnvGroup(d, g)
  PROVE  SetInv'
<1>1. /\ desk[d].pc = "away" /\ shared' = [shared EXCEPT ![g] = @ + 1]
      /\ UNCHANGED <<life, slug, at, primary, refused, setConf, queued, setNode>>
  BY DEF SaveEnvGroup, Sits
<1>2. SetTyped /\ SetTyped' /\ desk'[d].pc = "users" /\ desk'[d].val.gs = {g}
  BY GroupTyped DEF SetInv
<1>3. Knows(d)' /\ Errands(d)'
  BY <1>2 DEF Knows, Errands
<1>4. shared[g] \in Nat /\ shared'[g] = shared[g] + 1 /\ \A x \in Group \ {g} : shared'[x] = shared[x]
  BY <1>1, <1>2 DEF SetTyped
<1>5. ASSUME NEW v \in Stands
      PROVE  (\A x \in cfg[v].groups : shared'[x] = shared[x])
             \/ (Applying(d, v)' /\ \A x \in cfg[v].groups : shared'[x] >= shared[x])
  <2>1. cfg[v].groups \subseteq Group /\ v \in Sited
    BY <1>2, RowsTyped DEF Stands, Conf
  <2>2. CASE g \in cfg[v].groups
    <3>1. v \in UsersOf(desk[d].val.gs)'
      BY <1>1, <1>2, <2>2 DEF UsersOf, Stands, setConf
    <3>2. \A x \in Group : shared'[x] >= shared[x]
      <4>1. \A x \in Group : shared[x] \in Nat
        BY <1>2 DEF SetTyped
      <4> QED BY <1>4, <4>1
    <3> QED BY <1>2, <2>1, <3>1, <3>2 DEF Applying
  <2>3. CASE g \notin cfg[v].groups
    BY <1>4, <2>1, <2>3
  <2> QED BY <2>2, <2>3
<1> QED BY <1>1, <1>2, <1>3, <1>5, GroupsMove

LEMMA DropKeeps ==
  ASSUME OneDesk, SetInv, NEW d \in Desk, DropGroup(d)
  PROVE  SetInv'
<1>1. /\ desk[d].pc = "drop" /\ shared' = [x \in Group |-> IF x \in desk[d].val.gs THEN 0 ELSE shared[x]]
      /\ UNCHANGED <<life, slug, at, primary, refused, setConf, queued, forms, setNode>>
  BY DEF DropGroup, Sits
<1>2. SetTyped /\ SetTyped' /\ desk'[d].pc = "away"
  BY DropTyped, AwayIs DEF SetInv
<1>3. Knows(d)' /\ Errands(d)'
  BY <1>2 DEF Knows, Errands
<1>4. UsersOf(desk[d].val.gs) = {}
  BY <1>1 DEF SetInv, Knows
<1>5. ASSUME NEW v \in Stands PROVE \A x \in cfg[v].groups : shared'[x] = shared[x]
  <2>1. cfg[v].groups \subseteq Group
    BY <1>2, RowsTyped DEF Stands, Conf
  <2>2. \A x \in cfg[v].groups : x \notin desk[d].val.gs
    BY <1>4 DEF UsersOf
  <2> QED BY <1>1, <2>1, <2>2
<1> QED BY <1>1, <1>2, <1>3, <1>5, GroupsMove

LEMMA InsertKeeps ==
  ASSUME OneDesk, SetInv, NEW d \in Desk, InsertStaging(d)
  PROVE  SetInv'
<1>1. desk[d].pc = "insert" /\ UNCHANGED <<at, primary, shared, queued, forms, setNode>>
  BY DEF InsertStaging, Sits
<1>2. SetTyped /\ SetTyped' /\ desk[d].mine \in Conf /\ Knows(d)
  BY InsertTyped DEF SetInv
<1>3. \A v \in Sited : ~Applying(d, v) /\ ~Copying(d, v) /\ ~Handing(d, v)
  BY <1>1, IdleDoes
<1>4. Stands \subseteq Sited
  BY DEF Stands
<1>5. CASE desk'[d] = Away /\ UNCHANGED <<life, cfg, wish>>
  <2>1. Knows(d)' /\ Errands(d)'
    BY <1>5, AwayIs DEF Knows, Errands
  <2>2. Stands' = Stands
    BY <1>5 DEF Stands
  <2> QED BY <1>1, <1>2, <1>3, <1>4, <1>5, <2>1, <2>2, DeskMoves DEF setConf
<1>6. CASE \E c \in Twin : /\ life[c] = "none" /\ Applied(d, {c}, "clone")
                           /\ life' = [life EXCEPT ![c] = "live"]
                           /\ cfg' = [cfg EXCEPT ![c] = desk[d].mine]
                           /\ wish' = [wish EXCEPT ![c] = desk[d].mine]
  <2>1. PICK c \in Twin : /\ life[c] = "none" /\ Applied(d, {c}, "clone")
                          /\ life' = [life EXCEPT ![c] = "live"]
                          /\ cfg' = [cfg EXCEPT ![c] = desk[d].mine]
                          /\ wish' = [wish EXCEPT ![c] = desk[d].mine]
    BY <1>6
  <2>2. PICK S \in SUBSET Sited : S = {c}
    BY DEF Sited
  <2>3. c \in Sited /\ c \notin App /\ c \notin Stands
    BY <2>1, SettingsBounds DEF Sited, Stands
  <2>4. queued[c] = <<>> /\ primary[c] = {Sys} /\ opens[c] = 0 /\ runs[c] = Nil
    BY <2>1, <2>3 DEF SetInv, Right
  <2>5. \A x \in S : ~Condemned(x)
    BY <2>2, <2>4 DEF Condemned
  <2>6. /\ Knows(d)' /\ Errands(d)' /\ ToDo(d, c, "clone")'
        /\ \A v \in Sited : ~Handing(d, v)'
    <3>1. Applied(d, S, "clone") /\ "clone" \in Deed
      BY <2>1, <2>2 DEF Deed
    <3> QED BY <1>1, <1>2, <2>2, <2>3, <2>5, <3>1, AppliedKnows
  <2>7. /\ cfg'[c] = desk[d].mine /\ wish'[c] = desk[d].mine
        /\ \A v \in Sited \ {c} : cfg'[v] = cfg[v] /\ wish'[v] = wish[v] /\ life'[v] = life[v]
        /\ life'[c] = "live"
    BY <1>2, <2>1, <2>3 DEF SetTyped
  <2>8. Stands' = Stands \cup {c}
    BY <2>3, <2>7 DEF Stands
  <2>9. ~desk[d].mine.on /\ desk[d].mine.port = 0 /\ \A g \in desk[d].mine.groups : shared[g] > 0
    BY <1>1, <1>2 DEF Knows
  <2>10. Right(c)' /\ Named(c)' /\ Doom(c)' /\ Delivered(c)'
    <3>1. Right(c)'
      BY <1>1, <2>3, <2>4, <2>7, <2>8, <2>9 DEF Right, setNode
    <3>2. Named(c)'
      BY <1>1, <2>4 DEF Named
    <3>3. Doom(c)'
      BY <1>1, <2>4, <2>7, <2>8 DEF Doom, Condemned
    <3>4. SpecOf(c).port' = 0
      BY <2>7, <2>9 DEF SpecOf
    <3>5. Delivered(c)'
      BY <1>1, <2>4, <2>6, <3>4 DEF Delivered, Links, LastPort, Copying, setNode
    <3> QED BY <3>1, <3>2, <3>3, <3>5
  <2>11. ASSUME NEW v \in Sited \ {c} PROVE Right(v)' /\ Named(v)' /\ Doom(v)' /\ Delivered(v)'
    <3>1. Right(v) /\ Named(v) /\ Doom(v) /\ Delivered(v)
      BY DEF SetInv
    <3>2. v \in Stands' <=> v \in Stands
      BY <2>8
    <3>3. Right(v)'
      BY <1>1, <2>7, <3>1, <3>2, RightStays DEF setNode, Right
    <3>4. Named(v)'
      BY <1>1, <3>2, NamedOnce DEF Named
    <3>5. Doom(v)'
      BY <1>1, <2>7, <3>1, <3>2, DoomStays
    <3>6. SpecOf(v)' = SpecOf(v)
      BY <1>1, <2>7, SpecStays
    <3>7. \A e \in Desk : ~Applying(e, v) /\ ~Copying(e, v)
      BY <1>3 DEF OneDesk
    <3>8. Delivered(v)'
      BY <1>1, <3>1, <3>2, <3>6, <3>7, DeliveredStays DEF setNode
    <3> QED BY <3>3, <3>4, <3>5, <3>8
  <2>12. Several'
    <3> SUFFICES ASSUME NEW u \in Stands', NEW v \in Stands', u # v
                 PROVE  cfg'[u].port = 0 \/ cfg'[u].port # cfg'[v].port
      BY DEF Several
    <3>1. CASE u = c
      BY <2>7, <2>9, <3>1
    <3>2. CASE u # c /\ v = c
      BY <2>7, <2>9, <3>2
    <3>3. CASE u # c /\ v # c
      BY <1>4, <2>7, <2>8, <3>3 DEF SetInv, Several
    <3> QED BY <3>1, <3>2, <3>3
  <2>13. \A e \in Desk : Knows(e)' /\ Errands(e)'
    BY <2>6 DEF OneDesk
  <2> QED BY <1>2, <2>10, <2>11, <2>12, <2>13 DEF SetInv
<1> QED BY <1>5, <1>6, InsertTyped DEF SetInv

-----------------------------------------------------------------------------
(* Jobs are built and queued.                                              *)

\* The errands that are left.
LEMMA WentKnows ==
  ASSUME SetInv, NEW d \in Desk, desk[d].pc \in {"build", "queue"}, desk[d].left # <<>>, Went(d), InTurn(d).w \in Sited,
         \A w \in Sited : w # InTurn(d).w => queued'[w] = queued[w]
  PROVE  /\ Knows(d)' /\ Errands(d)'
         /\ \A w \in Sited, kind \in Deed : w # InTurn(d).w => (ToDo(d, w, kind)' <=> ToDo(d, w, kind))
         /\ \A w \in Sited : ~Handing(d, w)
<1>0. PICK q : q = desk[d].left
  OBVIOUS
<1> DEFINE n == Len(q)
<1>1. q \in Seq(Errand) /\ q # <<>>
  BY <1>0 DEF SetInv, SetTyped, Entry
<1>2. /\ n \in Nat /\ n >= 1 /\ DOMAIN q = 1 .. n /\ InTurn(d) = q[1]
      /\ Len(Tail(q)) = n - 1 /\ DOMAIN Tail(q) = 1 .. n - 1
      /\ \A i \in 1 .. n - 1 : Tail(q)[i] = q[i + 1]
  BY <1>0, <1>1, TailOf DEF InTurn
<1>3. /\ \A i, j \in 1 .. n : i # j => q[i].w # q[j].w
      /\ \A k \in 1 .. n : q[k].kind # "update" => ~Condemned(q[k].w)
  BY <1>0, <1>2 DEF SetInv, Errands
<1>4. \A k \in 1 .. n : q[k].w \in Sited
  <2>1. \A k \in 1 .. n : q[k] \in Errand
    BY <1>1, <1>2
  <2> QED BY <2>1 DEF Errand
<1>5. \A w \in Sited : ~Handing(d, w)
  BY DEF Handing
<1> HIDE DEF n
<1>6. CASE n = 1
  <2>1. desk'[d].pc = "away"
    BY <1>0, <1>6, AwayIs DEF Went, n
  <2>2. \A w \in Sited, kind \in Deed : w # InTurn(d).w => ~ToDo(d, w, kind)
    BY <1>0, <1>2, <1>6 DEF ToDo
  <2> QED BY <1>5, <2>1, <2>2 DEF Knows, Errands, ToDo
<1>7. CASE n # 1
  <2>1. desk'[d].pc = "build" /\ desk'[d].left = Tail(q)
    BY <1>0, <1>7 DEF Went, n
  <2>2. Knows(d)'
    BY <2>1 DEF Knows
  <2>3. \A k \in 1 .. n - 1 : k + 1 \in 1 .. n /\ Tail(q)[k] = q[k + 1] /\ q[k + 1].w # InTurn(d).w
    BY <1>2, <1>3
  <2>4. \A i, j \in 1 .. n - 1 : i # j => Tail(q)[i].w # Tail(q)[j].w
    BY <1>2, <1>3
  <2>5. ASSUME NEW k \in 1 .. n - 1, Tail(q)[k].kind # "update" PROVE ~Condemned(Tail(q)[k].w)'
    <3>1. PICK v \in Sited : v = q[k + 1].w
      BY <1>4, <2>3
    <3>2. ~Condemned(v) /\ v # InTurn(d).w
      BY <1>3, <2>3, <2>5, <3>1
    <3>3. ~Condemned(v)'
      BY <3>2 DEF Condemned
    <3> QED BY <2>1, <2>3, <3>1, <3>3 DEF Condemned
  <2>6. Errands(d)'
    <3>1. PICK r : r = Tail(q)
      OBVIOUS
    <3>2. desk'[d].left = r /\ DOMAIN r = 1 .. n - 1
      BY <1>2, <2>1, <3>1
    <3>3. \A i, j \in DOMAIN r : i # j => r[i].w # r[j].w
      BY <2>4, <3>1, <3>2
    <3>4. \A k \in DOMAIN r : r[k].kind # "update" => ~Condemned(r[k].w)'
      BY <2>5, <3>1, <3>2
    <3>5. \A k \in DOMAIN r : r[k].kind # "update" => ~Condemned(desk[d].left[k].w)'
      BY <3>2, <3>4 DEF Condemned
    <3> QED BY <2>1, <3>2, <3>3, <3>5 DEF Errands
  <2>7. ASSUME NEW w \in Sited, NEW kind \in Deed, w # InTurn(d).w PROVE ToDo(d, w, kind)' <=> ToDo(d, w, kind)
    <3>1. ASSUME NEW k \in 1 .. n - 1, Tail(q)[k].w = w, Tail(q)[k].kind = kind PROVE ToDo(d, w, kind)
      BY <1>0, <1>2, <2>3, <3>1 DEF ToDo
    <3>2. ASSUME NEW k \in 1 .. n, q[k].w = w, q[k].kind = kind PROVE ToDo(d, w, kind)'
      <4>1. k - 1 \in 1 .. n - 1 /\ Tail(q)[k - 1] = q[k]
        BY <1>2, <2>7, <3>2
      <4> QED BY <1>2, <2>1, <3>2, <4>1 DEF ToDo
    <3> QED BY <1>0, <1>2, <2>1, <3>1, <3>2 DEF ToDo
  <2> QED BY <1>5, <2>2, <2>6, <2>7
<1> QED BY <1>6, <1>7

LEMMA BuildKeeps ==
  ASSUME OneDesk, SetInv, NEW d \in Desk, BuildSpec(d)
  PROVE  SetInv'
<1>1. desk[d].pc = "build" /\ UNCHANGED <<slug, at, primary, shared, refused, setConf, queued, forms, setNode>>
  BY DEF BuildSpec, Sits
<1>2. SetTyped /\ SetTyped' /\ desk[d].left # <<>> /\ InTurn(d) \in Errand /\ Errands(d)
  BY BuildTyped DEF SetInv
<1>3. PICK v \in Sited : v = InTurn(d).w
  BY <1>2 DEF Errand
<1>4. Stands \subseteq Sited
  BY DEF Stands
<1>5. CASE InTurn(d).w \notin Stands /\ Went(d) /\ UNCHANGED life
  <2>1. /\ Knows(d)' /\ Errands(d)'
        /\ \A w \in Sited, kind \in Deed : w # v => (ToDo(d, w, kind)' <=> ToDo(d, w, kind))
        /\ \A w \in Sited : ~Handing(d, w)
    BY <1>1, <1>2, <1>3, <1>5, WentKnows
  <2>2. Stands' = Stands
    BY <1>5 DEF Stands
  <2>3. v \notin Stands /\ "update" \in Deed /\ "clone" \in Deed
    BY <1>3, <1>5 DEF Deed
  <2>4. \A w \in Stands : (Applying(d, w) => Applying(d, w)') /\ (Copying(d, w) => Copying(d, w)')
    BY <1>1, <1>4, <2>1, <2>3 DEF Applying, Copying
  <2> QED BY <1>1, <1>2, <1>4, <1>5, <2>1, <2>2, <2>4, DeskMoves
<1>6. CASE /\ InTurn(d).w \in Stands
           /\ Solely(d) /\ desk'[d].pc = "queue" /\ desk'[d].spec = SpecOf(InTurn(d).w)
           /\ desk'[d].op = desk[d].op /\ desk'[d].w = desk[d].w /\ desk'[d].val = desk[d].val
           /\ desk'[d].mine = desk[d].mine /\ desk'[d].left = desk[d].left
           /\ life' = IF InTurn(d).kind = "delete" THEN [life EXCEPT ![InTurn(d).w] = "deleting"] ELSE life
  <2>1. v \in Stands /\ desk'[d].pc = "queue" /\ desk'[d].spec = SpecOf(v) /\ desk'[d].left = desk[d].left
    BY <1>3, <1>6
  <2>2. /\ \A w \in Sited \ {v} : life'[w] = life[w]
        /\ life'[v] = IF InTurn(d).kind = "delete" THEN "deleting" ELSE life[v]
    BY <1>2, <1>3, <1>6 DEF SetTyped
  <2>3. Stands' = Stands
    BY <2>1, <2>2 DEF Stands
  <2>4. InTurn(d)' = InTurn(d)
    BY <2>1 DEF InTurn
  <2>5. SpecOf(v)' = SpecOf(v) /\ cfg' = cfg
    BY <1>1, SpecsStay DEF setConf
  <2>6. SpecOf(v).port \in {0, cfg[v].port}
    BY DEF SpecOf
  <2>7. InTurn(d).w' = v
    BY <1>3, <2>4
  <2>8. life'[v] # "none"
    BY <2>1, <2>2 DEF Stands
  <2>9. Knows(d)'
    BY <2>1, <2>5, <2>6, <2>7, <2>8 DEF Knows
  <2>10. Errands(d)'
    BY <1>1, <1>2, <2>1, <2>2, <2>3, <2>4, <2>7 DEF Errands, Condemned
  <2>11. \A w \in Stands : Applying(d, w) => Applying(d, w)'
    BY <1>1, <2>1 DEF Applying, Handing, ToDo
  <2>13. \A w \in Stands : Copying(d, w) => Copying(d, w)'
    BY <1>1, <2>1 DEF Copying, ToDo
  <2>14. \A w \in Stands : ~Handing(d, w)
    BY <1>1 DEF Handing
  <2>12. \A w \in Sited : (life'[w] = "live" => life[w] = "live") /\ (life'[w] = "none" => life[w] = "none")
    BY <2>2
  <2> QED BY <1>1, <1>2, <2>3, <2>9, <2>10, <2>11, <2>12, <2>13, <2>14, DeskMoves
<1> QED BY <1>5, <1>6, BuildTyped DEF SetInv

LEMMA QueueKeeps ==
  ASSUME OneDesk, SetInv, NEW d \in Desk, QueueJob(d)
  PROVE  SetInv'
<1>1. desk[d].pc = "queue" /\ UNCHANGED <<setRows, setConf, forms, setNode>>
  BY DEF QueueJob, Sits
<1>2. SetTyped /\ SetTyped' /\ desk[d].left # <<>> /\ InTurn(d) \in Errand /\ Errands(d) /\ Knows(d) /\ Went(d)
  BY QueueTyped DEF SetInv
<1>3. PICK v \in Sited : v = InTurn(d).w
  BY <1>2 DEF Errand
<1>4. PICK e \in Task : /\ e.kind = InTurn(d).kind /\ e.spec = desk[d].spec
                        /\ queued' = [queued EXCEPT ![v] = Append(queued[v], e)]
  BY <1>3, QueueTyped DEF SetInv
<1> DEFINE q == queued[v]  n == Len(q)
<1>5. /\ n \in Nat /\ DOMAIN q = 1 .. n /\ q \in Seq(Task) /\ (q = <<>> <=> n = 0)
      /\ queued'[v] = Append(q, e) /\ \A w \in Sited \ {v} : queued'[w] = queued[w]
  BY <1>2, <1>4, RowsTyped DEF SetTyped
<1>6. /\ queued'[v] # <<>> /\ Len(queued'[v]) = n + 1 /\ DOMAIN queued'[v] = 1 .. n + 1
      /\ \A i \in 1 .. n : queued'[v][i] = q[i]
      /\ queued'[v][n + 1] = e
  BY <1>5, Appended
<1>7. /\ v \in Stands => e.spec = SpecOf(v)
      /\ e.spec.port \in {0, cfg[v].port} /\ life[v] # "none"
      /\ e.kind # "update" => v \in Stands /\ ~Condemned(v)
      /\ e.kind = "delete" => life[v] # "live"
  <2>1. InTurn(d) = desk[d].left[1] /\ 1 \in DOMAIN desk[d].left
    <3>1. desk[d].left \in Seq(Errand)
      BY <1>2 DEF SetTyped, Entry
    <3> QED BY <1>2, <3>1 DEF InTurn
  <2>2. e.kind # "update" => v \in Stands /\ ~Condemned(v)
    BY <1>1, <1>2, <1>3, <1>4, <2>1 DEF Errands
  <2>3. e.kind = "delete" => life[v] # "live"
    BY <1>1, <1>2, <1>3, <1>4 DEF Errands
  <2>4. (v \in Stands => e.spec = SpecOf(v)) /\ e.spec.port \in {0, cfg[v].port} /\ life[v] # "none"
    BY <1>1, <1>2, <1>3, <1>4 DEF Knows
  <2> QED BY <2>2, <2>3, <2>4
<1>8. /\ Knows(d)' /\ Errands(d)'
      /\ \A w \in Sited, kind \in Deed : w # v => (ToDo(d, w, kind)' <=> ToDo(d, w, kind))
      /\ \A w \in Sited : ~Handing(d, w)
  BY <1>1, <1>2, <1>3, <1>5, WentKnows
<1>9. Stands' = Stands /\ life' = life /\ Stands \subseteq Sited
  BY <1>1 DEF Stands, setRows
<1>10. \A w \in Sited : SpecOf(w)' = SpecOf(w)
  BY <1>1, SpecsStay DEF setRows, setConf
<1>11. \A w \in Sited \ {v} : /\ Applying(d, w) => Applying(d, w)'
                              /\ Copying(d, w) => Copying(d, w)'
  <2>1. "update" \in Deed /\ "clone" \in Deed
    BY DEF Deed
  <2> QED BY <1>1, <1>8, <2>1 DEF Applying, Copying
<1>12. ASSUME NEW w \in Sited \ {v} PROVE Right(w)' /\ Named(w)' /\ Doom(w)' /\ Delivered(w)'
  <2>1. Right(w) /\ Doom(w) /\ Delivered(w) /\ queued'[w] = queued[w]
    BY <1>5 DEF SetInv
  <2>2. Right(w)' /\ Doom(w)'
    BY <1>1, <1>9, <2>1 DEF Right, Doom, Condemned, setRows, setConf, setNode
  <2>3. Named(w)'
    BY <1>1, <1>9, NamedOnce DEF Named, setRows
  <2>4. Links(w)'
    BY <1>1, <2>1 DEF Delivered, Links, setNode
  <2>5. (LastPort(w) => LastPort(w)') /\ (LastSpec(w) => LastSpec(w)')
    BY <1>1, <1>10, <2>1 DEF LastPort, LastSpec, setNode
  <2>6. \A x \in Desk : x = d
    BY DEF OneDesk
  <2>7. Delivered(w)'
    BY <1>9, <1>11, <2>1, <2>4, <2>5, <2>6 DEF Delivered
  <2> QED BY <2>2, <2>3, <2>7
<1>13. Right(v)'
  <2>1. Right(v)
    BY DEF SetInv
  <2>2. \A k \in 1 .. n + 1 : queued'[v][k].spec.port \in {0, cfg[v].port}
    BY <1>5, <1>6, <1>7, <2>1 DEF Right
  <2> QED BY <1>1, <1>6, <1>7, <1>9, <2>1, <2>2 DEF Right, setRows, setConf, setNode
<1>14. Named(v)'
  BY <1>1, <1>9, NamedOnce DEF Named, setRows
<1>15. Doom(v)'
  <2>1. Doom(v)
    BY DEF SetInv
  <2>2. ASSUME NEW i \in 1 .. n + 1, NEW j \in 1 .. n + 1, i < j, queued'[v][i].kind = "delete"
        PROVE  queued'[v][j].kind = "update"
    <3>1. i \in 1 .. n /\ q[i].kind = "delete"
      BY <1>5, <1>6, <2>2
    <3>2. CASE j \in 1 .. n
      BY <1>5, <1>6, <2>1, <2>2, <3>1, <3>2 DEF Doom
    <3>3. CASE j = n + 1
      BY <1>5, <1>6, <1>7, <3>1, <3>3 DEF Condemned
    <3> QED BY <1>5, <2>2, <3>2, <3>3
  <2>3. v \notin Stands => \A i \in 1 .. n + 1 : queued'[v][i].kind = "update"
    BY <1>5, <1>6, <1>7, <2>1 DEF Doom
  <2>4. life[v] = "live" => \A i \in 1 .. n + 1 : queued'[v][i].kind # "delete"
    BY <1>5, <1>6, <1>7, <2>1 DEF Doom, Condemned
  <2> QED BY <1>6, <1>9, <2>2, <2>3, <2>4 DEF Doom, Condemned
<1>16. Delivered(v)'
  <2>1. Delivered(v)
    BY DEF SetInv
  <2>2. ASSUME e.kind \in {"clone", "push"} PROVE LastPort(v)
    <3>1. \A k \in DOMAIN desk[d].left : desk[d].left[k].w = v => desk[d].left[k].kind # "update"
      <4>1. desk[d].left \in Seq(Errand) /\ desk[d].left # <<>>
        BY <1>2 DEF SetTyped, Entry
      <4>2. 1 \in DOMAIN desk[d].left
        BY <4>1
      <4>3. desk[d].left[1].w = v /\ desk[d].left[1].kind # "update"
        BY <1>3, <1>4, <2>2 DEF InTurn
      <4> QED BY <1>1, <1>2, <4>2, <4>3 DEF Errands
    <3>2. ~Applying(d, v)
      BY <1>1, <3>1 DEF Applying, ToDo, Handing
    <3>3. \A x \in Desk : ~Applying(x, v)
      BY <3>2 DEF OneDesk
    <3> QED BY <1>7, <2>1, <2>2, <3>3 DEF Delivered
  <2>3. v \in Stands => e.spec.port = SpecOf(v).port
    BY <1>7
  <2>4. Links(v)'
    <3> SUFFICES ASSUME NEW k \in 1 .. n + 1, queued'[v][k].kind \in {"clone", "push"}
                 PROVE  IF k = 1 THEN v \in fine => opens[v] = queued'[v][k].spec.port
                        ELSE queued'[v][k - 1].spec.port = queued'[v][k].spec.port
      BY <1>1, <1>6 DEF Links, setNode
    <3>1. CASE k \in 1 .. n
      <4>1. k # 1 => k - 1 \in 1 .. n
        BY <1>5, <3>1
      <4> QED BY <1>5, <1>6, <2>1, <3>1, <4>1 DEF Delivered, Links
    <3>2. CASE k = n + 1
      <4>1. LastPort(v) /\ v \in Stands
        BY <1>6, <1>7, <2>2, <3>2
      <4>2. CASE n = 0
        BY <1>5, <1>6, <2>3, <3>2, <4>1, <4>2 DEF LastPort
      <4>3. CASE n # 0
        <5>1. n \in 1 .. n /\ k - 1 = n /\ k # 1
          BY <1>5, <3>2, <4>3
        <5> QED BY <1>5, <1>6, <2>3, <3>2, <4>1, <4>3, <5>1 DEF LastPort
      <4> QED BY <4>2, <4>3
    <3> QED BY <1>5, <3>1, <3>2
  <2>5. v \in Stands => LastPort(v)' /\ LastSpec(v)'
    BY <1>6, <1>7, <1>10 DEF LastPort, LastSpec
  <2> QED BY <1>9, <2>4, <2>5 DEF Delivered
<1>17. Several'
  BY <1>1, <1>9 DEF SetInv, Several, setConf
<1>18. \A x \in Desk : Knows(x)' /\ Errands(x)'
  BY <1>8 DEF OneDesk
<1> QED BY <1>2, <1>12, <1>13, <1>14, <1>15, <1>16, <1>17, <1>18 DEF SetInv

-----------------------------------------------------------------------------
(* The node does the oldest job of a site.                                 *)

\* The jobs of a site, n of them, lose their first one; those of the other sites stay.
Shortened(w, n) ==
  /\ n \in Nat /\ n >= 1 /\ DOMAIN queued[w] = 1 .. n
  /\ DOMAIN queued'[w] = 1 .. n - 1 /\ Len(queued'[w]) = n - 1
  /\ \A i \in 1 .. n - 1 : i + 1 \in 1 .. n /\ queued'[w][i] = queued[w][i + 1]
  /\ queued'[w] = <<>> <=> n = 1
  /\ \A v \in Sited \ {w} : queued'[v] = queued[v]

LEMMA Shorter ==
  ASSUME SetTyped, NEW w \in Sited, Works(w)
  PROVE  Shortened(w, Len(queued[w]))
<1> SUFFICES ASSUME NEW n, n = Len(queued[w]) PROVE Shortened(w, n)
  OBVIOUS
<1>1. queued[w] \in Seq(Task) /\ queued[w] # <<>>
  BY DEF SetTyped, Works
<1>2. queued'[w] = Tail(queued[w]) /\ \A v \in Sited \ {w} : queued'[v] = queued[v]
  BY DEF SetTyped, Works
<1>3. n \in Nat /\ n >= 1 /\ DOMAIN queued[w] = 1 .. n
  BY <1>1, TailOf
<1>4. /\ DOMAIN Tail(queued[w]) = 1 .. n - 1 /\ Len(Tail(queued[w])) = n - 1
      /\ \A i \in 1 .. n - 1 : Tail(queued[w])[i] = queued[w][i + 1]
      /\ Tail(queued[w]) = <<>> <=> n = 1
  BY <1>1, TailOf
<1>5. \A i \in 1 .. n - 1 : i + 1 \in 1 .. n
  BY <1>3
<1> QED BY <1>2, <1>3, <1>4, <1>5 DEF Shortened

LEMMA NodeMoves ==
  ASSUME SetInv, SetTyped', NEW w \in Sited, Works(w),
         \A v \in Sited \ {w} : life'[v] = life[v] /\ primary'[v] = primary[v] /\ \A h \in Host : at'[h] = v <=> at[h] = v,
         life'[w] # "none", life'[w] = "live" => life[w] = "live",
         w \in Stands' => w \in Stands /\ UNCHANGED <<at, primary>>,
         w \in Stands /\ w \notin Stands' => Foremost(w).kind = "delete",
         primary'[w] \in {primary[w], {}},
         opens'[w] \in {0, cfg[w].port}, w \notin Stands' => opens'[w] = 0 /\ runs'[w] = Nil,
         w \in fine' /\ w \in Stands' => opens'[w] = Foremost(w).spec.port /\ runs'[w] = Foremost(w).spec
  PROVE  SetInv'
<1>1. PICK n : n = Len(queued[w])
  OBVIOUS
<1>2. /\ n \in Nat /\ n >= 1 /\ DOMAIN queued[w] = 1 .. n
      /\ DOMAIN queued'[w] = 1 .. n - 1 /\ Len(queued'[w]) = n - 1
      /\ \A i \in 1 .. n - 1 : i + 1 \in 1 .. n /\ queued'[w][i] = queued[w][i + 1]
      /\ queued'[w] = <<>> <=> n = 1
      /\ \A v \in Sited \ {w} : queued'[v] = queued[v]
  BY <1>1, Shorter DEF SetInv, Shortened
<1>3. /\ slug' = slug /\ shared' = shared /\ cfg' = cfg /\ wish' = wish /\ desk' = desk
      /\ \A v \in Sited \ {w} : runs'[v] = runs[v] /\ opens'[v] = opens[v] /\ (v \in fine' <=> v \in fine)
  BY DEF Works, setPanel, setConf
<1>4. Stands' \subseteq Stands /\ Stands \subseteq Sited /\ \A v \in Sited \ {w} : v \in Stands' <=> v \in Stands
  BY DEF Stands
<1>5. \A v \in Sited \ {w} : SpecOf(v)' = SpecOf(v)
  BY <1>3, SpecStays
<1>6. w \in Stands' => SpecOf(w)' = SpecOf(w)
  BY <1>3, SpecStays
<1>7. \A v \in Sited : Condemned(v)' => Condemned(v)
  <2>1. \A v \in Sited \ {w} : Condemned(v)' => Condemned(v)
    BY <1>2 DEF Condemned
  <2>2. ASSUME NEW k \in 1 .. n - 1, queued'[w][k].kind = "delete" PROVE Condemned(w)
    <3>1. k + 1 \in 1 .. n /\ queued[w][k + 1].kind = "delete"
      BY <1>2, <2>2
    <3> QED BY <1>2, <3>1 DEF Condemned
  <2>3. Condemned(w)' => Condemned(w)
    BY <1>2, <2>2 DEF Condemned
  <2> QED BY <2>1, <2>3
<1>8. Foremost(w).kind = "delete" => Condemned(w)
  BY <1>2 DEF Foremost, Condemned
<1>9. ASSUME NEW d \in Desk PROVE Knows(d)' /\ Errands(d)'
  <2>1. SetTyped /\ Knows(d) /\ Errands(d) /\ desk[d] \in Entry /\ Shaped(d)
    BY DEF SetInv, SetTyped
  <2>2. InTurn(d)' = InTurn(d)
    BY <1>3 DEF InTurn
  <2>3. CASE desk[d].pc \notin {"build", "queue"}
    <3>1. Errands(d)'
      BY <1>3, <2>3 DEF Errands
    <3>2. desk[d].pc = "next" => primary'[desk[d].w] = {}
      <4>1. desk[d].pc = "next" => desk[d].w \in Sited /\ primary[desk[d].w] = {}
        BY <2>1 DEF Knows, Shaped
      <4> QED BY <4>1
    <3>3. desk[d].pc = "drop" => UsersOf(desk[d].val.gs)' = {}
      BY <1>3, <1>4, <2>1 DEF Knows, UsersOf
    <3>4. Knows(d)'
      BY <1>3, <1>4, <2>1, <2>3, <3>2, <3>3 DEF Knows
    <3> QED BY <3>1, <3>4
  <2>4. CASE desk[d].pc \in {"build", "queue"}
    <3>1. desk[d].left \in Seq(Errand) /\ desk[d].left # <<>>
      BY <2>1, <2>4 DEF Entry, Shaped
    <3>2. InTurn(d) \in Errand /\ 1 \in DOMAIN desk[d].left
      BY <3>1, TailOf DEF InTurn
    <3>3. PICK v \in Sited : v = InTurn(d).w
      BY <3>2 DEF Errand
    <3>4. InTurn(d).w' = v
      BY <2>2, <3>3
    <3>5. desk[d].pc = "queue" => (v \in Stands' => desk[d].spec = SpecOf(v)') /\ life'[v] # "none"
      BY <1>4, <1>5, <1>6, <2>1, <3>3 DEF Knows
    <3>6. Knows(d)'
      BY <1>3, <2>1, <2>4, <3>3, <3>4, <3>5 DEF Knows
    <3>7. \A k \in DOMAIN desk[d].left : desk[d].left[k].w \in Sited
      <4>1. ASSUME NEW k \in DOMAIN desk[d].left PROVE desk[d].left[k] \in Errand
        BY <3>1
      <4> QED BY <4>1 DEF Errand
    <3>8. \A k \in DOMAIN desk[d].left : desk[d].left[k].kind # "update" => ~Condemned(desk[d].left[k].w)'
      <4> SUFFICES ASSUME NEW k \in DOMAIN desk[d].left, desk[d].left[k].kind # "update"
                   PROVE  ~Condemned(desk[d].left[k].w)'
        OBVIOUS
      <4>1. PICK u \in Sited : u = desk[d].left[k].w
        BY <3>7
      <4>2. ~Condemned(u)
        BY <2>1, <2>4, <4>1 DEF Errands
      <4>3. ~Condemned(u)'
        BY <1>7, <4>2
      <4> QED BY <1>3, <4>1, <4>3 DEF Condemned
    <3>9. desk[d].pc = "queue" /\ InTurn(d).kind # "update" => v \in Stands'
      <4>1. desk[d].pc = "queue" /\ InTurn(d).kind # "update" => v \in Stands /\ ~Condemned(v)
        BY <2>1, <2>4, <3>2, <3>3 DEF Errands, InTurn
      <4> QED BY <1>4, <1>8, <4>1
    <3>10. desk[d].pc = "queue" /\ InTurn(d).kind = "delete" => life'[v] # "live"
      BY <2>1, <2>4, <3>3 DEF Errands
    <3>11. Errands(d)'
      BY <1>3, <2>1, <2>2, <2>4, <3>3, <3>4, <3>8, <3>9, <3>10 DEF Errands
    <3> QED BY <3>6, <3>11
  <2> QED BY <2>3, <2>4
<1>10. ASSUME NEW v \in Sited PROVE Named(v)' /\ (v \in Stands' => \A d \in Desk : (Applying(d, v)' <=> Applying(d, v)) /\ (Copying(d, v)' <=> Copying(d, v)))
  <2>1. Named(v) /\ \A d \in Desk : Handing(d, v)' <=> Handing(d, v)
    BY <1>3 DEF SetInv, Handing
  <2>2. v \in Stands' => primary'[v] = primary[v]
    OBVIOUS
  <2>3. Named(v)'
    BY <1>4, <2>1, <2>2 DEF Named
  <2>4. v \in Stands' => \A d \in Desk : v \in UsersOf(desk[d].val.gs)' <=> v \in UsersOf(desk[d].val.gs)
    BY <1>3, <1>4 DEF UsersOf
  <2>5. \A d \in Desk : \A kind : ToDo(d, v, kind)' <=> ToDo(d, v, kind)
    BY <1>3 DEF ToDo
  <2> QED BY <1>3, <2>1, <2>3, <2>4, <2>5 DEF Applying, Copying
<1>11. ASSUME NEW v \in Sited \ {w} PROVE Right(v)' /\ Doom(v)' /\ Delivered(v)'
  <2>1. Right(v) /\ Doom(v) /\ Delivered(v) /\ queued'[v] = queued[v] /\ SpecOf(v)' = SpecOf(v)
    BY <1>2, <1>5 DEF SetInv
  <2>2. Right(v)' /\ Doom(v)'
    BY <1>3, <1>4, <2>1 DEF Right, Doom, Condemned
  <2>3. Links(v)'
    BY <1>3, <2>1 DEF Delivered, Links
  <2>4. (LastPort(v) => LastPort(v)') /\ (LastSpec(v) => LastSpec(v)')
    BY <1>3, <2>1 DEF LastPort, LastSpec
  <2>5. Delivered(v)'
    BY <1>4, <1>10, <2>1, <2>3, <2>4 DEF Delivered
  <2> QED BY <2>2, <2>5
<1>12. Right(w) /\ Doom(w) /\ Delivered(w)
  BY DEF SetInv
<1>13. Right(w)'
  <2>1. \A k \in DOMAIN queued'[w] : queued'[w][k].spec.port \in {0, cfg[w].port}
    <3>1. \A k \in 1 .. n : queued[w][k].spec.port \in {0, cfg[w].port}
      BY <1>2, <1>12 DEF Right
    <3>2. ASSUME NEW k \in 1 .. n - 1 PROVE queued'[w][k].spec.port \in {0, cfg[w].port}
      <4>1. k + 1 \in 1 .. n /\ queued'[w][k] = queued[w][k + 1]
        BY <1>2
      <4> QED BY <3>1, <4>1
    <3> QED BY <1>2, <3>2
  <2> QED BY <1>3, <1>4, <1>12, <2>1 DEF Right
<1>14. Doom(w)'
  <2>0. /\ \A i, j \in 1 .. n : i < j /\ queued[w][i].kind = "delete" => queued[w][j].kind = "update"
        /\ w \notin Stands => \A i \in 1 .. n : queued[w][i].kind = "update"
    <3>1. Doom(w) /\ DOMAIN queued[w] = 1 .. n
      BY <1>2, <1>12
    <3> QED BY ONLY <3>1 DEF Doom
  <2>1. ASSUME NEW i \in 1 .. n - 1, NEW j \in 1 .. n - 1, i < j, queued'[w][i].kind = "delete"
        PROVE  queued'[w][j].kind = "update"
    <3>1. i + 1 \in 1 .. n /\ j + 1 \in 1 .. n /\ i + 1 < j + 1
      BY <1>2, <2>1
    <3>2. queued[w][i + 1].kind = "delete" /\ queued'[w][j] = queued[w][j + 1]
      BY <1>2, <2>1
    <3> QED BY <2>0, <3>1, <3>2
  <2>2. ASSUME w \notin Stands', NEW i \in 1 .. n - 1 PROVE queued'[w][i].kind = "update"
    <3>0. i + 1 \in 1 .. n /\ queued'[w][i] = queued[w][i + 1]
      BY <1>2
    <3>1. CASE w \notin Stands
      BY <2>0, <3>0, <3>1
    <3>2. CASE w \in Stands
      <4>1. queued[w][1].kind = "delete" /\ 1 \in 1 .. n /\ 1 < i + 1
        BY <1>2, <2>2, <3>2 DEF Foremost
      <4> QED BY <2>0, <3>0, <4>1
    <3> QED BY <3>1, <3>2
  <2>3. life'[w] = "live" => ~Condemned(w)'
    BY <1>7, <1>12 DEF Doom
  <2> QED BY <1>2, <2>1, <2>2, <2>3 DEF Doom
<1>15. Delivered(w)'
  <2>1. Links(w)'
    <3> SUFFICES ASSUME NEW k \in 1 .. n - 1, queued'[w][k].kind \in {"clone", "push"}
                 PROVE  IF k = 1 THEN w \in fine' => opens'[w] = queued'[w][k].spec.port
                        ELSE queued'[w][k - 1].spec.port = queued'[w][k].spec.port
      BY <1>2 DEF Links
    <3>1. w \in Stands'
      BY <1>2, <1>14 DEF Doom
    <3>2. k + 1 \in 1 .. n /\ k + 1 # 1 /\ (k + 1) - 1 = k /\ queued'[w][k] = queued[w][k + 1]
      BY <1>2
    <3>3. queued[w][k].spec.port = queued[w][k + 1].spec.port
      <4>1. queued[w][k + 1].kind \in {"clone", "push"} /\ k + 1 \in DOMAIN queued[w]
        BY <1>2, <3>2
      <4>2. queued[w][(k + 1) - 1].spec.port = queued[w][k + 1].spec.port
        BY <1>12, <3>2, <4>1 DEF Delivered, Links
      <4> QED BY <3>2, <4>2
    <3>4. CASE k = 1
      BY <3>1, <3>2, <3>3, <3>4 DEF Foremost
    <3>5. CASE k # 1
      <4>1. k - 1 \in 1 .. n - 1 /\ (k - 1) + 1 = k
        BY <1>2, <3>5
      <4> QED BY <1>2, <3>2, <3>3, <3>5, <4>1
    <3> QED BY <3>4, <3>5
  <2>2. ASSUME w \in Stands' PROVE (LastPort(w) => LastPort(w)') /\ (LastSpec(w) => LastSpec(w)')
    <3>0. queued[w] # <<>>
      BY DEF Works
    <3>1. CASE n = 1
      <4>1. queued[w][Len(queued[w])] = Foremost(w)
        BY <1>1, <3>1 DEF Foremost
      <4> QED BY <1>2, <1>6, <2>2, <3>0, <3>1, <4>1 DEF LastPort, LastSpec
    <3>2. CASE n # 1
      <4>1. n - 1 \in 1 .. n - 1 /\ (n - 1) + 1 = n
        BY <1>2, <3>2
      <4>2. queued'[w][Len(queued'[w])] = queued[w][Len(queued[w])]
        BY <1>1, <1>2, <4>1
      <4> QED BY <1>2, <1>6, <2>2, <3>0, <3>2, <4>2 DEF LastPort, LastSpec
    <3> QED BY <3>1, <3>2
  <2> QED BY <1>4, <1>10, <1>12, <2>1, <2>2 DEF Delivered
<1>16. Several'
  BY <1>3, <1>4 DEF SetInv, Several
<1> QED BY <1>9, <1>10, <1>11, <1>13, <1>14, <1>15, <1>16 DEF SetInv

LEMMA WorkRight ==
  ASSUME SetInv, NEW w \in Sited, Works(w)
  PROVE  /\ SetTyped /\ life[w] # "none" /\ opens[w] \in {0, cfg[w].port} /\ Foremost(w).spec.port \in {0, cfg[w].port}
         /\ w \in App => cfg[w].port = 0
         /\ w \notin Stands => opens[w] = 0 /\ runs[w] = Nil /\ Foremost(w).kind = "update"
         /\ w \in fine /\ Foremost(w).kind \in {"clone", "push"} => opens[w] = Foremost(w).spec.port
<1>1. SetTyped /\ Right(w) /\ Doom(w) /\ Delivered(w) /\ queued[w] # <<>>
  BY DEF SetInv, Works
<1>2. 1 \in DOMAIN queued[w]
  BY <1>1, Shorter DEF Shortened
<1> QED BY <1>1, <1>2 DEF Right, Doom, Delivered, Links, Foremost

LEMMA UpdateKeeps ==
  ASSUME SetInv, NEW w \in Sited, UpdateJob(w)
  PROVE  SetInv'
<1>1. /\ SetTyped' /\ Works(w) /\ Foremost(w).kind = "update" /\ UNCHANGED <<life, at, primary>>
      /\ \/ w \in fine' /\ runs'[w] = Foremost(w).spec /\ opens'[w] = Port(w)
         \/ w \notin fine' /\ opens'[w] \in {opens[w], 0, Port(w)}
      /\ runs[w] = Nil => runs'[w] = Nil /\ opens'[w] = opens[w]
  BY UpdateTyped DEF SetInv
<1>2. /\ life[w] # "none" /\ opens[w] \in {0, cfg[w].port} /\ Foremost(w).spec.port \in {0, cfg[w].port}
      /\ w \in App => cfg[w].port = 0
      /\ w \notin Stands => opens[w] = 0 /\ runs[w] = Nil
  BY <1>1, WorkRight
<1>3. Stands' = Stands
  BY <1>1 DEF Stands
<1>4. Port(w) = Foremost(w).spec.port
  BY <1>2 DEF Port
<1> QED BY <1>1, <1>2, <1>3, <1>4, NodeMoves

LEMMA CloneKeeps ==
  ASSUME SetInv, NEW w \in Sited, CloneJob(w)
  PROVE  SetInv'
<1>1. /\ SetTyped' /\ Works(w) /\ Foremost(w).kind \in {"clone", "push"} /\ UNCHANGED <<at, primary>>
      /\ opens'[w] = opens[w]
      /\ \/ fine' = fine /\ runs'[w] = Foremost(w).spec /\ life' = life
         \/ w \notin fine' /\ life' = [life EXCEPT ![w] = "error"]
  BY CloneTyped DEF SetInv
<1>2. /\ SetTyped /\ life[w] # "none" /\ opens[w] \in {0, cfg[w].port} /\ w \in Stands
      /\ w \in fine => opens[w] = Foremost(w).spec.port
  BY <1>1, WorkRight
<1>3. /\ \A v \in Sited \ {w} : life'[v] = life[v]
      /\ life'[w] \in {life[w], "error"}
  BY <1>1, <1>2 DEF SetTyped
<1>4. Stands' = Stands
  BY <1>2, <1>3 DEF Stands
<1> QED BY <1>1, <1>2, <1>3, <1>4, NodeMoves

LEMMA DeletedKeeps ==
  ASSUME SetInv, NEW w \in Sited, DeleteJob(w)
  PROVE  SetInv'
<1>1. /\ SetTyped' /\ Works(w) /\ Foremost(w).kind = "delete"
      /\ \/ /\ runs'[w] = Nil /\ opens'[w] = 0 /\ life' = [life EXCEPT ![w] = "deleted"]
            /\ at' = [h \in Host |-> IF at[h] = w THEN Nil ELSE at[h]]
            /\ primary' = [primary EXCEPT ![w] = {}]
         \/ /\ w \notin fine' /\ life' = [life EXCEPT ![w] = "error"]
            /\ UNCHANGED <<runs, opens, at, primary>>
  BY DeletedTyped DEF SetInv
<1>2. SetTyped /\ opens[w] \in {0, cfg[w].port} /\ w \in Stands
  BY <1>1, WorkRight
<1>3. CASE /\ runs'[w] = Nil /\ opens'[w] = 0 /\ life' = [life EXCEPT ![w] = "deleted"]
           /\ at' = [h \in Host |-> IF at[h] = w THEN Nil ELSE at[h]]
           /\ primary' = [primary EXCEPT ![w] = {}]
  <2>1. /\ \A v \in Sited \ {w} : life'[v] = life[v] /\ primary'[v] = primary[v] /\ \A h \in Host : at'[h] = v <=> at[h] = v
        /\ life'[w] = "deleted" /\ primary'[w] = {}
    BY <1>2, <1>3, RowsTyped DEF SetTyped
  <2>2. w \notin Stands'
    BY <2>1 DEF Stands
  <2> QED BY <1>1, <1>2, <1>3, <2>1, <2>2, NodeMoves
<1>4. CASE /\ w \notin fine' /\ life' = [life EXCEPT ![w] = "error"]
           /\ UNCHANGED <<runs, opens, at, primary>>
  <2>1. /\ \A v \in Sited \ {w} : life'[v] = life[v]
        /\ life'[w] = "error"
    BY <1>2, <1>4 DEF SetTyped
  <2>2. Stands' = Stands
    BY <1>2, <2>1 DEF Stands
  <2> QED BY <1>1, <1>2, <1>4, <2>1, <2>2, NodeMoves
<1> QED BY <1>1, <1>3, <1>4

LEMMA SetStarts == SettingsInit => SetInv
<1> SUFFICES ASSUME SettingsInit PROVE SetInv
  OBVIOUS
<1>0. MaxForms \in Nat
  BY SettingsBounds
<1>1. \A w \in Sited : cfg[w] = Fresh /\ wish[w] = Fresh /\ queued[w] = <<>> /\ opens[w] = 0 /\ primary[w] = {Sys}
  BY DEF SettingsInit
<1>2. \A d \in Desk : desk[d] = Away
  BY DEF SettingsInit
<1>3. \A w \in Sited : IF w \in Twin THEN life[w] = "none" /\ runs[w] = Nil ELSE life[w] = "live"
  BY DEF SettingsInit
<1>4. Fresh.own = 0 /\ Fresh.groups = {} /\ Fresh.on = FALSE /\ Fresh.port = 0
  BY DEF Fresh
<1>5. \A w \in Sited : First(w) = Sys
  BY <1>1 DEF First
<1>6. \A w \in Sited : SpecOf(w) = [own |-> 0, on |-> FALSE, port |-> 0, shared |-> [g \in {} |-> shared[g]],
                                    hosts |-> {}, first |-> Sys]
  <2> SUFFICES ASSUME NEW w \in Sited
               PROVE SpecOf(w) = [own |-> 0, on |-> FALSE, port |-> 0, shared |-> [g \in {} |-> shared[g]],
                                  hosts |-> {}, first |-> Sys]
    OBVIOUS
  <2>1. {h \in Host : at[h] = w} = {}
    <3>1. w # Nil
      BY SettingsBounds DEF Sited
    <3> QED BY <3>1 DEF SettingsInit
  <2> QED BY <1>1, <1>4, <1>5, <2>1 DEF SpecOf
<1>7. \A e : [g \in {} |-> e] = <<>>
  OBVIOUS
<1>8. \A w \in Sited : w \notin Twin => runs[w] = SpecOf(w)
  <2>1. [g \in {} |-> shared[g]] = <<>>
    OBVIOUS
  <2> QED BY <1>6, <2>1 DEF SettingsInit
<1>9. SetTyped
  <2>1. life \in [Sited -> {"none", "live", "error", "deleting", "deleted"}]
    BY DEF SettingsInit
  <2>2. cfg \in [Sited -> Conf] /\ wish \in [Sited -> Conf]
    BY BlanksTyped DEF SettingsInit
  <2>3. slug \in [Twin -> [of : Sited \cup {Nil}, n : Nat]]
    BY DEF SettingsInit
  <2>4. at \in [Host -> Sited \cup {Nil}] /\ primary \in [Sited -> SUBSET (Host \cup {Sys})]
    BY DEF SettingsInit
  <2>5. shared \in [Group -> Nat] /\ (\A g \in Group : shared[g] <= forms) /\ forms \in 0 .. MaxForms
    BY <1>0 DEF SettingsInit
  <2>6. desk \in [Desk -> Entry] /\ \A d \in Desk : Shaped(d)
    <3>1. \A d \in Desk : Shaped(d)
      BY <1>2, AwayIs DEF Shaped
    <3> QED BY <3>1, BlanksTyped DEF SettingsInit
  <2>7. queued \in [Sited -> Seq(Task)] /\ opens \in [Sited -> Nat] /\ fine \subseteq Sited
    BY DEF SettingsInit
  <2>8. runs \in [Sited -> Recipe \cup {Nil}]
    <3>1. <<>> \in UNION {[G -> Nat] : G \in SUBSET Group}
      <4>1. <<>> \in [{} -> Nat]
        BY <1>7
      <4>2. {} \in SUBSET Group
        OBVIOUS
      <4> QED BY <4>1, <4>2
    <3>2. [own |-> 0, on |-> FALSE, port |-> 0, shared |-> <<>>, hosts |-> {}, first |-> Sys] \in Recipe
      BY <1>0, <3>1 DEF Recipe
    <3> QED BY <3>2 DEF SettingsInit
  <2> QED BY <2>1, <2>2, <2>3, <2>4, <2>5, <2>6, <2>7, <2>8 DEF SetTyped
<1>10. \A d \in Desk : Knows(d) /\ Errands(d)
  BY <1>2, AwayIs DEF Knows, Errands
<1>11. ASSUME NEW w \in Sited PROVE Right(w) /\ Named(w) /\ Doom(w) /\ Delivered(w)
  <2>1. w \in Stands <=> w \notin Twin
    BY <1>3 DEF Stands
  <2>2. DOMAIN queued[w] = {} /\ queued[w] = <<>>
    BY <1>1
  <2>3. Right(w)
    BY <1>1, <1>3, <1>4, <2>1, <2>2 DEF Right
  <2>4. Named(w)
    BY <1>1 DEF Named
  <2>5. Doom(w)
    BY <2>2 DEF Doom, Condemned
  <2>6. w \in Stands => LastPort(w) /\ LastSpec(w)
    BY <1>1, <1>6, <1>8, <2>1, <2>2 DEF LastPort, LastSpec
  <2>7. Delivered(w)
    BY <2>2, <2>6 DEF Delivered, Links
  <2> QED BY <2>3, <2>4, <2>5, <2>7
<1>12. Several
  BY <1>1, <1>4 DEF Several, Stands
<1> QED BY <1>9, <1>10, <1>11, <1>12 DEF SetInv

LEMMA SetSteps ==
  ASSUME OneDesk, Plain, SetInv, [SettingsNext]_setVars
  PROVE  SetInv'
<1>1. CASE \E d \in Desk, w \in Sited :
             \/ SaveConfig(d, w) \/ SaveQuietly(d, w) \/ AttachEnvGroups(d, w) \/ SetSftp(d, w)
             \/ \E h \in Host : AddDomain(d, w, h) \/ RemoveDomain(d, w, h) \/ SetPrimaryDomain(d, w, h)
             \/ SetPrimaryDomain(d, w, Sys)
             \/ CreateStaging(d, w) \/ PushStaging(d, w) \/ DeleteSite(d, w)
  BY <1>1, SaveKeeps, AttachKeeps, SftpKeeps, AddKeeps, RemoveKeeps, PrimaryKeeps, StageKeeps, PushKeeps, DeleteKeeps
<1>2. CASE \E d \in Desk, g \in Group : SaveEnvGroup(d, g) \/ DeleteEnvGroup(d, g)
  BY <1>2, GroupKeeps, AskDropKeeps
<1>3. CASE \E d \in Desk :
             \/ AllocatePort(d) \/ WriteConfig(d) \/ NextPrimary(d) \/ UsersOfGroup(d) \/ DropGroup(d)
             \/ InsertStaging(d) \/ BuildSpec(d) \/ QueueJob(d)
  BY <1>3, AllocateKeeps, WriteKeeps, HandOnKeeps, UsersKeeps, DropKeeps, InsertKeeps, BuildKeeps, QueueKeeps
<1>4. CASE \E w \in Sited : UpdateJob(w) \/ CloneJob(w) \/ DeleteJob(w)
  BY <1>4, UpdateKeeps, CloneKeeps, DeletedKeeps
<1>5. CASE UNCHANGED setVars
  <2>1. /\ UNCHANGED <<life, cfg, slug, at, primary, shared, desk, queued>>
        /\ UNCHANGED <<runs, opens, fine, wish, forms>>
    BY <1>5 DEF setVars
  <2>2. SetTyped'
    BY <2>1 DEF SetInv, SetTyped, Shaped
  <2>3. Stands' = Stands /\ \A w \in Sited : SpecOf(w)' = SpecOf(w)
    BY <2>1, SpecsStay DEF Stands
  <2>4. \A d \in Desk : Knows(d)' /\ Errands(d)'
    <3> SUFFICES ASSUME NEW d \in Desk PROVE Knows(d)' /\ Errands(d)'
      OBVIOUS
    <3>1. Knows(d)'
      <4>1. PICK u : u = InTurn(d).w
        OBVIOUS
      <4>2. InTurn(d).w' = u
        BY <2>1, <4>1 DEF InTurn
      <4>3. SpecOf(u)' = SpecOf(u) /\ UsersOf(desk[d].val.gs)' = UsersOf(desk[d].val.gs)
        BY <2>1, <2>3 DEF SpecOf, First, UsersOf
      <4>4. Knows(d)
        BY DEF SetInv
      <4> QED BY <2>1, <2>3, <4>1, <4>2, <4>3, <4>4 DEF Knows
    <3>2. Errands(d)'
      BY <2>1, <2>3 DEF SetInv, Errands, Condemned, InTurn
    <3> QED BY <3>1, <3>2
  <2>5. ASSUME NEW w \in Sited PROVE Right(w)' /\ Named(w)' /\ Doom(w)' /\ Delivered(w)'
    <3>1. Right(w) /\ Named(w) /\ Doom(w) /\ Delivered(w)
      BY DEF SetInv
    <3>2. \A d \in Desk : (Applying(d, w)' <=> Applying(d, w)) /\ (Copying(d, w)' <=> Copying(d, w))
      BY <2>1, <2>3 DEF Applying, Copying, ToDo, Handing, UsersOf
    <3>3. Delivered(w)'
      BY <2>1, <2>3, <3>1, <3>2, DeliveredStays
    <3> QED BY <2>1, <2>3, <3>1, <3>3 DEF Right, Named, Doom, Condemned, Handing
  <2>6. Several'
    BY <2>1, <2>3 DEF SetInv, Several
  <2> QED BY <2>2, <2>4, <2>5, <2>6 DEF SetInv
<1> QED BY <1>1, <1>2, <1>3, <1>4, <1>5 DEF SettingsNext

LEMMA SetRight ==
  ASSUME OneDesk, SetInv
  PROVE  SettingsRight
<1>0. SetTyped
  BY DEF SetInv
<1>1. ASSUME NobodyAsks, NEW w \in Stands
      PROVE  /\ \E x \in Host \cup {Sys} : primary[w] = {x}
             /\ queued[w] = <<>> /\ w \in fine => runs[w] = SpecOf(w) /\ opens[w] = SpecOf(w).port
  <2>1. \A d \in Desk : desk[d].pc = "away"
    BY <1>1 DEF NobodyAsks, Sits
  <2>2. w \in Sited /\ Named(w) /\ Delivered(w)
    BY DEF SetInv, Stands
  <2>3. \A d \in Desk : ~Applying(d, w) /\ ~Copying(d, w) /\ ~Handing(d, w)
    BY <2>1, <2>2, IdleDoes
  <2> QED BY <2>2, <2>3 DEF Named, Delivered, LastPort, LastSpec
<1>2. SettingsServed
  <2> SUFFICES ASSUME NEW w \in Stands, NobodyAsks, queued[w] = <<>>, w \in fine
               PROVE  /\ runs[w] = [SpecOf(w) EXCEPT !.own = wish[w].own, !.on = wish[w].on, !.shared = [g \in wish[w].groups |-> shared[g]]]
                      /\ opens[w] = IF wish[w].on THEN cfg[w].port ELSE 0
    BY DEF SettingsServed
  <2>1. runs[w] = SpecOf(w) /\ opens[w] = SpecOf(w).port
    BY <1>1
  <2>2. w \in Sited /\ Right(w)
    BY DEF SetInv, Stands
  <2>3. wish[w].own = cfg[w].own /\ wish[w].groups = cfg[w].groups /\ wish[w].on = cfg[w].on
    BY <2>2 DEF Right
  <2>4. PICK s : s = SpecOf(w)
    OBVIOUS
  <2>5. s \in Recipe
    BY <1>0, <2>2, <2>4, SpecTyped
  <2>6. PICK sh : sh = [g \in wish[w].groups |-> shared[g]]
    OBVIOUS
  <2>7. s.own = wish[w].own /\ s.on = wish[w].on /\ s.shared = sh /\ s.port = IF wish[w].on THEN cfg[w].port ELSE 0
    BY <2>3, <2>4, <2>6 DEF SpecOf
  <2>8. s = [s EXCEPT !.own = wish[w].own, !.on = wish[w].on, !.shared = sh]
    BY <2>5, <2>7 DEF Recipe
  <2> QED BY <2>1, <2>4, <2>6, <2>7, <2>8
<1>3. OnePrimary
  <2> SUFFICES ASSUME NobodyAsks, NEW w \in Stands PROVE Cardinality(primary[w]) = 1
    BY DEF OnePrimary
  <2>1. PICK x \in Host \cup {Sys} : primary[w] = {x}
    BY <1>1
  <2> QED BY <2>1, FS_Singleton
<1>4. GroupsStay
  BY DEF SetInv, GroupsStay, Right, Stands
<1>5. PortsApart
  <2> SUFFICES ASSUME NEW w \in Sited, NEW v \in Sited, w # v
               PROVE  /\ {w, v} \subseteq Stands => cfg[w].port = 0 \/ cfg[w].port # cfg[v].port
                      /\ w \in Stands /\ cfg[w].port # 0 => opens[v] # cfg[w].port
    BY DEF PortsApart
  <2>1. {w, v} \subseteq Stands => cfg[w].port = 0 \/ cfg[w].port # cfg[v].port
    BY DEF SetInv, Several
  <2>2. opens[v] \in {0, cfg[v].port} /\ (v \notin Stands => opens[v] = 0)
    BY DEF SetInv, Right
  <2> QED BY <2>1, <2>2
<1> QED BY <1>2, <1>3, <1>4, <1>5 DEF SettingsRight

LEMMA SetTypesRight == SetInv => SettingsTypeOK
<1> SUFFICES ASSUME SetInv PROVE SettingsTypeOK
  OBVIOUS
<1>1. SetTyped /\ MaxForms \in Nat
  BY SettingsBounds DEF SetInv
<1>2. ASSUME NEW w \in Sited
      PROVE  cfg[w].groups \subseteq Group /\ cfg[w].own \in 0 .. MaxForms /\ primary[w] \subseteq Host \cup {Sys}
  BY <1>1 DEF SetTyped, Conf
<1>3. shared \in [Group -> 0 .. MaxForms]
  <2>1. \A g \in Group : shared[g] \in 0 .. MaxForms
    BY <1>1 DEF SetTyped
  <2> QED BY <1>1, <2>1 DEF SetTyped
<1>4. ASSUME NEW w \in Sited, NEW k \in DOMAIN queued[w] PROVE queued[w][k].kind \in {"update", "clone", "push", "delete"}
  <2>1. queued[w] \in Seq(Task)
    BY <1>1 DEF SetTyped
  <2>2. queued[w][k] \in Task
    BY <2>1
  <2> QED BY <2>2 DEF Task, Deed
<1> QED BY <1>1, <1>2, <1>3, <1>4 DEF SettingsTypeOK, SetTyped

\* With one request at a time, no SFTP port that is copied and one deletion of a site
\* at a time: what runs is what was last asked for, of every setting, group and host
\* name, a site has one primary host name, a group in use stays, and no port is given
\* twice; for any number of sites, host names, groups and requests (settings.ts,
\* domains.ts, env-groups.ts, and the jobs of the agent).
THEOREM SettingsAreServed ==
  ASSUME OneDesk, Plain
  PROVE  SettingsSpec => [](SettingsTypeOK /\ SettingsRight)
<1>1. SettingsInit => SetInv
  BY SetStarts
<1>2. SetInv /\ [SettingsNext]_setVars => SetInv'
  BY SetSteps
<1>3. SetInv => SettingsTypeOK /\ SettingsRight
  BY SetRight, SetTypesRight
<1> QED BY <1>1, <1>2, <1>3, PTL DEF SettingsSpec

-----------------------------------------------------------------------------
(* Nobody's message is overheard, as long as replies come one by one.      *)

\* What each st says of the ticket.
Spoken(s) == IF s = "answered" THEN "staff" ELSE "customer"
\* The one reply in progress is the last message.
TicketInv ==
  /\ TicketsTypeOK
  /\ \A w, v \in Writer : writing[w] # "nothing" /\ writing[v] # "nothing" => w = v
  /\ \A w \in Writer : writing[w] # "nothing" => turn # "none" /\ Last(said) = Spoken(writing[w])
  /\ NobodyOverheard

LEMMA TicketSays ==
  ASSUME ~TalkOver, TicketInv, NEW w \in Writer, NEW side \in Side, NEW st \in {"answered", "customer_reply"},
         side = Spoken(st), Says(w, side, st)
  PROVE  TicketInv'
<1>1. /\ turn # "none" /\ Len(said) < MaxSaid /\ NobodyWrites
      /\ said' = Append(said, side) /\ writing' = [writing EXCEPT ![w] = st]
      /\ UNCHANGED <<turn, closedAt, reopened, unfiled>>
  BY DEF Says
<1>2. said \in Seq(Side) /\ writing \in [Writer -> {"nothing", "answered", "customer_reply"}] /\ MaxSaid \in Nat
  BY TicketsAssumption DEF TicketInv, TicketsTypeOK
<1>3. said' \in Seq(Side) /\ Len(said') = Len(said) + 1 /\ said'[Len(said')] = side /\ Len(said) \in Nat
  BY <1>1, <1>2
<1>4. Last(said)' = side
  BY <1>3 DEF Last
<1>5. writing'[w] = st /\ \A v \in Writer \ {w} : writing'[v] = "nothing"
  BY <1>1, <1>2 DEF NobodyWrites
<1>6. TicketsTypeOK'
  BY <1>1, <1>2, <1>3 DEF TicketInv, TicketsTypeOK
<1> QED BY <1>1, <1>4, <1>5, <1>6 DEF TicketInv, NobodyOverheard, NobodyWrites

LEMMA TicketStep ==
  ASSUME ~TalkOver, TicketInv, [TicketsNext]_ticketVars
  PROVE  TicketInv'
<1>0. /\ said \in Seq(Side) /\ Len(said) <= MaxSaid /\ turn \in TicketStatus
      /\ writing \in [Writer -> {"nothing", "answered", "customer_reply"}]
      /\ closedAt \in 0 .. MaxSaid /\ reopened \in 0 .. MaxSaid /\ unfiled \in 0 .. MaxUnfiled
      /\ MaxSaid \in Nat /\ MaxUnfiled \in Nat /\ Len(said) \in Nat
  BY TicketsAssumption DEF TicketInv, TicketsTypeOK
<1>1. CASE turn = "none" /\ MaxSaid > 0 /\ turn' = "open" /\ said' = <<"customer">> /\ UNCHANGED <<writing, closedAt, reopened, unfiled>>
  <2>1. said' \in Seq(Side) /\ Len(said') = 1
    BY <1>1 DEF Side
  <2>2. \A w \in Writer : writing[w] = "nothing"
    BY <1>1 DEF TicketInv
  <2>3. TicketsTypeOK'
    BY <1>0, <1>1, <2>1 DEF TicketsTypeOK, TicketStatus
  <2> QED BY <1>1, <2>1, <2>2, <2>3 DEF TicketInv, NobodyOverheard
<1>2. CASE \E w \in Writer, side \in Side, st \in {"answered", "customer_reply"} :
             side = Spoken(st) /\ Says(w, side, st)
  BY <1>2, TicketSays
<1>3. CASE \E w \in Writer : UpdateTicket(w)
  <2>1. PICK w \in Writer : UpdateTicket(w)
    BY <1>3
  <2>2. /\ writing[w] # "nothing" /\ turn' = writing[w] /\ writing' = [writing EXCEPT ![w] = "nothing"]
        /\ UNCHANGED <<said, closedAt, reopened, unfiled>>
    BY <2>1 DEF UpdateTicket
  <2>3. writing[w] \in {"answered", "customer_reply"} /\ Last(said) = Spoken(writing[w])
    BY <1>0, <2>2 DEF TicketInv
  <2>4. \A v \in Writer : writing'[v] = "nothing"
    BY <1>0, <2>2 DEF TicketInv
  <2>5. TicketsTypeOK'
    BY <1>0, <2>2, <2>3 DEF TicketsTypeOK, TicketStatus
  <2>6. Last(said)' = Last(said)
    BY <2>2 DEF Last
  <2> QED BY <2>2, <2>3, <2>4, <2>5, <2>6 DEF TicketInv, NobodyOverheard, Spoken
<1>4. CASE \E w \in Writer : NotFiled(w)
  <2>1. PICK w \in Writer : NotFiled(w)
    BY <1>4
  <2>2. /\ unfiled < MaxUnfiled /\ unfiled' = unfiled + 1 /\ writing' = [writing EXCEPT ![w] = "nothing"]
        /\ UNCHANGED <<said, turn, closedAt, reopened>>
    BY <2>1 DEF NotFiled
  <2>3. TicketsTypeOK' /\ unfiled' # 0
    BY <1>0, <2>2 DEF TicketsTypeOK
  <2>4. \A v \in Writer : writing'[v] \in {writing[v], "nothing"}
    BY <1>0, <2>2
  <2>5. Last(said)' = Last(said)
    BY <2>2 DEF Last
  <2> QED BY <2>2, <2>3, <2>4, <2>5 DEF TicketInv, NobodyOverheard
<1>5. CASE CloseTicket \/ \E st \in {"open", "closed"} : SetTicketStatus(st)
  <2>1. /\ turn # "none" /\ UNCHANGED <<said, writing, unfiled>>
        /\ \/ turn' = "closed" /\ closedAt' = Len(said) /\ reopened' = reopened
           \/ turn' = "open" /\ reopened' = Len(said) /\ closedAt' = closedAt
    BY <1>5 DEF CloseTicket, SetTicketStatus
  <2>2. TicketsTypeOK'
    BY <1>0, <2>1 DEF TicketsTypeOK, TicketStatus
  <2>3. Last(said)' = Last(said) /\ Len(said)' = Len(said)
    BY <2>1 DEF Last
  <2> QED BY <2>1, <2>2, <2>3 DEF TicketInv, NobodyOverheard
<1>6. CASE UNCHANGED ticketVars
  BY <1>6 DEF ticketVars, TicketInv, TicketsTypeOK, NobodyOverheard, NobodyWrites, Last
<1>7. ASSUME NEW w \in Writer, NEW staff, NEW mine, ReplyTicket(w) \/ StaffReply(w) \/ ReplyByMail(w, staff, mine)
      PROVE  TicketInv'
  <2>1. Says(w, "customer", "customer_reply") \/ Says(w, "staff", "answered")
    BY <1>7 DEF ReplyTicket, StaffReply, ReplyByMail
  <2> QED BY <1>2, <2>1 DEF Side, Spoken
<1> QED BY <1>1, <1>3, <1>4, <1>5, <1>6, <1>7 DEF TicketsNext, OpenTicket, OpenByMail

LEMMA TicketStarts == TicketsInit => TicketInv
BY TicketsAssumption DEF TicketsInit, TicketInv, TicketsTypeOK, TicketStatus, NobodyOverheard

\* The messages, the status and the replies keep their types, and with replies that
\* do not overlap a status never hides a message (replyTicket, staffReply, attach).
THEOREM TicketsHeard ==
  ASSUME ~TalkOver
  PROVE  TicketsSpec => [](TicketsTypeOK /\ NobodyOverheard)
<1>1. TicketsInit => TicketInv
  BY TicketStarts
<1>2. TicketInv /\ [TicketsNext]_ticketVars => TicketInv'
  BY TicketStep
<1>3. TicketInv => TicketsTypeOK /\ NobodyOverheard
  BY DEF TicketInv
<1> QED BY <1>1, <1>2, <1>3, PTL DEF TicketsSpec

-----------------------------------------------------------------------------
(* The parts of a company's account together.                              *)

SetUp ==
  /\ Where("settings", SetInv) /\ Where("team", TeamInv)
  /\ Where("cards", CardInv) /\ Where("ticket", TicketInv)

LEMMA SetUpStep ==
  ASSUME OneDesk, Plain, ~Together, ~Abreast, ~Belated, ~TalkOver, SetUp, [CompanyNext]_companyVars
  PROVE  SetUp'
<1>1. part' = part
  BY DEF CompanyNext, companyVars
<1>2. part = "settings" => [SettingsNext]_setVars
  BY DEF CompanyNext, DeskNext, HostNext, OwnNext, companyVars, deskVars
<1>3. part = "team" => [TeamsNext]_teamVars
  BY DEF CompanyNext, DeskNext, HostNext, OwnNext, companyVars, deskVars
<1>4. part = "cards" => [CardsNext]_cardVars
  BY DEF CompanyNext, DeskNext, HostNext, OwnNext, companyVars, deskVars
<1>5. part = "ticket" => [TicketsNext]_ticketVars
  BY DEF CompanyNext, DeskNext, HostNext, OwnNext, companyVars, deskVars
<1>6. part = "settings" => SetInv'
  BY <1>2, SetSteps DEF SetUp, Where
<1>7. part = "team" => TeamInv'
  BY <1>3, TeamInvNext DEF SetUp, Where
<1>8. part = "cards" => CardInv'
  BY <1>4, CardStep DEF SetUp, Where
<1>9. part = "ticket" => TicketInv'
  BY <1>5, TicketStep DEF SetUp, Where
<1> QED BY <1>1, <1>6, <1>7, <1>8, <1>9 DEF SetUp, Where

\* What a customer sets up is what is served, a company has one owner, it pays with
\* one card, and no question is shown as answered before it was: for any number of
\* sites, groups, people, cards and replies, while the requests of a site and those
\* of a team come one after another, only reports of one payment overlap and none
\* comes after its card was removed, and replies do not overlap.
THEOREM CompanyIsRight ==
  ASSUME OneDesk, Plain, ~Together, ~Abreast, ~Belated, ~TalkOver
  PROVE  CompanySpec => []CompanyRight
<1>1. CompanyInit => SetUp
  BY SetStarts, TeamInvInit, CardInvInit, TicketStarts DEF CompanyInit, SetUp, Where
<1>2. SetUp /\ [CompanyNext]_companyVars => SetUp'
  BY SetUpStep
<1>3. SetUp => CompanyRight
  <2>1. SetInv => SettingsRight
    BY SetRight
  <2>2. TeamInv => TeamRight
    BY DEF TeamInv, TeamRight
  <2>3. CardInv => CardsRight
    BY DEF CardInv, CardsRight, OneDefault, AtMostOne, Chosen, NobodyServed, Resting, HasDefault
  <2>4. TicketInv => NobodyOverheard
    BY DEF TicketInv
  <2> QED BY <2>1, <2>2, <2>3, <2>4 DEF SetUp, CompanyRight, Where
<1> QED BY <1>1, <1>2, <1>3, PTL DEF CompanySpec
=============================================================================
