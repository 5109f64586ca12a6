--------------------------- MODULE Onboarding_proofs ---------------------------
(***************************************************************************)
(* Theorems about Onboarding for any number of companies, people, units,   *)
(* invitations and overlapping requests.                                   *)
(*                                                                         *)
(* The properties depend on what a request in progress remembers of the    *)
(* tables.  Good says what stays true of it whatever the other requests    *)
(* do: it rests on what no call takes from a row (the address of a user,   *)
(* the companies he was of, what the administrator of a company is unless  *)
(* the platform changes him, the kind of a unit, the company of a          *)
(* department, the address of an invitation) and on numbers that are not   *)
(* given twice.                                                            *)
(***************************************************************************)
EXTENDS Onboarding, TLAPS

\* A user is of his company, and his tokens name companies he is or was of.
AtHome(row) == row.company \in row.homes /\ row.sessions \subseteq row.homes

\* The administrator of a company, unless the platform gave him another role or company.
Administers(row, c) == row.recast \/ (row.role = "admin" /\ row.company = c)

\* The department of an invitation, if it is there, is one, and of the company that invites
\* unless it was named by hand.
Placeable(row) ==
    row.department # None =>
        /\ row.department <= last.units
        /\ row.department \in Built =>
              /\ unit[row.department].kind = "department"
              /\ ~row.placed => unit[row.department].company = row.company

\* What a request of each kind remembers, and still holds.
GoodStatus(q) ==
    q \in StatusRequest =>
        /\ company[q.company] # None
        /\ q.admin # None => q.admin <= last.users
        /\ q.admin \in People => Administers(user[q.admin], q.company)

GoodIssue(q) ==
    q \in IssueRequest =>
        \A i \in q.seen : i <= last.invitations /\ i \notin Open(q.email)

GoodJoin(q) == q \in JoinRequest => q.token \in q.open /\ Placeable(q.as)

GoodBuild(q) ==
    q \in BuildRequest =>
        /\ q.kind = "department" => q.move = None
        /\ q.unit <= last.units
        /\ q.unit \in Built => unit[q.unit].kind = q.kind
        /\ q.lead # None => q.lead <= last.users
        /\ q.lead \in People => q.company \in user[q.lead].homes

GoodEnlist(q) ==
    q \in EnlistRequest =>
        /\ q.unit <= last.units /\ q.lead <= last.users
        /\ q.unit \in Built =>
              /\ unit[q.unit].kind = "department"
              /\ q.lead \in People => unit[q.unit].company \in user[q.lead].homes

Good(q) == GoodStatus(q) /\ GoodIssue(q) /\ GoodJoin(q) /\ GoodBuild(q) /\ GoodEnlist(q)

Pending == {req[r] : r \in Slots} \ {None}

RequestsOK ==
    \A q \in Pending : Good(q)

\* The invitations that were sent: their departments are there.
InvitationsOK ==
    \A i \in Sent :
        /\ Placeable(invitation[i])
        /\ invitation[i].department # None => invitation[i].department \in Built

\* The administrator the last updateStatus read has a number that was given.
CompaniesOK ==
    \A c \in Companies :
        company[c] # None /\ company[c].admin # None => company[c].admin <= last.users

\* The unique key on the address of a user.
AddressesDiffer ==
    \A u, v \in People : user[u].email = user[v].email => u = v

HomesOK == \A u \in People : AtHome(user[u])

IInv ==
    /\ TypeOK /\ RequestsOK /\ InvitationsOK /\ CompaniesOK /\ AddressesDiffer /\ HomesOK
    /\ WithinOneCompany /\ OneTokenPerAddress /\ ActivationReachesAdmin

-----------------------------------------------------------------------------
(* The steps, grouped by what they do to the tables.                        *)

\* Nothing but the request changes.
Reads(r) ==
    \/ \E c \in Companies, s \in {"active", "suspended"} : StatusRead(r, c, s)
    \/ \E by \in Users, e \in Emails, role \in Roles, dept \in Units \cup {None} :
          InviteRead(r, by, e, role, dept)
    \/ \E i \in Invitations : JoinRead(r, i)
    \/ \E kind \in Kinds, by \in Users, c \in Companies, n \in Units \cup {0}, name \in Names,
          move \in Companies \cup {None} :
          /\ move # None => kind = "subsidiary" /\ n # 0
          /\ \/ NameNobody(r, kind, by, c, n, name, move)
             \/ \E id \in Users : NameColleague(r, kind, by, c, n, name, move, id)

NamesAddress(r) ==
    \E kind \in Kinds, by \in Users, c \in Companies, n \in Units \cup {0}, name \in Names,
       move \in Companies \cup {None}, e \in Emails, given \in BOOLEAN :
        /\ move # None => kind = "subsidiary" /\ n # 0
        /\ NameAddress(r, kind, by, c, n, name, move, e, given)

\* A call that changes the row of one user.
PersonCall(u) ==
    \/ LogIn(u)
    \/ \E status \in {"active", "approved", "suspended"} : PlatformStanding(u, status)
    \/ \E role \in Roles \cup {None}, dept \in Units \cup {None, 0},
          c \in Companies \cup {None, 0} : PlatformEdit(u, role, dept, c)
    \/ \E by \in Users, role \in Roles \cup {None}, dept \in Units \cup {None},
          status \in Statuses \cup {None} : UpdateUser(by, u, role, dept, status)

\* What else the platform does.
PlatformCall ==
    \/ \E c \in Companies, s \in {"active", "suspended"} : PlatformStatus(c, s)
    \/ \E e \in Emails, role \in Roles, dept \in Units \cup {None}, c \in Companies :
          PlatformInvite(e, role, dept, c)

\* What else a manager does in one call.
CallOf(by) ==
    \/ \E i \in Invitations : DeleteInvitation(by, i)
    \/ \E u \in Users : DeleteUser(by, u)
    \/ \E n \in Units : DeleteUnit(by, n)
    \/ \E c \in Companies, kind \in Kinds, name \in Names, lead \in Users :
                     SetupExisting(kind, by, c, name, lead)
    \/ \E c \in Companies, name \in Names, e \in Emails : SetupNewcomer(by, c, name, e)
    \/ \E c \in Companies, e \in Emails, role \in Roles, dept \in Units \cup {None} :
          SetupInvite(by, c, e, role, dept)

LEMMA NextCases ==
  ASSUME TypeOK, [Next]_vars
  PROVE  \/ UNCHANGED vars
         \/ \E e \in Emails, c \in Companies : SignUp(e, c)
         \/ PlatformCall
         \/ \E r \in Slots : Reads(r) \/ NamesAddress(r) \/ Continue(r)
         \/ \E u \in Users : PersonCall(u)
         \/ \E by \in Users : CallOf(by)
<1>1. ASSUME NEW r \in Slots, BeginUnit(r)
      PROVE  Reads(r) \/ NamesAddress(r)
  <2> USE <1>1
  <2>1. PICK kind \in Kinds, by \in Users, c \in Companies, n \in Units \cup {0}, name \in Names,
             move \in Companies \cup {None} :
        /\ move # None => kind = "subsidiary" /\ n # 0
        /\ \/ NameNobody(r, kind, by, c, n, name, move)
           \/ \E id \in Users : NameColleague(r, kind, by, c, n, name, move, id)
           \/ \E e \in Emails : NameAddress(r, kind, by, c, n, name, move, Lower[e], TRUE)
           \/ \E id \in Invitations : NameInvited(r, kind, by, c, n, name, move, id)
    BY DEF BeginUnit
  <2>2. \A e \in Emails : Lower[e] \in Emails
    BY LowerAssumption
  <2>3. ASSUME NEW id \in Invitations, NameInvited(r, kind, by, c, n, name, move, id)
        PROVE  \E e \in Emails : NameAddress(r, kind, by, c, n, name, move, e, FALSE)
    <3>1. invitation[id].email \in Emails
      BY <2>3 DEF NameInvited, TypeOK, Sent, InvitationRow
    <3>2. QED
      BY <2>2, <2>3, <3>1 DEF NameInvited
  <2>4. QED
    BY <2>1, <2>2, <2>3 DEF Reads, NamesAddress
<1>2. Platform => PlatformCall \/ \E u \in Users : PersonCall(u)
  BY DEF Platform, PlatformCall, PersonCall
<1>3. ASSUME NEW by \in Users, Managing(by)
      PROVE  CallOf(by) \/ \E u \in Users : PersonCall(u)
  BY <1>3 DEF Managing, CallOf, PersonCall
<1>4. \A u \in Users : LogIn(u) => PersonCall(u)
  BY DEF PersonCall
<1>5. QED
  BY <1>1, <1>2, <1>3, <1>4 DEF Next, Reads

\* One row of the users is all such a call writes.
LEMMA PersonAlone ==
  ASSUME NEW u \in Users, PersonCall(u)
  PROVE  UNCHANGED <<company, invitation, unit, last, req>>
<1>1. ASSUME NEW status, PlatformStanding(u, status)
      PROVE  UNCHANGED <<company, invitation, unit, last, req>>
  BY <1>1 DEF PlatformStanding
<1>2. ASSUME NEW role, NEW dept, NEW c, PlatformEdit(u, role, dept, c)
      PROVE  UNCHANGED <<company, invitation, unit, last, req>>
  BY <1>2 DEF PlatformEdit
<1>3. ASSUME NEW by, NEW role, NEW dept, NEW status, UpdateUser(by, u, role, dept, status)
      PROVE  UNCHANGED <<company, invitation, unit, last, req>>
  BY <1>3 DEF UpdateUser
<1>4. LogIn(u) => UNCHANGED <<company, invitation, unit, last, req>>
  BY DEF LogIn
<1>5. QED
  BY <1>1, <1>2, <1>3, <1>4 DEF PersonCall

LEMMA ReadsChangeNothing ==
  ASSUME NEW r \in Slots, Reads(r)
  PROVE  UNCHANGED <<company, user, invitation, unit, last>>
<1>1. ASSUME NEW c, NEW s, StatusRead(r, c, s) PROVE UNCHANGED <<company, user, invitation, unit, last>>
  BY <1>1 DEF StatusRead
<1>2. ASSUME NEW by, NEW e, NEW role, NEW dept, InviteRead(r, by, e, role, dept)
      PROVE  UNCHANGED <<company, user, invitation, unit, last>>
  BY <1>2 DEF InviteRead
<1>3. ASSUME NEW i, JoinRead(r, i) PROVE UNCHANGED <<company, user, invitation, unit, last>>
  BY <1>3 DEF JoinRead
<1>4. ASSUME NEW kind, NEW by, NEW c, NEW n, NEW name, NEW move,
             \/ NameNobody(r, kind, by, c, n, name, move)
             \/ \E id \in Users : NameColleague(r, kind, by, c, n, name, move, id)
      PROVE  UNCHANGED <<company, user, invitation, unit, last>>
  BY <1>4 DEF NameNobody, NameColleague
<1>5. QED
  BY <1>1, <1>2, <1>3, <1>4 DEF Reads

LEMMA NoneIsNobody ==
  /\ None \notin Users /\ None \notin Units /\ None \notin Invitations
  /\ Users \subseteq Nat /\ Units \subseteq Nat /\ Invitations \subseteq Nat
  /\ None \notin CompanyRow /\ None \notin UserRow /\ None \notin InvitationRow
  /\ None \notin UnitRow /\ None \notin Request /\ None \notin Companies
<1>1. Users \subseteq Nat /\ Units \subseteq Nat /\ Invitations \subseteq Nat
  BY MaximaAssumption DEF Users, Units, Invitations
<1>2. QED
  BY <1>1, NoneAssumption

\* A row that is there has its type.
LEMMA Rows ==
  ASSUME TypeOK
  PROVE  /\ \A u \in People : u \in Users /\ user[u] \in UserRow
         /\ \A i \in Sent : i \in Invitations /\ invitation[i] \in InvitationRow
         /\ \A n \in Built : n \in Units /\ unit[n] \in UnitRow
         /\ \A q \in Pending : q \in Request
BY DEF TypeOK, People, Sent, Built, Pending

\* The kind of a request follows from what it does next.
LEMMA RequestOf ==
  ASSUME TypeOK, NEW r \in Slots, req[r] # None
  PROVE  /\ req[r] \in Pending
         /\ req[r].op \in {"status", "activate"} => req[r] \in StatusRequest
         /\ req[r].op = "expire" => req[r] \in ExpireRequest
         /\ req[r].op = "issue" => req[r] \in IssueRequest
         /\ req[r].op \in {"join", "accept"} => req[r] \in JoinRequest
         /\ req[r].op \in {"cancel", "unit"} => req[r] \in BuildRequest
         /\ req[r].op = "enlist" => req[r] \in EnlistRequest
<1>1. req[r] \in Request
  BY DEF TypeOK
<1>2. QED
  BY <1>1 DEF Pending, Request, StatusRequest, ExpireRequest, IssueRequest, JoinRequest, BuildRequest,
              EnlistRequest

\* The sequences.
LEMMA SequencesNext ==
  ASSUME TypeOK, [Next]_vars
  PROVE  /\ last' \in [users : 0..MaxUsers, invitations : 0..MaxInvitations, units : 0..MaxUnits]
         /\ last'.users >= last.users /\ last'.invitations >= last.invitations
         /\ last'.units >= last.units
<1>1. last \in [users : 0..MaxUsers, invitations : 0..MaxInvitations, units : 0..MaxUnits]
      /\ MaxUsers \in Nat /\ MaxInvitations \in Nat /\ MaxUnits \in Nat
  BY MaximaAssumption DEF TypeOK
<1> DEFINE Stay      == UNCHANGED last
           Joined    == last' = [last EXCEPT !.users = @ + 1] /\ last.users < MaxUsers
           Invited   == /\ last' = [last EXCEPT !.invitations = @ + 1]
                        /\ last.invitations < MaxInvitations
           Founded   == last' = [last EXCEPT !.units = @ + 1] /\ last.units < MaxUnits
           Newcomer  == /\ last' = [users |-> last.users + 1,
                                    invitations |-> last.invitations + 1,
                                    units |-> last.units + 1]
                        /\ last.users < MaxUsers /\ last.invitations < MaxInvitations
                        /\ last.units < MaxUnits
<1>2. Stay \/ Joined \/ Invited \/ Founded \/ Newcomer
  <2>1. ASSUME NEW r \in Slots, NamesAddress(r) PROVE Stay \/ Joined
    <3>1. ASSUME NEW kind, NEW c, NEW n, NEW e, Resolve(kind, c, n, e) PROVE Stay \/ Joined
      BY <3>1 DEF Resolve, AddUser
    <3>2. QED
      BY <2>1, <3>1 DEF NamesAddress, NameAddress
  <2>2. ASSUME NEW r \in Slots, Continue(r) PROVE Stay \/ Joined \/ Invited \/ Founded
    <3>1. CASE InviteIssue(r)
      BY <3>1 DEF InviteIssue
    <3>2. CASE JoinCreate(r)
      BY <3>2 DEF JoinCreate, AddUser
    <3>3. CASE UnitCreate(r)
      BY <3>3 DEF UnitCreate
    <3>4. CASE StatusWrite(r) \/ StatusActivate(r) \/ ExpireEarlier(r) \/ JoinAccept(r)
                 \/ CancelInvitations(r) \/ Enlist(r) \/ UnitUpdate(r) \/ Fail(r)
      BY <3>4 DEF StatusWrite, StatusActivate, ExpireEarlier, JoinAccept, CancelInvitations, Enlist,
                  UnitUpdate, Fail
    <3>5. QED
      BY <2>2, <3>1, <3>2, <3>3, <3>4 DEF Continue
  <2>3. ASSUME NEW by \in Users, CallOf(by) PROVE Stay \/ Invited \/ Founded \/ Newcomer
    <3>2. ASSUME NEW i, DeleteInvitation(by, i) PROVE Stay
      BY <3>2 DEF DeleteInvitation
    <3>4. ASSUME NEW u, DeleteUser(by, u) PROVE Stay
      BY <3>4 DEF DeleteUser
    <3>5. ASSUME NEW n, DeleteUnit(by, n) PROVE Stay
      BY <3>5 DEF DeleteUnit
    <3>6. ASSUME NEW kind, NEW c, NEW name, NEW lead, SetupExisting(kind, by, c, name, lead) PROVE Founded
      BY <3>6 DEF SetupExisting, SetupUnit
    <3>7. ASSUME NEW c, NEW name, NEW e, SetupNewcomer(by, c, name, e) PROVE Newcomer
      BY <3>7 DEF SetupNewcomer, SetupUnit
    <3>8. ASSUME NEW c, NEW e, NEW role, NEW dept, SetupInvite(by, c, e, role, dept) PROVE Invited
      BY <3>8 DEF SetupInvite
    <3> HIDE DEF Stay, Invited, Founded, Newcomer
    <3>9. QED
      BY <2>3, <3>2, <3>4, <3>5, <3>6, <3>7, <3>8 DEF CallOf
  <2>4. ASSUME NEW e, NEW c, SignUp(e, c) PROVE Joined
    BY <2>4 DEF SignUp, AddUser
  <2>5. PlatformCall => Stay \/ Joined
    BY DEF PlatformCall, PlatformStatus, PlatformInvite, AddUser
  <2>6. ASSUME UNCHANGED vars \/ (\E r \in Slots : Reads(r)) \/ \E u \in Users : PersonCall(u)
        PROVE  Stay
    BY <2>6, ReadsChangeNothing, PersonAlone DEF vars
  <2> HIDE DEF Stay, Joined, Invited, Founded, Newcomer
  <2>7. QED
    BY <2>1, <2>2, <2>3, <2>4, <2>5, <2>6, NextCases
<1>3. QED
  BY <1>1, <1>2

-----------------------------------------------------------------------------
(* The rows of the users.                                                   *)

\* What no call takes from a row.
Kept(old, row) ==
    /\ row.email = old.email
    /\ old.homes \subseteq row.homes
    /\ AtHome(old) => AtHome(row)
    /\ \A c \in Companies : /\ Administers(old, c) => Administers(row, c)
                            /\ Reached(old, c) => Reached(row, c)

\* A department that is written into a row is there, and of a company the user was of unless
\* it was named by hand.
InPlace(row) ==
    /\ IsDepartment(row.department) /\ UNCHANGED unit
    /\ ~row.placed => unit[row.department].company \in row.homes

Edits(u) ==
    \E row \in UserRow :
        /\ user' = [user EXCEPT ![u] = row]
        /\ Kept(user[u], row)
        /\ \/ row.department = user[u].department /\ row.placed = user[u].placed
           \/ row.department = None
           \/ InPlace(row)

Adds(row) ==
    /\ row \in UserRow /\ AtHome(row) /\ WithEmail(row.email) = {}
    /\ row.department = None \/ InPlace(row)
    /\ last.users < MaxUsers /\ last'.users = last.users + 1
    /\ user' = [user EXCEPT ![last.users + 1] = row]

\* Role, company, standing and sessions as they were.
LEMMA KeptAsIs ==
  ASSUME NEW old, NEW row, row.email = old.email, row.company = old.company,
         row.role = old.role, row.status = old.status, row.homes = old.homes,
         row.sessions = old.sessions, row.held = old.held, row.recast = old.recast
  PROVE  Kept(old, row)
BY DEF Kept, AtHome, Administers, Reached

LEMMA PersonEdits ==
  ASSUME TypeOK, NEW u \in Users, PersonCall(u)
  PROVE  u \in People /\ Edits(u)
<1>0. user \in [Users -> UserRow \cup {None}]
  BY DEF TypeOK
<1>1. CASE LogIn(u)
  <2>1. u \in People /\ user[u] \in UserRow
    BY <1>1, Rows DEF LogIn
  <2>2. PICK row : row = [user[u] EXCEPT !.sessions = @ \cup {user[u].company}]
    OBVIOUS
  <2>3. /\ row \in UserRow /\ row.sessions = user[u].sessions \cup {user[u].company}
        /\ row.email = user[u].email /\ row.company = user[u].company /\ row.role = user[u].role
        /\ row.status = user[u].status /\ row.homes = user[u].homes /\ row.held = user[u].held
        /\ row.recast = user[u].recast /\ row.department = user[u].department
        /\ row.placed = user[u].placed
    BY <2>1, <2>2 DEF UserRow
  <2>4. Kept(user[u], row)
    BY <2>3 DEF Kept, AtHome, Administers, Reached
  <2>5. user' = [user EXCEPT ![u] = row]
    BY <1>1, <2>2 DEF LogIn
  <2>6. QED
    BY <2>1, <2>3, <2>4, <2>5 DEF Edits
<1>2. ASSUME NEW status \in {"active", "approved", "suspended"}, PlatformStanding(u, status)
      PROVE  u \in People /\ Edits(u)
  <2>1. u \in People /\ user[u] \in UserRow
    BY <1>2, Rows DEF PlatformStanding
  <2>2. PICK row : row = [user[u] EXCEPT !.status = status, !.held = TRUE]
    OBVIOUS
  <2>3. /\ row \in UserRow /\ row.sessions = user[u].sessions /\ row.held
        /\ row.email = user[u].email /\ row.company = user[u].company /\ row.role = user[u].role
        /\ row.homes = user[u].homes /\ row.recast = user[u].recast
        /\ row.department = user[u].department /\ row.placed = user[u].placed
    BY <2>1, <2>2 DEF UserRow, Statuses
  <2>4. Kept(user[u], row)
    BY <2>3 DEF Kept, AtHome, Administers, Reached
  <2>5. user' = [user EXCEPT ![u] = row]
    BY <1>2, <2>2 DEF PlatformStanding
  <2>6. QED
    BY <2>1, <2>3, <2>4, <2>5 DEF Edits
<1>3. ASSUME NEW role \in Roles \cup {None}, NEW dept \in Units \cup {None, 0},
             NEW c \in Companies \cup {None, 0}, PlatformEdit(u, role, dept, c)
      PROVE  u \in People /\ Edits(u)
  <2>1. u \in People /\ user[u] \in UserRow
    BY <1>3, Rows DEF PlatformEdit
  <2>2. PICK row : row = Recast(user[u], role, dept, c)
    OBVIOUS
  <2>3. /\ row.email = user[u].email /\ row.sessions = user[u].sessions
        /\ row.status = user[u].status /\ row.held = user[u].held
        /\ row.role = IF role = None THEN user[u].role ELSE role
        /\ row.placed = (user[u].placed \/ dept \in Units)
        /\ row.recast = (user[u].recast \/ role # None \/ c # None)
    BY <2>1, <2>2 DEF UserRow, Recast
  <2>4. /\ row.department =
             CASE dept = None -> user[u].department [] dept = 0 -> None [] OTHER -> dept
        /\ row.company = CASE c = None -> user[u].company [] c = 0 -> None [] OTHER -> c
        /\ row.homes = CASE c = None -> user[u].homes [] c = 0 -> user[u].homes \cup {None}
                         [] OTHER -> user[u].homes \cup {c}
    BY <2>1, <2>2 DEF UserRow, Recast
  <2>5. 0 # None /\ 0 \notin Units
    BY NoneAssumption DEF Units
  <2>6. /\ \/ c = None /\ row.company = user[u].company /\ row.homes = user[u].homes
           \/ /\ c # None /\ row.company \in Homes
              /\ row.homes = user[u].homes \cup {row.company}
        /\ user[u].homes \in SUBSET Homes
    BY <2>1, <2>4, <2>5 DEF Homes, UserRow
  <2>7. \/ dept = None /\ row.department = user[u].department
        \/ dept = 0 /\ row.department = None
        \/ dept \in Units /\ row.department = dept
    BY <2>4, <2>5, NoneIsNobody
  <2>8. row \in UserRow
    <3>1. row.role \in Roles /\ row.recast \in BOOLEAN /\ row.placed \in BOOLEAN
      BY <2>1, <2>3 DEF UserRow
    <3>2. row.department \in Units \cup {None}
      BY <2>1, <2>7 DEF UserRow
    <3>3. row.company \in Homes /\ row.homes \in SUBSET Homes
      BY <2>1, <2>6 DEF UserRow
    <3>4. row = [user[u] EXCEPT !.role = row.role, !.department = row.department,
                    !.placed = row.placed, !.company = row.company, !.homes = row.homes,
                    !.recast = row.recast]
      BY <2>1, <2>2 DEF UserRow, Recast
    <3>5. QED
      BY <2>1, <3>1, <3>2, <3>3, <3>4 DEF UserRow
  <2>9. Kept(user[u], row)
    <3>1. CASE c = None /\ role = None
      <4>1. /\ row.company = user[u].company /\ row.homes = user[u].homes
            /\ row.role = user[u].role
        BY <2>3, <2>6, <3>1
      <4>2. user[u].recast => row.recast
        BY <2>3
      <4>3. QED
        BY <2>3, <4>1, <4>2 DEF Kept, AtHome, Administers, Reached
    <3>2. CASE c # None \/ role # None
      <4>1. row.recast
        BY <2>3, <3>2
      <4>2. user[u].homes \subseteq row.homes /\ (AtHome(user[u]) => AtHome(row))
        BY <2>3, <2>6 DEF AtHome
      <4>3. QED
        BY <2>3, <4>1, <4>2 DEF Kept, Administers, Reached
    <3>3. QED
      BY <3>1, <3>2
  <2>10. user' = [user EXCEPT ![u] = row] /\ UNCHANGED unit
    BY <1>3, <2>2 DEF PlatformEdit
  <2>11. dept = None => row.placed = user[u].placed
    BY <2>1, <2>3, NoneIsNobody DEF UserRow
  <2>12. dept \in Units => row.placed /\ IsDepartment(dept)
    BY <1>3, <2>3, <2>5, NoneIsNobody DEF PlatformEdit
  <2>13. QED
    BY <2>1, <2>7, <2>8, <2>9, <2>10, <2>11, <2>12 DEF Edits, InPlace
<1>4. ASSUME NEW by \in Users, NEW role \in Roles \cup {None}, NEW dept \in Units \cup {None},
             NEW status \in Statuses \cup {None}, UpdateUser(by, u, role, dept, status)
      PROVE  u \in People /\ Edits(u)
  <2>1. u \in People /\ user[u] \in UserRow /\ user[u].role # "admin"
    BY <1>4, Rows DEF UpdateUser, Manages
  <2>2. PICK row : row = Edited(user[u], role, dept, status)
    OBVIOUS
  <2>3. /\ row \in UserRow /\ row.sessions = user[u].sessions
        /\ row.email = user[u].email /\ row.company = user[u].company
        /\ row.homes = user[u].homes /\ row.recast = user[u].recast
        /\ dept = None => row.department = user[u].department /\ row.placed = user[u].placed
        /\ dept # None => row.department = dept /\ row.placed
    BY <2>1, <2>2 DEF UserRow, Edited
  <2>4. Kept(user[u], row)
    BY <2>1, <2>3 DEF Kept, AtHome, Administers, Reached
  <2>5. /\ user' = [user EXCEPT ![u] = row] /\ UNCHANGED unit
        /\ dept # None => IsDepartment(dept)
    BY <1>4, <2>2 DEF UpdateUser
  <2>6. QED
    BY <2>1, <2>3, <2>4, <2>5 DEF Edits, InPlace
<1>5. QED
  BY <1>1, <1>2, <1>3, <1>4 DEF PersonCall

\* A new row.
LEMMA Inserts ==
  ASSUME NEW e \in Emails, NEW c \in Companies, NEW role \in Roles, NEW status \in Statuses,
         NEW d \in Units \cup {None}, NEW placed \in BOOLEAN, WithEmail(e) = {},
         \/ d = None
         \/ IsDepartment(d) /\ UNCHANGED unit /\ (~placed => unit[d].company = c),
         last.users < MaxUsers, last'.users = last.users + 1,
         user' = [user EXCEPT ![last.users + 1] = NewUser(e, c, role, status, d, placed)]
  PROVE  \E row : Adds(row) /\ row.email = e /\ row.homes = {c}
<1>1. PICK row : row = NewUser(e, c, role, status, d, placed)
  OBVIOUS
<1>2. /\ row \in UserRow /\ row.email = e /\ row.homes = {c} /\ row.company = c
      /\ row.sessions = {} /\ row.department = d
  BY <1>1 DEF NewUser, UserRow, Homes
<1>3. row.placed = placed
  BY <1>1 DEF NewUser
<1>4. row.department = None \/ InPlace(row)
  BY <1>2, <1>3 DEF InPlace
<1>5. AtHome(row) /\ WithEmail(row.email) = {}
  BY <1>2 DEF AtHome
<1>6. QED
  BY <1>1, <1>2, <1>4, <1>5 DEF Adds

\* AddUser adds a row.
LEMMA AddUserAdds ==
  ASSUME TypeOK, NEW e \in Emails, NEW c \in Companies, NEW role \in Roles,
         NEW status \in Statuses, NEW d \in Units \cup {None}, NEW placed \in BOOLEAN,
         AddUser(e, c, role, status, d, placed),
         \/ d = None
         \/ IsDepartment(d) /\ UNCHANGED unit /\ (~placed => unit[d].company = c)
  PROVE  \E row : Adds(row) /\ row.email = e /\ row.homes = {c}
<1>1. last'.users = last.users + 1
  BY DEF AddUser, TypeOK
<1>2. /\ WithEmail(e) = {} /\ last.users < MaxUsers
      /\ user' = [user EXCEPT ![last.users + 1] = NewUser(e, c, role, status, d, placed)]
  BY DEF AddUser
<1>3. QED
  BY <1>1, <1>2, Inserts

\* Naming a lead by his address adds a row or edits one, and the company is one of his.
LEMMA Resolving ==
  ASSUME TypeOK, NEW kind \in Kinds, NEW by \in Users, NEW c \in Companies,
         NEW n \in Units \cup {0}, NEW e \in Emails, May(by, kind, c, n), Resolve(kind, c, n, e),
         UNCHANGED unit
  PROVE  \/ \E row : Adds(row) /\ row.email = e /\ row.homes = {c}
         \/ \E u \in WithEmail(e) :
               Edits(u) /\ UNCHANGED last /\ user'[u] # None /\ c \in user'[u].homes
<1> DEFINE dept == IF kind = "department" THEN n ELSE 0
<1>0. user \in [Users -> UserRow \cup {None}]
  BY DEF TypeOK
<1>1. dept # 0 => /\ dept \in Units /\ dept # None /\ IsDepartment(dept)
                  /\ unit[dept].company = c
  BY NoneIsNobody DEF May, IsDepartment
<1>2. dept \in Units \cup {0}
  OBVIOUS
<1>3. \/ AddUser(e, c, "subadmin", "pending", IF dept # 0 THEN dept ELSE None, FALSE)
      \/ \E u \in WithEmail(e) :
            /\ user[u].company \in {c, None}
            /\ user' = [user EXCEPT ![u] = Adopted(@, c, dept)] /\ UNCHANGED last
  BY DEF Resolve
<1> HIDE DEF dept
<1>4. CASE AddUser(e, c, "subadmin", "pending", IF dept # 0 THEN dept ELSE None, FALSE)
  <2>1. PICK d \in Units \cup {None} : d = IF dept # 0 THEN dept ELSE None
    BY <1>2
  <2>2. d = None \/ (IsDepartment(d) /\ unit[d].company = c)
    BY <1>1, <2>1
  <2>3. AddUser(e, c, "subadmin", "pending", d, FALSE)
    BY <1>4, <2>1
  <2>4. "subadmin" \in Roles /\ "pending" \in Statuses
    BY DEF Roles, Statuses
  <2>5. QED
    BY <2>2, <2>3, <2>4, AddUserAdds
<1>5. ASSUME NEW u \in WithEmail(e), user[u].company \in {c, None},
             user' = [user EXCEPT ![u] = Adopted(@, c, dept)], UNCHANGED last
      PROVE  Edits(u) /\ user'[u] # None /\ c \in user'[u].homes
  <2>1. u \in People /\ u \in Users /\ user[u] \in UserRow
    BY <1>5, Rows DEF WithEmail
  <2>2. PICK row : row = Adopted(user[u], c, dept)
    OBVIOUS
  <2>3. /\ row.email = user[u].email /\ row.company = c /\ row.role = user[u].role
        /\ row.status = user[u].status /\ row.homes = user[u].homes \cup {c}
        /\ row.sessions = user[u].sessions /\ row.held = user[u].held
        /\ row.recast = user[u].recast
    BY <2>1, <2>2 DEF UserRow, Adopted
  <2>4. \/ /\ row.department = user[u].department /\ row.placed = user[u].placed
        \/ dept # 0 /\ row.department = dept /\ row.placed = FALSE
    BY <2>1, <2>2 DEF UserRow, Adopted
  <2>5. row \in UserRow
    <3>1. row.department \in Units \cup {None} /\ row.placed \in BOOLEAN
      BY <1>1, <2>1, <2>4 DEF UserRow
    <3>2. row = [user[u] EXCEPT !.company = row.company, !.homes = row.homes,
                    !.department = row.department, !.placed = row.placed]
      BY <2>1, <2>2 DEF UserRow, Adopted
    <3>3. row.company \in Homes /\ row.homes \in SUBSET Homes
      BY <2>1, <2>3 DEF UserRow, Homes
    <3>4. QED
      BY <2>1, <3>1, <3>2, <3>3 DEF UserRow
  <2>6. Kept(user[u], row)
    BY <1>5, <2>3, NoneIsNobody DEF Kept, AtHome, Administers, Reached
  <2>7. user' = [user EXCEPT ![u] = row]
    BY <1>5, <2>2
  <2>8. row.department = dept /\ dept # 0 => InPlace(row)
    BY <1>1, <2>3 DEF InPlace
  <2>9. user'[u] = row
    BY <1>0, <2>1, <2>7
  <2>10. QED
    BY <2>3, <2>4, <2>5, <2>6, <2>7, <2>8, <2>9, NoneIsNobody DEF Edits
<1>6. QED
  BY <1>3, <1>4, <1>5

LEMMA UserSteps ==
  ASSUME TypeOK, RequestsOK, [Next]_vars
  PROVE  \/ UNCHANGED user /\ last'.users = last.users
         \/ \E u \in People : Edits(u)
         \/ \E row : Adds(row)
         \/ \E by \in Users, u \in Users : DeleteUser(by, u)
         \/ \E by \in Users, n \in Units : DeleteUnit(by, n)
<1> DEFINE Stays == UNCHANGED user /\ last'.users = last.users
           Wrote == (\E u \in People : Edits(u)) \/ (\E row : Adds(row))
<1>0. /\ last \in [users : 0..MaxUsers, invitations : 0..MaxInvitations, units : 0..MaxUnits]
      /\ user \in [Users -> UserRow \cup {None}] /\ req \in [Slots -> Request \cup {None}]
  BY DEF TypeOK
<1>1. ASSUME UNCHANGED vars \/ (\E c, s : PlatformStatus(c, s)) \/ \E r \in Slots : Reads(r)
      PROVE  Stays
  BY <1>1, ReadsChangeNothing DEF vars, PlatformStatus
<1>2. ASSUME NEW r \in Slots, StatusWrite(r) \/ ExpireEarlier(r) \/ JoinAccept(r)
                                 \/ CancelInvitations(r) \/ UnitUpdate(r) \/ Fail(r)
      PROVE  Stays
  BY <1>2 DEF StatusWrite, ExpireEarlier, JoinAccept, CancelInvitations, UnitUpdate, Fail
<1>3. ASSUME NEW r \in Slots, InviteIssue(r) \/ UnitCreate(r) PROVE Stays
  BY <1>0, <1>3 DEF InviteIssue, UnitCreate
<1>4. ASSUME NEW by, NEW i, DeleteInvitation(by, i) PROVE Stays
  BY <1>4 DEF DeleteInvitation
<1>5. ASSUME NEW by, NEW kind, NEW c, NEW name, NEW lead, SetupExisting(kind, by, c, name, lead)
      PROVE  Stays
  BY <1>0, <1>5 DEF SetupExisting
<1>6. ASSUME NEW by, NEW c, NEW e, NEW role, NEW dept, SetupInvite(by, c, e, role, dept)
      PROVE  Stays
  BY <1>0, <1>6 DEF SetupInvite
<1>7. ASSUME NEW e \in Emails, NEW c \in Companies, SignUp(e, c) PROVE Wrote
  <2>1. AddUser(e, c, "admin", "pending", None, FALSE)
    BY <1>7 DEF SignUp
  <2>2. "admin" \in Roles /\ "pending" \in Statuses
    BY DEF Roles, Statuses
  <2>3. QED
    BY <2>1, <2>2, AddUserAdds
<1>8. ASSUME NEW e \in Emails, NEW role \in Roles, NEW dept \in Units \cup {None},
             NEW c \in Companies, PlatformInvite(e, role, dept, c)
      PROVE  Wrote
  <2>1. PICK placed \in BOOLEAN : placed = (dept # None)
    OBVIOUS
  <2>2. /\ AddUser(e, c, role, "pending", dept, placed) /\ UNCHANGED unit
        /\ dept = None \/ IsDepartment(dept)
    BY <1>8, <2>1 DEF PlatformInvite
  <2>3. "pending" \in Statuses
    BY DEF Statuses
  <2>4. QED
    BY <2>1, <2>2, <2>3, AddUserAdds
<1>9. ASSUME NEW r \in Slots, StatusActivate(r) PROVE Wrote
  <2>1. PICK u \in People :
            user' = [user EXCEPT ![u].status = "active", ![u].held = FALSE]
    BY <1>9 DEF StatusActivate
  <2>2. PICK row : row = [user[u] EXCEPT !.status = "active", !.held = FALSE]
    OBVIOUS
  <2>3. user[u] \in UserRow /\ u \in Users
    BY Rows
  <2>4. /\ row \in UserRow /\ row.email = user[u].email /\ row.company = user[u].company
        /\ row.role = user[u].role /\ row.status = "active" /\ row.homes = user[u].homes
        /\ row.sessions = user[u].sessions /\ row.recast = user[u].recast
        /\ row.department = user[u].department /\ row.placed = user[u].placed
    BY <2>2, <2>3 DEF UserRow, Statuses
  <2>5. Kept(user[u], row)
    BY <2>4 DEF Kept, AtHome, Administers, Reached
  <2>6. user' = [user EXCEPT ![u] = row]
    BY <1>0, <2>1, <2>2, <2>3
  <2>7. QED
    BY <2>4, <2>5, <2>6 DEF Edits
<1>10. ASSUME NEW r \in Slots, JoinCreate(r) PROVE Wrote
  <2>1. PICK q \in JoinRequest : q = req[r] /\ q \in Pending
    BY <1>10, RequestOf DEF JoinCreate, At
  <2>2. PICK as \in InvitationRow : as = q.as
    BY DEF JoinRequest
  <2>3. /\ as.email \in Emails /\ as.company \in Companies /\ as.role \in Roles
        /\ as.department \in Units \cup {None} /\ as.placed \in BOOLEAN
        /\ "active" \in Statuses
    BY DEF InvitationRow, Statuses
  <2>4. Placeable(as)
    BY <2>1, <2>2 DEF RequestsOK, Good, GoodJoin
  <2>5. /\ AddUser(as.email, as.company, as.role, "active", as.department, as.placed)
        /\ UNCHANGED unit
        /\ as.department # None => IsDepartment(as.department)
    BY <1>10, <2>1, <2>2 DEF JoinCreate
  <2>6. as.department # None /\ ~as.placed => unit[as.department].company = as.company
    BY <2>4, <2>5 DEF Placeable, IsDepartment
  <2>7. QED
    BY <2>3, <2>5, <2>6, AddUserAdds
<1>11. ASSUME NEW r \in Slots, Enlist(r) PROVE Wrote
  <2>1. PICK q \in EnlistRequest : q = req[r] /\ q \in Pending
    BY <1>11, RequestOf DEF Enlist, At
  <2>2. /\ q.lead \in People /\ q.unit \in Built /\ UNCHANGED unit
        /\ user' = [user EXCEPT ![q.lead].department = q.unit, ![q.lead].placed = FALSE]
    BY <1>11, <2>1 DEF Enlist
  <2>3. PICK u \in People, n \in Built : u = q.lead /\ n = q.unit
    BY <2>2
  <2>4. unit[n].kind = "department" /\ unit[n].company \in user[u].homes
    BY <2>1, <2>3 DEF RequestsOK, Good, GoodEnlist
  <2>5. PICK row : row = [user[u] EXCEPT !.department = n, !.placed = FALSE]
    OBVIOUS
  <2>6. user[u] \in UserRow /\ u \in Users /\ n \in Units
    BY Rows
  <2>7. /\ row \in UserRow /\ row.department = n
        /\ row.email = user[u].email /\ row.company = user[u].company
        /\ row.role = user[u].role /\ row.status = user[u].status
        /\ row.homes = user[u].homes /\ row.sessions = user[u].sessions
        /\ row.held = user[u].held /\ row.recast = user[u].recast
    BY <2>5, <2>6 DEF UserRow
  <2>8. Kept(user[u], row)
    BY <2>7, KeptAsIs
  <2>9. user' = [user EXCEPT ![u] = row]
    BY <1>0, <2>2, <2>3, <2>5, <2>6
  <2>10. InPlace(row)
    BY <2>2, <2>3, <2>4, <2>7 DEF InPlace, IsDepartment
  <2>11. QED
    BY <2>3, <2>7, <2>8, <2>9, <2>10 DEF Edits
<1>12. ASSUME NEW r \in Slots, NamesAddress(r) PROVE Wrote
  <2>1. PICK kind \in Kinds, by \in Users, c \in Companies, n \in Units \cup {0}, e \in Emails :
            May(by, kind, c, n) /\ Resolve(kind, c, n, e) /\ UNCHANGED unit
    BY <1>12 DEF NamesAddress, NameAddress
  <2>2. QED
    BY <2>1, Resolving DEF WithEmail
<1>13. ASSUME NEW by \in Users, NEW c \in Companies, NEW name \in Names, NEW e \in Emails,
              SetupNewcomer(by, c, name, e)
       PROVE  Wrote
  <2>1. /\ WithEmail(e) = {} /\ last.users < MaxUsers /\ last'.users = last.users + 1
        /\ user' = [user EXCEPT ![last.users + 1] =
              NewUser(e, c, "subadmin", "pending", None, FALSE)]
    BY <1>13 DEF SetupNewcomer
  <2>2. "subadmin" \in Roles /\ "pending" \in Statuses
    BY DEF Roles, Statuses
  <2>3. QED
    BY <2>1, <2>2, Inserts
<1>14. ASSUME NEW u \in Users, PersonCall(u) PROVE Wrote
  BY <1>14, PersonEdits
<1> HIDE DEF Stays, Wrote
<1>15. ASSUME NEW by \in Users, CallOf(by), ~Stays, ~Wrote
       PROVE  \/ \E u \in Users : DeleteUser(by, u)
              \/ \E n \in Units : DeleteUnit(by, n)
  BY <1>4, <1>5, <1>6, <1>13, <1>15 DEF CallOf
<1>16. ASSUME NEW r \in Slots, Continue(r) PROVE Stays \/ Wrote
  BY <1>2, <1>3, <1>9, <1>10, <1>11, <1>16 DEF Continue
<1>17. PlatformCall => Stays \/ Wrote
  BY <1>1, <1>8 DEF PlatformCall
<1>18. CASE ~Stays /\ ~Wrote
  BY <1>1, <1>7, <1>12, <1>14, <1>15, <1>16, <1>17, <1>18, NextCases
<1>19. QED
  BY <1>18 DEF Stays, Wrote

\* A user keeps what no call takes from him, and a new user has a number and an address of
\* his own.
UsersKept ==
    /\ user' \in [Users -> UserRow \cup {None}]
    /\ \A u \in People' :
          \/ u \in People /\ Kept(user[u], user'[u])
          \/ /\ u = last.users + 1 /\ u = last'.users /\ AtHome(user'[u])
             /\ \A v \in People : user[v].email # user'[u].email
    /\ \A u \in People : u \in People' \/ \E by \in Users : DeleteUser(by, u)

LEMMA UserAdded ==
  ASSUME TypeOK, NEW row, Adds(row)
  PROVE  /\ UsersKept
         /\ last.users + 1 \in Users /\ last.users + 1 \notin People
         /\ People' = People \cup {last.users + 1}
         /\ user'[last.users + 1] = row /\ \A u \in People : user'[u] = user[u]
<1> DEFINE new == last.users + 1
<1>0. /\ row \in UserRow /\ AtHome(row) /\ WithEmail(row.email) = {} /\ last.users < MaxUsers
      /\ last'.users = last.users + 1 /\ user' = [user EXCEPT ![last.users + 1] = row]
  BY DEF Adds
<1>1. user \in [Users -> UserRow \cup {None}] /\ new \in Users /\ last.users \in Nat
  BY <1>0, MaximaAssumption DEF TypeOK, Users
<1>2. new \notin People
  BY <1>1, NoneIsNobody DEF TypeOK, People
<1> HIDE DEF new
<1>3. user' = [user EXCEPT ![new] = row]
  BY <1>0 DEF new
<1>4. user' \in [Users -> UserRow \cup {None}]
  BY <1>0, <1>1, <1>3
<1>5. \A v \in Users : v # new => user'[v] = user[v]
  BY <1>1, <1>3
<1>6. user'[new] = row /\ row # None
  BY <1>0, <1>1, <1>3, NoneIsNobody
<1>7. People' = People \cup {new}
  BY <1>1, <1>5, <1>6 DEF People
<1>8. \A u \in People : user'[u] = user[u]
  BY <1>2, <1>5 DEF People
<1>9. new = last.users + 1 /\ new = last'.users
  BY <1>0 DEF new
<1>10. \A v \in People : user[v].email # row.email
  BY <1>0 DEF WithEmail
<1>11. \A u \in People : Kept(user[u], user'[u])
  BY <1>8 DEF Kept
<1>12. UsersKept
  BY <1>0, <1>2, <1>4, <1>6, <1>7, <1>8, <1>9, <1>10, <1>11 DEF UsersKept
<1>13. QED
  BY <1>2, <1>6, <1>7, <1>8, <1>9, <1>12, <1>1

LEMMA UsersNext ==
  ASSUME TypeOK, RequestsOK, [Next]_vars
  PROVE  UsersKept
<1> USE NoneIsNobody
<1>0. user \in [Users -> UserRow \cup {None}]
  BY DEF TypeOK
<1>1. CASE UNCHANGED user
  <2>1. \A u \in People : Kept(user[u], user[u])
    BY DEF Kept
  <2>2. QED
    BY <1>0, <1>1, <2>1 DEF UsersKept, People
<1>2. ASSUME NEW u \in People, Edits(u) PROVE UsersKept
  <2>1. PICK row \in UserRow : user' = [user EXCEPT ![u] = row] /\ Kept(user[u], row)
    BY <1>2 DEF Edits
  <2>2. u \in Users
    BY DEF People
  <2>3. user' \in [Users -> UserRow \cup {None}]
    BY <1>0, <2>1
  <2>4. user'[u] = row /\ row # None /\ \A v \in Users : v # u => user'[v] = user[v]
    BY <1>0, <2>1, <2>2
  <2>5. People' = People
    BY <2>2, <2>4 DEF People
  <2>6. \A v \in People : Kept(user[v], user'[v])
    BY <2>1, <2>4 DEF Kept, People
  <2>7. QED
    BY <2>3, <2>5, <2>6 DEF UsersKept
<1>3. ASSUME NEW row, Adds(row) PROVE UsersKept
  BY <1>3, UserAdded
<1>4. ASSUME NEW by \in Users, NEW u \in Users, DeleteUser(by, u) PROVE UsersKept
  <2>1. user' = [user EXCEPT ![u] = None]
    BY <1>4 DEF DeleteUser
  <2>2. user' \in [Users -> UserRow \cup {None}]
    BY <1>0, <2>1
  <2>3. \A v \in Users : v # u => user'[v] = user[v]
    BY <1>0, <2>1
  <2>4. People' = People \ {u}
    BY <1>0, <2>1, <2>3 DEF People
  <2>5. \A v \in People' : Kept(user[v], user'[v])
    BY <2>3, <2>4 DEF Kept, People
  <2>6. QED
    BY <1>4, <2>2, <2>4, <2>5 DEF UsersKept
<1>5. ASSUME NEW by \in Users, NEW n \in Units, DeleteUnit(by, n) PROVE UsersKept
  <2>1. \A u \in Users : user'[u] =
            IF u \in People /\ user[u].department = n
            THEN [user[u] EXCEPT !.department = None] ELSE user[u]
    BY <1>5 DEF DeleteUnit
  <2>2. ASSUME NEW u \in People PROVE user'[u] \in UserRow /\ Kept(user[u], user'[u])
    <3>1. user[u] \in UserRow /\ u \in Users
      BY Rows
    <3>2. PICK row : row = user'[u]
      OBVIOUS
    <3>3. row = [user[u] EXCEPT !.department = None] \/ row = user[u]
      BY <2>1, <3>1, <3>2
    <3>4. /\ row \in UserRow /\ row.email = user[u].email /\ row.company = user[u].company
          /\ row.role = user[u].role /\ row.status = user[u].status
          /\ row.homes = user[u].homes /\ row.sessions = user[u].sessions
          /\ row.held = user[u].held /\ row.recast = user[u].recast
      BY <3>1, <3>3 DEF UserRow
    <3>5. QED
      BY <3>2, <3>4, KeptAsIs
  <2>3. \A u \in Users : u \notin People => user'[u] = None
    BY <2>1 DEF People
  <2>4. \A u \in Users : user'[u] \in UserRow \cup {None}
    BY <2>2, <2>3
  <2>5. user' \in [Users -> UserRow \cup {None}]
    BY <1>5, <2>1, <2>4 DEF DeleteUnit
  <2>6. People' = People
    BY <2>2, <2>3 DEF People
  <2>7. QED
    BY <2>2, <2>5, <2>6 DEF UsersKept
<1>6. QED
  BY <1>1, <1>2, <1>3, <1>4, <1>5, UserSteps

-----------------------------------------------------------------------------
(* The rows of the units and of the invitations.                            *)

LEMMA UnitWriters ==
  ASSUME TypeOK, [Next]_vars
  PROVE  \/ UNCHANGED unit /\ last'.units = last.units
         \/ \E r \in Slots : UnitCreate(r) \/ UnitUpdate(r)
         \/ \E by \in Users :
               \/ \E n \in Units : DeleteUnit(by, n)
               \/ \E c \in Companies, kind \in Kinds, name \in Names, lead \in Users :
                     SetupExisting(kind, by, c, name, lead)
               \/ \E c \in Companies, name \in Names, e \in Emails : SetupNewcomer(by, c, name, e)
<1> DEFINE Stays == UNCHANGED unit /\ last'.units = last.units
<1>0. last \in [users : 0..MaxUsers, invitations : 0..MaxInvitations, units : 0..MaxUnits]
  BY DEF TypeOK
<1>1. ASSUME UNCHANGED vars \/ (\E u \in Users : PersonCall(u)) \/ \E r \in Slots : Reads(r)
      PROVE  Stays
  BY <1>1, ReadsChangeNothing, PersonAlone DEF vars
<1>2. ASSUME NEW r \in Slots, StatusWrite(r) \/ StatusActivate(r) \/ ExpireEarlier(r) \/ JoinAccept(r)
                                 \/ CancelInvitations(r) \/ Enlist(r) \/ Fail(r)
      PROVE  Stays
  BY <1>2 DEF StatusWrite, StatusActivate, ExpireEarlier, JoinAccept, CancelInvitations, Enlist, Fail
<1>3. ASSUME NEW r \in Slots, InviteIssue(r) \/ JoinCreate(r) PROVE Stays
  BY <1>0, <1>3 DEF InviteIssue, JoinCreate, AddUser
<1>4. ASSUME NEW r \in Slots, NamesAddress(r) PROVE Stays
  <2>1. ASSUME NEW kind, NEW c, NEW n, NEW e, Resolve(kind, c, n, e) PROVE last'.units = last.units
    BY <1>0, <2>1 DEF Resolve, AddUser
  <2>2. QED
    BY <1>4, <2>1 DEF NamesAddress, NameAddress
<1>5. ASSUME NEW e, NEW c, SignUp(e, c) PROVE Stays
  BY <1>0, <1>5 DEF SignUp, AddUser
<1>6. ASSUME NEW by, NEW u, DeleteUser(by, u) \/ DeleteInvitation(by, u) PROVE Stays
  BY <1>6 DEF DeleteUser, DeleteInvitation
<1>7. PlatformCall => Stays
  BY <1>0 DEF PlatformCall, PlatformStatus, PlatformInvite, AddUser
<1>8. ASSUME NEW by, NEW c, NEW e, NEW role, NEW dept, SetupInvite(by, c, e, role, dept) PROVE Stays
  BY <1>0, <1>8 DEF SetupInvite
<1> HIDE DEF Stays
<1>9. ASSUME NEW by \in Users, CallOf(by), ~Stays
      PROVE  \/ \E n \in Units : DeleteUnit(by, n)
             \/ \E c \in Companies, kind \in Kinds, name \in Names, lead \in Users :
                     SetupExisting(kind, by, c, name, lead)
             \/ \E c \in Companies, name \in Names, e \in Emails : SetupNewcomer(by, c, name, e)
  BY <1>6, <1>8, <1>9 DEF CallOf
<1>10. ASSUME NEW r \in Slots, Continue(r), ~Stays
       PROVE  UnitCreate(r) \/ UnitUpdate(r)
  BY <1>2, <1>3, <1>10 DEF Continue
<1>11. CASE ~Stays
  BY <1>1, <1>4, <1>5, <1>7, <1>9, <1>10, <1>11, NextCases
<1>12. QED
  BY <1>11 DEF Stays

LEMMA InvitationWriters ==
  ASSUME TypeOK, [Next]_vars
  PROVE  \/ UNCHANGED invitation /\ last'.invitations = last.invitations
         \/ \E r \in Slots : ExpireEarlier(r) \/ InviteIssue(r) \/ JoinAccept(r) \/ CancelInvitations(r)
         \/ \E by \in Users :
               \/ \E i \in Invitations : DeleteInvitation(by, i)
               \/ \E n \in Units : DeleteUnit(by, n)
               \/ \E c \in Companies, name \in Names, e \in Emails : SetupNewcomer(by, c, name, e)
               \/ \E c \in Companies, e \in Emails, role \in Roles, dept \in Units \cup {None} :
                     SetupInvite(by, c, e, role, dept)
<1> DEFINE Stays == UNCHANGED invitation /\ last'.invitations = last.invitations
<1>0. last \in [users : 0..MaxUsers, invitations : 0..MaxInvitations, units : 0..MaxUnits]
  BY DEF TypeOK
<1>1. ASSUME UNCHANGED vars \/ (\E u \in Users : PersonCall(u)) \/ \E r \in Slots : Reads(r)
      PROVE  Stays
  BY <1>1, ReadsChangeNothing, PersonAlone DEF vars
<1>2. ASSUME NEW r \in Slots, StatusWrite(r) \/ StatusActivate(r) \/ Enlist(r) \/ UnitUpdate(r) \/ Fail(r)
      PROVE  Stays
  BY <1>2 DEF StatusWrite, StatusActivate, Enlist, UnitUpdate, Fail
<1>3. ASSUME NEW r \in Slots, UnitCreate(r) \/ JoinCreate(r) PROVE Stays
  BY <1>0, <1>3 DEF UnitCreate, JoinCreate, AddUser
<1>4. ASSUME NEW r \in Slots, NamesAddress(r) PROVE Stays
  <2>1. ASSUME NEW kind, NEW c, NEW n, NEW e, Resolve(kind, c, n, e)
        PROVE  last'.invitations = last.invitations
    BY <1>0, <2>1 DEF Resolve, AddUser
  <2>2. QED
    BY <1>4, <2>1 DEF NamesAddress, NameAddress
<1>5. ASSUME NEW e, NEW c, SignUp(e, c) PROVE Stays
  BY <1>0, <1>5 DEF SignUp, AddUser
<1>6. ASSUME NEW by, NEW u, DeleteUser(by, u) PROVE Stays
  BY <1>6 DEF DeleteUser
<1>7. PlatformCall => Stays
  BY <1>0 DEF PlatformCall, PlatformStatus, PlatformInvite, AddUser
<1>8. ASSUME NEW by, NEW kind, NEW c, NEW name, NEW lead, SetupExisting(kind, by, c, name, lead) PROVE Stays
  BY <1>0, <1>8 DEF SetupExisting
<1> HIDE DEF Stays
<1>9. ASSUME NEW by \in Users, CallOf(by), ~Stays
      PROVE  \/ \E i \in Invitations : DeleteInvitation(by, i)
             \/ \E n \in Units : DeleteUnit(by, n)
             \/ \E c \in Companies, name \in Names, e \in Emails : SetupNewcomer(by, c, name, e)
             \/ \E c \in Companies, e \in Emails, role \in Roles, dept \in Units \cup {None} :
                   SetupInvite(by, c, e, role, dept)
  BY <1>6, <1>8, <1>9 DEF CallOf
<1>10. ASSUME NEW r \in Slots, Continue(r), ~Stays
       PROVE  ExpireEarlier(r) \/ InviteIssue(r) \/ JoinAccept(r) \/ CancelInvitations(r)
  BY <1>2, <1>3, <1>10 DEF Continue
<1>11. CASE ~Stays
  BY <1>1, <1>4, <1>5, <1>7, <1>9, <1>10, <1>11, NextCases
<1>12. QED
  BY <1>11 DEF Stays

\* A unit keeps its kind, a department its company, and a new unit has a number of its own.
UnitsKept ==
    /\ unit' \in [Units -> UnitRow \cup {None}]
    /\ \A n \in Built' :
          \/ /\ n \in Built
             /\ unit'[n].kind = unit[n].kind
             /\ unit[n].kind = "department" => unit'[n].company = unit[n].company
          \/ n = last.units + 1 /\ n = last'.units
    /\ \A n \in Built : n \in Built' \/ \E by \in Users : DeleteUnit(by, n)

LEMMA UnitAdded ==
  ASSUME TypeOK, NEW row \in UnitRow, last.units < MaxUnits, last'.units = last.units + 1,
         unit' = [unit EXCEPT ![last.units + 1] = row]
  PROVE  /\ UnitsKept
         /\ last.units + 1 \in Units /\ last.units + 1 \notin Built
         /\ Built' = Built \cup {last.units + 1}
         /\ unit'[last.units + 1] = row /\ \A n \in Built : unit'[n] = unit[n]
<1> DEFINE new == last.units + 1
<1>1. unit \in [Units -> UnitRow \cup {None}] /\ new \in Units /\ last.units \in Nat
  BY MaximaAssumption DEF TypeOK, Units
<1>2. new \notin Built
  BY <1>1, NoneIsNobody DEF TypeOK, Built
<1> HIDE DEF new
<1>3. unit' = [unit EXCEPT ![new] = row]
  BY DEF new
<1>4. unit' \in [Units -> UnitRow \cup {None}]
  BY <1>1, <1>3
<1>5. \A n \in Units : n # new => unit'[n] = unit[n]
  BY <1>1, <1>3
<1>6. unit'[new] = row /\ row # None
  BY <1>1, <1>3, NoneIsNobody
<1>7. Built' = Built \cup {new}
  BY <1>1, <1>5, <1>6 DEF Built
<1>8. \A n \in Built : unit'[n] = unit[n]
  BY <1>2, <1>5 DEF Built
<1>9. new = last.units + 1 /\ new = last'.units
  BY DEF new
<1>10. UnitsKept
  BY <1>2, <1>4, <1>7, <1>8, <1>9 DEF UnitsKept
<1>11. QED
  BY <1>1, <1>2, <1>6, <1>7, <1>8, <1>9, <1>10

\* The row an update writes.
LEMMA UpdatedRow ==
  ASSUME TypeOK, RequestsOK, NEW r \in Slots, UnitUpdate(r)
  PROVE  /\ req[r] \in BuildRequest /\ req[r].unit \in Built
         /\ \E row \in UnitRow :
               /\ unit' = [unit EXCEPT ![req[r].unit] = row]
               /\ row.kind = unit[req[r].unit].kind
               /\ row.kind = "department" => row.company = unit[req[r].unit].company
               /\ row.lead \in People
               /\ row.by = "request" =>
                     \/ row.lead = req[r].lead /\ row.company = req[r].company
                     \/ /\ row.lead = unit[req[r].unit].lead
                        /\ row.company = unit[req[r].unit].company
                        /\ unit[req[r].unit].by = "request"
<1>1. PICK q \in BuildRequest : q = req[r] /\ q \in Pending
  BY RequestOf DEF UnitUpdate, At
<1>2. q.unit \in Built /\ GoodBuild(q)
  BY <1>1 DEF UnitUpdate, RequestsOK, Good
<1>3. PICK old \in UnitRow : old = unit[q.unit]
  BY <1>2, Rows
<1> DEFINE c  == IF q.move = None THEN old.company ELSE q.move
           l  == IF q.lead = None THEN old.lead ELSE q.lead
           by == CASE q.lead # None /\ c = q.company -> "request"
                   [] q.lead = None /\ c = old.company -> old.by
                   [] OTHER -> "move"
<1>4. l \in People /\ unit' = [unit EXCEPT ![q.unit] = NewUnit(q.kind, c, q.name, l, by)]
  BY <1>1, <1>3 DEF UnitUpdate
<1>5. c \in Companies /\ by \in {"request", "setup", "move"}
  BY <1>3 DEF BuildRequest, UnitRow
<1>6. l \in Users /\ q.kind \in Kinds /\ q.name \in Names
  BY <1>4 DEF BuildRequest, People
<1>7. q.kind = old.kind /\ (q.kind = "department" => c = old.company)
  BY <1>2, <1>3 DEF GoodBuild
<1>8. by = "request" => \/ l = q.lead /\ c = q.company
                        \/ l = old.lead /\ c = old.company /\ old.by = "request"
  BY <1>3 DEF UnitRow
<1> HIDE DEF c, l, by
<1>9. PICK row : row = NewUnit(q.kind, c, q.name, l, by)
  OBVIOUS
<1>10. row \in UnitRow /\ row.kind = q.kind /\ row.company = c /\ row.lead = l /\ row.by = by
  BY <1>5, <1>6, <1>9 DEF NewUnit, UnitRow
<1>11. QED
  BY <1>1, <1>2, <1>3, <1>4, <1>7, <1>8, <1>9, <1>10

\* What building adds to the table.
LEMMA Building ==
  ASSUME TypeOK,
         \/ \E r \in Slots : UnitCreate(r)
         \/ \E by \in Users :
               \/ \E c \in Companies, kind \in Kinds, name \in Names, lead \in Users :
                     SetupExisting(kind, by, c, name, lead)
               \/ \E c \in Companies, name \in Names, e \in Emails : SetupNewcomer(by, c, name, e)
  PROVE  /\ last.units < MaxUnits /\ last'.units = last.units + 1
         /\ \E row \in UnitRow :
               /\ unit' = [unit EXCEPT ![last.units + 1] = row]
               /\ \/ row.lead \in People /\ UNCHANGED user
                  \/ row.lead = last.users + 1 /\ \E by \in Users, c \in Companies, name \in Names, e \in Emails :
                              SetupNewcomer(by, c, name, e)
               /\ row.by = "request" => \E r \in Slots :
                     /\ UnitCreate(r) /\ row.kind = req[r].kind
                     /\ row.lead = req[r].lead /\ row.company = req[r].company
<1>0. last \in [users : 0..MaxUsers, invitations : 0..MaxInvitations, units : 0..MaxUnits]
  BY DEF TypeOK
<1>1. ASSUME NEW r \in Slots, UnitCreate(r)
      PROVE  /\ last.units < MaxUnits /\ last'.units = last.units + 1
             /\ \E row \in UnitRow :
                   /\ unit' = [unit EXCEPT ![last.units + 1] = row]
                   /\ row.lead \in People /\ UNCHANGED user
                   /\ row.kind = req[r].kind
                   /\ row.lead = req[r].lead /\ row.company = req[r].company
  <2>1. PICK q \in BuildRequest : q = req[r]
    BY <1>1, RequestOf DEF UnitCreate, At
  <2>2. /\ q.lead \in People /\ last.units < MaxUnits /\ last'.units = last.units + 1
        /\ unit' = [unit EXCEPT ![last.units + 1] = NewUnit(q.kind, q.company, q.name, q.lead, "request")]
        /\ UNCHANGED user
    BY <1>0, <1>1, <2>1 DEF UnitCreate
  <2>3. q.kind \in Kinds /\ q.company \in Companies /\ q.name \in Names /\ q.lead \in Users
    BY <2>2 DEF BuildRequest, People
  <2>4. PICK row : row = NewUnit(q.kind, q.company, q.name, q.lead, "request")
    OBVIOUS
  <2>5. row \in UnitRow /\ row.kind = q.kind /\ row.lead = q.lead /\ row.company = q.company
    BY <2>3, <2>4 DEF NewUnit, UnitRow
  <2>6. QED
    BY <2>1, <2>2, <2>4, <2>5
<1>2. ASSUME NEW by \in Users, NEW c \in Companies, NEW kind \in Kinds, NEW name \in Names,
             NEW lead \in Users, SetupExisting(kind, by, c, name, lead)
      PROVE  /\ last.units < MaxUnits /\ last'.units = last.units + 1
             /\ \E row \in UnitRow :
                   /\ unit' = [unit EXCEPT ![last.units + 1] = row]
                   /\ row.lead \in People /\ UNCHANGED user
                   /\ row.by = "setup"
  <2>2. /\ lead \in People /\ last.units < MaxUnits /\ last'.units = last.units + 1
        /\ unit' = [unit EXCEPT ![last.units + 1] = NewUnit(kind, c, name, lead, "setup")]
        /\ UNCHANGED user
    BY <1>0, <1>2 DEF SetupExisting, SetupUnit
  <2>3. PICK row : row = NewUnit(kind, c, name, lead, "setup")
    OBVIOUS
  <2>4. row \in UnitRow /\ row.lead = lead /\ row.by = "setup"
    BY <2>2, <2>3 DEF NewUnit, UnitRow
  <2>5. QED
    BY <2>2, <2>3, <2>4
<1>3. ASSUME NEW by \in Users, NEW c \in Companies, NEW name \in Names, NEW e \in Emails,
             SetupNewcomer(by, c, name, e)
      PROVE  /\ last.units < MaxUnits /\ last'.units = last.units + 1
             /\ \E row \in UnitRow :
                   /\ unit' = [unit EXCEPT ![last.units + 1] = row]
                   /\ row.lead = last.users + 1 /\ row.by = "setup"
  <2>2. /\ last.users < MaxUsers /\ last.units < MaxUnits /\ last'.units = last.units + 1
        /\ unit' = [unit EXCEPT ![last.units + 1] =
              NewUnit("subsidiary", c, name, last.users + 1, "setup")]
    BY <1>0, <1>3 DEF SetupNewcomer, SetupUnit
  <2>3. last.users + 1 \in Users /\ "subsidiary" \in Kinds
    BY <1>0, <2>2, MaximaAssumption DEF Users, Kinds
  <2>4. PICK row : row = NewUnit("subsidiary", c, name, last.users + 1, "setup")
    OBVIOUS
  <2>5. row \in UnitRow /\ row.lead = last.users + 1 /\ row.by = "setup"
    BY <2>3, <2>4 DEF NewUnit, UnitRow
  <2>6. QED
    BY <2>2, <2>4, <2>5
<1>4. QED
  BY <1>1, <1>2, <1>3

LEMMA UnitsNext ==
  ASSUME TypeOK, RequestsOK, [Next]_vars
  PROVE  UnitsKept
<1>0. unit \in [Units -> UnitRow \cup {None}]
  BY DEF TypeOK
<1>1. CASE UNCHANGED unit /\ last'.units = last.units
  BY <1>0, <1>1 DEF UnitsKept, Built
<1>2. CASE \/ \E r \in Slots : UnitCreate(r)
           \/ \E by \in Users :
                \/ \E c \in Companies, kind \in Kinds, name \in Names, lead \in Users :
                     SetupExisting(kind, by, c, name, lead)
                \/ \E c \in Companies, name \in Names, e \in Emails : SetupNewcomer(by, c, name, e)
  <2>1. PICK row \in UnitRow : unit' = [unit EXCEPT ![last.units + 1] = row]
    BY <1>2, Building
  <2>2. last.units < MaxUnits /\ last'.units = last.units + 1
    BY <1>2, Building
  <2>3. QED
    BY <2>1, <2>2, UnitAdded
<1>3. ASSUME NEW r \in Slots, UnitUpdate(r) PROVE UnitsKept
  <2>1. PICK n \in Built, row \in UnitRow :
            /\ unit' = [unit EXCEPT ![n] = row]
            /\ row.kind = unit[n].kind
            /\ row.kind = "department" => row.company = unit[n].company
    BY <1>3, UpdatedRow
  <2>2. unit' \in [Units -> UnitRow \cup {None}]
    BY <1>0, <2>1
  <2>3. /\ n \in Units /\ unit'[n] = row /\ row # None
        /\ \A m \in Units : m # n => unit'[m] = unit[m]
    BY <1>0, <2>1, NoneIsNobody DEF Built
  <2>4. QED
    BY <2>1, <2>2, <2>3 DEF UnitsKept, Built
<1>4. ASSUME NEW by \in Users, NEW n \in Units, DeleteUnit(by, n) PROVE UnitsKept
  <2>1. unit' = [unit EXCEPT ![n] = None]
    BY <1>4 DEF DeleteUnit
  <2>2. unit' \in [Units -> UnitRow \cup {None}]
    BY <1>0, <2>1
  <2>3. \A m \in Units : unit'[m] = unit[m] \/ unit'[m] = None
    BY <1>0, <2>1
  <2>4. \A m \in Built : m = n \/ m \in Built'
    BY <1>0, <2>1, <2>3 DEF Built
  <2>5. QED
    BY <1>4, <2>2, <2>3, <2>4 DEF UnitsKept, Built
<1>5. QED
  BY <1>1, <1>2, <1>3, <1>4, UnitWriters

\* An invitation keeps everything but its status, which it leaves once, and its department,
\* which may be deleted.  A new one has a number of its own, an inviter, a department that
\* can be placed, and has not seen any that is still pending.
SameInvitation(i) ==
    /\ i \in Sent
    /\ invitation'[i].email = invitation[i].email
    /\ invitation'[i].company = invitation[i].company
    /\ invitation'[i].placed = invitation[i].placed
    /\ invitation'[i].by = invitation[i].by
    /\ invitation'[i].seen = invitation[i].seen
    /\ invitation'[i].department \in {invitation[i].department, None}
    /\ \/ invitation'[i].status = invitation[i].status
       \/ invitation[i].status = "pending" /\ invitation'[i].status # "pending"
       \/ /\ invitation'[i].status = "accepted"
          /\ \E r \in Slots : At(r, "accept") /\ req[r].token = i

NewInvitationAt(i) ==
    /\ i = last.invitations + 1 /\ i = last'.invitations
    /\ invitation'[i].by \in People
    /\ invitation'[i].department # None =>
          /\ IsDepartment(invitation'[i].department)
          /\ UNCHANGED unit
          /\ ~invitation'[i].placed =>
                unit[invitation'[i].department].company = invitation'[i].company
    /\ \A j \in Sent' :
          invitation'[j].email = invitation'[i].email /\ invitation'[j].status = "pending"
          => j \notin invitation'[i].seen

InvitationsKept ==
    /\ invitation' \in [Invitations -> InvitationRow \cup {None}]
    /\ \A i \in Sent' : SameInvitation(i) \/ NewInvitationAt(i)

\* Settling changes the status of the pending ones, and of no other.
LEMMA Settling ==
  ASSUME TypeOK, NEW e, NEW status \in {"expired", "cancelled"}
  PROVE  /\ Settled(e, status) \in [Invitations -> InvitationRow \cup {None}]
         /\ \A i \in Invitations : i \notin Sent => Settled(e, status)[i] = None
         /\ \A i \in Sent :
               LET row == Settled(e, status)[i]
               IN  /\ row \in InvitationRow
                   /\ row.email = invitation[i].email /\ row.company = invitation[i].company
                   /\ row.placed = invitation[i].placed /\ row.by = invitation[i].by
                   /\ row.seen = invitation[i].seen /\ row.department = invitation[i].department
                   /\ \/ row.status = invitation[i].status
                      \/ invitation[i].status = "pending" /\ row.status = status
                   /\ row.email = e => row.status # "pending"
<1>1. \A i \in Invitations : i \notin Sent => Settled(e, status)[i] = None
  BY DEF Settled, Open, Sent
<1>2. ASSUME NEW i \in Sent
      PROVE  LET row == Settled(e, status)[i]
             IN  /\ row \in InvitationRow
                 /\ row.email = invitation[i].email /\ row.company = invitation[i].company
                 /\ row.placed = invitation[i].placed /\ row.by = invitation[i].by
                 /\ row.seen = invitation[i].seen /\ row.department = invitation[i].department
                 /\ \/ row.status = invitation[i].status
                    \/ invitation[i].status = "pending" /\ row.status = status
                 /\ row.email = e => row.status # "pending"
  <2>1. invitation[i] \in InvitationRow /\ i \in Invitations
    BY Rows
  <2>2. CASE i \in Open(e)
    <3>1. Settled(e, status)[i] = [invitation[i] EXCEPT !.status = status]
      BY <2>1, <2>2 DEF Settled
    <3>2. invitation[i].status = "pending"
      BY <2>2 DEF Open
    <3>3. QED
      BY <2>1, <3>1, <3>2 DEF InvitationRow
  <2>3. CASE i \notin Open(e)
    <3>1. Settled(e, status)[i] = invitation[i]
      BY <2>1, <2>3 DEF Settled
    <3>2. invitation[i].email = e => invitation[i].status # "pending"
      BY <2>3 DEF Open
    <3>3. QED
      BY <2>1, <3>1, <3>2
  <2>4. QED
    BY <2>2, <2>3
<1>3. \A i \in Invitations : Settled(e, status)[i] \in InvitationRow \cup {None}
  BY <1>1, <1>2
<1>4. Settled(e, status) \in [Invitations -> InvitationRow \cup {None}]
  BY <1>3 DEF Settled
<1>5. QED
  BY <1>1, <1>2, <1>4

LEMMA InvitationAdded ==
  ASSUME TypeOK, NEW rest \in [Invitations -> InvitationRow \cup {None}], NEW row \in InvitationRow,
         \A i \in Invitations : i \notin Sent => rest[i] = None,
         last.invitations < MaxInvitations,
         invitation' = [rest EXCEPT ![last.invitations + 1] = row]
  PROVE  /\ invitation' \in [Invitations -> InvitationRow \cup {None}]
         /\ last.invitations + 1 \in Invitations /\ last.invitations + 1 \notin Sent
         /\ Sent' \subseteq Sent \cup {last.invitations + 1}
         /\ invitation'[last.invitations + 1] = row /\ \A i \in Sent : invitation'[i] = rest[i]
<1> DEFINE new == last.invitations + 1
<1>1. new \in Invitations /\ last.invitations \in Nat
  BY MaximaAssumption DEF TypeOK, Invitations
<1>2. new \notin Sent
  BY <1>1 DEF TypeOK
<1> HIDE DEF new
<1>3. invitation' = [rest EXCEPT ![new] = row]
  BY DEF new
<1>4. /\ invitation' \in [Invitations -> InvitationRow \cup {None}] /\ invitation'[new] = row
      /\ \A i \in Invitations : i # new => invitation'[i] = rest[i]
  BY <1>1, <1>3
<1>5. Sent' \subseteq Sent \cup {new}
  BY <1>4 DEF Sent
<1>6. QED
  BY <1>1, <1>2, <1>4, <1>5 DEF new, Sent

LEMMA InvitationsNext ==
  ASSUME TypeOK, RequestsOK, [Next]_vars
  PROVE  InvitationsKept
<1>0. /\ invitation \in [Invitations -> InvitationRow \cup {None}]
      /\ last \in [users : 0..MaxUsers, invitations : 0..MaxInvitations, units : 0..MaxUnits]
  BY DEF TypeOK
<1>1. CASE UNCHANGED invitation /\ last'.invitations = last.invitations
  BY <1>0, <1>1 DEF InvitationsKept, SameInvitation, Sent
<1>2. ASSUME NEW r \in Slots, ExpireEarlier(r) \/ CancelInvitations(r) PROVE InvitationsKept
  <2>1. ASSUME NEW e, NEW status \in {"expired", "cancelled"}, invitation' = Settled(e, status)
        PROVE  InvitationsKept
    <3>1. PICK rest : rest = Settled(e, status)
      OBVIOUS
    <3>2. /\ rest \in [Invitations -> InvitationRow \cup {None}]
          /\ \A i \in Invitations : i \notin Sent => rest[i] = None
          /\ \A i \in Sent :
                /\ rest[i].email = invitation[i].email /\ rest[i].company = invitation[i].company
                /\ rest[i].placed = invitation[i].placed /\ rest[i].by = invitation[i].by
                /\ rest[i].seen = invitation[i].seen /\ rest[i].department = invitation[i].department
                /\ \/ rest[i].status = invitation[i].status
                   \/ invitation[i].status = "pending" /\ rest[i].status = status
      BY <3>1, Settling
    <3>3. invitation' = rest
      BY <2>1, <3>1
    <3>4. Sent' \subseteq Sent
      BY <3>2, <3>3 DEF Sent
    <3>5. \A i \in Sent : SameInvitation(i)
      BY <3>2, <3>3 DEF SameInvitation
    <3>6. QED
      BY <3>2, <3>3, <3>4, <3>5 DEF InvitationsKept
  <2>2. PICK e : e = req[r].email
    OBVIOUS
  <2>3. invitation' = Settled(e, "expired") \/ invitation' = Settled(e, "cancelled")
    BY <1>2, <2>2 DEF ExpireEarlier, CancelInvitations
  <2>4. QED
    BY <2>1, <2>3
<1>3. ASSUME NEW r \in Slots, InviteIssue(r) PROVE InvitationsKept
  <2>1. PICK q \in IssueRequest : q = req[r] /\ q \in Pending
    BY <1>3, RequestOf DEF InviteIssue, At
  <2>2. /\ q.by \in People /\ q.company # None
        /\ q.department = None \/ IsDepartment(q.department)
        /\ last.invitations < MaxInvitations /\ last'.invitations = last.invitations + 1
        /\ invitation' = [invitation EXCEPT ![last.invitations + 1] =
              NewInvitation(q.email, q.company, q.by, q.role, q.department,
                            q.department # None, q.seen)]
        /\ UNCHANGED unit
    BY <1>0, <1>3, <2>1 DEF InviteIssue
  <2>3. PICK row : row = NewInvitation(q.email, q.company, q.by, q.role, q.department,
                                       q.department # None, q.seen)
    OBVIOUS
  <2>4. q.by \in Users /\ q.company \in Companies
    BY <2>2 DEF IssueRequest, Homes
  <2>5. /\ row \in InvitationRow /\ row.by = q.by /\ row.email = q.email /\ row.seen = q.seen
        /\ row.department = q.department /\ row.placed = (q.department # None)
    BY <2>3, <2>4 DEF NewInvitation, InvitationRow, IssueRequest
  <2>6. \A i \in q.seen : i <= last.invitations /\ i \notin Open(q.email)
    BY <2>1 DEF RequestsOK, Good, GoodIssue
  <2>7. /\ invitation' \in [Invitations -> InvitationRow \cup {None}]
        /\ last.invitations + 1 \in Invitations /\ Sent' \subseteq Sent \cup {last.invitations + 1}
        /\ invitation'[last.invitations + 1] = row /\ \A i \in Sent : invitation'[i] = invitation[i]
    BY <1>0, <2>2, <2>3, <2>5, InvitationAdded DEF Sent
  <2>8. NewInvitationAt(last.invitations + 1)
    <3>1. last.invitations + 1 \notin q.seen
      BY <1>0, <2>6
    <3>2. \A j \in Sent : j \in q.seen => ~(invitation[j].email = q.email /\ invitation[j].status = "pending")
      BY <2>6 DEF Open
    <3>3. \A j \in Sent' :
            invitation'[j].email = row.email /\ invitation'[j].status = "pending" => j \notin row.seen
      BY <2>5, <2>7, <3>1, <3>2
    <3>4. q.department # None => IsDepartment(q.department)
      BY <2>2
    <3>5. row.by \in People /\ (row.department # None => row.placed)
      BY <2>2, <2>5
    <3>6. invitation'[last.invitations + 1].department # None =>
            /\ IsDepartment(invitation'[last.invitations + 1].department)
            /\ UNCHANGED unit /\ invitation'[last.invitations + 1].placed
      BY <2>2, <2>5, <2>7, <3>4, <3>5
    <3>7. QED
      BY <2>2, <2>7, <3>3, <3>5, <3>6 DEF NewInvitationAt
  <2>9. \A i \in Sent : SameInvitation(i)
    BY <2>7 DEF SameInvitation
  <2>10. QED
    BY <2>7, <2>8, <2>9 DEF InvitationsKept
<1>4. ASSUME NEW r \in Slots, JoinAccept(r) PROVE InvitationsKept
  <2>1. PICK i \in Sent : i = req[r].token /\ invitation' = [invitation EXCEPT ![i].status = "accepted"]
    BY <1>4 DEF JoinAccept
  <2>2. PICK row : row = [invitation[i] EXCEPT !.status = "accepted"]
    OBVIOUS
  <2>3. invitation[i] \in InvitationRow /\ i \in Invitations
    BY Rows
  <2>4. /\ row \in InvitationRow /\ row.email = invitation[i].email /\ row.company = invitation[i].company
        /\ row.placed = invitation[i].placed /\ row.by = invitation[i].by
        /\ row.seen = invitation[i].seen /\ row.department = invitation[i].department
        /\ row.status = "accepted"
    BY <2>2, <2>3 DEF InvitationRow
  <2>5. /\ invitation' \in [Invitations -> InvitationRow \cup {None}] /\ invitation'[i] = row
        /\ \A j \in Invitations : j # i => invitation'[j] = invitation[j]
    BY <1>0, <2>1, <2>2, <2>3, <2>4
  <2>6. At(r, "accept") /\ req[r].token = i
    BY <1>4, <2>1 DEF JoinAccept
  <2>7. SameInvitation(i)
    BY <2>4, <2>5, <2>6 DEF SameInvitation
  <2>8. \A j \in Sent' : j # i => SameInvitation(j)
    BY <2>5 DEF SameInvitation, Sent
  <2>9. QED
    BY <2>5, <2>7, <2>8 DEF InvitationsKept
<1>5. ASSUME NEW by \in Users, NEW i \in Invitations, DeleteInvitation(by, i) PROVE InvitationsKept
  <2>1. invitation' = [invitation EXCEPT ![i] = None]
    BY <1>5 DEF DeleteInvitation
  <2>2. /\ invitation' \in [Invitations -> InvitationRow \cup {None}]
        /\ \A j \in Invitations : invitation'[j] = invitation[j] \/ invitation'[j] = None
    BY <1>0, <2>1
  <2>3. QED
    BY <2>2 DEF InvitationsKept, SameInvitation, Sent
<1>6. ASSUME NEW by \in Users, NEW n \in Units, DeleteUnit(by, n) PROVE InvitationsKept
  <2>1. \A i \in Invitations : invitation'[i] =
            IF i \in Sent /\ invitation[i].department = n
            THEN [invitation[i] EXCEPT !.department = None] ELSE invitation[i]
    BY <1>6 DEF DeleteUnit
  <2>2. ASSUME NEW i \in Sent PROVE SameInvitation(i) /\ invitation'[i] \in InvitationRow
    <3>1. invitation[i] \in InvitationRow /\ i \in Invitations
      BY Rows
    <3>2. invitation'[i] = [invitation[i] EXCEPT !.department = None] \/ invitation'[i] = invitation[i]
      BY <2>1, <3>1
    <3>3. QED
      BY <3>1, <3>2 DEF SameInvitation, InvitationRow
  <2>3. \A i \in Invitations : i \notin Sent => invitation'[i] = None
    BY <2>1 DEF Sent
  <2>4. \A i \in Invitations : invitation'[i] \in InvitationRow \cup {None}
    BY <2>2, <2>3
  <2>5. invitation' \in [Invitations -> InvitationRow \cup {None}]
    BY <1>6, <2>1, <2>4 DEF DeleteUnit
  <2>6. QED
    BY <2>2, <2>3, <2>5 DEF InvitationsKept, Sent
<1>7. ASSUME NEW by \in Users, NEW c \in Companies, NEW name \in Names, NEW e \in Emails,
             SetupNewcomer(by, c, name, e)
      PROVE  InvitationsKept
  <2>1. /\ by \in People /\ last.invitations < MaxInvitations /\ last'.invitations = last.invitations + 1
        /\ invitation' = [invitation EXCEPT ![last.invitations + 1] =
              NewInvitation(e, c, by, "subadmin", None, FALSE, {})]
    BY <1>7 DEF SetupNewcomer, SetsUp, Manager
  <2>2. PICK row : row = NewInvitation(e, c, by, "subadmin", None, FALSE, {})
    OBVIOUS
  <2>4. row \in InvitationRow /\ row.by = by /\ row.seen = {} /\ row.department = None
    BY <2>2 DEF NewInvitation, InvitationRow, Roles
  <2>5. /\ invitation' \in [Invitations -> InvitationRow \cup {None}]
        /\ last.invitations + 1 \in Invitations /\ Sent' \subseteq Sent \cup {last.invitations + 1}
        /\ invitation'[last.invitations + 1] = row /\ \A i \in Sent : invitation'[i] = invitation[i]
    BY <1>0, <2>1, <2>2, <2>4, InvitationAdded DEF Sent
  <2>6. NewInvitationAt(last.invitations + 1)
    BY <2>1, <2>4, <2>5 DEF NewInvitationAt
  <2>7. \A i \in Sent : SameInvitation(i)
    BY <2>5 DEF SameInvitation
  <2>8. QED
    BY <2>5, <2>6, <2>7 DEF InvitationsKept
<1>8. ASSUME NEW by \in Users, NEW c \in Companies, NEW e \in Emails, NEW role \in Roles,
             NEW dept \in Units \cup {None}, SetupInvite(by, c, e, role, dept)
      PROVE  InvitationsKept
  <2>1. /\ by \in People /\ last.invitations < MaxInvitations /\ last'.invitations = last.invitations + 1
        /\ invitation' = [Settled(e, "expired") EXCEPT ![last.invitations + 1] =
              NewInvitation(e, c, by, role, dept, FALSE, Sent)]
        /\ UNCHANGED unit
        /\ dept # None => IsDepartment(dept) /\ unit[dept].company = c
    BY <1>0, <1>8 DEF SetupInvite, SetsUp, Manager
  <2>2. PICK row : row = NewInvitation(e, c, by, role, dept, FALSE, Sent)
    OBVIOUS
  <2>4. /\ row \in InvitationRow /\ row.by = by /\ row.seen = Sent /\ row.department = dept
        /\ row.email = e /\ row.company = c
    BY <2>2 DEF NewInvitation, InvitationRow, Sent
  <2>5. PICK rest : rest = Settled(e, "expired")
    OBVIOUS
  <2>12. /\ rest \in [Invitations -> InvitationRow \cup {None}]
         /\ \A i \in Invitations : i \notin Sent => rest[i] = None
    BY <2>5, Settling
  <2>13. invitation' = [rest EXCEPT ![last.invitations + 1] = row]
    BY <2>1, <2>2, <2>5
  <2>6. /\ invitation' \in [Invitations -> InvitationRow \cup {None}]
        /\ last.invitations + 1 \in Invitations /\ Sent' \subseteq Sent \cup {last.invitations + 1}
        /\ last.invitations + 1 \notin Sent
        /\ invitation'[last.invitations + 1] = row /\ \A i \in Sent : invitation'[i] = rest[i]
    <3>1. row \in InvitationRow /\ last.invitations < MaxInvitations
      BY <2>1, <2>4
    <3>2. QED
      BY <3>1, <2>12, <2>13, InvitationAdded
  <2>7. \A i \in Sent : rest[i].email = e => rest[i].status # "pending"
    BY <2>5, Settling
  <2>8. \A j \in Sent' :
            invitation'[j].email = row.email /\ invitation'[j].status = "pending" => j \notin row.seen
    BY <2>4, <2>6, <2>7
  <2>9. NewInvitationAt(last.invitations + 1)
    BY <2>1, <2>4, <2>6, <2>8 DEF NewInvitationAt
  <2>10. \A i \in Sent : SameInvitation(i)
    BY <2>5, <2>6, Settling DEF SameInvitation
  <2>11. QED
    BY <2>6, <2>9, <2>10 DEF InvitationsKept
<1>9. QED
  BY <1>1, <1>2, <1>3, <1>4, <1>5, <1>6, <1>7, <1>8, InvitationWriters

-----------------------------------------------------------------------------
(* The rows of the companies.                                               *)

\* The row of a company after a call: the administrator is the one it had or one with a number
\* that was given, and an active company is the platform's work, was cut short, found nobody,
\* or is waiting for the second call of the request.
CompanyRowNext(c) ==
    \/ company'[c] = company[c]
    \/ /\ company'[c] \in CompanyRow
       /\ \/ company'[c].admin = None
          \/ company'[c].admin <= last.users
          \/ company[c] # None /\ company'[c].admin = company[c].admin
       /\ \/ company'[c].by # "company"
          \/ company'[c].short
          \/ company'[c].status # "active"
          \/ company'[c].admin = None
          \/ \E r \in Slots : /\ At(r, "activate")' /\ req'[r].company = c
                              /\ req'[r].admin = company'[c].admin

LEMMA CompaniesNext ==
  ASSUME TypeOK, RequestsOK, [Next]_vars
  PROVE  /\ company' \in [Companies -> CompanyRow \cup {None}]
         /\ \A c \in Companies : CompanyRowNext(c)
<1> DEFINE Fine == /\ company' \in [Companies -> CompanyRow \cup {None}]
                   /\ \A c \in Companies : CompanyRowNext(c)
<1>0. /\ company \in [Companies -> CompanyRow \cup {None}]
      /\ req \in [Slots -> Request \cup {None}]
  BY DEF TypeOK
<1>1. ASSUME UNCHANGED company PROVE Fine
  BY <1>0, <1>1 DEF CompanyRowNext
<1>2. ASSUME NEW c \in Companies, NEW row \in CompanyRow, company' = [company EXCEPT ![c] = row],
             \/ row.admin = None
             \/ row.admin <= last.users
             \/ company[c] # None /\ row.admin = company[c].admin,
             \/ row.by # "company"
             \/ row.short
             \/ row.status # "active"
             \/ row.admin = None
             \/ \E r \in Slots : /\ At(r, "activate")' /\ req'[r].company = c
                                 /\ req'[r].admin = row.admin
      PROVE  Fine
  <2>1. company' \in [Companies -> CompanyRow \cup {None}]
    BY <1>0, <1>2
  <2>2. company'[c] = row /\ \A d \in Companies : d # c => company'[d] = company[d]
    BY <1>0, <1>2
  <2>3. CompanyRowNext(c)
    BY <1>2, <2>2 DEF CompanyRowNext
  <2>4. \A d \in Companies : d # c => CompanyRowNext(d)
    BY <2>2 DEF CompanyRowNext
  <2>5. QED
    BY <2>1, <2>3, <2>4
<1>3. ASSUME NEW e \in Emails, NEW c \in Companies, SignUp(e, c) PROVE Fine
  <2>1. PICK row : row = [status |-> "pending", by |-> "signup", admin |-> None, short |-> FALSE]
    OBVIOUS
  <2>2. row \in CompanyRow /\ row.admin = None
    BY <2>1 DEF CompanyRow
  <2>3. company' = [company EXCEPT ![c] = row]
    BY <1>3, <2>1 DEF SignUp
  <2>4. QED
    BY <1>2, <2>2, <2>3
<1>4. ASSUME NEW c \in Companies, NEW s \in {"active", "suspended"}, PlatformStatus(c, s) PROVE Fine
  <2>1. PICK row : row = [company[c] EXCEPT !.status = s, !.by = "platform"]
    OBVIOUS
  <2>2. company[c] \in CompanyRow /\ company[c] # None
    BY <1>0, <1>4 DEF PlatformStatus
  <2>3. row \in CompanyRow /\ row.by = "platform" /\ row.admin = company[c].admin
    BY <2>1, <2>2 DEF CompanyRow
  <2>4. company' = [company EXCEPT ![c] = row]
    BY <1>0, <1>4, <2>1 DEF PlatformStatus
  <2>5. QED
    BY <1>2, <2>2, <2>3, <2>4
<1>5. ASSUME NEW r \in Slots, StatusWrite(r) PROVE Fine
  <2>1. PICK q \in StatusRequest : q = req[r] /\ q \in Pending
    BY <1>5, RequestOf DEF StatusWrite, At
  <2>2. PICK c \in Companies : c = q.company
    BY <2>1 DEF StatusRequest
  <2>3. q.status \in {"active", "suspended"} /\ q.admin \in Users \cup {None}
    BY <2>1 DEF StatusRequest
  <2>4. company' = [company EXCEPT ![c].status = q.status, ![c].by = "company",
                                   ![c].admin = q.admin, ![c].short = FALSE]
    BY <1>5, <2>1, <2>2 DEF StatusWrite
  <2>5. company[c] \in CompanyRow /\ (q.admin # None => q.admin <= last.users)
    BY <1>0, <2>1, <2>2 DEF RequestsOK, Good, GoodStatus
  <2>6. PICK row : row = [company[c] EXCEPT !.status = q.status, !.by = "company",
                                            !.admin = q.admin, !.short = FALSE]
    OBVIOUS
  <2>7. row \in CompanyRow /\ row.status = q.status /\ row.admin = q.admin
    BY <2>3, <2>5, <2>6 DEF CompanyRow
  <2>8. company' = [company EXCEPT ![c] = row]
    BY <1>0, <2>4, <2>6
  <2>9. ASSUME q.status = "active", q.admin # None
        PROVE  \E s \in Slots : /\ At(s, "activate")' /\ req'[s].company = c
                                /\ req'[s].admin = q.admin
    <3>1. PICK x : x = [q EXCEPT !.op = "activate"]
      OBVIOUS
    <3>2. x \in StatusRequest /\ x.op = "activate" /\ x.company = c /\ x.admin = q.admin
      BY <2>1, <2>2, <3>1 DEF StatusRequest
    <3>3. req' = [req EXCEPT ![r] = x]
      BY <1>0, <1>5, <2>1, <2>9, <3>1 DEF StatusWrite, Activates, Goto
    <3>4. x # None /\ req'[r] = x
      BY <1>0, <3>2, <3>3, NoneIsNobody DEF Request
    <3>5. QED
      BY <3>2, <3>4 DEF At
  <2>10. QED
    BY <1>2, <2>3, <2>5, <2>7, <2>8, <2>9
<1>6. ASSUME NEW r \in Slots, Fail(r), At(r, "activate") PROVE Fine
  <2>1. PICK q \in StatusRequest : q = req[r] /\ q \in Pending
    BY <1>6, RequestOf DEF At
  <2>2. PICK c \in Companies : c = q.company
    BY <2>1 DEF StatusRequest
  <2>3. company' = [company EXCEPT ![c].short = TRUE]
    BY <1>6, <2>1, <2>2 DEF Fail
  <2>4. PICK row : row = [company[c] EXCEPT !.short = TRUE]
    OBVIOUS
  <2>5. company[c] \in CompanyRow /\ company[c] # None
    BY <1>0, <2>1, <2>2 DEF RequestsOK, Good, GoodStatus
  <2>6. row \in CompanyRow /\ row.short /\ row.admin = company[c].admin
    BY <2>4, <2>5 DEF CompanyRow
  <2>7. company' = [company EXCEPT ![c] = row]
    BY <2>3, <2>4
  <2>8. QED
    BY <1>2, <2>5, <2>6, <2>7
<1>7. ASSUME NEW r \in Slots, Continue(r), ~StatusWrite(r), ~(Fail(r) /\ At(r, "activate"))
      PROVE  UNCHANGED company
  BY <1>7 DEF Continue, StatusActivate, ExpireEarlier, InviteIssue, JoinCreate, JoinAccept,
              CancelInvitations, UnitCreate, Enlist, UnitUpdate, Fail
<1>8. ASSUME NEW by \in Users, CallOf(by) PROVE UNCHANGED company
  BY <1>8 DEF CallOf, DeleteInvitation, DeleteUser, DeleteUnit, SetupExisting,
              SetupNewcomer, SetupInvite
<1>9. ASSUME NEW r \in Slots, NamesAddress(r) PROVE UNCHANGED company
  BY <1>9 DEF NamesAddress, NameAddress
<1>10. ASSUME UNCHANGED vars \/ (\E r \in Slots : Reads(r)) \/ \E u \in Users : PersonCall(u)
       PROVE  UNCHANGED company
  BY <1>10, ReadsChangeNothing, PersonAlone DEF vars
<1>11. PlatformCall => Fine
  BY <1>1, <1>4 DEF PlatformCall, PlatformInvite
<1> HIDE DEF Fine
<1>12. Fine
  BY <1>1, <1>3, <1>5, <1>6, <1>7, <1>8, <1>9, <1>10, <1>11, NextCases
<1>13. QED
  BY <1>12 DEF Fine

-----------------------------------------------------------------------------
(* What a request remembers stays true.                                     *)

\* The numbers that are in use.
LEMMA NumbersGiven ==
  ASSUME TypeOK
  PROVE  /\ \A u \in People : u \in Nat /\ u <= last.users
         /\ \A i \in Sent : i \in Nat /\ i <= last.invitations
         /\ \A n \in Built : n \in Nat /\ n <= last.units
         /\ last.users \in Nat /\ last.invitations \in Nat /\ last.units \in Nat
<1>1. last \in [users : 0..MaxUsers, invitations : 0..MaxInvitations, units : 0..MaxUnits]
  BY DEF TypeOK
<1>2. last.users \in Nat /\ last.invitations \in Nat /\ last.units \in Nat
  BY <1>1, MaximaAssumption
<1>3. QED
  BY <1>2, NoneIsNobody DEF TypeOK, People, Sent, Built

\* Somebody who is there after a call and had no number that is new was there before.
LEMMA OldUser ==
  ASSUME TypeOK, RequestsOK, [Next]_vars, NEW u \in People', u <= last.users
  PROVE  u \in People /\ Kept(user[u], user'[u])
BY UsersNext, NumbersGiven DEF UsersKept

LEMMA OldUnit ==
  ASSUME TypeOK, RequestsOK, [Next]_vars, NEW n \in Built', n <= last.units
  PROVE  /\ n \in Built
         /\ unit'[n].kind = unit[n].kind
         /\ unit[n].kind = "department" => unit'[n].company = unit[n].company
BY UnitsNext, NumbersGiven DEF UnitsKept

LEMMA OldInvitation ==
  ASSUME TypeOK, RequestsOK, [Next]_vars, NEW i \in Sent', i <= last.invitations
  PROVE  SameInvitation(i)
BY InvitationsNext, NumbersGiven DEF InvitationsKept, NewInvitationAt

LEMMA PlaceableKept ==
  ASSUME TypeOK, RequestsOK, [Next]_vars, NEW row, row.department \in Units \cup {None},
         Placeable(row)
  PROVE  Placeable(row)'
<1>1. SUFFICES ASSUME row.department # None
               PROVE  /\ row.department <= last'.units
                      /\ row.department \in Built' =>
                            /\ unit'[row.department].kind = "department"
                            /\ ~row.placed => unit'[row.department].company = row.company
  BY DEF Placeable
<1>2. PICK n \in Units : n = row.department
  BY <1>1
<1>3. n <= last.units /\ n \in Nat
  BY <1>1, <1>2, NoneIsNobody DEF Placeable
<1>4. n <= last'.units
  BY <1>3, SequencesNext, NumbersGiven, MaximaAssumption
<1>5. ASSUME n \in Built'
      PROVE  unit'[n].kind = "department" /\ (~row.placed => unit'[n].company = row.company)
  <2>1. /\ n \in Built /\ unit'[n].kind = unit[n].kind
        /\ unit[n].kind = "department" => unit'[n].company = unit[n].company
    BY <1>3, <1>5, OldUnit
  <2>2. unit[n].kind = "department" /\ (~row.placed => unit[n].company = row.company)
    BY <1>1, <1>2, <2>1 DEF Placeable
  <2>3. QED
    BY <2>1, <2>2
<1>6. QED
  BY <1>2, <1>4, <1>5

LEMMA GoodKept ==
  ASSUME TypeOK, RequestsOK, [Next]_vars, NEW q \in Pending
  PROVE  Good(q)'
<1>0. Good(q)
  BY DEF RequestsOK
<1>1. GoodStatus(q)'
  <2> SUFFICES ASSUME q \in StatusRequest
               PROVE  (/\ company[q.company] # None
                       /\ q.admin # None => q.admin <= last.users
                       /\ q.admin \in People => Administers(user[q.admin], q.company))'
    BY DEF GoodStatus
  <2>1. /\ company[q.company] # None /\ q.company \in Companies
        /\ q.admin # None => q.admin <= last.users
        /\ q.admin \in People => Administers(user[q.admin], q.company)
    BY <1>0 DEF Good, GoodStatus, StatusRequest
  <2>2. company'[q.company] # None
    BY <2>1, CompaniesNext, NoneIsNobody DEF CompanyRowNext
  <2>3. q.admin # None => q.admin \in Nat
    <3>1. q.admin \in Users \cup {None}
      BY DEF StatusRequest
    <3>2. QED
      BY <3>1, NoneIsNobody
  <2>4. q.admin # None => q.admin <= last'.users
    BY <2>1, <2>3, SequencesNext, NumbersGiven, MaximaAssumption
  <2>5. ASSUME q.admin \in People' PROVE Administers(user'[q.admin], q.company)
    <3>1. q.admin # None
      BY <2>5, NoneIsNobody DEF People
    <3>2. q.admin \in People /\ Kept(user[q.admin], user'[q.admin])
      BY <2>1, <2>5, <3>1, OldUser
    <3>3. QED
      BY <2>1, <3>2 DEF Kept
  <2>6. QED
    BY <2>2, <2>4, <2>5 DEF Administers
<1>2. GoodIssue(q)'
  <2> SUFFICES ASSUME q \in IssueRequest, NEW i \in q.seen
               PROVE  (i <= last.invitations /\ i \notin Open(q.email))'
    BY DEF GoodIssue
  <2>1. i <= last.invitations /\ i \notin Open(q.email)
    BY <1>0 DEF Good, GoodIssue
  <2>2. i \in Nat
    BY NoneIsNobody DEF IssueRequest
  <2>3. i <= last'.invitations
    BY <2>1, <2>2, SequencesNext, NumbersGiven, MaximaAssumption
  <2>4. ASSUME i \in Sent', invitation'[i].email = q.email, invitation'[i].status = "pending"
        PROVE  FALSE
    <3>1. SameInvitation(i)
      BY <2>1, <2>4, OldInvitation
    <3>2. QED
      BY <2>1, <2>4, <3>1 DEF SameInvitation, Open
  <2>5. QED
    BY <2>3, <2>4 DEF Open
<1>3. GoodJoin(q)'
  <2> SUFFICES ASSUME q \in JoinRequest PROVE (q.token \in q.open /\ Placeable(q.as))'
    BY DEF GoodJoin
  <2>1. q.token \in q.open /\ Placeable(q.as)
    BY <1>0 DEF Good, GoodJoin
  <2>2. PICK as \in InvitationRow : as = q.as
    BY DEF JoinRequest
  <2>3. as.department \in Units \cup {None}
    BY DEF InvitationRow
  <2>4. Placeable(as)'
    BY <2>1, <2>2, <2>3, PlaceableKept
  <2>5. QED
    BY <2>1, <2>2, <2>4
<1>4. GoodBuild(q)'
  <2> SUFFICES ASSUME q \in BuildRequest
               PROVE  (/\ q.kind = "department" => q.move = None
                       /\ q.unit <= last.units
                       /\ q.unit \in Built => unit[q.unit].kind = q.kind
                       /\ q.lead # None => q.lead <= last.users
                       /\ q.lead \in People => q.company \in user[q.lead].homes)'
    BY DEF GoodBuild
  <2>1. /\ q.kind = "department" => q.move = None
        /\ q.unit <= last.units
        /\ q.unit \in Built => unit[q.unit].kind = q.kind
        /\ q.lead # None => q.lead <= last.users
        /\ q.lead \in People => q.company \in user[q.lead].homes
    BY <1>0 DEF Good, GoodBuild
  <2>2. q.unit \in Nat /\ (q.lead # None => q.lead \in Nat)
    <3>1. q.unit \in Units \cup {0} /\ q.lead \in Users \cup {None}
      BY DEF BuildRequest
    <3>2. /\ \A m \in Units \cup {0} : m \in Nat
          /\ \A m \in Users \cup {None} : m # None => m \in Nat
      BY NoneIsNobody
    <3>3. QED
      BY <3>1, <3>2
  <2>3. q.unit <= last'.units /\ (q.lead # None => q.lead <= last'.users)
    BY <2>1, <2>2, SequencesNext, NumbersGiven, MaximaAssumption
  <2>4. ASSUME q.unit \in Built' PROVE unit'[q.unit].kind = q.kind
    BY <2>1, <2>4, OldUnit
  <2>5. ASSUME q.lead \in People' PROVE q.company \in user'[q.lead].homes
    <3>1. q.lead # None
      BY <2>5, NoneIsNobody DEF People
    <3>2. QED
      BY <2>1, <2>5, <3>1, OldUser DEF Kept
  <2>6. QED
    BY <2>1, <2>3, <2>4, <2>5
<1>5. GoodEnlist(q)'
  <2> SUFFICES ASSUME q \in EnlistRequest
               PROVE  (/\ q.unit <= last.units /\ q.lead <= last.users
                       /\ q.unit \in Built =>
                             /\ unit[q.unit].kind = "department"
                             /\ q.lead \in People => unit[q.unit].company \in user[q.lead].homes)'
    BY DEF GoodEnlist
  <2>1. /\ q.unit <= last.units /\ q.lead <= last.users
        /\ q.unit \in Built =>
              /\ unit[q.unit].kind = "department"
              /\ q.lead \in People => unit[q.unit].company \in user[q.lead].homes
    BY <1>0 DEF Good, GoodEnlist
  <2>2. q.unit \in Nat /\ q.lead \in Nat
    BY NoneIsNobody DEF EnlistRequest
  <2>3. q.unit <= last'.units /\ q.lead <= last'.users
    BY <2>1, <2>2, SequencesNext, NumbersGiven, MaximaAssumption
  <2>4. ASSUME q.unit \in Built'
        PROVE  /\ unit'[q.unit].kind = "department"
               /\ q.lead \in People' => unit'[q.unit].company \in user'[q.lead].homes
    <3>1. /\ q.unit \in Built /\ unit'[q.unit].kind = unit[q.unit].kind
          /\ unit[q.unit].kind = "department" => unit'[q.unit].company = unit[q.unit].company
      BY <2>1, <2>4, OldUnit
    <3>2. q.lead \in People' => q.lead \in People /\ user[q.lead].homes \subseteq user'[q.lead].homes
      BY <2>1, OldUser DEF Kept
    <3>3. QED
      BY <2>1, <3>1, <3>2
  <2>5. QED
    BY <2>3, <2>4
<1>6. QED
  BY <1>1, <1>2, <1>3, <1>4, <1>5 DEF Good
-----------------------------------------------------------------------------
(* The requests that begin or go on.                                        *)

\* A request is of one kind.
LEMMA KindsApart ==
  ASSUME NEW q
  PROVE  /\ q \in StatusRequest => q \notin IssueRequest \cup JoinRequest \cup BuildRequest \cup EnlistRequest
         /\ q \in ExpireRequest => q \notin StatusRequest \cup IssueRequest \cup JoinRequest
                                                \cup BuildRequest \cup EnlistRequest
         /\ q \in IssueRequest => q \notin StatusRequest \cup JoinRequest \cup BuildRequest \cup EnlistRequest
         /\ q \in JoinRequest => q \notin StatusRequest \cup IssueRequest \cup BuildRequest \cup EnlistRequest
         /\ q \in BuildRequest => q \notin StatusRequest \cup IssueRequest \cup JoinRequest \cup EnlistRequest
         /\ q \in EnlistRequest => q \notin StatusRequest \cup IssueRequest \cup JoinRequest \cup BuildRequest
<1>1. /\ q \in StatusRequest => q.op \in {"status", "activate"}
      /\ q \in ExpireRequest => q.op = "expire"
      /\ q \in IssueRequest => q.op = "issue"
      /\ q \in JoinRequest => q.op \in {"join", "accept"}
      /\ q \in BuildRequest => q.op \in {"cancel", "unit"}
      /\ q \in EnlistRequest => q.op = "enlist"
  BY DEF StatusRequest, ExpireRequest, IssueRequest, JoinRequest, BuildRequest, EnlistRequest
<1>2. QED
  BY <1>1

RequestsKept ==
    /\ req' \in [Slots -> Request \cup {None}]
    /\ \A q \in Pending' : q \in Pending \/ Good(q)'

LEMMA Moved ==
  ASSUME TypeOK, NEW r \in Slots, NEW x \in Request, req' = [req EXCEPT ![r] = x], Good(x)'
  PROVE  RequestsKept
<1>1. req \in [Slots -> Request \cup {None}]
  BY DEF TypeOK
<1>2. req' \in [Slots -> Request \cup {None}] /\ \A s \in Slots : req'[s] = req[s] \/ req'[s] = x
  BY <1>1
<1>3. \A q \in Pending' : q \in Pending \/ q = x
  BY <1>2 DEF Pending
<1>4. QED
  BY <1>2, <1>3 DEF RequestsKept

LEMMA Ended ==
  ASSUME TypeOK, NEW r \in Slots, End(r)
  PROVE  RequestsKept
<1>1. req \in [Slots -> Request \cup {None}]
  BY DEF TypeOK
<1>2. req' \in [Slots -> Request \cup {None}] /\ \A s \in Slots : req'[s] = req[s] \/ req'[s] = None
  BY <1>1 DEF End
<1>3. \A q \in Pending' : q \in Pending
  BY <1>2 DEF Pending
<1>4. QED
  BY <1>2, <1>3 DEF RequestsKept

\* The company somebody acts for is one of his.
LEMMA MayAct ==
  ASSUME TypeOK, HomesOK, NEW kind, NEW by, NEW c, NEW n, May(by, kind, c, n)
  PROVE  by \in People /\ c \in user[by].homes
<1>1. by \in People /\ AtHome(user[by])
  BY DEF May, Manager, HomesOK
<1>2. QED
  BY <1>1 DEF May, ActsFor, AtHome

\* A request to build or change a unit, as it begins.
LEMMA UnitRequestType ==
  ASSUME TypeOK, NEW kind \in Kinds, NEW by \in Users, NEW c \in Companies,
         NEW n \in Units \cup {0}, NEW name \in Names, NEW move \in Companies \cup {None},
         May(by, kind, c, n), NEW x, x = UnitRequest(kind, by, c, n, name, move)
  PROVE  /\ x \in BuildRequest /\ by \in People
         /\ x.kind = kind /\ x.company = c /\ x.unit = n /\ x.move = move
BY DEF May, Manager, UnitRequest, BuildRequest

LEMMA UnitRequestBegins ==
  ASSUME TypeOK, NEW r \in Slots, NEW kind \in Kinds, NEW by \in Users, NEW c \in Companies,
         NEW n \in Units \cup {0}, NEW move \in Companies \cup {None},
         May(by, kind, c, n), move # None => kind = "subsidiary" /\ n # 0,
         UNCHANGED unit, last'.units = last.units,
         NEW x \in BuildRequest, x.kind = kind, x.company = c, x.unit = n, x.move = move,
         x.lead # None =>
            x.lead <= last'.users /\ x.lead \in People' /\ c \in user'[x.lead].homes,
         req' = [req EXCEPT ![r] = x]
  PROVE  RequestsKept
<1>1. n <= last.units
  BY NumbersGiven DEF May
<1>2. n \in Built' => unit'[n].kind = kind
  BY NoneIsNobody DEF May, Built, Units
<1>3. x.lead \in People' => x.lead # None
  BY NoneIsNobody DEF People
<1>4. GoodBuild(x)'
  BY <1>1, <1>2, <1>3 DEF GoodBuild, Kinds
<1>5. Good(x)'
  BY <1>4, KindsApart DEF Good, GoodStatus, GoodIssue, GoodJoin, GoodEnlist
<1>6. x \in Request
  BY DEF Request
<1>7. QED
  BY <1>5, <1>6, Moved

\* Whom an address stands for after it was resolved.
LEMMA Resolved ==
  ASSUME TypeOK, RequestsOK, AddressesDiffer, [Next]_vars,
         NEW kind \in Kinds, NEW by \in Users, NEW c \in Companies, NEW n \in Units \cup {0},
         NEW e \in Emails, May(by, kind, c, n), Resolve(kind, c, n, e), UNCHANGED unit
  PROVE  /\ \E u \in Users : user'[u] # None /\ user'[u].email = e
         /\ \A u \in People' : user'[u].email = e =>
               u <= last'.users /\ c \in user'[u].homes
<1>0. last.users \in Nat
  BY NumbersGiven
<1>1. ASSUME NEW row, Adds(row), row.email = e, row.homes = {c}
      PROVE  /\ \E u \in Users : user'[u] # None /\ user'[u].email = e
             /\ \A u \in People' : user'[u].email = e =>
                   u <= last'.users /\ c \in user'[u].homes
  <2>1. /\ last.users + 1 \in Users
        /\ People' = People \cup {last.users + 1}
        /\ user'[last.users + 1] = row /\ \A u \in People : user'[u] = user[u]
    BY <1>1, UserAdded
  <2>2. row # None /\ WithEmail(e) = {} /\ last'.users = last.users + 1
    BY <1>1, NoneIsNobody DEF Adds
  <2>3. \A u \in People' : user'[u].email = e => u = last.users + 1
    BY <2>1, <2>2 DEF WithEmail
  <2>4. last.users + 1 <= last'.users
    BY <1>0, <2>2
  <2>5. QED
    BY <1>1, <2>1, <2>2, <2>3, <2>4
<1>2. ASSUME NEW w \in WithEmail(e), UNCHANGED last, user'[w] # None, c \in user'[w].homes
      PROVE  /\ \E u \in Users : user'[u] # None /\ user'[u].email = e
             /\ \A u \in People' : user'[u].email = e =>
                   u <= last'.users /\ c \in user'[u].homes
  <2>1. w \in People /\ w \in Users /\ user[w].email = e
    BY Rows DEF WithEmail
  <2>2. w \in People'
    BY <1>2, <2>1 DEF People
  <2>3. user'[w].email = e
    BY <2>1, <2>2, NumbersGiven, OldUser DEF Kept
  <2>4. ASSUME NEW u \in People', user'[u].email = e PROVE u = w /\ u <= last'.users
    <3>1. u <= last.users /\ u \in People /\ user[u].email = e
      BY <1>0, <1>2, <2>4, UsersNext, NumbersGiven DEF UsersKept, Kept
    <3>2. QED
      BY <1>2, <2>1, <3>1 DEF AddressesDiffer
  <2>5. QED
    BY <1>2, <2>1, <2>3, <2>4
<1>3. QED
  BY <1>1, <1>2, Resolving

LEMMA ReadsBegin ==
  ASSUME TypeOK, RequestsOK, InvitationsOK, HomesOK, [Next]_vars, NEW r \in Slots, Reads(r)
  PROVE  RequestsKept
<1>0. UNCHANGED <<company, user, invitation, unit, last>>
  BY ReadsChangeNothing
<1>1. ASSUME NEW c \in Companies, NEW s \in {"active", "suspended"}, StatusRead(r, c, s)
      PROVE  RequestsKept
  <2>1. PICK a \in Admins(c) \cup {None} :
            Begin(r, [op |-> "status", company |-> c, status |-> s, admin |-> a])
    BY <1>1 DEF StatusRead
  <2>2. PICK x : x = [op |-> "status", company |-> c, status |-> s, admin |-> a]
    OBVIOUS
  <2>3. /\ a \in Users \cup {None} /\ (a # None => a <= last.users)
        /\ a \in People => Administers(user[a], c)
    BY <2>1, Rows, NumbersGiven, NoneIsNobody DEF Admins, Administers, People
  <2>4. x \in StatusRequest /\ x.company = c /\ x.admin = a
    BY <2>2, <2>3 DEF StatusRequest
  <2>5. GoodStatus(x)'
    BY <1>0, <1>1, <2>3, <2>4 DEF GoodStatus, People, StatusRead, Administers
  <2>6. Good(x)'
    BY <2>4, <2>5, KindsApart DEF Good, GoodIssue, GoodJoin, GoodBuild, GoodEnlist
  <2>7. x \in Request
    BY <2>4 DEF Request
  <2>8. QED
    BY <2>1, <2>2, <2>6, <2>7, Moved DEF Begin
<1>2. ASSUME NEW by \in Users, NEW e \in Emails, NEW role \in Roles, NEW dept \in Units \cup {None},
             InviteRead(r, by, e, role, dept)
      PROVE  RequestsKept
  <2>1. PICK x : x = [op |-> "expire", by |-> by, email |-> e, role |-> role, department |-> dept]
    OBVIOUS
  <2>2. x \in ExpireRequest
    BY <2>1 DEF ExpireRequest
  <2>3. Good(x)'
    BY <2>2, KindsApart DEF Good, GoodStatus, GoodIssue, GoodJoin, GoodBuild, GoodEnlist
  <2>4. x \in Request
    BY <2>2 DEF Request
  <2>5. QED
    BY <1>2, <2>1, <2>3, <2>4, Moved DEF InviteRead, Begin
<1>3. ASSUME NEW i \in Invitations, JoinRead(r, i) PROVE RequestsKept
  <2>1. PICK x : x = [op |-> "join", token |-> i, as |-> invitation[i],
                      open |-> {j \in Sent : invitation[j].status = "pending"}]
    OBVIOUS
  <2>2. i \in Sent /\ invitation[i].status = "pending" /\ invitation[i] \in InvitationRow
    BY <1>3, Rows DEF JoinRead
  <2>3. x \in JoinRequest /\ x.token = i /\ x.as = invitation[i] /\ i \in x.open
    BY <2>1, <2>2 DEF JoinRequest, Sent
  <2>4. PICK as \in InvitationRow : as = invitation[i]
    BY <2>2
  <2>5. Placeable(as)
    BY <2>2, <2>4 DEF InvitationsOK
  <2>6. Placeable(as)'
    BY <2>4, <2>5, PlaceableKept DEF InvitationRow
  <2>7. GoodJoin(x)'
    BY <2>3, <2>4, <2>6 DEF GoodJoin
  <2>8. Good(x)'
    BY <2>3, <2>7, KindsApart DEF Good, GoodStatus, GoodIssue, GoodBuild, GoodEnlist
  <2>9. x \in Request
    BY <2>3 DEF Request
  <2>10. QED
    BY <1>3, <2>1, <2>8, <2>9, Moved DEF JoinRead, Begin
<1>4. ASSUME NEW kind \in Kinds, NEW by \in Users, NEW c \in Companies, NEW n \in Units \cup {0},
             NEW name \in Names, NEW move \in Companies \cup {None}, move # None => kind = "subsidiary" /\ n # 0,
             NameNobody(r, kind, by, c, n, name, move)
      PROVE  RequestsKept
  <2>1. May(by, kind, c, n)
    BY <1>4 DEF NameNobody
  <2>2. PICK base : base = UnitRequest(kind, by, c, n, name, move)
    OBVIOUS
  <2>3. /\ base \in BuildRequest /\ by \in People
        /\ base.kind = kind /\ base.company = c /\ base.unit = n /\ base.move = move
    BY <2>1, <2>2, UnitRequestType
  <2>4. PICK lead \in Users \cup {None} : lead = IF n = 0 THEN by ELSE None
    OBVIOUS
  <2>5. PICK x : x = [base EXCEPT !.lead = lead]
    OBVIOUS
  <2>6. /\ x \in BuildRequest /\ x.lead = lead
        /\ x.kind = kind /\ x.company = c /\ x.unit = n /\ x.move = move
    BY <2>3, <2>5 DEF BuildRequest
  <2>7. req' = [req EXCEPT ![r] = x]
    BY <1>4, <2>2, <2>4, <2>5 DEF NameNobody, Begin
  <2>8. lead # None => lead <= last'.users /\ lead \in People' /\ c \in user'[lead].homes
    BY <1>0, <2>1, <2>3, <2>4, MayAct, NumbersGiven DEF People
  <2>9. last'.units = last.units
    BY <1>0
  <2>10. QED
    BY <1>0, <1>4, <2>1, <2>6, <2>7, <2>8, <2>9, UnitRequestBegins
<1>5. ASSUME NEW kind \in Kinds, NEW by \in Users, NEW c \in Companies, NEW n \in Units \cup {0},
             NEW name \in Names, NEW move \in Companies \cup {None}, move # None => kind = "subsidiary" /\ n # 0,
             NEW id \in Users, NameColleague(r, kind, by, c, n, name, move, id)
      PROVE  RequestsKept
  <2>1. id \in People /\ c \in user[id].homes /\ May(by, kind, c, n)
    BY <1>5 DEF NameColleague, Colleague, HomesOK, AtHome
  <2>2. user[id].email \in Emails
    BY <2>1, Rows DEF UserRow
  <2>3. id # None /\ id <= last'.users /\ id \in People' /\ c \in user'[id].homes
    BY <1>0, <2>1, NumbersGiven, NoneIsNobody DEF People
  <2>4. PICK base : base = UnitRequest(kind, by, c, n, name, move)
    OBVIOUS
  <2>5. /\ base \in BuildRequest
        /\ base.kind = kind /\ base.company = c /\ base.unit = n /\ base.move = move
    BY <2>1, <2>4, UnitRequestType
  <2>6. PICK q : q = [base EXCEPT !.lead = id]
    OBVIOUS
  <2>7. /\ q \in BuildRequest /\ q.lead = id
        /\ q.kind = kind /\ q.company = c /\ q.unit = n /\ q.move = move
    BY <2>5, <2>6 DEF BuildRequest
  <2>8. PICK email \in Emails : email = user[id].email
    BY <2>2
  <2>9. PICK x : x \in {q, [q EXCEPT !.op = "cancel", !.email = email]} /\ req' = [req EXCEPT ![r] = x]
    BY <1>5, <2>4, <2>6, <2>8 DEF NameColleague, Begin
  <2>10. /\ x \in BuildRequest /\ x.lead = id
         /\ x.kind = kind /\ x.company = c /\ x.unit = n /\ x.move = move
    BY <2>7, <2>9 DEF BuildRequest
  <2>11. last'.units = last.units
    BY <1>0
  <2>12. QED
    BY <1>0, <1>5, <2>1, <2>3, <2>9, <2>10, <2>11, UnitRequestBegins
<1>6. QED
  BY <1>1, <1>2, <1>3, <1>4, <1>5 DEF Reads

LEMMA NamesAddressBegins ==
  ASSUME TypeOK, RequestsOK, AddressesDiffer, [Next]_vars, NEW r \in Slots, NamesAddress(r)
  PROVE  RequestsKept
<1>1. PICK kind \in Kinds, by \in Users, c \in Companies, n \in Units \cup {0}, name \in Names,
           move \in Companies \cup {None}, e \in Emails, given \in BOOLEAN :
        /\ move # None => kind = "subsidiary" /\ n # 0
        /\ NameAddress(r, kind, by, c, n, name, move, e, given)
  BY DEF NamesAddress
<1>2. May(by, kind, c, n) /\ Resolve(kind, c, n, e) /\ UNCHANGED unit
  BY <1>1 DEF NameAddress
<1>3. by \in People
  BY <1>2 DEF May, Manager
<1>4. PICK lead : lead = CHOOSE u \in Users : user'[u] # None /\ user'[u].email = e
  OBVIOUS
<1>5. lead \in Users /\ user'[lead] # None /\ user'[lead].email = e
  BY <1>2, <1>3, <1>4, Resolved
<1>6. lead \in People'
  BY <1>5 DEF People
<1>7. lead <= last'.users /\ c \in user'[lead].homes
  BY <1>2, <1>3, <1>5, <1>6, Resolved
<1>8. PICK doomed : doomed = (given /\ kind = "department" /\ n # 0)
  OBVIOUS
<1>9. PICK base : base = UnitRequest(kind, by, c, n, name, move)
  OBVIOUS
<1>10. /\ base \in BuildRequest
       /\ base.kind = kind /\ base.company = c /\ base.unit = n /\ base.move = move
  BY <1>2, <1>9, UnitRequestType
<1>11. PICK x : x = [base EXCEPT !.op = "cancel", !.lead = lead, !.email = e, !.doomed = doomed]
  OBVIOUS
<1>12. doomed \in BOOLEAN
  BY <1>8
<1>13. /\ x \in BuildRequest /\ x.lead = lead
       /\ x.kind = kind /\ x.company = c /\ x.unit = n /\ x.move = move
  BY <1>5, <1>10, <1>11, <1>12 DEF BuildRequest
<1>14. req' = [req EXCEPT ![r] = x]
  BY <1>1, <1>4, <1>8, <1>9, <1>11 DEF NameAddress, Begin
<1>15. last'.units = last.units
  <2>1. last' = last \/ last' = [last EXCEPT !.users = @ + 1]
    BY <1>2 DEF Resolve, AddUser
  <2>2. QED
    BY <2>1 DEF TypeOK
<1>16. QED
  BY <1>1, <1>2, <1>6, <1>7, <1>13, <1>14, <1>15, UnitRequestBegins

LEMMA ContinueKeeps ==
  ASSUME TypeOK, RequestsOK, [Next]_vars, NEW r \in Slots, Continue(r)
  PROVE  RequestsKept
<1>0. /\ req \in [Slots -> Request \cup {None}]
      /\ last \in [users : 0..MaxUsers, invitations : 0..MaxInvitations, units : 0..MaxUnits]
  BY DEF TypeOK
<1>1. CASE StatusWrite(r)
  <2>1. PICK q \in StatusRequest : q = req[r] /\ q \in Pending
    BY <1>1, RequestOf DEF StatusWrite, At
  <2>2. PICK x : x = [q EXCEPT !.op = "activate"]
    OBVIOUS
  <2>3. x \in StatusRequest /\ x.company = q.company /\ x.admin = q.admin
    BY <2>1, <2>2 DEF StatusRequest
  <2>4. Good(q)'
    BY <2>1, GoodKept
  <2>5. GoodStatus(x)'
    BY <2>1, <2>3, <2>4 DEF Good, GoodStatus
  <2>6. Good(x)'
    BY <2>3, <2>5, KindsApart DEF Good, GoodIssue, GoodJoin, GoodBuild, GoodEnlist
  <2>7. x \in Request
    BY <2>3 DEF Request
  <2>8. req' = [req EXCEPT ![r] = x] \/ End(r)
    BY <1>0, <1>1, <2>1, <2>2 DEF StatusWrite, Goto
  <2>9. QED
    BY <2>6, <2>7, <2>8, Moved, Ended
<1>2. CASE ExpireEarlier(r)
  <2>1. PICK q \in ExpireRequest : q = req[r]
    BY <1>2, RequestOf DEF ExpireEarlier, At
  <2>2. CASE q.by \notin People
    BY <1>2, <2>1, <2>2, Ended DEF ExpireEarlier
  <2>3. CASE q.by \in People
    <3>1. PICK home \in Homes : home = user[q.by].company
      BY <2>3, Rows DEF UserRow
    <3>2. PICK x : x = [op |-> "issue", by |-> q.by, company |-> home, email |-> q.email,
                        role |-> q.role, department |-> q.department, seen |-> Sent]
      OBVIOUS
    <3>3. x \in IssueRequest /\ x.seen = Sent /\ x.email = q.email
      BY <2>1, <3>2 DEF ExpireRequest, IssueRequest, Sent
    <3>4. PICK rest : rest = Settled(q.email, "expired")
      OBVIOUS
    <3>5. \A i \in Sent : rest[i].email = q.email => rest[i].status # "pending"
      BY <3>4, Settling
    <3>6. invitation' = rest /\ req' = [req EXCEPT ![r] = x] /\ UNCHANGED last
      BY <1>2, <2>1, <2>3, <3>1, <3>2, <3>4 DEF ExpireEarlier
    <3>7. GoodIssue(x)'
      BY <3>3, <3>5, <3>6, NumbersGiven DEF GoodIssue, Open
    <3>8. Good(x)'
      BY <3>3, <3>7, KindsApart DEF Good, GoodStatus, GoodJoin, GoodBuild, GoodEnlist
    <3>9. x \in Request
      BY <3>3 DEF Request
    <3>10. QED
      BY <3>6, <3>8, <3>9, Moved
  <2>4. QED
    BY <2>2, <2>3
<1>3. CASE JoinCreate(r)
  <2>1. PICK q \in JoinRequest : q = req[r] /\ q \in Pending
    BY <1>3, RequestOf DEF JoinCreate, At
  <2>2. PICK x : x = [q EXCEPT !.op = "accept"]
    OBVIOUS
  <2>3. x \in JoinRequest /\ x.token = q.token /\ x.as = q.as /\ x.open = q.open
    BY <2>1, <2>2 DEF JoinRequest
  <2>4. Good(q)'
    BY <2>1, GoodKept
  <2>5. GoodJoin(x)'
    BY <2>1, <2>3, <2>4 DEF Good, GoodJoin
  <2>6. Good(x)'
    BY <2>3, <2>5, KindsApart DEF Good, GoodStatus, GoodIssue, GoodBuild, GoodEnlist
  <2>7. x \in Request
    BY <2>3 DEF Request
  <2>8. req' = [req EXCEPT ![r] = x]
    BY <1>0, <1>3, <2>1, <2>2 DEF JoinCreate, Goto
  <2>9. QED
    BY <2>6, <2>7, <2>8, Moved
<1>4. CASE CancelInvitations(r)
  <2>1. PICK q \in BuildRequest : q = req[r] /\ q \in Pending
    BY <1>4, RequestOf DEF CancelInvitations, At
  <2>2. PICK x : x = [q EXCEPT !.op = "unit"]
    OBVIOUS
  <2>3. /\ x \in BuildRequest /\ x.kind = q.kind /\ x.move = q.move /\ x.unit = q.unit
        /\ x.lead = q.lead /\ x.company = q.company
    BY <2>1, <2>2 DEF BuildRequest
  <2>4. Good(q)'
    BY <2>1, GoodKept
  <2>5. GoodBuild(x)'
    BY <2>1, <2>3, <2>4 DEF Good, GoodBuild
  <2>6. Good(x)'
    BY <2>3, <2>5, KindsApart DEF Good, GoodStatus, GoodIssue, GoodJoin, GoodEnlist
  <2>7. x \in Request
    BY <2>3 DEF Request
  <2>8. req' = [req EXCEPT ![r] = x]
    BY <1>0, <1>4, <2>1, <2>2 DEF CancelInvitations, Goto
  <2>9. QED
    BY <2>6, <2>7, <2>8, Moved
<1>5. CASE UnitCreate(r)
  <2>1. PICK q \in BuildRequest : q = req[r] /\ q \in Pending
    BY <1>5, RequestOf DEF UnitCreate, At
  <2>2. /\ q.lead \in People /\ last.units < MaxUnits /\ last'.units = last.units + 1
        /\ unit' = [unit EXCEPT ![last.units + 1] = NewUnit(q.kind, q.company, q.name, q.lead, "request")]
        /\ UNCHANGED user /\ last'.users = last.users
    BY <1>0, <1>5, <2>1 DEF UnitCreate
  <2>3. PICK row : row = NewUnit(q.kind, q.company, q.name, q.lead, "request")
    OBVIOUS
  <2>4. q.kind \in Kinds /\ q.company \in Companies /\ q.name \in Names /\ q.lead \in Users
    BY <2>2 DEF BuildRequest, People
  <2>5. row \in UnitRow /\ row.kind = q.kind /\ row.company = q.company
    BY <2>3, <2>4 DEF NewUnit, UnitRow
  <2>6. last.units + 1 \in Units /\ unit'[last.units + 1] = row
    BY <2>2, <2>3, <2>5, UnitAdded
  <2>7. PICK n \in Units : n = last.units + 1
    BY <2>6
  <2>8. PICK x : x = [op |-> "enlist", unit |-> n, lead |-> q.lead]
    OBVIOUS
  <2>9. x \in EnlistRequest /\ x.unit = n /\ x.lead = q.lead
    BY <2>4, <2>8 DEF EnlistRequest
  <2>10. q.company \in user[q.lead].homes
    BY <2>1, <2>2 DEF RequestsOK, Good, GoodBuild
  <2>11. q.lead <= last'.users /\ n <= last'.units
    BY <2>2, <2>7, NumbersGiven
  <2>12. q.kind = "department" => GoodEnlist(x)'
    BY <2>2, <2>5, <2>6, <2>7, <2>9, <2>10, <2>11 DEF GoodEnlist
  <2>13. q.kind = "department" => Good(x)'
    BY <2>9, <2>12, KindsApart DEF Good, GoodStatus, GoodIssue, GoodJoin, GoodBuild
  <2>14. x \in Request
    BY <2>9 DEF Request
  <2>15. (q.kind = "department" /\ req' = [req EXCEPT ![r] = x]) \/ End(r)
    BY <1>5, <2>1, <2>7, <2>8 DEF UnitCreate
  <2>16. QED
    BY <2>13, <2>14, <2>15, Moved, Ended
<1>6. CASE End(r)
  BY <1>6, Ended
<1>7. QED
  BY <1>1, <1>2, <1>3, <1>4, <1>5, <1>6
     DEF Continue, StatusActivate, InviteIssue, JoinAccept, Enlist, UnitUpdate, Fail

LEMMA RequestsNext ==
  ASSUME TypeOK, RequestsOK, InvitationsOK, AddressesDiffer, HomesOK, [Next]_vars
  PROVE  req' \in [Slots -> Request \cup {None}] /\ RequestsOK'
<1>1. ASSUME UNCHANGED req PROVE RequestsKept
  BY <1>1 DEF RequestsKept, TypeOK, Pending
<1>2. ASSUME NEW by \in Users, CallOf(by) PROVE UNCHANGED req
  BY <1>2 DEF CallOf, DeleteInvitation, DeleteUser, DeleteUnit, SetupExisting,
              SetupNewcomer, SetupInvite
<1>3. ASSUME (\E e, c : SignUp(e, c)) \/ PlatformCall \/ \E u \in Users : PersonCall(u)
      PROVE  UNCHANGED req
  BY <1>3, PersonAlone DEF SignUp, PlatformCall, PlatformStatus, PlatformInvite
<1>4. RequestsKept
  <2>1. CASE UNCHANGED vars
    BY <1>1, <2>1 DEF vars
  <2>2. CASE \E r \in Slots : Reads(r) \/ NamesAddress(r) \/ Continue(r)
    BY <2>2, ReadsBegin, NamesAddressBegins, ContinueKeeps
  <2>3. QED
    BY <1>1, <1>2, <1>3, <2>1, <2>2, NextCases
<1>5. \A q \in Pending' : Good(q)'
  BY <1>4, GoodKept DEF RequestsKept
<1>6. QED
  BY <1>4, <1>5 DEF RequestsKept, RequestsOK

-----------------------------------------------------------------------------
(* Members and leads.                                                       *)

\* The department of a user after a call: the old one, none, or one that is there and of one
\* of his companies, unless it was named by hand.
MemberRow(u) ==
    \/ /\ u \in People
       /\ user'[u].department = user[u].department /\ user'[u].placed = user[u].placed
    \/ user'[u].department = None
    \/ InPlace(user'[u])

LEMMA Members ==
  ASSUME TypeOK, RequestsOK, [Next]_vars, NEW u \in People'
  PROVE  MemberRow(u)
<1>0. user \in [Users -> UserRow \cup {None}] /\ u \in Users
  BY DEF TypeOK, People
<1>1. CASE user'[u] = user[u]
  BY <1>1 DEF MemberRow, People
<1>2. ASSUME NEW w \in People, Edits(w) PROVE MemberRow(u)
  <2>1. PICK row \in UserRow :
            /\ user' = [user EXCEPT ![w] = row]
            /\ \/ row.department = user[w].department /\ row.placed = user[w].placed
               \/ row.department = None
               \/ InPlace(row)
    BY <1>2 DEF Edits
  <2>2. user'[u] = user[u] \/ (u = w /\ user'[u] = row)
    BY <1>0, <2>1
  <2>3. QED
    BY <1>1, <2>1, <2>2 DEF MemberRow, InPlace
<1>3. ASSUME NEW row, Adds(row) PROVE MemberRow(u)
  <2>1. \/ u \in People /\ user'[u] = user[u]
        \/ user'[u] = row
    BY <1>3, UserAdded
  <2>2. row.department = None \/ InPlace(row)
    BY <1>3 DEF Adds
  <2>3. QED
    BY <1>1, <2>1, <2>2 DEF MemberRow, InPlace
<1>4. ASSUME NEW by \in Users, NEW w \in Users, DeleteUser(by, w) PROVE MemberRow(u)
  <2>1. user' = [user EXCEPT ![w] = None]
    BY <1>4 DEF DeleteUser
  <2>2. user'[u] = user[u]
    BY <1>0, <2>1 DEF People
  <2>3. QED
    BY <1>1, <2>2
<1>5. ASSUME NEW by \in Users, NEW n \in Units, DeleteUnit(by, n) PROVE MemberRow(u)
  <2>1. user'[u] =
            IF u \in People /\ user[u].department = n
            THEN [user[u] EXCEPT !.department = None] ELSE user[u]
    BY <1>0, <1>5 DEF DeleteUnit
  <2>2. CASE u \in People /\ user[u].department = n
    <3>1. user[u] \in UserRow
      BY <2>2, Rows
    <3>2. user'[u] = [user[u] EXCEPT !.department = None]
      BY <2>1, <2>2
    <3>3. user'[u].department = None
      BY <3>1, <3>2 DEF UserRow
    <3>4. QED
      BY <3>3 DEF MemberRow
  <2>3. QED
    BY <1>1, <2>1, <2>2
<1>6. QED
  BY <1>1, <1>2, <1>3, <1>4, <1>5, UserSteps

LEMMA MembersNext ==
  ASSUME TypeOK, RequestsOK, WithinOneCompany, [Next]_vars, NEW u \in People',
         user'[u].department # None
  PROVE  /\ user'[u].department \in Built' /\ unit'[user'[u].department].kind = "department"
         /\ ~user'[u].placed => unit'[user'[u].department].company \in user'[u].homes
<1>1. PICK d : d = user'[u].department
  OBVIOUS
<1>2. CASE /\ u \in People
           /\ user'[u].department = user[u].department /\ user'[u].placed = user[u].placed
  <2>1. d # None /\ d = user[u].department
    BY <1>1, <1>2
  <2>2. d \in Built /\ unit[d].kind = "department"
    BY <1>2, <2>1 DEF TypeOK, IsDepartment
  <2>3. ~user[u].placed => unit[d].company \in user[u].homes
    BY <1>2, <2>1 DEF WithinOneCompany
  <2>4. ASSUME NEW by \in Users, DeleteUnit(by, d) PROVE FALSE
    <3>1. u \in Users /\ user[u] \in UserRow
      BY <1>2, Rows
    <3>2. user'[u] = [user[u] EXCEPT !.department = None]
      BY <1>2, <2>1, <2>4, <3>1 DEF DeleteUnit
    <3>3. user'[u].department = None
      BY <3>1, <3>2 DEF UserRow
    <3>4. QED
      BY <3>3
  <2>5. d \in Built'
    BY <2>2, <2>4, UnitsNext DEF UnitsKept
  <2>6. unit'[d].kind = "department" /\ unit'[d].company = unit[d].company
    BY <2>2, <2>5, NumbersGiven, OldUnit
  <2>7. user[u].homes \subseteq user'[u].homes
    BY <1>2, NumbersGiven, OldUser DEF Kept
  <2>8. QED
    BY <1>1, <1>2, <2>3, <2>5, <2>6, <2>7
<1>3. CASE InPlace(user'[u])
  BY <1>3 DEF InPlace, IsDepartment, Built
<1>4. QED
  BY <1>2, <1>3, Members DEF MemberRow

\* The lead of a unit after a call: the old one, somebody who is there and is or was of the
\* company the unit was given by a request, or whoever company setup added for it.
LeadRow(n) ==
    \/ /\ n \in Built
       /\ unit'[n].lead = unit[n].lead
       /\ unit'[n].company = unit[n].company /\ unit'[n].by = unit[n].by
    \/ /\ unit'[n].lead \in People /\ UNCHANGED user
       /\ unit'[n].by = "request" => unit'[n].company \in user[unit'[n].lead].homes
    \/ unit'[n].lead \in People' /\ unit'[n].by # "request"

LEMMA Leaders ==
  ASSUME TypeOK, RequestsOK, WithinOneCompany, [Next]_vars
  PROVE  \A n \in Built' : LeadRow(n)
<1> DEFINE Fine == \A n \in Built' : LeadRow(n)
<1>0. unit \in [Units -> UnitRow \cup {None}]
  BY DEF TypeOK
<1>1. ASSUME UNCHANGED unit PROVE Fine
  BY <1>1 DEF LeadRow, Built
<1>2. ASSUME \/ \E r \in Slots : UnitCreate(r)
             \/ \E by \in Users :
                  \/ \E c \in Companies, kind \in Kinds, name \in Names, lead \in Users :
                     SetupExisting(kind, by, c, name, lead)
                  \/ \E c \in Companies, name \in Names, e \in Emails : SetupNewcomer(by, c, name, e)
      PROVE  Fine
  <2>1. PICK row \in UnitRow :
            /\ unit' = [unit EXCEPT ![last.units + 1] = row]
            /\ \/ row.lead \in People /\ UNCHANGED user
               \/ /\ row.lead = last.users + 1
                  /\ \E by \in Users, c \in Companies, name \in Names, e \in Emails :
                              SetupNewcomer(by, c, name, e)
            /\ row.by = "request" => \E r \in Slots :
                  /\ UnitCreate(r) /\ row.kind = req[r].kind
                  /\ row.lead = req[r].lead /\ row.company = req[r].company
    BY <1>2, Building
  <2>2. last.units < MaxUnits /\ last'.units = last.units + 1
    BY <1>2, Building
  <2>3. /\ Built' = Built \cup {last.units + 1}
        /\ unit'[last.units + 1] = row /\ \A n \in Built : unit'[n] = unit[n]
    BY <2>1, <2>2, UnitAdded
  <2>4. ASSUME row.by = "request"
        PROVE  row.lead \in People /\ UNCHANGED user /\ row.company \in user[row.lead].homes
    <3>1. PICK r \in Slots : /\ UnitCreate(r) /\ row.kind = req[r].kind
                             /\ row.lead = req[r].lead /\ row.company = req[r].company
      BY <2>1, <2>4
    <3>2. PICK q \in BuildRequest : q = req[r] /\ q \in Pending
      BY <3>1, RequestOf DEF UnitCreate, At
    <3>3. q.lead \in People /\ UNCHANGED user
      BY <3>1, <3>2 DEF UnitCreate
    <3>4. q.company \in user[q.lead].homes
      BY <3>2, <3>3 DEF RequestsOK, Good, GoodBuild
    <3>5. QED
      BY <3>1, <3>2, <3>3, <3>4
  <2>5. ASSUME NEW by \in Users, NEW c \in Companies, NEW name \in Names, NEW e \in Emails,
               SetupNewcomer(by, c, name, e), row.lead = last.users + 1
        PROVE  row.lead \in People'
    <3>1. /\ WithEmail(e) = {} /\ last.users < MaxUsers /\ last'.users = last.users + 1
          /\ user' = [user EXCEPT ![last.users + 1] =
                NewUser(e, c, "subadmin", "pending", None, FALSE)]
      BY <2>5 DEF SetupNewcomer
    <3>2. "subadmin" \in Roles /\ "pending" \in Statuses
      BY DEF Roles, Statuses
    <3>3. PICK new : Adds(new)
      BY <3>1, <3>2, Inserts
    <3>4. People' = People \cup {last.users + 1}
      BY <3>3, UserAdded
    <3>5. QED
      BY <2>5, <3>4
  <2>6. LeadRow(last.units + 1)
    BY <2>1, <2>3, <2>4, <2>5 DEF LeadRow
  <2>7. \A n \in Built : LeadRow(n)
    BY <2>3 DEF LeadRow
  <2>8. QED
    BY <2>3, <2>6, <2>7
<1>3. ASSUME NEW r \in Slots, UnitUpdate(r) PROVE Fine
  <2>1. PICK q \in BuildRequest : q = req[r] /\ q \in Pending
    BY <1>3, RequestOf DEF UnitUpdate, At
  <2>2. PICK n \in Built : n = q.unit
    BY <1>3, <2>1, UpdatedRow
  <2>3. PICK row \in UnitRow :
               /\ unit' = [unit EXCEPT ![n] = row]
               /\ row.lead \in People
               /\ row.by = "request" =>
                     \/ row.lead = q.lead /\ row.company = q.company
                     \/ /\ row.lead = unit[n].lead /\ row.company = unit[n].company
                        /\ unit[n].by = "request"
    BY <1>3, <2>1, <2>2, UpdatedRow
  <2>4. unit'[n] = row /\ \A m \in Units : m # n => unit'[m] = unit[m]
    BY <1>0, <2>3 DEF Built
  <2>5. UNCHANGED user
    BY <1>3 DEF UnitUpdate
  <2>6. row.by = "request" => row.company \in user[row.lead].homes
    BY <2>1, <2>2, <2>3 DEF RequestsOK, Good, GoodBuild, WithinOneCompany
  <2>7. LeadRow(n)
    BY <2>3, <2>4, <2>5, <2>6 DEF LeadRow
  <2>8. \A m \in Built' : m # n => LeadRow(m)
    BY <2>4 DEF LeadRow, Built
  <2>9. QED
    BY <2>7, <2>8
<1>4. ASSUME NEW by \in Users, NEW n \in Units, DeleteUnit(by, n) PROVE Fine
  <2>1. unit' = [unit EXCEPT ![n] = None]
    BY <1>4 DEF DeleteUnit
  <2>2. \A m \in Units : unit'[m] = unit[m] \/ unit'[m] = None
    BY <1>0, <2>1
  <2>3. QED
    BY <2>2 DEF LeadRow, Built
<1> HIDE DEF Fine
<1>5. Fine
  BY <1>1, <1>2, <1>3, <1>4, UnitWriters
<1>6. QED
  BY <1>5 DEF Fine

LEMMA LeadersNext ==
  ASSUME TypeOK, RequestsOK, WithinOneCompany, [Next]_vars, NEW n \in Built'
  PROVE  /\ n <= last'.units /\ unit'[n].lead \in People'
         /\ unit'[n].by = "request" => unit'[n].company \in user'[unit'[n].lead].homes
<1>0. n <= last'.units
  <2>1. CASE n \in Built
    BY <2>1, NumbersGiven, SequencesNext, MaximaAssumption
  <2>2. CASE n = last.units + 1 /\ n = last'.units
    BY <2>2, NumbersGiven
  <2>3. QED
    BY <2>1, <2>2, UnitsNext DEF UnitsKept
<1>1. PICK l : l = unit'[n].lead
  OBVIOUS
<1>2. CASE /\ n \in Built
           /\ unit'[n].lead = unit[n].lead
           /\ unit'[n].company = unit[n].company /\ unit'[n].by = unit[n].by
  <2>1. l \in People /\ l = unit[n].lead
    BY <1>1, <1>2 DEF TypeOK
  <2>2. l \in People'
    BY <1>2, <2>1, UsersNext DEF UsersKept, DeleteUser, Leads
  <2>3. user[l].homes \subseteq user'[l].homes
    BY <2>1, <2>2, NumbersGiven, OldUser DEF Kept
  <2>4. unit[n].by = "request" => unit[n].company \in user[l].homes
    BY <1>2, <2>1 DEF WithinOneCompany
  <2>5. QED
    BY <1>0, <1>1, <1>2, <2>2, <2>3, <2>4
<1>3. CASE /\ unit'[n].lead \in People /\ UNCHANGED user
           /\ unit'[n].by = "request" => unit'[n].company \in user[unit'[n].lead].homes
  BY <1>0, <1>3 DEF People
<1>4. QED
  BY <1>0, <1>2, <1>3, Leaders DEF LeadRow

-----------------------------------------------------------------------------
(* Invitations, tokens, activation.                                         *)

LEMMA InvitationsStay ==
  ASSUME TypeOK, RequestsOK, InvitationsOK, [Next]_vars, NEW i \in Sent'
  PROVE  /\ i <= last'.invitations /\ invitation'[i].by \in People'
         /\ Placeable(invitation[i])'
         /\ invitation'[i].department # None => invitation'[i].department \in Built'
<1>1. CASE SameInvitation(i)
  <2>1. i \in Sent /\ i <= last'.invitations
    BY <1>1, NumbersGiven, SequencesNext, MaximaAssumption DEF SameInvitation
  <2>2. invitation'[i].by \in People'
    <3>1. PICK b : b = invitation[i].by
      OBVIOUS
    <3>2. b \in People
      BY <2>1, <3>1 DEF TypeOK
    <3>3. b \in People'
      BY <2>1, <3>1, <3>2, UsersNext DEF UsersKept, DeleteUser
    <3>4. QED
      BY <1>1, <3>1, <3>3 DEF SameInvitation
  <2>3. PICK old \in InvitationRow : old = invitation[i]
    BY <2>1, Rows
  <2>4. Placeable(old) /\ (old.department # None => old.department \in Built)
    BY <2>1, <2>3 DEF InvitationsOK
  <2>5. Placeable(old)'
    BY <2>4, PlaceableKept DEF InvitationRow
  <2>6. Placeable(invitation[i])'
    BY <1>1, <2>3, <2>5 DEF SameInvitation, Placeable
  <2>7. ASSUME invitation'[i].department # None PROVE invitation'[i].department \in Built'
    <3>1. PICK d : d = invitation'[i].department
      OBVIOUS
    <3>2. d = invitation[i].department /\ d \in Built
      BY <1>1, <2>3, <2>4, <2>7, <3>1 DEF SameInvitation
    <3>3. ASSUME NEW by \in Users, DeleteUnit(by, d) PROVE FALSE
      <4>1. i \in Invitations
        BY <2>1 DEF Sent
      <4>2. invitation'[i] = [invitation[i] EXCEPT !.department = None]
        BY <2>1, <3>2, <3>3, <4>1 DEF DeleteUnit
      <4>3. invitation'[i].department = None
        BY <2>3, <4>2 DEF InvitationRow
      <4>4. QED
        BY <2>7, <4>3
    <3>4. QED
      BY <3>1, <3>2, <3>3, UnitsNext DEF UnitsKept
  <2>8. QED
    BY <2>1, <2>2, <2>6, <2>7
<1>2. CASE NewInvitationAt(i)
  <2>1. PICK b : b = invitation'[i].by
    OBVIOUS
  <2>2. b \in People /\ i <= last'.invitations /\ i \notin Sent
    BY <1>2, <2>1, NumbersGiven DEF NewInvitationAt
  <2>3. b \in People'
    BY <2>2, UsersNext DEF UsersKept, DeleteUser, Sent
  <2>4. PICK d : d = invitation'[i].department
    OBVIOUS
  <2>5. ASSUME d # None
        PROVE  /\ d \in Built' /\ d <= last'.units /\ unit'[d].kind = "department"
               /\ ~invitation'[i].placed => unit'[d].company = invitation'[i].company
    <3>1. /\ d \in Built /\ unit[d].kind = "department" /\ UNCHANGED unit
          /\ ~invitation'[i].placed => unit[d].company = invitation'[i].company
      BY <1>2, <2>4, <2>5 DEF NewInvitationAt, IsDepartment
    <3>2. d \in Built'
      BY <3>1 DEF Built
    <3>3. d <= last'.units
      BY <3>1, NumbersGiven, SequencesNext, MaximaAssumption
    <3>4. QED
      BY <3>1, <3>2, <3>3
  <2>6. QED
    BY <2>1, <2>2, <2>3, <2>4, <2>5 DEF Placeable
<1>3. QED
  BY <1>1, <1>2, InvitationsNext DEF InvitationsKept

LEMMA OneTokenNext ==
  ASSUME TypeOK, RequestsOK, OneTokenPerAddress, [Next]_vars
  PROVE  OneTokenPerAddress'
<1> SUFFICES ASSUME NEW e \in Emails, NEW i \in Open(e)', NEW j \in Open(e)', i < j
             PROVE  i \notin invitation'[j].seen
  BY DEF OneTokenPerAddress
<1>1. /\ i \in Sent' /\ invitation'[i].email = e /\ invitation'[i].status = "pending"
      /\ j \in Sent' /\ invitation'[j].email = e /\ invitation'[j].status = "pending"
  BY DEF Open
<1>2. \A k \in {i, j} : SameInvitation(k) => k \in Open(e)
  BY <1>1 DEF SameInvitation, Open
<1>3. CASE NewInvitationAt(j)
  BY <1>1, <1>3 DEF NewInvitationAt
<1>4. CASE SameInvitation(j) /\ NewInvitationAt(i)
  <2>1. j \in Nat /\ j <= last.invitations /\ i = last.invitations + 1
    BY <1>4, NumbersGiven DEF SameInvitation, NewInvitationAt
  <2>2. QED
    BY <2>1, NumbersGiven
<1>5. CASE SameInvitation(j) /\ SameInvitation(i)
  <2>1. i \in Open(e) /\ j \in Open(e)
    BY <1>2, <1>5
  <2>2. i \notin invitation[j].seen
    BY <2>1 DEF OneTokenPerAddress
  <2>3. QED
    BY <1>5, <2>2 DEF SameInvitation
<1>6. QED
  BY <1>1, <1>3, <1>4, <1>5, InvitationsNext DEF InvitationsKept
\* A call leaves the other requests alone.
LEMMA RequestMoves ==
  ASSUME TypeOK, [Next]_vars, NEW r \in Slots, req[r] # None, req'[r] # req[r]
  PROVE  Continue(r)
<1>0. req \in [Slots -> Request \cup {None}]
  BY DEF TypeOK
<1>1. ASSUME NEW by \in Users, CallOf(by) PROVE UNCHANGED req
  BY <1>1 DEF CallOf, DeleteInvitation, DeleteUser, DeleteUnit, SetupExisting,
              SetupNewcomer, SetupInvite
<1>2. ASSUME (\E e, c : SignUp(e, c)) \/ PlatformCall \/ \E u \in Users : PersonCall(u)
      PROVE  UNCHANGED req
  BY <1>2, PersonAlone DEF SignUp, PlatformCall, PlatformStatus, PlatformInvite
<1>3. ASSUME NEW s \in Slots, NEW q, Begin(s, q) PROVE req'[r] = req[r]
  BY <1>0, <1>3 DEF Begin
<1>4. ASSUME NEW s \in Slots, Reads(s) PROVE req'[r] = req[r]
  <2>1. ASSUME NEW c, NEW st, StatusRead(s, c, st) PROVE req'[r] = req[r]
    BY <1>3, <2>1 DEF StatusRead
  <2>2. ASSUME NEW by, NEW e, NEW role, NEW dept, InviteRead(s, by, e, role, dept)
        PROVE  req'[r] = req[r]
    BY <1>3, <2>2 DEF InviteRead
  <2>3. ASSUME NEW i, JoinRead(s, i) PROVE req'[r] = req[r]
    BY <1>3, <2>3 DEF JoinRead
  <2>4. ASSUME NEW kind, NEW by, NEW c, NEW n, NEW name, NEW move,
               \/ NameNobody(s, kind, by, c, n, name, move)
               \/ \E id \in Users : NameColleague(s, kind, by, c, n, name, move, id)
        PROVE  req'[r] = req[r]
    BY <1>3, <2>4 DEF NameNobody, NameColleague
  <2>5. QED
    BY <1>4, <2>1, <2>2, <2>3, <2>4 DEF Reads
<1>5. ASSUME NEW s \in Slots, NamesAddress(s) PROVE req'[r] = req[r]
  BY <1>3, <1>5 DEF NamesAddress, NameAddress
<1>6. ASSUME NEW s \in Slots, Continue(s), s # r PROVE req'[r] = req[r]
  BY <1>0, <1>6 DEF Continue, StatusWrite, StatusActivate, ExpireEarlier, InviteIssue, JoinCreate, JoinAccept,
                    CancelInvitations, UnitCreate, Enlist, UnitUpdate, Fail, Goto, End
<1>7. CASE UNCHANGED vars
  BY <1>7 DEF vars
<1>8. QED
  BY <1>1, <1>2, <1>4, <1>5, <1>6, <1>7, NextCases

LEMMA ActivationNext ==
  ASSUME TypeOK, RequestsOK, CompaniesOK, ActivationReachesAdmin, [Next]_vars
  PROVE  ActivationReachesAdmin'
<1> SUFFICES ASSUME NEW c \in Companies, NEW a, a = company'[c].admin, company'[c] # None,
                    company'[c].status = "active", company'[c].by = "company",
                    ~company'[c].short, a \in People'
             PROVE  \/ Reached(user'[a], c)
                    \/ \E r \in Slots : /\ At(r, "activate")' /\ req'[r].company = c
                                        /\ req'[r].admin = a
  BY DEF ActivationReachesAdmin, Reached
<1>0. a \in Users /\ a # None
  BY NoneIsNobody DEF People
<1>1. CASE company'[c] = company[c]
  <2>1. a \in People /\ Kept(user[a], user'[a])
    <3>1. a <= last.users
      BY <1>0, <1>1 DEF CompaniesOK
    <3>2. QED
      BY <3>1, OldUser
  <2>2. CASE Reached(user[a], c)
    BY <2>1, <2>2 DEF Kept
  <2>3. ASSUME NEW r \in Slots, At(r, "activate"), req[r].company = c, req[r].admin = a
        PROVE  \/ Reached(user'[a], c)
               \/ \E s \in Slots : /\ At(s, "activate")' /\ req'[s].company = c
                                   /\ req'[s].admin = a
    <3>1. PICK q \in StatusRequest : q = req[r] /\ q \in Pending
      BY <2>3, RequestOf DEF At
    <3>2. CASE req'[r] = req[r]
      BY <2>3, <3>2 DEF At
    <3>3. CASE StatusActivate(r)
      <4>1. Administers(user[a], c)
        BY <2>1, <2>3, <3>1 DEF RequestsOK, Good, GoodStatus
      <4>2. user' = [user EXCEPT ![a].status = "active", ![a].held = FALSE]
        BY <2>3, <3>3 DEF StatusActivate
      <4>3. user[a] \in UserRow /\ user \in [Users -> UserRow \cup {None}]
        BY <2>1, Rows DEF TypeOK
      <4>4. user'[a] = [user[a] EXCEPT !.status = "active", !.held = FALSE]
        BY <1>0, <4>2, <4>3
      <4>5. /\ user'[a].status = "active" /\ user'[a].role = user[a].role
            /\ user'[a].company = user[a].company /\ user'[a].recast = user[a].recast
        BY <4>3, <4>4 DEF UserRow
      <4>6. QED
        BY <4>1, <4>5 DEF Administers, Reached
    <3>4. CASE Fail(r)
      <4>1. company' = [company EXCEPT ![c].short = TRUE]
        BY <2>3, <3>4 DEF Fail
      <4>2. company[c] \in CompanyRow /\ company \in [Companies -> CompanyRow \cup {None}]
        BY <2>3, <3>1 DEF TypeOK, RequestsOK, Good, GoodStatus
      <4>3. company'[c] = [company[c] EXCEPT !.short = TRUE]
        BY <4>1, <4>2
      <4>4. company'[c].short
        BY <4>2, <4>3 DEF CompanyRow
      <4>5. QED
        BY <4>4
    <3>5. CASE req'[r] # req[r]
      <4>1. Continue(r)
        BY <2>3, <3>5, RequestMoves DEF At
      <4>2. QED
        BY <2>3, <3>3, <3>4, <4>1
           DEF Continue, At, StatusWrite, ExpireEarlier, InviteIssue, JoinCreate, JoinAccept,
               CancelInvitations, UnitCreate, Enlist, UnitUpdate
    <3>6. QED
      BY <3>2, <3>5
  <2>4. QED
    BY <1>1, <2>1, <2>2, <2>3 DEF ActivationReachesAdmin
<1>2. CASE \E r \in Slots : /\ At(r, "activate")' /\ req'[r].company = c
                            /\ req'[r].admin = company'[c].admin
  BY <1>2
<1>3. QED
  BY <1>0, <1>1, <1>2, CompaniesNext DEF CompanyRowNext

LEMMA CompaniesStay ==
  ASSUME TypeOK, RequestsOK, CompaniesOK, [Next]_vars
  PROVE  CompaniesOK'
<1> SUFFICES ASSUME NEW c \in Companies, NEW a, a = company'[c].admin, company'[c] # None, a # None
             PROVE  a <= last'.users
  BY DEF CompaniesOK
<1>1. a \in Nat
  <2>1. company'[c] \in CompanyRow
    BY CompaniesNext
  <2>2. a \in Users \cup {None}
    BY <2>1 DEF CompanyRow
  <2>3. QED
    BY <2>2, NoneIsNobody
<1>2. a <= last.users
  BY CompaniesNext DEF CompanyRowNext, CompaniesOK
<1>3. QED
  BY <1>1, <1>2, SequencesNext, NumbersGiven, MaximaAssumption

-----------------------------------------------------------------------------
(* The invariant.                                                           *)

LEMMA InitIInv == Init => IInv
<1> SUFFICES ASSUME Init PROVE IInv
  OBVIOUS
<1>1. People = {} /\ Sent = {} /\ Built = {} /\ Pending = {}
  BY DEF Init, People, Sent, Built, Pending
<1>2. TypeOK
  BY <1>1, MaximaAssumption DEF Init, TypeOK
<1>3. RequestsOK /\ InvitationsOK /\ AddressesDiffer /\ HomesOK /\ WithinOneCompany
  BY <1>1 DEF RequestsOK, InvitationsOK, AddressesDiffer, HomesOK, WithinOneCompany
<1>4. OneTokenPerAddress
  BY <1>1 DEF OneTokenPerAddress, Open
<1>5. CompaniesOK /\ ActivationReachesAdmin
  BY DEF Init, CompaniesOK, ActivationReachesAdmin
<1>6. QED
  BY <1>2, <1>3, <1>4, <1>5 DEF IInv

LEMMA AddressesNext ==
  ASSUME TypeOK, RequestsOK, AddressesDiffer, [Next]_vars
  PROVE  AddressesDiffer'
<1> SUFFICES ASSUME NEW u \in People', NEW v \in People', user'[u].email = user'[v].email
             PROVE  u = v
  BY DEF AddressesDiffer
<1>1. \A w \in {u, v} : \/ w \in People /\ user'[w].email = user[w].email
                        \/ /\ w = last.users + 1
                           /\ \A x \in People : user[x].email # user'[w].email
  BY UsersNext DEF UsersKept, Kept
<1>2. QED
  BY <1>1 DEF AddressesDiffer

LEMMA HomesNext ==
  ASSUME TypeOK, RequestsOK, HomesOK, [Next]_vars
  PROVE  HomesOK'
<1>1. \A u \in People' : AtHome(user'[u])
  BY UsersNext DEF UsersKept, Kept, HomesOK
<1>2. QED
  BY <1>1 DEF HomesOK, AtHome

LEMMA StepIInv == IInv /\ [Next]_vars => IInv'
<1> SUFFICES ASSUME IInv, [Next]_vars PROVE IInv'
  OBVIOUS
<1>0. /\ TypeOK /\ RequestsOK /\ InvitationsOK /\ CompaniesOK /\ AddressesDiffer /\ HomesOK
      /\ WithinOneCompany /\ OneTokenPerAddress /\ ActivationReachesAdmin
  BY DEF IInv
<1>1. TypeOK'
  <2>1. company' \in [Companies -> CompanyRow \cup {None}]
    BY <1>0, CompaniesNext
  <2>2. user' \in [Users -> UserRow \cup {None}] /\ \A u \in People' : u <= last'.users
    <3>1. ASSUME NEW u \in People, last'.users >= last.users PROVE u <= last'.users
      BY <1>0, <3>1, NumbersGiven, SequencesNext, MaximaAssumption
    <3>2. \A u \in People' : u \in People \/ u = last'.users
      BY <1>0, UsersNext DEF UsersKept
    <3>3. last'.users \in Nat /\ last'.users >= last.users
      BY <1>0, SequencesNext, MaximaAssumption
    <3>4. QED
      BY <1>0, <3>1, <3>2, <3>3, UsersNext DEF UsersKept
  <2>3. invitation' \in [Invitations -> InvitationRow \cup {None}]
    BY <1>0, InvitationsNext DEF InvitationsKept
  <2>4. unit' \in [Units -> UnitRow \cup {None}]
    BY <1>0, UnitsNext DEF UnitsKept
  <2>5. last' \in [users : 0..MaxUsers, invitations : 0..MaxInvitations, units : 0..MaxUnits]
    BY <1>0, SequencesNext
  <2>6. req' \in [Slots -> Request \cup {None}]
    BY <1>0, RequestsNext
  <2>7. \A u \in People' : user'[u].department # None =>
            user'[u].department \in Built' /\ unit'[user'[u].department].kind = "department"
    BY <1>0, MembersNext
  <2>8. \A n \in Built' : n <= last'.units /\ unit'[n].lead \in People'
    BY <1>0, LeadersNext
  <2>9. \A i \in Sent' : i <= last'.invitations /\ invitation'[i].by \in People'
    BY <1>0, InvitationsStay
  <2>10. QED
    BY <2>1, <2>2, <2>3, <2>4, <2>5, <2>6, <2>7, <2>8, <2>9 DEF TypeOK, IsDepartment
<1>2. RequestsOK'
  BY <1>0, RequestsNext
<1>3. InvitationsOK'
  BY <1>0, InvitationsStay DEF InvitationsOK
<1>4. CompaniesOK' /\ AddressesDiffer' /\ HomesOK'
  BY <1>0, CompaniesStay, AddressesNext, HomesNext
<1>5. WithinOneCompany'
  <2>1. \A n \in Built' : unit'[n].by = "request" => unit'[n].company \in user'[unit'[n].lead].homes
    BY <1>0, LeadersNext
  <2>2. \A u \in People' : user'[u].department # None /\ ~user'[u].placed
            => unit'[user'[u].department].company \in user'[u].homes
    BY <1>0, MembersNext
  <2>3. QED
    BY <2>1, <2>2 DEF WithinOneCompany
<1>6. OneTokenPerAddress'
  BY <1>0, OneTokenNext
<1>7. ActivationReachesAdmin'
  BY <1>0, ActivationNext
<1>8. QED
  BY <1>1, <1>2, <1>3, <1>4, <1>5, <1>6, <1>7 DEF IInv

\* The inductive invariant: rows are typed and refer to rows, and what a request in progress
\* remembers still holds.  EsgAuthService, CompanyService, InvitationsService,
\* CompanyUsersService, DepartmentsService, SubsidiaryService, CompanySetupService and the
\* platform's AdminUsersService together.
THEOREM Invariance == Spec => []IInv
<1>1. Init => IInv
  BY InitIInv
<1>2. IInv /\ [Next]_vars => IInv'
  BY StepIInv
<1>3. QED
  BY <1>1, <1>2, PTL DEF Spec

\* No user, invitation or unit is referred to after it was deleted or before it was created:
\* leads, inviters, departments of members, and requests are typed.
THEOREM TypeCorrect == Spec => []TypeOK
<1>1. IInv => TypeOK
  BY DEF IInv
<1>2. QED
  BY <1>1, Invariance, PTL

\* Leads and members are, or were until AdminUsersService.updateUser moved them, of the unit's
\* company, for the exceptions the property names, however the services that name a lead by
\* number, address or invitation overlap, and though the token of a moved manager is still
\* good for the company he left.
THEOREM PeopleStayWithin == Spec => []WithinOneCompany
<1>1. IInv => WithinOneCompany
  BY DEF IInv
<1>2. QED
  BY <1>1, Invariance, PTL

\* Two pending invitations of an address come of requests that did not see each other:
\* createInvitation and bulkCreate expire what they see.
THEOREM OneTokenIsLeft == Spec => []OneTokenPerAddress
<1>1. IInv => OneTokenPerAddress
  BY DEF IInv
<1>2. QED
  BY <1>1, Invariance, PTL

\* updateStatus: the administrator it read, if the company had one, has an active account and is
\* still the administrator, or the platform changed him since, or the second call was cut
\* short or is on its way.
THEOREM AdministratorsAreActivated == Spec => []ActivationReachesAdmin
<1>1. IInv => ActivationReachesAdmin
  BY DEF IInv
<1>2. QED
  BY <1>1, Invariance, PTL

\* An invitation leaves pending once, but for a completeSignup that began before.
THEOREM InvitationsSettleOnce == Spec => SettledOnce
<1> DEFINE Settles ==
      \A i \in Sent :
          /\ invitation[i].status # "pending"
          /\ invitation'[i] # None
          /\ invitation'[i].status # invitation[i].status
          => /\ invitation'[i].status = "accepted"
             /\ \E r \in Slots : At(r, "accept") /\ req[r].token = i /\ i \in req[r].open
<1>1. IInv /\ [Next]_vars => [Settles]_vars
  <2> SUFFICES ASSUME IInv, [Next]_vars, NEW i \in Sent,
                      invitation[i].status # "pending", invitation'[i] # None,
                      invitation'[i].status # invitation[i].status
               PROVE  /\ invitation'[i].status = "accepted"
                      /\ \E r \in Slots : At(r, "accept") /\ req[r].token = i /\ i \in req[r].open
    OBVIOUS
  <2>0. TypeOK /\ RequestsOK
    BY DEF IInv
  <2>1. i \in Sent'
    BY DEF Sent
  <2>2. SameInvitation(i)
    BY <2>0, <2>1, NumbersGiven, OldInvitation
  <2>3. PICK r \in Slots : At(r, "accept") /\ req[r].token = i /\ invitation'[i].status = "accepted"
    BY <2>2 DEF SameInvitation
  <2>4. PICK q \in JoinRequest : q = req[r] /\ q \in Pending
    BY <2>0, <2>3, RequestOf DEF At
  <2>5. q.token \in q.open
    BY <2>0, <2>4 DEF RequestsOK, Good, GoodJoin
  <2>6. QED
    BY <2>3, <2>4, <2>5
<1>2. QED
  BY <1>1, Invariance, PTL DEF Spec, SettledOnce
=============================================================================
