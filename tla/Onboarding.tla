----------------------------- MODULE Onboarding -----------------------------
(***************************************************************************)
(* How companies, their people and their departments and subsidiaries come *)
(* into the system: EsgAuthService, CompanyService.updateStatus and its    *)
(* platform twin, AdminUsersService, InvitationsService,                   *)
(* CompanyUsersService, DepartmentsService, SubsidiaryService and          *)
(* CompanySetupService.                                                    *)
(*                                                                         *)
(* A request is the sequence of its database calls: what happens between   *)
(* two of them, and a request that ends there, is in the model.  Calls are *)
(* merged into one step where a unique or foreign key decides the race, or *)
(* where they only read.  Departments and subsidiaries share a table, and  *)
(* names, contact data, e-mails and the activity log are left out.         *)
(*                                                                         *)
(* A token carries the company and role of its login for as long as it is  *)
(* refreshed, whatever becomes of the row: departments and company setup   *)
(* go by the token, the rest reads the row.  Tokens of deleted accounts    *)
(* are left out.                                                           *)
(***************************************************************************)
EXTENDS Integers, FiniteSets

CONSTANTS
    None,               \* null
    Companies,          \* by their unique names
    Emails,
    Lower,              \* toLowerCase on Emails
    Names,              \* of departments and subsidiaries
    Slots,              \* requests in progress at once
    MaxUsers,
    MaxInvitations,
    MaxUnits

ASSUME LowerAssumption  ==
    Lower \in [Emails -> Emails] /\ \A e \in Emails : Lower[Lower[e]] = Lower[e]
ASSUME MaximaAssumption == MaxUsers \in Nat /\ MaxInvitations \in Nat /\ MaxUnits \in Nat

Users       == 1..MaxUsers
Invitations == 1..MaxInvitations
Units       == 1..MaxUnits
Kinds       == {"department", "subsidiary"}
Roles       == {"admin", "subadmin", "member"}     \* company_esg_admin, _subadmin, the others
Statuses    == {"pending", "active", "approved", "suspended", "disabled"}
Homes       == Companies \cup {None}

\* by is who set the status last; admin, the administrator the last updateStatus read, if any;
\* short, that an activation since then ended before its second call.
CompanyRow == [status : {"pending", "active", "suspended"}, by : {"signup", "company", "platform"},
               admin : Users \cup {None}, short : BOOLEAN]
\* placed: the department was named by hand, in an invitation or an edit.
\* homes: the companies the user has been of; sessions: those of his tokens as a manager.
\* held: the platform set his status since an activation; recast: his role or his company.
UserRow == [email : Emails, company : Homes, role : Roles, status : Statuses,
            department : Units \cup {None}, placed : BOOLEAN,
            homes : SUBSET Homes, sessions : SUBSET Homes, held : BOOLEAN, recast : BOOLEAN]
\* seen: the invitations there were when the earlier ones of the address were expired.
InvitationRow == [email : Emails, company : Companies, role : Roles,
                  status : {"pending", "accepted", "expired", "cancelled"},
                  department : Units \cup {None}, placed : BOOLEAN,
                  by : Users, seen : SUBSET Invitations]
\* by is what gave the unit its company and lead.
UnitRow == [kind : Kinds, company : Companies, name : Names, lead : Users,
            by : {"request", "setup", "move"}]

\* What a request in progress remembers between its calls.
StatusRequest ==
    [op : {"status", "activate"}, company : Companies, status : {"active", "suspended"},
     admin : Users \cup {None}]
ExpireRequest ==
    [op : {"expire"}, by : Users, email : Emails, role : Roles, department : Units \cup {None}]
IssueRequest ==
    [op : {"issue"}, by : Users, company : Homes, email : Emails, role : Roles,
     department : Units \cup {None}, seen : SUBSET Invitations]
JoinRequest ==
    [op : {"join", "accept"}, token : Invitations, as : InvitationRow, open : SUBSET Invitations]
BuildRequest ==
    [op : {"cancel", "unit"}, kind : Kinds, by : Users, company : Companies,
     unit : Units \cup {0}, name : Names, move : Companies \cup {None},
     lead : Users \cup {None}, email : Emails \cup {None}, doomed : BOOLEAN]
EnlistRequest == [op : {"enlist"}, unit : Units, lead : Users]

Request == StatusRequest \cup ExpireRequest \cup IssueRequest \cup JoinRequest
                \cup BuildRequest \cup EnlistRequest

ASSUME NoneAssumption ==
    /\ None \notin Companies \cup Emails \cup Names \cup Nat
    /\ None \notin CompanyRow \cup UserRow \cup InvitationRow \cup UnitRow \cup Request

VARIABLES
    company,            \* Companies -> row or None
    user,               \* the tables: 1..Max -> row or None
    invitation,
    unit,               \* departments and subsidiaries
    last,               \* the sequences of the three tables
    req                 \* slot -> request in progress or None

vars == <<company, user, invitation, unit, last, req>>

People == {u \in Users : user[u] # None}
Sent   == {i \in Invitations : invitation[i] # None}
Built  == {n \in Units : unit[n] # None}

Open(e) == {i \in Sent : invitation[i].email = e /\ invitation[i].status = "pending"}

WithEmail(e) == {u \in People : user[u].email = e}

\* A token with one of USER_MANAGEMENT_ROLES, which the platform's own have as well.
Manager(u) == u \in People /\ user[u].sessions # {}

\* The role in the row, where a service looks at it again.
InCharge(u) == user[u].role \in {"admin", "subadmin"}

Init ==
    /\ company = [c \in Companies |-> None]
    /\ user = [u \in Users |-> None]
    /\ invitation = [i \in Invitations |-> None]
    /\ unit = [n \in Units |-> None]
    /\ last = [users |-> 0, invitations |-> 0, units |-> 0]
    /\ req = [r \in Slots |-> None]

NewUser(e, c, role, status, dept, placed) ==
    [email |-> e, company |-> c, role |-> role, status |-> status, department |-> dept,
     placed |-> placed, homes |-> {c}, sessions |-> {}, held |-> FALSE, recast |-> FALSE]

\* Inserting into the tables; the bounds stand for nothing in the code.
AddUser(e, c, role, status, dept, placed) ==
    /\ WithEmail(e) = {}
    /\ last.users < MaxUsers
    /\ last' = [last EXCEPT !.users = @ + 1]
    /\ user' = [user EXCEPT ![last.users + 1] = NewUser(e, c, role, status, dept, placed)]

NewInvitation(e, c, by, role, dept, placed, seen) ==
    [email |-> e, company |-> c, role |-> role, status |-> "pending",
     department |-> dept, placed |-> placed, by |-> by, seen |-> seen]

\* Mutant of Settled: one row is updated, not all that match.
SettledLatest(e, status) ==
    [i \in Invitations |->
        IF i \in Open(e) /\ \A j \in Open(e) : j <= i
        THEN [invitation[i] EXCEPT !.status = status] ELSE invitation[i]]

\* Mutant of Settled: the filter on the status is missing.
SettledAll(e, status) ==
    [i \in Invitations |->
        IF i \in Sent /\ invitation[i].email = e
        THEN [invitation[i] EXCEPT !.status = status] ELSE invitation[i]]

\* updateMany: the pending invitations of an address get a new status.
Settled(e, status) ==
    [i \in Invitations |->
        IF i \in Open(e) THEN [invitation[i] EXCEPT !.status = status] ELSE invitation[i]]

Begin(r, q) == req[r] = None /\ req' = [req EXCEPT ![r] = q]
At(r, op)   == req[r] # None /\ req[r].op = op
Goto(r, op) == req' = [req EXCEPT ![r].op = op]
End(r)      == req' = [req EXCEPT ![r] = None]

-----------------------------------------------------------------------------
(* Companies.                                                               *)

\* signup: the user and the company in one transaction, both pending.
SignUp(e, c) ==
    /\ company[c] = None
    /\ AddUser(e, c, "admin", "pending", None, FALSE)
    /\ company' = [company EXCEPT ![c] =
            [status |-> "pending", by |-> "signup", admin |-> None, short |-> FALSE]]
    /\ UNCHANGED <<invitation, unit, req>>

Admins(c) == {u \in People : user[u].company = c /\ user[u].role = "admin"}

\* updateStatus up to its first write: the first of the administrators, in no stated order,
\* or undefined if the company has none.
StatusRead(r, c, status) ==
    /\ company[c] # None
    /\ company[c].status # status
    /\ \E a \in IF Admins(c) = {} THEN {None} ELSE Admins(c) :
          Begin(r, [op |-> "status", company |-> c, status |-> status, admin |-> a])
    /\ UNCHANGED <<company, user, invitation, unit, last>>

\* Mutant of Activates: only the first activation reaches the administrator.
ActivatesPending(r) == req[r].status = "active" /\ company[req[r].company].status = "pending"

Activates(r) == req[r].status = "active"

StatusWrite(r) ==
    /\ At(r, "status")
    /\ company' = [company EXCEPT ![req[r].company].status = req[r].status,
                                  ![req[r].company].by = "company",
                                  ![req[r].company].admin = req[r].admin,
                                  ![req[r].company].short = FALSE]
    /\ IF Activates(r) /\ req[r].admin # None THEN Goto(r, "activate") ELSE End(r)
    /\ UNCHANGED <<user, invitation, unit, last>>

StatusActivate(r) ==
    /\ At(r, "activate")
    /\ req[r].admin \in People
    /\ user' = [user EXCEPT ![req[r].admin].status = "active", ![req[r].admin].held = FALSE]
    /\ End(r)
    /\ UNCHANGED <<company, invitation, unit, last>>

\* The platform's updateStatus: the company alone.
PlatformStatus(c, status) ==
    /\ company[c] # None
    /\ company' = [company EXCEPT ![c].status = status, ![c].by = "platform"]
    /\ UNCHANGED <<user, invitation, unit, last, req>>

IsDepartment(n) == n \in Built /\ unit[n].kind = "department"

-----------------------------------------------------------------------------
(* Accounts, and what the platform does to them.                            *)

\* login: an active account; the token keeps the company, and the role, of that moment.
LogIn(u) ==
    /\ u \in People
    /\ user[u].status = "active"
    /\ InCharge(u)
    /\ user' = [user EXCEPT ![u].sessions = @ \cup {user[u].company}]
    /\ UNCHANGED <<company, invitation, unit, last, req>>

\* inviteUser, inviteAdminUser, and register, which names no department: the company and the
\* department are foreign keys, nobody compares them.
PlatformInvite(e, role, dept, c) ==
    /\ company[c] # None
    /\ dept = None \/ IsDepartment(dept)
    /\ AddUser(e, c, role, "pending", dept, dept # None)
    /\ UNCHANGED <<company, invitation, unit, req>>

\* suspendUser, reactivateUser; verifyEmail approves any account, as completeRegistration
\* does a pending one.
PlatformStanding(u, status) ==
    /\ u \in People
    /\ status = "suspended" => user[u].status # "suspended"
    /\ status = "active" => user[u].status = "suspended"
    /\ user' = [user EXCEPT ![u].status = status, ![u].held = TRUE]
    /\ UNCHANGED <<company, invitation, unit, last, req>>

\* updateUser of the platform: an absent field is kept, a department or company given as null
\* (here 0) is cleared.
Recast(row, role, dept, c) ==
    [row EXCEPT !.role       = IF role = None THEN @ ELSE role,
                !.department = CASE dept = None -> @ [] dept = 0 -> None [] OTHER -> dept,
                !.placed     = @ \/ dept \in Units,
                !.company    = CASE c = None -> @ [] c = 0 -> None [] OTHER -> c,
                !.homes      = CASE c = None -> @ [] c = 0 -> @ \cup {None} [] OTHER -> @ \cup {c},
                !.recast     = @ \/ role # None \/ c # None]

\* The department stays with a user who is moved, and he leads what he led.
PlatformEdit(u, role, dept, c) ==
    /\ u \in People
    /\ dept \in {None, 0} \/ IsDepartment(dept)
    /\ c \in Companies => company[c] # None
    /\ user' = [user EXCEPT ![u] = Recast(@, role, dept, c)]
    /\ UNCHANGED <<company, invitation, unit, last, req>>

-----------------------------------------------------------------------------
(* Invitations.                                                             *)

Invitable(by, e) ==
    \A u \in WithEmail(e) : user[u].company = user[by].company /\ user[u].status # "active"

InviteRead(r, by, e, role, dept) ==
    /\ Manager(by)
    /\ Invitable(by, e)
    /\ Begin(r, [op |-> "expire", by |-> by, email |-> e, role |-> role, department |-> dept])
    /\ UNCHANGED <<company, user, invitation, unit, last>>

\* updateMany: the pending ones of the address, whoever sent them.  Then the inviter is read.
ExpireEarlier(r) ==
    /\ At(r, "expire")
    /\ invitation' = Settled(req[r].email, "expired")
    /\ LET q == req[r]
       IN  IF q.by \in People
           THEN req' = [req EXCEPT ![r] = [op |-> "issue", by |-> q.by,
                    company |-> user[q.by].company, email |-> q.email, role |-> q.role,
                    department |-> q.department, seen |-> Sent]]
           ELSE End(r)
    /\ UNCHANGED <<company, user, unit, last>>

\* The inviter and the department are foreign keys; whose department it is, is not looked at.
InviteIssue(r) ==
    /\ At(r, "issue")
    /\ LET q == req[r]
       IN  /\ q.by \in People
           /\ q.company # None
           /\ q.department = None \/ IsDepartment(q.department)
           /\ last.invitations < MaxInvitations
           /\ last' = [last EXCEPT !.invitations = @ + 1]
           /\ invitation' = [invitation EXCEPT ![last.invitations + 1] =
                NewInvitation(q.email, q.company, q.by, q.role, q.department,
                              q.department # None, q.seen)]
    /\ End(r)
    /\ UNCHANGED <<company, user, unit>>

DeleteInvitation(by, i) ==
    /\ Manager(by) /\ InCharge(by)
    /\ i \in Sent
    /\ invitation[i].company = user[by].company
    /\ invitation' = [invitation EXCEPT ![i] = None]
    /\ UNCHANGED <<company, user, unit, last, req>>

\* completeSignup: the token is checked, the user created, the invitation marked.
\* open is what was pending when the request began.
JoinRead(r, i) ==
    /\ i \in Sent
    /\ invitation[i].status = "pending"
    /\ Begin(r, [op |-> "join", token |-> i, as |-> invitation[i],
                 open |-> {j \in Sent : invitation[j].status = "pending"}])
    /\ UNCHANGED <<company, user, invitation, unit, last>>

JoinCreate(r) ==
    /\ At(r, "join")
    /\ LET as == req[r].as
       IN  /\ as.department = None \/ IsDepartment(as.department)
           /\ AddUser(as.email, as.company, as.role, "active", as.department, as.placed)
    /\ Goto(r, "accept")
    /\ UNCHANGED <<company, invitation, unit>>

JoinAccept(r) ==
    /\ At(r, "accept")
    /\ req[r].token \in Sent
    /\ invitation' = [invitation EXCEPT ![req[r].token].status = "accepted"]
    /\ End(r)
    /\ UNCHANGED <<company, user, unit, last>>

-----------------------------------------------------------------------------
(* Company users.                                                           *)

Manages(by, u) ==
    /\ Manager(by) /\ InCharge(by)
    /\ u \in People
    /\ user[u].company = user[by].company
    /\ user[u].role # "admin"

\* updateCompanyUser: any role, any department, any status.
Edited(row, role, dept, status) ==
    [row EXCEPT !.role       = IF role = None THEN @ ELSE role,
                !.department = IF dept = None THEN @ ELSE dept,
                !.placed     = @ \/ dept # None,
                !.status     = IF status = None THEN @ ELSE status]

UpdateUser(by, u, role, dept, status) ==
    /\ Manages(by, u)
    /\ dept = None \/ IsDepartment(dept)
    /\ user' = [user EXCEPT ![u] = Edited(@, role, dept, status)]
    /\ UNCHANGED <<company, invitation, unit, last, req>>

Leads(u) == \E n \in Built : unit[n].lead = u

\* deleteCompanyUser; the invitations somebody sent keep him by their foreign key.
DeleteUser(by, u) ==
    /\ Manages(by, u)
    /\ ~Leads(u)
    /\ \A i \in Sent : invitation[i].by # u
    /\ user' = [user EXCEPT ![u] = None]
    /\ UNCHANGED <<company, invitation, unit, last, req>>

-----------------------------------------------------------------------------
(* Departments and subsidiaries.                                            *)

NameFree(kind, c, name, but) ==
    \A n \in Built \ {but} : <<unit[n].kind, unit[n].company, unit[n].name>> # <<kind, c, name>>

\* A request to build (unit 0) or change a unit.
UnitRequest(kind, by, c, n, name, move) ==
    [op |-> "unit", kind |-> kind, by |-> by, company |-> c, unit |-> n,
     name |-> name, move |-> move, lead |-> None, email |-> None, doomed |-> FALSE]

\* The company somebody acts for: that of a token for departments, that of the row for
\* subsidiaries, where building one also looks at the role in the row.
ActsFor(by, kind, n) ==
    IF kind = "department" THEN user[by].sessions
    ELSE IF n = 0 => InCharge(by) THEN {user[by].company} ELSE {}

May(by, kind, c, n) ==
    /\ Manager(by)
    /\ c \in Companies \cap ActsFor(by, kind, n)
    /\ n = 0 \/ (n \in Built /\ unit[n].kind = kind /\ unit[n].company = c)

\* Nobody is named: whoever builds a unit leads it, a change keeps the lead.
NameNobody(r, kind, by, c, n, name, move) ==
    /\ May(by, kind, c, n)
    /\ Begin(r, [UnitRequest(kind, by, c, n, name, move) EXCEPT
            !.lead = IF n = 0 THEN by ELSE None])
    /\ UNCHANGED <<company, user, invitation, unit, last>>

\* Mutant of Colleague: the company of the user is not compared.
Anybody(c, id) == id \in People

Colleague(c, id) == id \in People /\ user[id].company = c

\* The number of a colleague.  Only a new subsidiary leaves his invitations alone.
NameColleague(r, kind, by, c, n, name, move, id) ==
    /\ May(by, kind, c, n)
    /\ Colleague(c, id)
    /\ LET q == [UnitRequest(kind, by, c, n, name, move) EXCEPT !.lead = id]
       IN  Begin(r, IF kind = "subsidiary" /\ n = 0
                    THEN q
                    ELSE [q EXCEPT !.op = "cancel", !.email = user[id].email])
    /\ UNCHANGED <<company, user, invitation, unit, last>>

\* A user without a company comes to this one, one without a department to this one.
Adopted(row, c, n) ==
    [row EXCEPT !.company    = c,
                !.homes      = @ \cup {c},
                !.department = IF n # 0 /\ @ = None THEN n ELSE @,
                !.placed     = @ /\ ~(n # 0 /\ row.department = None)]

\* Mutant of Resolve: the twin of the subsidiaries stores its number as a department's.
ResolveAlike(kind, c, n, e) ==
    \/ /\ WithEmail(e) = {}
       /\ AddUser(e, c, "subadmin", "pending", IF n # 0 THEN n ELSE None, FALSE)
    \/ \E u \in WithEmail(e) :
          /\ user[u].company = c
          /\ UNCHANGED <<user, last>>

\* resolveLeadByEmail and its twin: somebody of the company, or of none, with that address, or
\* a new pending user.  Building a subsidiary takes nobody in.
Resolve(kind, c, n, e) ==
    LET dept == IF kind = "department" THEN n ELSE 0
    IN  \/ /\ WithEmail(e) = {}
           /\ AddUser(e, c, "subadmin", "pending", IF dept # 0 THEN dept ELSE None, FALSE)
        \/ \E u \in WithEmail(e) :
              /\ \/ user[u].company = c
                 \/ user[u].company = None /\ ~(kind = "subsidiary" /\ n = 0)
              /\ user' = [user EXCEPT ![u] = Adopted(@, c, dept)]
              /\ UNCHANGED last

\* An address, as given or that of the invitation whose number was sent for a colleague's.
\* A changed department cannot be written with an address in the data: leadEmail is no column.
NameAddress(r, kind, by, c, n, name, move, e, given) ==
    /\ May(by, kind, c, n)
    /\ Resolve(kind, c, n, e)
    /\ LET u == CHOOSE u \in Users : user'[u] # None /\ user'[u].email = e
       IN  Begin(r, [UnitRequest(kind, by, c, n, name, move) EXCEPT
                !.op = "cancel", !.lead = u, !.email = e,
                !.doomed = given /\ kind = "department" /\ n # 0])
    /\ UNCHANGED <<company, invitation, unit>>

NameInvited(r, kind, by, c, n, name, move, id) ==
    /\ May(by, kind, c, n)
    /\ ~Colleague(c, id)
    /\ id \in Sent
    /\ invitation[id].company = c
    /\ NameAddress(r, kind, by, c, n, name, move, Lower[invitation[id].email], FALSE)

CancelInvitations(r) ==
    /\ At(r, "cancel")
    /\ invitation' = Settled(req[r].email, "cancelled")
    /\ Goto(r, "unit")
    /\ UNCHANGED <<company, user, unit, last>>

NewUnit(kind, c, name, lead, by) ==
    [kind |-> kind, company |-> c, name |-> name, lead |-> lead, by |-> by]

\* Building: the unique name and the lead's foreign key decide.
UnitCreate(r) ==
    /\ At(r, "unit") /\ req[r].unit = 0
    /\ LET q == req[r]
       IN  /\ NameFree(q.kind, q.company, q.name, 0)
           /\ q.lead \in People
           /\ last.units < MaxUnits
           /\ last' = [last EXCEPT !.units = @ + 1]
           /\ unit' = [unit EXCEPT ![last.units + 1] =
                NewUnit(q.kind, q.company, q.name, q.lead, "request")]
           /\ IF q.kind = "department"
              THEN req' = [req EXCEPT ![r] =
                    [op |-> "enlist", unit |-> last.units + 1, lead |-> q.lead]]
              ELSE End(r)
    /\ UNCHANGED <<company, user, invitation>>

\* The lead of a new department becomes a member of it.
Enlist(r) ==
    /\ At(r, "enlist")
    /\ LET q == req[r]
       IN  /\ q.lead \in People
           /\ q.unit \in Built
           /\ user' = [user EXCEPT ![q.lead].department = q.unit, ![q.lead].placed = FALSE]
    /\ End(r)
    /\ UNCHANGED <<company, invitation, unit, last>>

\* Changing: the ownership of the unit is not looked at again.
UnitUpdate(r) ==
    /\ At(r, "unit") /\ req[r].unit # 0
    /\ LET q == req[r]
           n == q.unit
           c == IF q.move = None THEN unit[n].company ELSE q.move
           l == IF q.lead = None THEN unit[n].lead ELSE q.lead
       IN  /\ ~q.doomed
           /\ n \in Built
           /\ l \in People
           /\ NameFree(q.kind, c, q.name, n)
           /\ unit' = [unit EXCEPT ![n] = NewUnit(q.kind, c, q.name, l,
                CASE q.lead # None /\ c = q.company -> "request"
                  [] q.lead = None /\ c = @.company -> @.by
                  [] OTHER -> "move")]
    /\ End(r)
    /\ UNCHANGED <<company, user, invitation, last>>

\* Deleting a department leaves its members and its invitations without one.
DeleteUnit(by, n) ==
    /\ n # 0
    /\ \E c \in Companies, kind \in Kinds : May(by, kind, c, n)
    /\ unit' = [unit EXCEPT ![n] = None]
    /\ user' = [u \in Users |->
            IF u \in People /\ user[u].department = n
            THEN [user[u] EXCEPT !.department = None] ELSE user[u]]
    /\ invitation' = [i \in Invitations |->
            IF i \in Sent /\ invitation[i].department = n
            THEN [invitation[i] EXCEPT !.department = None] ELSE invitation[i]]
    /\ UNCHANGED <<company, last, req>>

-----------------------------------------------------------------------------
(* Company setup: one transaction; a list is a sequence of these.           *)

SetsUp(by, c) == Manager(by) /\ c \in Companies \cap user[by].sessions

SetupUnit(kind, c, name, lead) ==
    /\ NameFree(kind, c, name, 0)
    /\ last.units < MaxUnits
    /\ unit' = [unit EXCEPT ![last.units + 1] = NewUnit(kind, c, name, lead, "setup")]

\* A subsidiary led by a colleague or by whoever sets it up; a department by anybody.
SetupExisting(kind, by, c, name, lead) ==
    /\ SetsUp(by, c)
    /\ lead \in People
    /\ kind = "subsidiary" => lead = by \/ Colleague(c, lead)
    /\ SetupUnit(kind, c, name, lead)
    /\ last' = [last EXCEPT !.units = @ + 1]
    /\ UNCHANGED <<company, user, invitation, req>>

\* A subsidiary led by somebody new: a pending user and an invitation, both.
SetupNewcomer(by, c, name, e) ==
    /\ SetsUp(by, c)
    /\ WithEmail(e) = {}
    /\ last.users < MaxUsers /\ last.invitations < MaxInvitations
    /\ SetupUnit("subsidiary", c, name, last.users + 1)
    /\ user' = [user EXCEPT ![last.users + 1] = NewUser(e, c, "subadmin", "pending", None, FALSE)]
    /\ invitation' = [invitation EXCEPT ![last.invitations + 1] =
            NewInvitation(e, c, by, "subadmin", None, FALSE, {})]
    /\ last' = [users |-> last.users + 1, invitations |-> last.invitations + 1,
                units |-> last.units + 1]
    /\ UNCHANGED <<company, req>>

\* A user invited into one of the departments set up.
SetupInvite(by, c, e, role, dept) ==
    /\ SetsUp(by, c)
    /\ WithEmail(e) = {}
    /\ dept # None => IsDepartment(dept) /\ unit[dept].company = c
    /\ last.invitations < MaxInvitations
    /\ last' = [last EXCEPT !.invitations = @ + 1]
    /\ invitation' = [Settled(e, "expired") EXCEPT ![last.invitations + 1] =
            NewInvitation(e, c, by, role, dept, FALSE, Sent)]
    /\ UNCHANGED <<company, user, unit, req>>

-----------------------------------------------------------------------------

\* A request ends between two calls: a key refused the write, a row is gone, an error.
Fail(r) ==
    /\ req[r] # None
    /\ company' = IF At(r, "activate")
                  THEN [company EXCEPT ![req[r].company].short = TRUE]
                  ELSE company
    /\ End(r)
    /\ UNCHANGED <<user, invitation, unit, last>>

BeginUnit(r) ==
    \E kind \in Kinds, by \in Users, c \in Companies, n \in Units \cup {0}, name \in Names,
       move \in Companies \cup {None} :
        /\ move # None => kind = "subsidiary" /\ n # 0
        /\ \/ NameNobody(r, kind, by, c, n, name, move)
           \/ \E id \in Users : NameColleague(r, kind, by, c, n, name, move, id)
           \/ \E e \in Emails : NameAddress(r, kind, by, c, n, name, move, Lower[e], TRUE)
           \/ \E id \in Invitations : NameInvited(r, kind, by, c, n, name, move, id)

Continue(r) ==
    \/ StatusWrite(r) \/ StatusActivate(r)
    \/ ExpireEarlier(r) \/ InviteIssue(r)
    \/ JoinCreate(r) \/ JoinAccept(r)
    \/ CancelInvitations(r) \/ UnitCreate(r) \/ Enlist(r) \/ UnitUpdate(r)
    \/ Fail(r)

\* The platform's own calls.
Platform ==
    \/ \E c \in Companies, s \in {"active", "suspended"} : PlatformStatus(c, s)
    \/ \E e \in Emails, role \in Roles, dept \in Units \cup {None}, c \in Companies :
          PlatformInvite(e, role, dept, c)
    \/ \E u \in Users, status \in {"active", "approved", "suspended"} : PlatformStanding(u, status)
    \/ \E u \in Users, role \in Roles \cup {None}, dept \in Units \cup {None, 0},
          c \in Companies \cup {None, 0} : PlatformEdit(u, role, dept, c)

\* What a manager does in one call.
Managing(by) ==
    \/ \E i \in Invitations : DeleteInvitation(by, i)
    \/ \E u \in Users, role \in Roles \cup {None}, dept \in Units \cup {None},
          status \in Statuses \cup {None} : UpdateUser(by, u, role, dept, status)
    \/ \E u \in Users : DeleteUser(by, u)
    \/ \E n \in Units : DeleteUnit(by, n)
    \/ \E c \in Companies, kind \in Kinds, name \in Names, lead \in Users :
          SetupExisting(kind, by, c, name, lead)
    \/ \E c \in Companies, name \in Names, e \in Emails : SetupNewcomer(by, c, name, e)
    \/ \E c \in Companies, e \in Emails, role \in Roles, dept \in Units \cup {None} :
          SetupInvite(by, c, e, role, dept)

Next ==
    \/ \E e \in Emails, c \in Companies : SignUp(e, c)
    \/ \E r \in Slots :
          \/ \E c \in Companies, s \in {"active", "suspended"} : StatusRead(r, c, s)
          \/ \E by \in Users, e \in Emails, role \in Roles, dept \in Units \cup {None} :
                InviteRead(r, by, e, role, dept)
          \/ \E i \in Invitations : JoinRead(r, i)
          \/ BeginUnit(r)
          \/ Continue(r)
    \/ \E u \in Users : LogIn(u) \/ Managing(u)
    \/ Platform

Spec == Init /\ [][Next]_vars

-----------------------------------------------------------------------------
(* Properties.                                                              *)

\* The tables and the requests in progress hold what the code puts there, and a row a table
\* has is one its sequence gave: nothing is referred to by a number that is still to come.
TypeOK ==
    /\ company \in [Companies -> CompanyRow \cup {None}]
    /\ user \in [Users -> UserRow \cup {None}]
    /\ invitation \in [Invitations -> InvitationRow \cup {None}]
    /\ unit \in [Units -> UnitRow \cup {None}]
    /\ last \in [users : 0..MaxUsers, invitations : 0..MaxInvitations, units : 0..MaxUnits]
    /\ req \in [Slots -> Request \cup {None}]
    /\ \A u \in People : u <= last.users
    /\ \A u \in People : user[u].department # None => IsDepartment(user[u].department)
    /\ \A n \in Built : n <= last.units /\ unit[n].lead \in People
    /\ \A i \in Sent : i <= last.invitations /\ invitation[i].by \in People

(***************************************************************************)
(* A department or subsidiary is led by somebody who is, or was until the  *)
(* platform moved him, of its company, and so are its members, whichever   *)
(* numbers users and invitations share, whatever company the token of a    *)
(* moved manager still names, and however requests overlap.  Excepted are  *)
(* departments of company setup, subsidiaries moved to another company,    *)
(* and members whom an invitation or an edit put there by hand.            *)
(***************************************************************************)
WithinOneCompany ==
    /\ \A n \in Built : unit[n].by = "request" => unit[n].company \in user[unit[n].lead].homes
    /\ \A u \in People :
          user[u].department # None /\ ~user[u].placed
             => unit[user[u].department].company \in user[u].homes

(***************************************************************************)
(* Of two pending invitations of an address the later one was issued by a  *)
(* request that did not see the earlier one, or by company setup for a new *)
(* lead: inviting again, through either service and from either company,   *)
(* leaves one token.                                                       *)
(***************************************************************************)
OneTokenPerAddress ==
    \A e \in Emails : \A i, j \in Open(e) : i < j => i \notin invitation[j].seen

(***************************************************************************)
(* An invitation leaves pending once: what expired, was cancelled or was   *)
(* accepted stays so, except that a sign-up which had begun while it was   *)
(* pending still accepts it.                                               *)
(***************************************************************************)
SettledOnce ==
    [][ \A i \in Sent :
          /\ invitation[i].status # "pending"
          /\ invitation'[i] # None
          /\ invitation'[i].status # invitation[i].status
          => /\ invitation'[i].status = "accepted"
             /\ \E r \in Slots : At(r, "accept") /\ req[r].token = i /\ i \in req[r].open ]_vars

(***************************************************************************)
(* After updateStatus made a company active, the administrator it had read *)
(* is still one of the company and his account is active, the status       *)
(* validateUser asks for, unless the platform changed his account since.   *)
(* Excepted are a company without an administrator at that time, a second  *)
(* call still to come or that never came, and the platform's own           *)
(* updateStatus, which does not reach the administrator.                   *)
(***************************************************************************)
Reached(row, c) ==
    \/ row.recast
    \/ /\ row.role = "admin" /\ row.company = c
       /\ row.status = "active" \/ row.held

ActivationReachesAdmin ==
    \A c \in Companies :
        /\ company[c] # None
        /\ company[c].status = "active" /\ company[c].by = "company" /\ ~company[c].short
        /\ company[c].admin \in People
        => \/ Reached(user[company[c].admin], c)
           \/ \E r \in Slots :
                 At(r, "activate") /\ req[r].company = c /\ req[r].admin = company[c].admin
=============================================================================
