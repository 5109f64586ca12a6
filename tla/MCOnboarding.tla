---------------------------- MODULE MCOnboarding ----------------------------
(***************************************************************************)
(* Instances of Onboarding for TLC: a company registering and its status   *)
(* changing, or two active companies whose managers send MaxRequests       *)
(* requests, about newcomers or about departments and subsidiaries.        *)
(***************************************************************************)
EXTENDS Onboarding, TLC

CONSTANTS MaxRequests, c1, c2, boss1, boss2, ada, ADA

VARIABLES focus, begun

mcVars == <<vars, focus, begun>>

\* ADA is the address ada written in capitals.
MCLower == [e \in {boss1, boss2, ada, ADA} |-> IF e = ADA THEN ada ELSE e]

\* An active account of one company; a manager has logged in.
Account(e, c, role) ==
    [NewUser(e, c, role, "active", None, FALSE) EXCEPT
        !.sessions = IF role = "member" THEN {} ELSE {c}]

Running(admin) == [status |-> "active", by |-> "company", admin |-> admin, short |-> FALSE]

\* Two companies with an administrator each, and a member and some unit of the first.
Started(members, units) ==
    /\ company = [c \in Companies |-> Running(IF c = c1 THEN 1 ELSE 2)]
    /\ user = [u \in Users |-> CASE u = 1 -> Account(boss1, c1, "admin")
                                 [] u = 2 -> Account(boss2, c2, "admin")
                                 [] u = 3 /\ members = 3 -> Account(ada, c1, "member")
                                 [] OTHER -> None]
    /\ invitation = [i \in Invitations |-> None]
    /\ unit \in units
    /\ last = [users |-> members, invitations |-> 0, units |-> Cardinality(Built)]
    /\ req = [r \in Slots |-> None]

aName == CHOOSE n \in Names : TRUE

NoUnits == [n \in Units |-> None]

FirstUnits ==
    {NoUnits} \cup
    {[NoUnits EXCEPT ![1] = NewUnit(kind, c1, aName, 1, "request")] : kind \in Kinds}

MCInit ==
    /\ begun = 0
    /\ \/ focus = "registration" /\ Init
       \/ focus = "newcomers" /\ Started(2, {NoUnits})
       \/ focus = "units" /\ Started(3, FirstUnits)

\* The beginnings of requests each focus looks at, and the operations of one step.
Registration ==
    \/ \E e \in Emails, c \in Companies : SignUp(e, c)
    \/ \E c \in Companies, s \in {"active", "suspended"} :
          PlatformStatus(c, s) \/ \E r \in Slots : StatusRead(r, c, s)
    \/ \E u \in Users :
          \/ LogIn(u)
          \/ \E status \in {"active", "approved", "suspended"} : PlatformStanding(u, status)
          \/ \E role \in {"member", None}, c \in Companies \cup {None, 0} :
                PlatformEdit(u, role, None, c)
    \/ \E c \in Companies : PlatformInvite(ada, "admin", None, c)

Newcomers ==
    \/ \E r \in Slots :
          \/ \E by \in Users, e \in {ada, ADA} : InviteRead(r, by, e, "subadmin", None)
          \/ \E i \in Invitations : JoinRead(r, i)
          \/ \E by \in {1, 2}, c \in Companies, e \in {ada, ADA} :
                NameAddress(r, "department", by, c, 0, aName, None, Lower[e], TRUE)
          \/ \E kind \in Kinds, id \in Invitations :
                NameInvited(r, kind, 1, c1, 0, aName, None, id)
          \/ \E id \in Users : NameColleague(r, "department", 1, c1, 0, aName, None, id)
    \/ \E by \in {1, 2} :
          \/ \E i \in Invitations : DeleteInvitation(by, i)
          \/ \E u \in Users : DeleteUser(by, u) \/ UpdateUser(by, u, None, None, "suspended")
          \/ \E c \in Companies :
                SetupNewcomer(by, c, aName, ada) \/ SetupInvite(by, c, ada, "member", None)

\* The third user is moved, or left without a company, as the first is.
Building ==
    \/ \E r \in Slots : BeginUnit(r)
    \/ \E r \in Slots, by \in {1, 2}, dept \in Units : InviteRead(r, by, ADA, "member", dept)
    \/ \E r \in Slots, i \in Invitations : JoinRead(r, i)
    \/ \E u \in {1, 3} :
          \/ LogIn(u)
          \/ \E role \in {"subadmin", None}, c \in {c2, 0} : PlatformEdit(u, role, None, c)
    \/ \E dept \in Units \cup {0} : PlatformEdit(3, None, dept, None)
    \/ \E dept \in Units : PlatformInvite(ADA, "subadmin", dept, c2)
    \/ \E by \in Users :
          \/ \E u \in Users, role \in {"admin", None}, dept \in Units :
                UpdateUser(by, u, role, dept, None)
          \/ \E u \in Users : DeleteUser(by, u)
          \/ \E n \in Units : DeleteUnit(by, n)
          \/ \E c \in Companies :
                \/ \E kind \in Kinds, lead \in Users : SetupExisting(kind, by, c, aName, lead)
                \/ \E dept \in Units : SetupInvite(by, c, ADA, "member", dept)

MCNext ==
    /\ UNCHANGED focus
    /\ \/ /\ begun < MaxRequests
          /\ begun' = begun + 1
          /\ CASE focus = "registration" -> Registration
               [] focus = "newcomers" -> Newcomers
               [] focus = "units" -> Building
       \/ UNCHANGED begun /\ \E r \in Slots : Continue(r)

MCSpec == MCInit /\ [][MCNext]_mcVars

Interchangeable == Permutations(Slots)
=============================================================================
