------------------------------ MODULE Accounts ------------------------------
(***************************************************************************)
(* The accounts of the platform: registration, one-time codes, passwords   *)
(* and sessions (AuthService, EsgAuthService, OtpService, AuthController), *)
(* the invitation of platform administrators (AdminAuthService),           *)
(* changePassword (AdminSettingsService), and whoever sets a status: the   *)
(* platform's suspension and reactivation (AdminUsersService), the         *)
(* activation of a company (CompanyService), a manager of the company      *)
(* (CompanyUsersService), who can also delete.                             *)
(*                                                                         *)
(* A request reads the account, compares, and writes with a later call.    *)
(* What the reads do not look at, as the status a manager asks for, is     *)
(* chosen at the write.  Codes are numbered as they are drawn, so two      *)
(* never coincide; hashes are what they were made of, time only passes as  *)
(* Expire.  Of a role it matters here whether it is company_esg_admin; of  *)
(* companies, only that a manager and his target are of one, which every   *)
(* account may be.  Left out because                                       *)
(* no request can get through them: registerAdmin (company 0 does not      *)
(* exist), otp/send and otp/verify (no user with a userId is ever put in   *)
(* the request), AuthService.verifyEmail and refresh (nobody calls them).  *)
(***************************************************************************)
EXTENDS Integers, FiniteSets

CONSTANTS
    None,               \* null, and the empty password of an invited user
    Users,              \* by their unique addresses
    Passwords,
    Slots,              \* requests in progress at once
    MaxCodes            \* codes drawn

Statuses == {"pending", "active", "approved", "suspended", "disabled"}

\* admin: the role is company_esg_admin.  bcrypt: the stored value is a hash a code can be
\* compared with, not a signed token.
AccountRow == [status : Statuses, password : Passwords \cup {None}, admin : BOOLEAN,
               code : [code : Nat, bcrypt : BOOLEAN]]

ASSUME AccountsAssumption ==
    MaxCodes \in Nat /\ None \notin Passwords \cup Nat \cup Slots \cup AccountRow

VARIABLES
    user,               \* Users -> row or None
    drawn,              \* codes drawn so far
    spent,              \* those that have set a password
    sessions,           \* users with a refresh token that is accepted
    signed,             \* those with one in the table, expired or not
    access,             \* users with an access token they can send
    placeholder,        \* whether a company has the fixed name of social sign-ups
    req                 \* slot -> request in progress or None

accountVars == <<user, drawn, spent, sessions, signed, access, placeholder, req>>

\* The columns of an account nobody sent a code to.
NoCode == [code |-> 0, bcrypt |-> FALSE]

Row(status, password, admin) ==
    [status |-> status, password |-> password, admin |-> admin, code |-> NoCode]

Known == {u \in Users : user[u] # None}

AccountsInit ==
    /\ user = [u \in Users |-> None]
    /\ drawn = 0 /\ spent = {}
    /\ sessions = {} /\ signed = {} /\ access = {}
    /\ placeholder = FALSE
    /\ req = [r \in Slots |-> None]

Begin(r, q) == req[r] = None /\ req' = [req EXCEPT ![r] = q]
At(r, op)   == req[r] # None /\ req[r].op = op
Goto(r, op) == req' = [req EXCEPT ![r].op = op]
End(r)      == req' = [req EXCEPT ![r] = None]

-----------------------------------------------------------------------------
(* Registration.                                                            *)

\* register: a pending user of the role asked for, who gets an access token at once.
Register(u, p, admin) ==
    /\ user[u] = None
    /\ user' = [user EXCEPT ![u] = Row("pending", p, admin)]
    /\ access' = access \cup {u}
    /\ UNCHANGED <<drawn, spent, sessions, signed, placeholder, req>>

\* registerCompany: the pending administrator of a new company.
RegisterCompany(u, p) ==
    /\ user[u] = None
    /\ user' = [user EXCEPT ![u] = Row("pending", p, TRUE)]
    /\ UNCHANGED <<drawn, spent, sessions, signed, access, placeholder, req>>

\* completeSignup of an invitation to a company: active at once, in the role it names.
CompleteSignup(u, p, admin) ==
    /\ user[u] = None
    /\ user' = [user EXCEPT ![u] = Row("active", p, admin)]
    /\ UNCHANGED <<drawn, spent, sessions, signed, access, placeholder, req>>

\* inviteAdminUser and inviteUser: a pending user without a password.
InvitePlatformUser(u, admin) ==
    /\ user[u] = None
    /\ user' = [user EXCEPT ![u] = Row("pending", None, admin)]
    /\ UNCHANGED <<drawn, spent, sessions, signed, access, placeholder, req>>

Completable(u) == user[u].status = "pending"

\* verifyInviteToken and completeRegistration: the token names the user, and works as long
\* as he is pending when it is looked at.
CompleteRead(r, u, p) ==
    /\ u \in Known
    /\ Completable(u)
    /\ Begin(r, [op |-> "complete", user |-> u, password |-> p, standing |-> user[u].status])
    /\ UNCHANGED <<user, drawn, spent, sessions, signed, access, placeholder>>

CompleteWrite(r) ==
    /\ At(r, "complete")
    /\ user' = [user EXCEPT ![req[r].user].status = "approved",
                            ![req[r].user].password = req[r].password]
    /\ End(r)
    /\ UNCHANGED <<drawn, spent, sessions, signed, access, placeholder>>

\* socialLogin of somebody new: a company of a fixed, unique name, then the user.
SocialCompany(r, u) ==
    /\ user[u] = None
    /\ ~placeholder
    /\ placeholder' = TRUE
    /\ Begin(r, [op |-> "social", user |-> u])
    /\ UNCHANGED <<user, drawn, spent, sessions, signed, access>>

SocialUser(r) ==
    /\ At(r, "social")
    /\ user[req[r].user] = None
    /\ user' = [user EXCEPT ![req[r].user] = Row("pending", None, TRUE)]
    /\ End(r)
    /\ UNCHANGED <<drawn, spent, sessions, signed, access, placeholder>>

RenamePlaceholder ==
    /\ placeholder
    /\ placeholder' = FALSE
    /\ UNCHANGED <<user, drawn, spent, sessions, signed, access, req>>

-----------------------------------------------------------------------------
(* One-time codes.                                                          *)

Draw(u, bcrypt) ==
    /\ drawn < MaxCodes
    /\ drawn' = drawn + 1
    /\ user' = [user EXCEPT ![u].code = [code |-> drawn + 1, bcrypt |-> bcrypt]]

\* storeOtp for register and resendToken, sendPasswordResetOtp.
IssueCode(u) ==
    /\ u \in Known
    /\ Draw(u, TRUE)
    /\ UNCHANGED <<spent, sessions, signed, access, placeholder, req>>

\* otp/resend: storeOtp, and then sendOtp, which stores the same code signed.
ResendStore(r, u) ==
    /\ u \in Known
    /\ Draw(u, TRUE)
    /\ Begin(r, [op |-> "sign", user |-> u, code |-> drawn + 1])
    /\ UNCHANGED <<spent, sessions, signed, access, placeholder>>

Signed(code) == [code |-> code, bcrypt |-> FALSE]

ResendSign(r) ==
    /\ At(r, "sign")
    /\ req[r].user \in Known
    /\ user' = [user EXCEPT ![req[r].user].code = Signed(req[r].code)]
    /\ End(r)
    /\ UNCHANGED <<drawn, spent, sessions, signed, access, placeholder>>

Matches(u, code) == user[u].code.bcrypt /\ user[u].code.code = code

\* A stored code is not accepted after its time; that it is still stored makes no difference.
Expire(u) ==
    /\ u \in Known /\ user[u].code # NoCode
    /\ user' = [user EXCEPT ![u].code = NoCode]
    /\ UNCHANGED <<drawn, spent, sessions, signed, access, placeholder, req>>

\* AdminAuthService.verifyEmail: whatever the status is, and the code stays.
VerifyRead(r, u, code) ==
    /\ u \in Known
    /\ Matches(u, code)
    /\ Begin(r, [op |-> "verify", user |-> u])
    /\ UNCHANGED <<user, drawn, spent, sessions, signed, access, placeholder>>

VerifyWrite(r) ==
    /\ At(r, "verify")
    /\ user' = [user EXCEPT ![req[r].user].status = "approved"]
    /\ End(r)
    /\ UNCHANGED <<drawn, spent, sessions, signed, access, placeholder>>

-----------------------------------------------------------------------------
(* Passwords.                                                               *)

\* resetPassword; fresh tells whether its code had set no password yet when it was compared.
ResetRead(r, u, code, p) ==
    /\ u \in Known
    /\ Matches(u, code)
    /\ Begin(r, [op |-> "reset", user |-> u, code |-> code, password |-> p,
                 fresh |-> code \notin spent])
    /\ UNCHANGED <<user, drawn, spent, sessions, signed, access, placeholder>>

\* Mutant of AfterReset: the hash is left in the row.
CodeKept(row, p) == [row EXCEPT !.password = p]

AfterReset(row, p) == [row EXCEPT !.password = p, !.code = NoCode]

ResetWrite(r) ==
    /\ At(r, "reset")
    /\ req[r].user \in Known
    /\ user' = [user EXCEPT ![req[r].user] = AfterReset(@, req[r].password)]
    /\ spent' = spent \cup {req[r].code}
    /\ End(r)
    /\ UNCHANGED <<drawn, sessions, signed, access, placeholder>>

\* changePassword of a signed-in administrator.
ChangeRead(r, u, current, p) ==
    /\ u \in Known
    /\ u \in access
    /\ current # None /\ user[u].password = current
    /\ Begin(r, [op |-> "change", user |-> u, password |-> p])
    /\ UNCHANGED <<user, drawn, spent, sessions, signed, access, placeholder>>

ChangeWrite(r) ==
    /\ At(r, "change")
    /\ user' = [user EXCEPT ![req[r].user].password = req[r].password]
    /\ End(r)
    /\ UNCHANGED <<drawn, spent, sessions, signed, access, placeholder>>

-----------------------------------------------------------------------------
(* Sessions.                                                                *)

\* validateUser, and socialLogin of somebody known: an active account.
LoginRead(r, u, p) ==
    /\ u \in Known
    /\ user[u].status = "active"
    /\ p = None \/ user[u].password = p                 \* None: through the provider
    /\ Begin(r, [op |-> "login", user |-> u])
    /\ UNCHANGED <<user, drawn, spent, sessions, signed, access, placeholder>>

\* login: both tokens; the account is not looked at again.
LoginWrite(r) ==
    /\ At(r, "login")
    /\ sessions' = sessions \cup {req[r].user}
    /\ signed' = signed \cup {req[r].user}
    /\ access' = access \cup {req[r].user}
    /\ End(r)
    /\ UNCHANGED <<user, drawn, spent, placeholder>>

\* The refresh endpoint and the silent refresh of status: the token alone is looked at.
Refresh(u) ==
    /\ u \in sessions
    /\ access' = access \cup {u}
    /\ UNCHANGED <<user, drawn, spent, sessions, signed, placeholder, req>>

\* An access token expires, a refresh token does, or the cookies are cleared by logout,
\* which leaves the refresh token in the table.
Lapse(u) ==
    /\ \/ access' = access \ {u} /\ UNCHANGED sessions
       \/ sessions' = sessions \ {u} /\ UNCHANGED access
    /\ <<access, sessions>>' # <<access, sessions>>
    /\ UNCHANGED <<user, drawn, spent, signed, placeholder, req>>

-----------------------------------------------------------------------------
(* Standing: each reads the account and writes its status with a later call. *)

SuspendRead(r, u) ==
    /\ u \in Known
    /\ user[u].status # "suspended"
    /\ Begin(r, [op |-> "suspend", user |-> u])
    /\ UNCHANGED <<user, drawn, spent, sessions, signed, access, placeholder>>

\* To active, whatever the account was before it was suspended.
ReactivateRead(r, u) ==
    /\ u \in Known
    /\ user[u].status = "suspended"
    /\ Begin(r, [op |-> "reactivate", user |-> u, standing |-> user[u].status])
    /\ UNCHANGED <<user, drawn, spent, sessions, signed, access, placeholder>>

\* CompanyService.updateStatus to active: the administrator of the company becomes active,
\* whatever he was, a suspended one too.
ActivateRead(r, u) ==
    /\ u \in Known
    /\ user[u].admin
    /\ Begin(r, [op |-> "activate", user |-> u, admin |-> user[u].admin])
    /\ UNCHANGED <<user, drawn, spent, sessions, signed, access, placeholder>>

Decision == [suspend |-> "suspended", reactivate |-> "active", activate |-> "active"]

StandingWrite(r) ==
    /\ req[r] # None /\ req[r].op \in DOMAIN Decision
    /\ user' = [user EXCEPT ![req[r].user].status = Decision[req[r].op]]
    /\ End(r)
    /\ UNCHANGED <<drawn, spent, sessions, signed, access, placeholder>>

\* Mutant of Manageable: the role of the account is not looked at.
AnyMember(u) == u \in Known

Manageable(u) == u \in Known /\ ~user[u].admin

\* updateCompanyUser: any status, the platform's too, and any role.
ManageRead(r, u) ==
    /\ Manageable(u)
    /\ Begin(r, [op |-> "manage", user |-> u, admin |-> user[u].admin])
    /\ UNCHANGED <<user, drawn, spent, sessions, signed, access, placeholder>>

ManageWrite(r, status, admin) ==
    /\ At(r, "manage")
    /\ user' = [user EXCEPT ![req[r].user].status = status, ![req[r].user].admin = admin]
    /\ End(r)
    /\ UNCHANGED <<drawn, spent, sessions, signed, access, placeholder>>

\* AdminUsersService.updateUser: the platform gives a role.
Recast(u, admin) ==
    /\ u \in Known
    /\ user[u].admin # admin
    /\ user' = [user EXCEPT ![u].admin = admin]
    /\ UNCHANGED <<drawn, spent, sessions, signed, access, placeholder, req>>

\* These name the account by its address, so they go on if somebody takes it again.
ByAddress == {"reset", "sign", "social"}

\* deleteCompanyUser: refused by the foreign key of the tokens once the user has signed in.
\* What is in progress on the account finds it gone.
DeleteUser(u) ==
    /\ Manageable(u)
    /\ u \notin signed
    /\ user' = [user EXCEPT ![u] = None]
    /\ access' = access \ {u}
    /\ req' = [r \in Slots |-> IF req[r] # None /\ req[r].user = u /\ req[r].op \notin ByAddress
                               THEN None ELSE req[r]]
    /\ UNCHANGED <<drawn, spent, sessions, signed, placeholder>>

\* A request ends between two calls.
Fail(r) ==
    /\ req[r] # None
    /\ End(r)
    /\ UNCHANGED <<user, drawn, spent, sessions, signed, access, placeholder>>

Continue(r) ==
    \/ CompleteWrite(r) \/ SocialUser(r) \/ ResendSign(r) \/ VerifyWrite(r)
    \/ ResetWrite(r) \/ ChangeWrite(r) \/ LoginWrite(r) \/ StandingWrite(r) \/ Fail(r)
    \/ \E status \in Statuses, admin \in BOOLEAN : ManageWrite(r, status, admin)

AccountsNext ==
    \/ RenamePlaceholder
    \/ \E u \in Users :
          \/ IssueCode(u) \/ Expire(u) \/ Refresh(u) \/ Lapse(u) \/ DeleteUser(u)
          \/ \E admin \in BOOLEAN : InvitePlatformUser(u, admin) \/ Recast(u, admin)
          \/ \E p \in Passwords :
                \/ RegisterCompany(u, p)
                \/ \E admin \in BOOLEAN : Register(u, p, admin) \/ CompleteSignup(u, p, admin)
    \/ \E u \in Users, r \in Slots :
          \/ SocialCompany(r, u) \/ ResendStore(r, u) \/ SuspendRead(r, u)
          \/ ReactivateRead(r, u) \/ ActivateRead(r, u) \/ ManageRead(r, u)
          \/ \E p \in Passwords : CompleteRead(r, u, p)
          \/ \E p \in Passwords \cup {None} : LoginRead(r, u, p)
          \/ \E c \in 1..drawn :
                VerifyRead(r, u, c) \/ \E p \in Passwords : ResetRead(r, u, c, p)
          \/ \E current, p \in Passwords : ChangeRead(r, u, current, p)
    \/ \E r \in Slots : Continue(r)

AccountsSpec == AccountsInit /\ [][AccountsNext]_accountVars

-----------------------------------------------------------------------------
(* Properties.                                                              *)

\* What a request that was begun on the account of u may make of it: whoever holds a code
\* approves it, a registration does that began while it was pending; the platform reactivates
\* who was suspended; the company's activation is for its administrator, and what a manager
\* asks for is for everybody else.
Decided(q, u, status) ==
    /\ q # None /\ q.user = u
    /\ \/ q.op = "verify" /\ status = "approved"
       \/ q.op = "complete" /\ q.standing = "pending" /\ status = "approved"
       \/ q.op = "suspend" /\ status = "suspended"
       \/ q.op = "reactivate" /\ q.standing = "suspended" /\ status = "active"
       \/ q.op = "activate" /\ q.admin /\ status = "active"
       \/ q.op = "manage" /\ ~q.admin

(***************************************************************************)
(* Nobody changes the status of an account who had no right to when he     *)
(* looked at it: it only changes by a request still in progress that found *)
(* the account as Decided says, whatever is registered, verified, edited   *)
(* or deleted meanwhile, also when the address is registered again.  So an *)
(* active or a suspended company administrator stays so for all a manager  *)
(* of his company asks, unless he was made administrator after the manager *)
(* was let through.  updateCompanyUser, suspendUser, reactivateUser,       *)
(* updateStatus, verifyEmail and completeRegistration.                     *)
(***************************************************************************)
StandingIsKept ==
    [][ \A u \in Known :
          user'[u] # None /\ user'[u].status # user[u].status
          => \E r \in Slots : Decided(req[r], u, user'[u].status) ]_accountVars

(***************************************************************************)
(* A code that has set a password is stored nowhere any more, so nothing   *)
(* that begins later can use it, even when codes are sent again meanwhile  *)
(* or the account is deleted: a reset in progress compared its code before *)
(* the code had set any password.  That leaves the resets that overlapped  *)
(* with the first one: all that had compared the code by then write, and   *)
(* one code sets as many passwords.  resetPassword.                        *)
(***************************************************************************)
SpentIsFinal ==
    /\ \A u \in Known : user[u].code.bcrypt => user[u].code.code \notin spent
    /\ \A r \in Slots : At(r, "reset") => req[r].fresh
=============================================================================
