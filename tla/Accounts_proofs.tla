--------------------------- MODULE Accounts_proofs ---------------------------
(***************************************************************************)
(* Theorems about Accounts for any number of users, passwords, codes and   *)
(* overlapping requests: a code that has set a password is of no further   *)
(* use, and an account keeps its standing unless somebody entitled to it   *)
(* decides otherwise.                                                      *)
(*                                                                         *)
(* SpentIsFinal is not inductive: a second account could hold the code, or *)
(* a request a code nobody drew.  IInv adds that stored codes were drawn,  *)
(* that no two accounts hold one code, and that what a reset in progress   *)
(* compared belongs to nobody but its user.                                *)
(***************************************************************************)
EXTENDS Accounts, TLAPS

Request ==
    [op : {"complete"}, user : Users, password : Passwords, standing : {"pending"}]
        \cup [op : {"social", "verify", "login", "suspend"}, user : Users]
        \cup [op : {"reactivate"}, user : Users, standing : {"suspended"}]
        \cup [op : {"activate"}, user : Users, admin : {TRUE}]
        \cup [op : {"manage"}, user : Users, admin : {FALSE}]
        \cup [op : {"sign"}, user : Users, code : Nat]
        \cup [op : {"reset"}, user : Users, code : Nat, password : Passwords, fresh : BOOLEAN]
        \cup [op : {"change"}, user : Users, password : Passwords]

\* What names an account by its number ends with it, so such a request has the one it found.
AccountsTypeOK ==
    /\ user \in [Users -> AccountRow \cup {None}]
    /\ drawn \in Nat
    /\ req \in [Slots -> Request \cup {None}]
    /\ \A r \in Slots : req[r] # None /\ req[r].op \notin ByAddress => req[r].user \in Known

CodesAreDrawn ==
    /\ \A u \in Known : user[u].code.bcrypt => user[u].code.code <= drawn
    /\ \A c \in spent : c \in Nat /\ c <= drawn
    /\ \A r \in Slots : At(r, "reset") => req[r].code <= drawn

CodesArePrivate ==
    /\ \A u, v \in Known :
          u # v /\ user[u].code.bcrypt /\ user[v].code.bcrypt => user[u].code.code # user[v].code.code
    /\ \A r \in Slots : At(r, "reset") =>
          \A v \in Known : v # req[r].user /\ user[v].code.bcrypt => user[v].code.code # req[r].code

IInv == AccountsTypeOK /\ CodesAreDrawn /\ CodesArePrivate /\ SpentIsFinal

-----------------------------------------------------------------------------

LEMMA InitIInv == AccountsInit => IInv
BY AccountsAssumption
   DEF AccountsInit, IInv, AccountsTypeOK, CodesAreDrawn, CodesArePrivate, SpentIsFinal, Known, At

\* A known account has a row, and rows are not None.
LEMMA KnownRow ==
  ASSUME AccountsTypeOK, NEW u \in Known
  PROVE  u \in Users /\ user[u] \in AccountRow
BY DEF AccountsTypeOK, Known

LEMMA RowIsKnown ==
  ASSUME NEW u \in Users, user'[u] \in AccountRow
  PROVE  u \in Known'
BY AccountsAssumption DEF Known

LEMMA NewRowType ==
  ASSUME NEW s \in Statuses, NEW p \in Passwords \cup {None}, NEW a \in BOOLEAN
  PROVE  Row(s, p, a) \in AccountRow /\ ~Row(s, p, a).code.bcrypt
BY DEF Row, NoCode, AccountRow

\* What begins and ends a request keeps req typed.
LEMMA RequestTypes ==
  ASSUME AccountsTypeOK, NEW r \in Slots
  PROVE  /\ End(r) => req' \in [Slots -> Request \cup {None}]
         /\ \A q \in Request : Begin(r, q) => req' \in [Slots -> Request \cup {None}]
BY DEF AccountsTypeOK, End, Begin

(***************************************************************************)
(* The steps that draw no code, use none and compare none.  A row may be   *)
(* new or lose its code, and a request may end, or begin as something else *)
(* than a reset.                                                           *)
(***************************************************************************)
KeepsCodes ==
    /\ drawn' = drawn /\ spent' = spent
    /\ user' \in [Users -> AccountRow \cup {None}]
    /\ \A u \in Users :
          \/ user'[u] = user[u]
          \/ user'[u] \in AccountRow /\ ~user'[u].code.bcrypt
          \/ u \in Known /\ user'[u] \in AccountRow /\ user'[u].code = user[u].code

BeginsNoReset ==
    /\ req' \in [Slots -> Request \cup {None}]
    /\ \A r \in Slots :
          \/ req'[r] = req[r]
          \/ req'[r] = None
          \/ req'[r].op # "reset" /\ (req'[r].op \notin ByAddress => req'[r].user \in Known)

LEMMA QuietStep ==
  ASSUME IInv, KeepsCodes, BeginsNoReset
  PROVE  IInv'
<1> USE DEF IInv
<1>1. Known \subseteq Known'
  <2> SUFFICES ASSUME NEW u \in Known PROVE u \in Known'
    OBVIOUS
  <2>1. u \in Users /\ user[u] \in AccountRow
    BY KnownRow
  <2>2. user'[u] \in AccountRow
    BY <2>1 DEF KeepsCodes
  <2>3. QED
    BY <2>1, <2>2, RowIsKnown
<1>2. \A u \in Known' : \/ u \in Known /\ user'[u].code = user[u].code
                        \/ ~user'[u].code.bcrypt
  BY DEF KeepsCodes, Known
<1>3. AccountsTypeOK'
  BY <1>1 DEF AccountsTypeOK, KeepsCodes, BeginsNoReset
<1>4. CodesAreDrawn'
  BY <1>2 DEF CodesAreDrawn, KeepsCodes, BeginsNoReset, At
<1>5. CodesArePrivate'
  <2>1. ASSUME NEW u \in Known', NEW v \in Known', u # v,
               user'[u].code.bcrypt, user'[v].code.bcrypt
        PROVE  user'[u].code.code # user'[v].code.code
    BY <1>2, <2>1 DEF CodesArePrivate
  <2>2. ASSUME NEW r \in Slots, At(r, "reset")', NEW v \in Known', v # req'[r].user,
               user'[v].code.bcrypt
        PROVE  user'[v].code.code # req'[r].code
    <3>1. At(r, "reset") /\ req'[r] = req[r]
      BY <2>2 DEF At, BeginsNoReset
    <3>2. v \in Known /\ user'[v].code = user[v].code
      BY <1>2, <2>2
    <3>3. QED
      BY <2>2, <3>1, <3>2 DEF CodesArePrivate
  <2>3. QED
    BY <2>1, <2>2 DEF CodesArePrivate
<1>6. SpentIsFinal'
  <2>1. \A u \in Known' : user'[u].code.bcrypt => user'[u].code.code \notin spent'
    BY <1>2 DEF SpentIsFinal, KeepsCodes
  <2>2. \A r \in Slots : At(r, "reset")' => req'[r].fresh
    BY DEF SpentIsFinal, BeginsNoReset, At
  <2>3. QED
    BY <2>1, <2>2 DEF SpentIsFinal
<1>7. QED
  BY <1>3, <1>4, <1>5, <1>6

\* A code that is drawn is greater than all that are stored, compared or spent.
LEMMA DrawStep ==
  ASSUME IInv, NEW u \in Known, NEW b \in BOOLEAN, Draw(u, b), spent' = spent, BeginsNoReset
  PROVE  IInv'
<1> USE DEF IInv
<1>1. u \in Users /\ user[u] \in AccountRow
  BY KnownRow
<1> DEFINE new == [user[u] EXCEPT !.code = [code |-> drawn + 1, bcrypt |-> b]]
<1>2. new \in AccountRow /\ new.code.code = drawn + 1
  BY <1>1 DEF AccountRow, AccountsTypeOK
<1>3. user' = [user EXCEPT ![u] = new] /\ drawn' = drawn + 1 /\ drawn \in Nat
  BY DEF Draw, AccountsTypeOK
<1>4. user'[u] = new
  BY <1>1, <1>3 DEF AccountsTypeOK
<1> HIDE DEF new
<1>5. \A v \in Known' : v = u \/ (v \in Known /\ user'[v] = user[v])
  BY <1>3 DEF Known, AccountsTypeOK
<1>6. Known \subseteq Known'
  BY <1>1, <1>2, <1>3, <1>4, RowIsKnown DEF Known, AccountsTypeOK
<1>7. AccountsTypeOK'
  <2>1. user' \in [Users -> AccountRow \cup {None}]
    BY <1>2, <1>3 DEF AccountsTypeOK
  <2>2. drawn' \in Nat
    BY <1>3
  <2>3. \A r \in Slots : req'[r] # None /\ req'[r].op \notin ByAddress => req'[r].user \in Known'
    BY <1>6 DEF AccountsTypeOK, BeginsNoReset
  <2>4. QED
    BY <2>1, <2>2, <2>3 DEF AccountsTypeOK, BeginsNoReset
<1>8. CodesAreDrawn'
  <2>1. \A v \in Known' : user'[v].code.bcrypt => user'[v].code.code <= drawn'
    <3> SUFFICES ASSUME NEW v \in Known', user'[v].code.bcrypt PROVE user'[v].code.code <= drawn'
      OBVIOUS
    <3>1. CASE v = u
      BY <3>1, <1>2, <1>3, <1>4
    <3>2. CASE v # u
      <4>1. v \in Known /\ user'[v] = user[v] /\ user[v].code.code \in Nat
        BY <3>2, <1>5, KnownRow DEF AccountRow
      <4>2. QED
        BY <4>1, <1>3 DEF CodesAreDrawn
    <3>3. QED
      BY <3>1, <3>2
  <2>2. \A c \in spent' : c \in Nat /\ c <= drawn'
    BY <1>3 DEF CodesAreDrawn
  <2>3. \A r \in Slots : At(r, "reset")' => req'[r].code <= drawn'
    <3> SUFFICES ASSUME NEW r \in Slots, At(r, "reset")' PROVE req'[r].code <= drawn'
      OBVIOUS
    <3>1. At(r, "reset") /\ req'[r] = req[r]
      BY DEF At, BeginsNoReset
    <3>2. req[r].code \in Nat
      BY <3>1 DEF At, AccountsTypeOK, Request
    <3>3. QED
      BY <3>1, <3>2, <1>3 DEF CodesAreDrawn
  <2>4. QED
    BY <2>1, <2>2, <2>3 DEF CodesAreDrawn
<1>9. CodesArePrivate'
  <2>1. \A v \in Known : user[v].code.code \in Nat /\ (user[v].code.bcrypt => user[v].code.code <= drawn)
    BY KnownRow DEF CodesAreDrawn, AccountRow
  <2>2. ASSUME NEW v \in Known', NEW w \in Known', v # w,
               user'[v].code.bcrypt, user'[w].code.bcrypt
        PROVE  user'[v].code.code # user'[w].code.code
    <3>1. CASE v # u /\ w # u
      BY <2>2, <3>1, <1>5 DEF CodesArePrivate
    <3>2. CASE v = u
      BY <2>1, <2>2, <3>2, <1>2, <1>3, <1>4, <1>5
    <3>3. CASE w = u
      BY <2>1, <2>2, <3>3, <1>2, <1>3, <1>4, <1>5
    <3>4. QED
      BY <3>1, <3>2, <3>3
  <2>3. ASSUME NEW r \in Slots, At(r, "reset")', NEW v \in Known', v # req'[r].user,
               user'[v].code.bcrypt
        PROVE  user'[v].code.code # req'[r].code
    <3>1. At(r, "reset") /\ req'[r] = req[r]
      BY <2>3 DEF At, BeginsNoReset
    <3>2. CASE v # u
      BY <2>3, <3>1, <3>2, <1>5 DEF CodesArePrivate
    <3>3. CASE v = u
      <4>1. req[r].code \in Nat /\ req[r].code <= drawn
        BY <3>1 DEF At, AccountsTypeOK, Request, CodesAreDrawn
      <4>2. QED
        BY <3>1, <3>3, <4>1, <1>2, <1>3, <1>4
    <3>4. QED
      BY <3>2, <3>3
  <2>4. QED
    BY <2>2, <2>3 DEF CodesArePrivate
<1>10. SpentIsFinal'
  <2>1. ASSUME NEW v \in Known', user'[v].code.bcrypt  PROVE user'[v].code.code \notin spent'
    <3>1. CASE v = u
      BY <3>1, <1>2, <1>3, <1>4 DEF CodesAreDrawn
    <3>2. CASE v # u
      BY <2>1, <3>2, <1>5 DEF SpentIsFinal
    <3>3. QED
      BY <3>1, <3>2
  <2>2. \A r \in Slots : At(r, "reset")' => req'[r].fresh
    BY DEF SpentIsFinal, BeginsNoReset, At
  <2>3. QED
    BY <2>1, <2>2 DEF SpentIsFinal
<1>11. QED
  BY <1>7, <1>8, <1>9, <1>10

\* A reset begins with a code that is stored, so nobody else has it and it is not spent.
LEMMA ResetReadStep ==
  ASSUME IInv, NEW r \in Slots, NEW u \in Users, NEW c \in 1..drawn, NEW p \in Passwords,
         ResetRead(r, u, c, p)
  PROVE  IInv'
<1> USE DEF IInv
<1> DEFINE q == [op |-> "reset", user |-> u, code |-> c, password |-> p,
                 fresh |-> c \notin spent]
<1>1. u \in Known /\ user[u].code.bcrypt /\ user[u].code.code = c
  BY DEF ResetRead, Matches
<1>2. q \in Request /\ c \in Nat /\ c <= drawn
  <2>1. c \in Nat /\ c <= drawn
    BY DEF AccountsTypeOK
  <2>2. q \in [op : {"reset"}, user : Users, code : Nat, password : Passwords, fresh : BOOLEAN]
    BY <2>1
  <2>3. QED
    BY <2>1, <2>2 DEF Request
<1>3. req' = [req EXCEPT ![r] = q]
  BY DEF ResetRead, Begin
<1>4. q.op = "reset" /\ q.user = u /\ q.code = c /\ (c \notin spent => q.fresh)
  OBVIOUS
<1> HIDE DEF q
<1>5. UNCHANGED <<user, drawn, spent>> /\ Known' = Known
  BY DEF ResetRead, Known
<1>6. \A s \in Slots : req'[s] = IF s = r THEN q ELSE req[s]
  BY <1>3 DEF AccountsTypeOK
<1>7. AccountsTypeOK'
  BY <1>1, <1>2, <1>3, <1>4, <1>5, <1>6 DEF AccountsTypeOK
<1>8. CodesAreDrawn'
  BY <1>2, <1>4, <1>5, <1>6 DEF CodesAreDrawn, At
<1>9. CodesArePrivate'
  BY <1>1, <1>4, <1>5, <1>6 DEF CodesArePrivate, At
<1>10. SpentIsFinal'
  BY <1>1, <1>4, <1>5, <1>6 DEF SpentIsFinal, At
<1>11. QED
  BY <1>7, <1>8, <1>9, <1>10

\* The reset takes the code out of its user's row, and nobody else had it.
LEMMA ResetWriteStep ==
  ASSUME IInv, NEW r \in Slots, ResetWrite(r)
  PROVE  IInv'
<1> USE DEF IInv
<1> DEFINE u == req[r].user
           c == req[r].code
           new == AfterReset(user[u], req[r].password)
<1>1. At(r, "reset") /\ req[r] \in Request /\ u \in Known
  BY DEF ResetWrite, At, AccountsTypeOK
<1>2. c \in Nat /\ req[r].password \in Passwords
  BY <1>1 DEF At, Request
<1>3. u \in Users /\ user[u] \in AccountRow
  BY <1>1, KnownRow
<1>4. new \in AccountRow /\ ~new.code.bcrypt /\ new.code.code = 0
  BY <1>2, <1>3 DEF AfterReset, NoCode, AccountRow
<1>5. user' = [user EXCEPT ![u] = new]
  BY <1>3 DEF ResetWrite, AccountsTypeOK
<1>6. drawn' = drawn /\ drawn \in Nat /\ spent' = spent \cup {c}
  BY DEF ResetWrite, AccountsTypeOK
<1>7. req' \in [Slots -> Request \cup {None}] /\ \A s \in Slots : req'[s] = IF s = r THEN None ELSE req[s]
  BY RequestTypes DEF ResetWrite, End, AccountsTypeOK
<1>8. c <= drawn
  BY <1>1 DEF CodesAreDrawn
<1>9. \A v \in Known : v # u /\ user[v].code.bcrypt => user[v].code.code # c
  BY <1>1 DEF CodesArePrivate
<1> HIDE DEF new, u, c
<1>10. user'[u] = new
  BY <1>3, <1>5 DEF AccountsTypeOK
<1>11. \A v \in Known' : v = u \/ (v \in Known /\ user'[v] = user[v])
  BY <1>5 DEF Known, AccountsTypeOK
<1>12. Known \subseteq Known'
  BY <1>3, <1>4, <1>5, <1>10, RowIsKnown DEF Known, AccountsTypeOK
<1>13. AccountsTypeOK'
  <2>1. user' \in [Users -> AccountRow \cup {None}]
    BY <1>4, <1>5 DEF AccountsTypeOK
  <2>2. \A s \in Slots : req'[s] # None /\ req'[s].op \notin ByAddress => req'[s].user \in Known'
    BY <1>7, <1>12 DEF AccountsTypeOK
  <2>3. QED
    BY <1>6, <1>7, <2>1, <2>2 DEF AccountsTypeOK
<1>14. CodesAreDrawn'
  <2>1. \A v \in Known' : user'[v].code.bcrypt => user'[v].code.code <= drawn'
    BY <1>4, <1>6, <1>10, <1>11 DEF CodesAreDrawn
  <2>2. \A d \in spent' : d \in Nat /\ d <= drawn'
    BY <1>2, <1>6, <1>8 DEF CodesAreDrawn
  <2>3. \A s \in Slots : At(s, "reset")' => req'[s].code <= drawn'
    BY <1>6, <1>7 DEF CodesAreDrawn, At
  <2>4. QED
    BY <2>1, <2>2, <2>3 DEF CodesAreDrawn
<1>15. CodesArePrivate'
  <2>1. ASSUME NEW v \in Known', NEW w \in Known', v # w,
               user'[v].code.bcrypt, user'[w].code.bcrypt
        PROVE  user'[v].code.code # user'[w].code.code
    BY <1>4, <1>10, <1>11, <2>1 DEF CodesArePrivate
  <2>2. ASSUME NEW s \in Slots, At(s, "reset")', NEW v \in Known', v # req'[s].user,
               user'[v].code.bcrypt
        PROVE  user'[v].code.code # req'[s].code
    <3>1. At(s, "reset") /\ req'[s] = req[s]
      BY <1>7, <2>2 DEF At
    <3>2. v \in Known /\ user'[v] = user[v]
      BY <1>4, <1>10, <1>11, <2>2
    <3>3. QED
      BY <2>2, <3>1, <3>2 DEF CodesArePrivate
  <2>3. QED
    BY <2>1, <2>2 DEF CodesArePrivate
<1>16. SpentIsFinal'
  <2>1. ASSUME NEW v \in Known', user'[v].code.bcrypt  PROVE user'[v].code.code \notin spent'
    <3>1. v # u /\ v \in Known /\ user'[v] = user[v]
      BY <1>4, <1>10, <1>11, <2>1
    <3>2. QED
      BY <1>6, <1>9, <2>1, <3>1 DEF SpentIsFinal
  <2>2. \A s \in Slots : At(s, "reset")' => req'[s].fresh
    BY <1>7 DEF SpentIsFinal, At
  <2>3. QED
    BY <2>1, <2>2 DEF SpentIsFinal
<1>17. QED
  BY <1>13, <1>14, <1>15, <1>16

-----------------------------------------------------------------------------
(* What the actions do, said in the terms of QuietStep.                     *)

LEMMA RowKeepsCodes ==
  ASSUME AccountsTypeOK, NEW u \in Users, NEW row \in AccountRow,
         user' = [user EXCEPT ![u] = row], drawn' = drawn, spent' = spent,
         \/ ~row.code.bcrypt
         \/ u \in Known /\ row.code = user[u].code
  PROVE  KeepsCodes
<1>1. user' \in [Users -> AccountRow \cup {None}]
  BY DEF AccountsTypeOK
<1>2. \A v \in Users : user'[v] = IF v = u THEN row ELSE user[v]
  BY DEF AccountsTypeOK
<1>3. QED
  BY <1>1, <1>2 DEF KeepsCodes

LEMMA SameRowsKeepCodes ==
  ASSUME AccountsTypeOK, UNCHANGED <<user, drawn, spent>>
  PROVE  KeepsCodes
BY DEF AccountsTypeOK, KeepsCodes

LEMMA QuietRequests ==
  ASSUME AccountsTypeOK, NEW r \in Slots
  PROVE  /\ UNCHANGED req => BeginsNoReset
         /\ End(r) => BeginsNoReset
         /\ \A q \in Request :
               /\ Begin(r, q)
               /\ q.op # "reset" /\ (q.op \notin ByAddress => q.user \in Known)
               => BeginsNoReset
<1>1. UNCHANGED req => BeginsNoReset
  BY DEF BeginsNoReset, AccountsTypeOK
<1>2. End(r) => BeginsNoReset
  BY RequestTypes DEF BeginsNoReset, AccountsTypeOK, End
<1>3. ASSUME NEW q \in Request, Begin(r, q), q.op # "reset", q.op \notin ByAddress => q.user \in Known
      PROVE  BeginsNoReset
  <2>1. req' \in [Slots -> Request \cup {None}]
    BY <1>3, RequestTypes
  <2>2. \A s \in Slots : req'[s] = IF s = r THEN q ELSE req[s]
    BY <1>3 DEF Begin, AccountsTypeOK
  <2>3. QED
    BY <1>3, <2>1, <2>2 DEF BeginsNoReset
<1>4. QED
  BY <1>1, <1>2, <1>3

\* A request in progress names an account there is, unless it names it by its address.
LEMMA RequestFound ==
  ASSUME AccountsTypeOK, NEW r \in Slots, req[r] # None
  PROVE  /\ req[r] \in Request /\ req[r].user \in Users
         /\ req[r].op \notin ByAddress => req[r].user \in Known
BY DEF AccountsTypeOK, Request

(***************************************************************************)
(* The actions of one account that carry no request.                       *)
(***************************************************************************)
LEMMA NewAccountStep ==
  ASSUME IInv, NEW u \in Users, NEW s \in Statuses, NEW p \in Passwords \cup {None},
         NEW a \in BOOLEAN, user' = [user EXCEPT ![u] = Row(s, p, a)],
         UNCHANGED <<drawn, spent, req>>
  PROVE  IInv'
<1> USE DEF IInv
<1>1. Row(s, p, a) \in AccountRow /\ ~Row(s, p, a).code.bcrypt
  BY NewRowType
<1>2. KeepsCodes
  BY <1>1, RowKeepsCodes
<1>3. QED
  BY <1>2, QuietStep DEF BeginsNoReset, AccountsTypeOK

LEMMA AccountSteps ==
  ASSUME IInv, NEW u \in Users,
         \/ IssueCode(u) \/ Expire(u) \/ Refresh(u) \/ Lapse(u)
         \/ \E admin \in BOOLEAN : InvitePlatformUser(u, admin) \/ Recast(u, admin)
         \/ \E p \in Passwords :
               \/ RegisterCompany(u, p)
               \/ \E admin \in BOOLEAN : Register(u, p, admin) \/ CompleteSignup(u, p, admin)
  PROVE  IInv'
<1> USE DEF IInv
<1>1. CASE \E admin \in BOOLEAN : InvitePlatformUser(u, admin)
  BY <1>1, NewAccountStep DEF InvitePlatformUser, Statuses
<1>2. CASE IssueCode(u)
  <2>1. BeginsNoReset
    BY <1>2 DEF IssueCode, BeginsNoReset, AccountsTypeOK
  <2>2. QED
    BY <1>2, <2>1, DrawStep DEF IssueCode
<1>3. CASE Expire(u)
  <2> DEFINE row == [user[u] EXCEPT !.code = NoCode]
  <2>1. u \in Known /\ user[u] \in AccountRow
    BY <1>3, KnownRow DEF Expire
  <2>2. row \in AccountRow /\ row.code = NoCode
    BY <2>1 DEF AccountRow, NoCode
  <2>3. ~row.code.bcrypt
    BY <2>2 DEF NoCode
  <2>4. user' = [user EXCEPT ![u] = row]
    BY <1>3 DEF Expire, AccountsTypeOK
  <2> HIDE DEF row
  <2>5. KeepsCodes
    BY <1>3, <2>2, <2>3, <2>4, RowKeepsCodes DEF Expire
  <2>6. QED
    BY <1>3, <2>5, QuietStep DEF Expire, BeginsNoReset, AccountsTypeOK
<1>4. CASE Refresh(u) \/ Lapse(u)
  BY <1>4, SameRowsKeepCodes, QuietStep DEF Refresh, Lapse, BeginsNoReset, AccountsTypeOK
<1>5. ASSUME NEW admin \in BOOLEAN, Recast(u, admin) PROVE IInv'
  <2> DEFINE row == [user[u] EXCEPT !.admin = admin]
  <2>1. u \in Known /\ user[u] \in AccountRow
    BY <1>5, KnownRow DEF Recast
  <2>2. row \in AccountRow /\ row.code = user[u].code
    BY <2>1 DEF AccountRow
  <2>3. user' = [user EXCEPT ![u] = row]
    BY <1>5 DEF Recast, AccountsTypeOK
  <2> HIDE DEF row
  <2>4. KeepsCodes
    BY <1>5, <2>1, <2>2, <2>3, RowKeepsCodes DEF Recast
  <2>5. QED
    BY <1>5, <2>4, QuietStep DEF Recast, BeginsNoReset, AccountsTypeOK
<1>6. ASSUME NEW p \in Passwords,
             \/ RegisterCompany(u, p)
             \/ \E admin \in BOOLEAN : Register(u, p, admin) \/ CompleteSignup(u, p, admin)
      PROVE  IInv'
  BY <1>6, NewAccountStep DEF RegisterCompany, Register, CompleteSignup, Statuses
<1>7. QED
  BY <1>1, <1>2, <1>3, <1>4, <1>5, <1>6

\* An account that is deleted takes with it what names it by its number.
LEMMA DeleteStep ==
  ASSUME IInv, NEW u \in Users, DeleteUser(u)
  PROVE  IInv'
<1> USE DEF IInv
<1>1. \A v \in Known' : v # u /\ v \in Known /\ user'[v] = user[v]
  BY DEF DeleteUser, Known, AccountsTypeOK
<1>2. \A r \in Slots : req'[r] = req[r] \/ req'[r] = None
  BY DEF DeleteUser
<1>3. UNCHANGED <<drawn, spent>>
  BY DEF DeleteUser
<1>4. AccountsTypeOK'
  <2>1. user' \in [Users -> AccountRow \cup {None}] /\ req' \in [Slots -> Request \cup {None}]
    BY DEF DeleteUser, AccountsTypeOK
  <2>2. ASSUME NEW r \in Slots, req'[r] # None, req'[r].op \notin ByAddress
        PROVE  req'[r].user \in Known'
    <3>1. req'[r] = req[r] /\ req[r].user # u
      BY <2>2 DEF DeleteUser
    <3>2. req[r].user \in Known
      BY <2>2, <3>1 DEF AccountsTypeOK
    <3>3. QED
      BY <3>1, <3>2 DEF DeleteUser, Known, AccountsTypeOK
  <2>3. QED
    BY <1>3, <2>1, <2>2 DEF AccountsTypeOK
<1>5. CodesAreDrawn'
  BY <1>1, <1>2, <1>3 DEF CodesAreDrawn, At
<1>6. CodesArePrivate'
  BY <1>1, <1>2 DEF CodesArePrivate, At
<1>7. SpentIsFinal'
  BY <1>1, <1>2, <1>3 DEF SpentIsFinal, At
<1>8. QED
  BY <1>4, <1>5, <1>6, <1>7

\* The first halves of the requests.
LEMMA BeginSteps ==
  ASSUME IInv, NEW u \in Users, NEW r \in Slots,
         \/ SocialCompany(r, u) \/ ResendStore(r, u) \/ SuspendRead(r, u)
         \/ ReactivateRead(r, u) \/ ActivateRead(r, u) \/ ManageRead(r, u)
         \/ \E p \in Passwords : CompleteRead(r, u, p)
         \/ \E p \in Passwords \cup {None} : LoginRead(r, u, p)
         \/ \E c \in 1..drawn :
               VerifyRead(r, u, c) \/ \E p \in Passwords : ResetRead(r, u, c, p)
         \/ \E current, p \in Passwords : ChangeRead(r, u, current, p)
  PROVE  IInv'
<1> USE DEF IInv
<1>1. CASE SocialCompany(r, u)
  <2>1. [op |-> "social", user |-> u] \in Request
    BY DEF Request
  <2>2. BeginsNoReset
    BY <1>1, <2>1, QuietRequests DEF SocialCompany, ByAddress
  <2>3. QED
    BY <1>1, <2>2, SameRowsKeepCodes, QuietStep DEF SocialCompany
<1>2. CASE ResendStore(r, u)
  <2>1. [op |-> "sign", user |-> u, code |-> drawn + 1] \in Request
    BY DEF Request, AccountsTypeOK
  <2>2. BeginsNoReset /\ u \in Known
    BY <1>2, <2>1, QuietRequests DEF ResendStore
  <2>3. QED
    BY <1>2, <2>2, DrawStep DEF ResendStore
<1>3. ASSUME NEW p \in Passwords, CompleteRead(r, u, p) PROVE IInv'
  <2> DEFINE q == [op |-> "complete", user |-> u, password |-> p, standing |-> user[u].status]
  <2>1. q \in Request /\ q.op = "complete" /\ q.user = u
    BY <1>3 DEF Request, CompleteRead, Completable
  <2>2. Begin(r, q) /\ u \in Known
    BY <1>3 DEF CompleteRead
  <2> HIDE DEF q
  <2>3. BeginsNoReset
    BY <2>1, <2>2, QuietRequests
  <2>4. QED
    BY <1>3, <2>3, SameRowsKeepCodes, QuietStep DEF CompleteRead
<1>4. ASSUME NEW p \in Passwords \cup {None}, LoginRead(r, u, p) PROVE IInv'
  <2>1. [op |-> "login", user |-> u] \in Request
    BY DEF Request
  <2>2. BeginsNoReset
    BY <1>4, <2>1, QuietRequests DEF LoginRead
  <2>3. QED
    BY <1>4, <2>2, SameRowsKeepCodes, QuietStep DEF LoginRead
<1>5. ASSUME NEW c \in 1..drawn, VerifyRead(r, u, c) PROVE IInv'
  <2>1. [op |-> "verify", user |-> u] \in Request
    BY DEF Request
  <2>2. BeginsNoReset
    BY <1>5, <2>1, QuietRequests DEF VerifyRead
  <2>3. QED
    BY <1>5, <2>2, SameRowsKeepCodes, QuietStep DEF VerifyRead
<1>6. ASSUME NEW c \in 1..drawn, NEW p \in Passwords, ResetRead(r, u, c, p) PROVE IInv'
  BY <1>6, ResetReadStep
<1>7. ASSUME NEW current \in Passwords, NEW p \in Passwords, ChangeRead(r, u, current, p) PROVE IInv'
  <2>1. [op |-> "change", user |-> u, password |-> p] \in Request
    BY DEF Request
  <2>2. BeginsNoReset
    BY <1>7, <2>1, QuietRequests DEF ChangeRead
  <2>3. QED
    BY <1>7, <2>2, SameRowsKeepCodes, QuietStep DEF ChangeRead
<1>8. CASE SuspendRead(r, u) \/ ReactivateRead(r, u) \/ ActivateRead(r, u) \/ ManageRead(r, u)
  <2>1. u \in Known /\ user[u] \in AccountRow /\ UNCHANGED <<user, drawn, spent>>
    BY <1>8, KnownRow DEF SuspendRead, ReactivateRead, ActivateRead, ManageRead, Manageable
  <2>2. PICK q \in Request : Begin(r, q) /\ q.op # "reset" /\ q.user = u
    <3>1. CASE SuspendRead(r, u)
      <4>1. [op |-> "suspend", user |-> u] \in Request
        BY DEF Request
      <4>2. QED
        BY <3>1, <4>1 DEF SuspendRead
    <3>2. CASE ReactivateRead(r, u)
      <4>1. [op |-> "reactivate", user |-> u, standing |-> user[u].status] \in Request
        BY <3>2 DEF Request, ReactivateRead
      <4>2. QED
        BY <3>2, <4>1 DEF ReactivateRead
    <3>3. CASE ActivateRead(r, u)
      <4>1. [op |-> "activate", user |-> u, admin |-> user[u].admin] \in Request
        BY <2>1, <3>3 DEF Request, ActivateRead, AccountRow
      <4>2. QED
        BY <3>3, <4>1 DEF ActivateRead
    <3>4. CASE ManageRead(r, u)
      <4>1. [op |-> "manage", user |-> u, admin |-> user[u].admin] \in Request
        BY <2>1, <3>4 DEF Request, ManageRead, Manageable, AccountRow
      <4>2. QED
        BY <3>4, <4>1 DEF ManageRead
    <3>5. QED
      BY <1>8, <3>1, <3>2, <3>3, <3>4
  <2>3. BeginsNoReset
    BY <2>1, <2>2, QuietRequests
  <2>4. QED
    BY <2>1, <2>3, SameRowsKeepCodes, QuietStep
<1>9. QED
  BY <1>1, <1>2, <1>3, <1>4, <1>5, <1>6, <1>7, <1>8

\* The second halves.
LEMMA ContinueSteps ==
  ASSUME IInv, NEW r \in Slots, Continue(r)
  PROVE  IInv'
<1> USE DEF IInv
<1> DEFINE u == req[r].user
<1>1. CASE \/ CompleteWrite(r) \/ VerifyWrite(r) \/ ChangeWrite(r) \/ StandingWrite(r)
           \/ \E status \in Statuses, admin \in BOOLEAN : ManageWrite(r, status, admin)
  <2>1. req[r] # None /\ req[r].op \notin ByAddress
    BY <1>1 DEF CompleteWrite, VerifyWrite, ChangeWrite, StandingWrite, ManageWrite, Decision, At,
          ByAddress
  <2>2. u \in Known /\ user[u] \in AccountRow /\ u \in Users /\ req[r] \in Request
    BY <2>1, RequestFound, KnownRow
  <2>3. PICK row : user' = [user EXCEPT ![u] = row] /\ row \in AccountRow /\ row.code = user[u].code
    <3>1. CASE CompleteWrite(r)
      <4> DEFINE row == [user[u] EXCEPT !.status = "approved", !.password = req[r].password]
      <4>1. req[r].password \in Passwords
        BY <2>2, <3>1 DEF CompleteWrite, At, Request
      <4>2. row \in AccountRow /\ row.code = user[u].code
        BY <2>2, <4>1 DEF AccountRow, Statuses
      <4>3. user' = [user EXCEPT ![u] = row]
        BY <2>2, <3>1 DEF CompleteWrite, AccountsTypeOK
      <4>4. QED
        BY <4>2, <4>3
    <3>2. CASE VerifyWrite(r)
      <4> DEFINE row == [user[u] EXCEPT !.status = "approved"]
      <4>1. row \in AccountRow /\ row.code = user[u].code
        BY <2>2 DEF AccountRow, Statuses
      <4>2. user' = [user EXCEPT ![u] = row]
        BY <2>2, <3>2 DEF VerifyWrite, AccountsTypeOK
      <4>3. QED
        BY <4>1, <4>2
    <3>3. CASE ChangeWrite(r)
      <4> DEFINE row == [user[u] EXCEPT !.password = req[r].password]
      <4>1. req[r].password \in Passwords
        BY <2>2, <3>3 DEF ChangeWrite, At, Request
      <4>2. row \in AccountRow /\ row.code = user[u].code
        BY <2>2, <4>1 DEF AccountRow
      <4>3. user' = [user EXCEPT ![u] = row]
        BY <2>2, <3>3 DEF ChangeWrite, AccountsTypeOK
      <4>4. QED
        BY <4>2, <4>3
    <3>4. CASE StandingWrite(r)
      <4> DEFINE row == [user[u] EXCEPT !.status = Decision[req[r].op]]
      <4>1. Decision[req[r].op] \in Statuses
        BY <3>4 DEF StandingWrite, Decision, Statuses
      <4>2. row \in AccountRow /\ row.code = user[u].code
        BY <2>2, <4>1 DEF AccountRow
      <4>3. user' = [user EXCEPT ![u] = row]
        BY <2>2, <3>4 DEF StandingWrite, AccountsTypeOK
      <4>4. QED
        BY <4>2, <4>3
    <3>5. ASSUME NEW status \in Statuses, NEW admin \in BOOLEAN, ManageWrite(r, status, admin)
          PROVE  \E row : /\ user' = [user EXCEPT ![u] = row]
                         /\ row \in AccountRow /\ row.code = user[u].code
      <4> DEFINE row == [user[u] EXCEPT !.status = status, !.admin = admin]
      <4>1. row \in AccountRow /\ row.code = user[u].code
        BY <2>2 DEF AccountRow
      <4>2. user' = [user EXCEPT ![u] = row]
        BY <2>2, <3>5 DEF ManageWrite, AccountsTypeOK
      <4>3. QED
        BY <4>1, <4>2
    <3>6. QED
      BY <1>1, <3>1, <3>2, <3>3, <3>4, <3>5
  <2>4. drawn' = drawn /\ spent' = spent /\ End(r)
    BY <1>1 DEF CompleteWrite, VerifyWrite, ChangeWrite, StandingWrite, ManageWrite
  <2> HIDE DEF u
  <2>5. KeepsCodes
    BY <2>2, <2>3, <2>4, RowKeepsCodes
  <2>6. QED
    BY <2>4, <2>5, QuietRequests, QuietStep
<1>2. CASE SocialUser(r)
  <2>1. u \in Users
    BY <1>2, RequestFound DEF SocialUser, At
  <2>2. Row("pending", None, TRUE) \in AccountRow /\ ~Row("pending", None, TRUE).code.bcrypt
    BY NewRowType DEF Statuses
  <2>3. KeepsCodes
    BY <1>2, <2>1, <2>2, RowKeepsCodes DEF SocialUser
  <2>4. QED
    BY <1>2, <2>3, QuietRequests, QuietStep DEF SocialUser
<1>3. CASE ResendSign(r)
  <2> DEFINE row == [user[u] EXCEPT !.code = Signed(req[r].code)]
  <2>1. req[r] # None /\ req[r].op = "sign"
    BY <1>3 DEF ResendSign, At
  <2>2. u \in Known /\ user[u] \in AccountRow /\ u \in Users /\ req[r].code \in Nat
    <3>1. req[r] \in Request /\ u \in Known
      BY <1>3, <2>1, RequestFound DEF ResendSign
    <3>2. QED
      BY <2>1, <3>1, KnownRow DEF Request
  <2>3. row \in AccountRow /\ row.code = Signed(req[r].code)
    BY <2>2 DEF AccountRow, Signed
  <2>4. user' = [user EXCEPT ![u] = row] /\ drawn' = drawn /\ spent' = spent /\ End(r)
    BY <1>3, <2>2 DEF ResendSign, AccountsTypeOK
  <2>5. ~row.code.bcrypt
    BY <2>3 DEF Signed
  <2> HIDE DEF row, u
  <2>6. KeepsCodes
    BY <2>2, <2>3, <2>4, <2>5, RowKeepsCodes
  <2>7. QED
    BY <2>4, <2>6, QuietRequests, QuietStep
<1>4. CASE ResetWrite(r)
  BY <1>4, ResetWriteStep
<1>5. CASE LoginWrite(r) \/ Fail(r)
  <2>1. End(r) /\ UNCHANGED <<user, drawn, spent>>
    BY <1>5 DEF LoginWrite, Fail
  <2>2. QED
    BY <2>1, SameRowsKeepCodes, QuietRequests, QuietStep
<1>6. QED
  BY <1>1, <1>2, <1>3, <1>4, <1>5 DEF Continue

LEMMA StepIInv == IInv /\ [AccountsNext]_accountVars => IInv'
<1> SUFFICES ASSUME IInv, [AccountsNext]_accountVars PROVE IInv'
  OBVIOUS
<1>1. CASE UNCHANGED accountVars \/ RenamePlaceholder
  <2>1. UNCHANGED <<user, drawn, spent, req>>
    BY <1>1 DEF accountVars, RenamePlaceholder
  <2>2. AccountsTypeOK
    BY DEF IInv
  <2>3. QED
    BY <2>1, <2>2, SameRowsKeepCodes, QuietStep DEF BeginsNoReset, AccountsTypeOK
<1>2. CASE \E r \in Slots : Continue(r)
  BY <1>2, ContinueSteps
<1>3. ASSUME NEW u \in Users,
             \/ IssueCode(u) \/ Expire(u) \/ Refresh(u) \/ Lapse(u) \/ DeleteUser(u)
             \/ \E admin \in BOOLEAN : InvitePlatformUser(u, admin) \/ Recast(u, admin)
             \/ \E p \in Passwords :
                   \/ RegisterCompany(u, p)
                   \/ \E admin \in BOOLEAN : Register(u, p, admin) \/ CompleteSignup(u, p, admin)
      PROVE  IInv'
  BY <1>3, AccountSteps, DeleteStep
<1>4. ASSUME NEW u \in Users, NEW r \in Slots,
             \/ SocialCompany(r, u) \/ ResendStore(r, u) \/ SuspendRead(r, u)
             \/ ReactivateRead(r, u) \/ ActivateRead(r, u) \/ ManageRead(r, u)
             \/ \E p \in Passwords : CompleteRead(r, u, p)
             \/ \E p \in Passwords \cup {None} : LoginRead(r, u, p)
             \/ \E c \in 1..drawn :
                   VerifyRead(r, u, c) \/ \E p \in Passwords : ResetRead(r, u, c, p)
             \/ \E current, p \in Passwords : ChangeRead(r, u, current, p)
      PROVE  IInv'
  BY <1>4, BeginSteps
<1>5. QED
  BY <1>1, <1>2, <1>3, <1>4 DEF AccountsNext

-----------------------------------------------------------------------------
(* The theorems.                                                            *)

THEOREM IInvHolds == AccountsSpec => []IInv
<1>1. AccountsInit => IInv
  BY InitIInv
<1>2. IInv /\ [AccountsNext]_accountVars => IInv'
  BY StepIInv
<1>3. QED
  BY <1>1, <1>2, PTL DEF AccountsSpec

(***************************************************************************)
(* A code that has set a password is of no further use, for any number of  *)
(* accounts, codes sent again, deletions and resets in progress together:  *)
(* only the resets that had compared it by then still write.               *)
(* resetPassword.                                                          *)
(***************************************************************************)
THEOREM SpentCodesAreFinal == AccountsSpec => []SpentIsFinal
<1>1. IInv => SpentIsFinal
  BY DEF IInv
<1>2. QED
  BY <1>1, IInvHolds, PTL

(***************************************************************************)
(* The status of an account only changes by a request that found it as     *)
(* Decided says: a company administrator's never by a manager who could    *)
(* see that he is one.  updateCompanyUser, suspendUser, reactivateUser,    *)
(* updateStatus, AdminAuthService.verifyEmail and completeRegistration.    *)
(***************************************************************************)
THEOREM AccountsKeepStanding == AccountsSpec => StandingIsKept
<1> DEFINE Kept(u) ==
      user'[u] # None /\ user'[u].status # user[u].status
      => \E r \in Slots : Decided(req[r], u, user'[u].status)
<1>1. ASSUME AccountsTypeOK, [AccountsNext]_accountVars, NEW u \in Known
      PROVE  Kept(u)
  <2>1. u \in Users /\ user[u] \in AccountRow /\ user[u] # None
    BY <1>1, KnownRow DEF Known
  <2>2. CASE user'[u] = None \/ user'[u].status = user[u].status
    BY <2>2
  <2>3. CASE user'[u] # None /\ user'[u].status # user[u].status
    <3>1. ASSUME NEW row, NEW v \in Users, user' = [user EXCEPT ![v] = row]
          PROVE  v = u /\ user'[u] = row
      BY <1>1, <2>1, <2>3, <3>1 DEF AccountsTypeOK
    <3>2. ASSUME NEW v \in Users, NEW code, user' = [user EXCEPT ![v].code = code]
          PROVE  FALSE
      BY <1>1, <2>1, <2>3, <3>2 DEF AccountsTypeOK, AccountRow
    <3>3. CASE \E r \in Slots : Continue(r)
      <4> PICK r \in Slots : Continue(r)
        BY <3>3
      <4>0. req[r] # None /\ req[r] \in Request /\ req[r].user \in Users
        BY <1>1, RequestFound DEF Continue, CompleteWrite, SocialUser, ResendSign, VerifyWrite,
              ResetWrite, ChangeWrite, LoginWrite, StandingWrite, ManageWrite, Fail, At
      <4>1. CASE CompleteWrite(r)
        <5>1. req[r].standing = "pending" /\ req[r].op = "complete"
          BY <4>0, <4>1 DEF CompleteWrite, At, Request
        <5>2. req[r].user = u /\ user'[u].status = "approved"
          BY <1>1, <2>1, <2>3, <4>0, <4>1 DEF CompleteWrite, AccountsTypeOK, AccountRow
        <5>3. QED
          BY <4>0, <5>1, <5>2 DEF Decided
      <4>2. CASE VerifyWrite(r)
        <5>1. req[r].user = u /\ user'[u].status = "approved" /\ req[r].op = "verify"
          BY <1>1, <2>1, <2>3, <4>0, <4>2 DEF VerifyWrite, At, AccountsTypeOK, AccountRow
        <5>2. QED
          BY <4>0, <5>1 DEF Decided
      <4>3. CASE SocialUser(r)
        BY <2>1, <4>0, <4>3, <3>1 DEF SocialUser
      <4>4. CASE ResendSign(r)
        BY <4>0, <4>4, <3>2 DEF ResendSign
      <4>5. CASE ResetWrite(r)
        BY <1>1, <2>1, <2>3, <4>0, <4>5 DEF ResetWrite, AfterReset, AccountsTypeOK, AccountRow
      <4>6. CASE ChangeWrite(r)
        BY <1>1, <2>1, <2>3, <4>0, <4>6 DEF ChangeWrite, AccountsTypeOK, AccountRow
      <4>7. CASE LoginWrite(r) \/ Fail(r)
        BY <2>3, <4>7 DEF LoginWrite, Fail
      <4>8. CASE StandingWrite(r)
        <5>1. req[r].user = u /\ user'[u].status = Decision[req[r].op]
          BY <1>1, <2>1, <2>3, <4>0, <4>8 DEF StandingWrite, AccountsTypeOK, AccountRow
        <5>2. /\ req[r].op \in {"suspend", "reactivate", "activate"}
              /\ req[r].op = "reactivate" => req[r].standing = "suspended"
              /\ req[r].op = "activate" => req[r].admin
          BY <4>0, <4>8 DEF StandingWrite, Decision, Request
        <5>3. user'[u].status = IF req[r].op = "suspend" THEN "suspended" ELSE "active"
          BY <5>1, <5>2 DEF Decision
        <5>4. QED
          BY <4>0, <5>1, <5>2, <5>3 DEF Decided
      <4>9. CASE \E status \in Statuses, admin \in BOOLEAN : ManageWrite(r, status, admin)
        <5>1. req[r].user = u
          BY <1>1, <2>1, <2>3, <4>0, <4>9 DEF ManageWrite, AccountsTypeOK, AccountRow
        <5>2. req[r].op = "manage" /\ ~req[r].admin
          BY <4>0, <4>9 DEF ManageWrite, At, Request
        <5>3. QED
          BY <4>0, <5>1, <5>2 DEF Decided
      <4>10. QED
        BY <4>1, <4>2, <4>3, <4>4, <4>5, <4>6, <4>7, <4>8, <4>9 DEF Continue
    <3>4. CASE \E v \in Users :
                \/ \E admin \in BOOLEAN : InvitePlatformUser(v, admin)
                \/ \E p \in Passwords :
                      \/ RegisterCompany(v, p)
                      \/ \E admin \in BOOLEAN : Register(v, p, admin) \/ CompleteSignup(v, p, admin)
      BY <2>1, <3>1, <3>4 DEF InvitePlatformUser, RegisterCompany, Register, CompleteSignup
    <3>5. CASE \E v \in Users : IssueCode(v) \/ Expire(v) \/ \E r \in Slots : ResendStore(r, v)
      BY <3>2, <3>5 DEF IssueCode, Expire, ResendStore, Draw
    <3>6. ASSUME NEW v \in Users, (\E admin \in BOOLEAN : Recast(v, admin)) \/ DeleteUser(v)
          PROVE  FALSE
      BY <1>1, <2>1, <2>3, <3>6 DEF Recast, DeleteUser, AccountsTypeOK, AccountRow
    <3>7. ASSUME UNCHANGED accountVars \/ RenamePlaceholder \/ (\E v \in Users : Refresh(v) \/ Lapse(v))
          PROVE  FALSE
      BY <2>3, <3>7 DEF accountVars, RenamePlaceholder, Refresh, Lapse
    <3>8. ASSUME NEW v \in Users, NEW r \in Slots,
                 \/ SocialCompany(r, v) \/ SuspendRead(r, v) \/ ReactivateRead(r, v)
                 \/ ActivateRead(r, v) \/ ManageRead(r, v)
                 \/ \E p \in Passwords : CompleteRead(r, v, p)
                 \/ \E p \in Passwords \cup {None} : LoginRead(r, v, p)
                 \/ \E c \in 1..drawn :
                       VerifyRead(r, v, c) \/ \E p \in Passwords : ResetRead(r, v, c, p)
                 \/ \E current, p \in Passwords : ChangeRead(r, v, current, p)
          PROVE  FALSE
      BY <2>3, <3>8 DEF SocialCompany, CompleteRead, LoginRead, VerifyRead, ResetRead, ChangeRead,
            SuspendRead, ReactivateRead, ActivateRead, ManageRead
    <3>9. QED
      BY <1>1, <3>3, <3>4, <3>5, <3>6, <3>7, <3>8 DEF AccountsNext
  <2>4. QED
    BY <2>2, <2>3
<1>2. IInv /\ [AccountsNext]_accountVars => [\A u \in Known : Kept(u)]_accountVars
  BY <1>1 DEF IInv
<1>3. QED
  BY <1>2, IInvHolds, PTL DEF AccountsSpec, StandingIsKept
=============================================================================
