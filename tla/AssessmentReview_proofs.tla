----------------------- MODULE AssessmentReview_proofs -----------------------
(***************************************************************************)
(* Theorems about AssessmentReview for any set of assessments, users,      *)
(* sections and groups and any number of requests in flight.               *)
(*                                                                         *)
(* The argument is one inductive invariant, IInv.  Types and the absence   *)
(* of orphan reports carry themselves; that an approval is logged and      *)
(* attributed does not: submitGroup may write "approved" over whatever the *)
(* row holds by then, so InFlightIsBacked says that what a request read    *)
(* still backs what it is about to write.                                  *)
(***************************************************************************)
EXTENDS AssessmentReview, TLAPS

-----------------------------------------------------------------------------
(* Types                                                                   *)

\* The blank row of a table is a row, whatever the mark on it.
LEMMA TombstoneType ==
  ASSUME NEW mark \in {"unborn", "deleted"}
  PROVE  Tombstone(mark) \in Row
BY DEF Tombstone, Row, Data, Empty

LEMMA EmptyType == Empty \in Data
BY DEF Empty, Data

\* A request in flight works on an assessment of the table.
LEMMA InFlight ==
  ASSUME TypeOK, NEW r \in Requests, req[r].pc # "idle"
  PROVE  /\ req[r] \in Pending
         /\ req[r].of \in Assessments
         /\ row[req[r].of] \in Row
BY DEF TypeOK, Idle, Pending

LEMMA StartType ==
  ASSUME TypeOK, NEW r \in Requests, NEW pc \in Pc, NEW a \in Assessments,
         NEW st \in Status \cup {None}, NEW u \in Users \cup {None},
         NEW d \in Data, Start(r, pc, a, st, u, d)
  PROVE  req' \in [Requests -> Pending \cup {Idle}]
BY DEF TypeOK, Start, Pending

LEMMA DoneType ==
  ASSUME TypeOK, NEW r \in Requests, Done(r)
  PROVE  req' \in [Requests -> Pending \cup {Idle}]
BY DEF TypeOK, Done

LEMMA ContinueType ==
  ASSUME TypeOK, NEW r \in Requests, NEW pc \in Pc,
         req[r].pc # "idle", Continue(r, pc)
  PROVE  req' \in [Requests -> Pending \cup {Idle}]
BY InFlight, EmptyType DEF TypeOK, Continue, Pending

LEMMA TypeInit == Init => TypeOK
<1> SUFFICES ASSUME Init PROVE TypeOK
  OBVIOUS
<1>1. row \in [Assessments -> Row]
  BY TombstoneType DEF Init
<1>2. req \in [Requests -> Pending \cup {Idle}]
  BY DEF Init
<1>3. QED
  BY <1>1, <1>2 DEF Init, TypeOK

LEMMA TypeArrive ==
  ASSUME TypeOK, NEW r \in Requests, Arrive(r)
  PROVE  TypeOK'
<1> USE DEF Live
<1> PICK a \in Assessments :
       \/ \E s \in Sections : SaveRead(r, a, s)
       \/ \E gs \in {{}} \cup {{g} : g \in Groups} : GroupRead(r, a, gs)
       \/ \E u \in Users, v \in Validators \cup {None} : SubmitRead(r, a, u, v)
       \/ \E u \in Validators : ApproveRead(r, a, u) \/ DeclineRead(r, a, u)
       \/ DeleteRead(r, a) \/ GenerateRead(r, a)
  BY DEF Arrive
<1> row[a].assessmentData \in Data
  BY DEF TypeOK, Row
<1> USE EmptyType
<1>1. ASSUME NEW s \in Sections, SaveRead(r, a, s)  PROVE TypeOK'
  <2> DEFINE d == [row[a].assessmentData EXCEPT !.saved = @ \cup {s}]
             pc == IF row[a].status = "declined" THEN "save.reset" ELSE "save.update"
  <2>1. d \in Data /\ pc \in Pc
    BY DEF Data, Pc
  <2>2. Start(r, pc, a, None, None, d)
    BY <1>1 DEF SaveRead
  <2>3. req' \in [Requests -> Pending \cup {Idle}]
    BY <2>1, <2>2, StartType
  <2>4. QED
    BY <1>1, <2>3 DEF SaveRead, TypeOK
<1>2. ASSUME NEW gs \in {{}} \cup {{g} : g \in Groups}, GroupRead(r, a, gs)  PROVE TypeOK'
  <2> DEFINE d == [row[a].assessmentData EXCEPT !.submittedGroups = @ \cup gs]
  <2>1. d \in Data /\ "group.update" \in Pc /\ row[a].status \in Status
    BY <1>2 DEF Data, Pc, GroupRead
  <2>2. Start(r, "group.update", a, row[a].status, None, d)
    BY <1>2 DEF GroupRead
  <2>3. req' \in [Requests -> Pending \cup {Idle}]
    BY <2>1, <2>2, StartType
  <2>4. QED
    BY <1>2, <2>3 DEF GroupRead, TypeOK
<1>3. ASSUME NEW u \in Users, NEW v \in Validators \cup {None}, SubmitRead(r, a, u, v)
      PROVE  TypeOK'
  <2> DEFINE st == IF requireReview THEN "awaiting_review" ELSE "submitted_approved"
  <2>1. st \in Status /\ "submit.update" \in Pc /\ FinalReviewer(u, v) \in Users
    BY UsersAssumption DEF Status, Pc, FinalReviewer
  <2>2. Start(r, "submit.update", a, st, FinalReviewer(u, v), Empty)
    BY <1>3 DEF SubmitRead
  <2>3. req' \in [Requests -> Pending \cup {Idle}]
    BY <2>1, <2>2, StartType
  <2>4. QED
    BY <1>3, <2>3 DEF SubmitRead, TypeOK
<1>4. ASSUME NEW u \in Validators, ApproveRead(r, a, u) \/ DeclineRead(r, a, u)
      PROVE  TypeOK'
  <2>1. "approve.tx" \in Pc /\ "decline.tx" \in Pc /\ u \in Users
    BY UsersAssumption DEF Pc
  <2>2. req' \in [Requests -> Pending \cup {Idle}]
    BY <1>4, <2>1, StartType DEF ApproveRead, DeclineRead
  <2>3. QED
    BY <1>4, <2>2 DEF ApproveRead, DeclineRead, TypeOK
<1>5. ASSUME DeleteRead(r, a)  PROVE TypeOK'
  <2>1. "delete.tx" \in Pc
    BY DEF Pc
  <2>2. req' \in [Requests -> Pending \cup {Idle}]
    BY <1>5, <2>1, StartType DEF DeleteRead
  <2>3. QED
    BY <1>5, <2>2 DEF DeleteRead, TypeOK
<1>6. ASSUME GenerateRead(r, a)  PROVE TypeOK'
  <2>1. "report.upsert" \in Pc
    BY DEF Pc
  <2>2. req' \in [Requests -> Pending \cup {Idle}]
    BY <1>6, <2>1, StartType DEF GenerateRead
  <2>3. QED
    BY <1>6, <2>2 DEF GenerateRead, TypeOK
<1>7. QED
  BY <1>1, <1>2, <1>3, <1>4, <1>5, <1>6

-----------------------------------------------------------------------------
(* What the writes of the handlers do to a row                             *)

\* Request r wrote its row, and no other: the status, the reviewer and the
\* approval time it left there.
Written(r, status, reviewer, approved) ==
  LET x == req[r].of IN
  /\ x \in Assessments /\ Live(x)
  /\ row' \in [Assessments -> Row]
  /\ \A a \in Assessments : a # x => row'[a] = row[a]
  /\ row'[x].status = status
  /\ row'[x].reviewed_by = reviewer
  /\ row'[x].approvedAt = approved

\* An UPDATE of some of the columns replaces the row by another.
LEMMA WrittenRow ==
  ASSUME TypeOK, NEW r \in Requests, req[r].of \in Assessments, Live(req[r].of),
         NEW new \in Row, row' = [row EXCEPT ![req[r].of] = new]
  PROVE  Written(r, new.status, new.reviewed_by, new.approvedAt)
BY DEF Written, TypeOK

LEMMA Writes ==
  ASSUME TypeOK, InFlightIsBacked, NEW r \in Requests
  PROVE  LET old == row[req[r].of] IN
         /\ SaveReset(r) => Written(r, "in_progress", old.reviewed_by, old.approvedAt)
         /\ SaveWrite(r) => Written(r, old.status, old.reviewed_by, old.approvedAt)
         /\ GroupWrite(r) => Written(r, req[r].status, old.reviewed_by, old.approvedAt)
         /\ SubmitWrite(r) =>
              Written(r, req[r].status, req[r].user,
                      old.approvedAt \/ req[r].status = "submitted_approved")
         /\ ApproveCommit(r) => Written(r, "approved", req[r].user, TRUE)
         /\ DeclineCommit(r) => Written(r, "declined", req[r].user, old.approvedAt)
<1> DEFINE x == req[r].of
           old == row[x]
<1>0. ASSUME NEW pc, pc # "idle", At(r, pc)
      PROVE  /\ req[r] \in Pending /\ req[r].data \in Data
             /\ x \in Assessments /\ old \in Row /\ Live(x) /\ old.status \in Status
             /\ row \in [Assessments -> Row]
  BY <1>0, InFlight DEF At, Live, Pending, TypeOK
<1>1. ASSUME SaveReset(r)
      PROVE  Written(r, "in_progress", old.reviewed_by, old.approvedAt)
  <2> DEFINE new == [old EXCEPT !.status = "in_progress", !.rejection_reason = FALSE,
                                !.submittedAt = FALSE]
  <2>1. x \in Assessments /\ old \in Row /\ Live(x) /\ row \in [Assessments -> Row]
    BY <1>0, <1>1 DEF SaveReset
  <2>2. row' = [row EXCEPT ![x] = new]
    BY <1>1, <2>1 DEF SaveReset
  <2>3. /\ new \in Row /\ new.status = "in_progress"
        /\ new.reviewed_by = old.reviewed_by /\ new.approvedAt = old.approvedAt
    BY <2>1 DEF Row, Status
  <2>4. QED
    BY <2>1, <2>2, <2>3, WrittenRow
<1>2. ASSUME SaveWrite(r)
      PROVE  Written(r, old.status, old.reviewed_by, old.approvedAt)
  <2> DEFINE new == [old EXCEPT !.assessmentData = req[r].data]
  <2>1. /\ x \in Assessments /\ old \in Row /\ Live(x) /\ row \in [Assessments -> Row]
        /\ req[r].data \in Data
    BY <1>0, <1>2 DEF SaveWrite
  <2>2. row' = [row EXCEPT ![x] = new]
    BY <1>2, <2>1 DEF SaveWrite
  <2>3. /\ new \in Row /\ new.status = old.status
        /\ new.reviewed_by = old.reviewed_by /\ new.approvedAt = old.approvedAt
    BY <2>1 DEF Row
  <2>4. QED
    BY <2>1, <2>2, <2>3, WrittenRow
<1>3. ASSUME GroupWrite(r)
      PROVE  Written(r, req[r].status, old.reviewed_by, old.approvedAt)
  <2> DEFINE new == [old EXCEPT !.assessmentData = req[r].data, !.status = req[r].status]
  <2>1. /\ x \in Assessments /\ old \in Row /\ Live(x) /\ row \in [Assessments -> Row]
        /\ req[r].data \in Data
    BY <1>0, <1>3 DEF GroupWrite
  <2>2. req[r].status \in Status
    BY <1>3 DEF GroupWrite, At, InFlightIsBacked, Backed
  <2>3. row' = [row EXCEPT ![x] = new]
    BY <1>3, <2>1 DEF GroupWrite
  <2>4. /\ new \in Row /\ new.status = req[r].status
        /\ new.reviewed_by = old.reviewed_by /\ new.approvedAt = old.approvedAt
    BY <2>1, <2>2 DEF Row
  <2>5. QED
    BY <2>1, <2>3, <2>4, WrittenRow
<1>4. ASSUME SubmitWrite(r)
      PROVE  Written(r, req[r].status, req[r].user,
                     old.approvedAt \/ req[r].status = "submitted_approved")
  <2> DEFINE app == old.approvedAt \/ req[r].status = "submitted_approved"
             new == [old EXCEPT !.status = req[r].status, !.reviewed_by = req[r].user,
                                !.rejection_reason = FALSE, !.submittedAt = TRUE,
                                !.approvedAt = app]
  <2>1. x \in Assessments /\ old \in Row /\ Live(x) /\ row \in [Assessments -> Row]
    BY <1>0, <1>4 DEF SubmitWrite
  <2>2. req[r].status \in Status /\ req[r].user \in Users
    BY <1>4 DEF SubmitWrite, At, InFlightIsBacked, Backed, Status
  <2>3. row' = [row EXCEPT ![x] = new]
    BY <1>4, <2>1 DEF SubmitWrite
  <2>4. app \in BOOLEAN
    OBVIOUS
  <2>5. /\ new \in Row /\ new.status = req[r].status
        /\ new.reviewed_by = req[r].user /\ new.approvedAt = app
    <3> HIDE DEF app
    <3>1. QED
      BY <2>1, <2>2, <2>4 DEF Row
  <2>6. QED
    BY <2>1, <2>3, <2>5, WrittenRow
<1>5. ASSUME ApproveCommit(r)  PROVE Written(r, "approved", req[r].user, TRUE)
  <2> DEFINE new == [old EXCEPT !.status = "approved", !.reviewed_by = req[r].user,
                                !.approvedAt = TRUE, !.rejection_reason = FALSE]
  <2>1. x \in Assessments /\ old \in Row /\ Live(x) /\ row \in [Assessments -> Row]
    BY <1>0, <1>5 DEF ApproveCommit
  <2>2. req[r].user \in Users
    BY <1>5 DEF ApproveCommit, At, InFlightIsBacked, Backed
  <2>3. row' = [row EXCEPT ![x] = new]
    BY <1>5, <2>1 DEF ApproveCommit
  <2>4. /\ new \in Row /\ new.status = "approved"
        /\ new.reviewed_by = req[r].user /\ new.approvedAt = TRUE
    BY <2>1, <2>2 DEF Row, Status
  <2>5. QED
    BY <2>1, <2>3, <2>4, WrittenRow
<1>6. ASSUME DeclineCommit(r)
      PROVE  Written(r, "declined", req[r].user, old.approvedAt)
  <2> DEFINE new == [old EXCEPT !.status = "declined", !.reviewed_by = req[r].user,
                                !.rejection_reason = TRUE]
  <2>1. x \in Assessments /\ old \in Row /\ Live(x) /\ row \in [Assessments -> Row]
    BY <1>0, <1>6 DEF DeclineCommit
  <2>2. req[r].user \in Users
    BY <1>6 DEF DeclineCommit, At, InFlightIsBacked, Backed
  <2>3. row' = [row EXCEPT ![x] = new]
    BY <1>6, <2>1 DEF DeclineCommit
  <2>4. /\ new \in Row /\ new.status = "declined"
        /\ new.reviewed_by = req[r].user /\ new.approvedAt = old.approvedAt
    BY <2>1, <2>2 DEF Row, Status
  <2>5. QED
    BY <2>1, <2>3, <2>4, WrittenRow
<1>7. QED
  BY <1>1, <1>2, <1>3, <1>4, <1>5, <1>6

\* A client's call only reads the tables.
LEMMA ArriveReads ==
  ASSUME NEW r \in Requests, Arrive(r)
  PROVE  /\ row' = row /\ report' = report /\ log' = log
         /\ account' = account /\ unsigned' = unsigned
BY DEF Arrive, SaveRead, GroupRead, SubmitRead, ApproveRead, DeclineRead, DeleteRead,
       GenerateRead

\* Only an INSERT, the writes of the handlers and the deletion of a reviewer
\* change a row.
LEMMA RowSteps ==
  ASSUME [Next]_vars, row' # row
  PROVE  \/ \E a \in Assessments : CreateAssessment(a)
         \/ \E r \in Requests :
              \/ SaveReset(r) \/ SaveWrite(r) \/ GroupWrite(r) \/ SubmitWrite(r)
              \/ ApproveCommit(r) \/ DeclineCommit(r) \/ DeleteCommit(r)
         \/ \E u \in Users : DeleteUser(u)
BY ArriveReads
DEF Next, vars, Proceed, ReportRead, ReportUpsert, RowGone, ReviewerGone, Fail,
    ToggleReview, LogIn

\* What the deletion of a user does to a row: its reviewer, and nothing else.
LEMMA ErasedRow ==
  ASSUME TypeOK, NEW u \in Users, DeleteUser(u), NEW a \in Assessments
  PROVE  /\ row'[a] \in Row
         /\ row'[a].status = row[a].status
         /\ row'[a].approvedAt = row[a].approvedAt
         /\ row'[a].rejection_reason = row[a].rejection_reason
         /\ row'[a].submittedAt = row[a].submittedAt
         /\ row'[a].assessmentData = row[a].assessmentData
         /\ row'[a] # row[a] =>
              /\ Live(a) /\ a \in unsigned'
              /\ row[a].reviewed_by = u /\ row'[a].reviewed_by = None
<1>1. /\ row[a] \in Row
      /\ a \in ReviewedBy(u) => Live(a) /\ a \in unsigned' /\ row[a].reviewed_by = u
  BY DEF DeleteUser, Erase, ReviewedBy, TypeOK
<1>2. CASE a \in ReviewedBy(u)
  <2>1. row'[a] = [row[a] EXCEPT !.reviewed_by = None]
    BY <1>2 DEF DeleteUser, Erase
  <2>2. QED
    BY <1>1, <1>2, <2>1 DEF Row
<1>3. CASE a \notin ReviewedBy(u)
  BY <1>1, <1>3 DEF DeleteUser, Erase
<1>4. QED
  BY <1>2, <1>3

-----------------------------------------------------------------------------
(* Types, continued                                                        *)

\* Every step of a handler leaves rows, reports and activities well typed.
LEMMA TypeProceed ==
  ASSUME TypeOK, InFlightIsBacked, NEW r \in Requests, Proceed(r)
  PROVE  TypeOK'
<1> USE EmptyType
<1>0. ASSUME SaveReset(r) \/ SaveWrite(r) \/ GroupWrite(r) \/ SubmitWrite(r)
               \/ ApproveCommit(r) \/ DeclineCommit(r)
      PROVE  row' \in [Assessments -> Row]
  BY <1>0, Writes DEF Written
<1>1. ASSUME SaveReset(r)  PROVE TypeOK'
  <2> DEFINE q == [req[r] EXCEPT !.pc = "save.update"]
  <2>1. req[r] \in Pending
    BY <1>1, InFlight DEF SaveReset, At
  <2>2. q \in Pending
    BY <2>1 DEF Pending, Pc
  <2>3. req' = [req EXCEPT ![r] = q]
    BY <1>1 DEF SaveReset, TypeOK
  <2>4. QED
    BY <1>0, <1>1, <2>2, <2>3 DEF SaveReset, TypeOK
<1>2. ASSUME SaveWrite(r)  PROVE TypeOK'
  BY <1>0, <1>2, DoneType DEF SaveWrite, TypeOK
<1>3. ASSUME GroupWrite(r) \/ SubmitWrite(r)  PROVE TypeOK'
  <2>1. req[r].pc # "idle" /\ Continue(r, "report.read") /\ "report.read" \in Pc
    BY <1>3 DEF GroupWrite, SubmitWrite, At, Pc
  <2>2. req' \in [Requests -> Pending \cup {Idle}]
    BY <2>1, ContinueType
  <2>3. QED
    BY <1>0, <1>3, <2>2 DEF GroupWrite, SubmitWrite, Signed, TypeOK
<1>4. ASSUME ApproveCommit(r)  PROVE TypeOK'
  <2>1. req[r].pc = "approve.tx" /\ req[r].user \in Users
    BY <1>4 DEF ApproveCommit, At, InFlightIsBacked, Backed
  <2>2. log' \subseteq Activity
    BY <1>4, <2>1, InFlight DEF ApproveCommit, TypeOK, Activity
  <2>3. req' \in [Requests -> Pending \cup {Idle}]
    BY <1>4, <2>1, ContinueType DEF ApproveCommit, Pc
  <2>4. QED
    BY <1>0, <1>4, <2>2, <2>3 DEF ApproveCommit, Signed, TypeOK
<1>5. ASSUME DeclineCommit(r)  PROVE TypeOK'
  <2>1. req[r].pc = "decline.tx" /\ req[r].user \in Users
    BY <1>5 DEF DeclineCommit, At, InFlightIsBacked, Backed
  <2>2. log' \subseteq Activity
    BY <1>5, <2>1, InFlight DEF DeclineCommit, TypeOK, Activity
  <2>3. QED
    BY <1>0, <1>5, <2>2, DoneType DEF DeclineCommit, Signed, TypeOK
<1>6. ASSUME DeleteCommit(r)  PROVE TypeOK'
  <2>1. row' \in [Assessments -> Row]
    BY <1>6, TombstoneType DEF DeleteCommit, TypeOK
  <2>2. QED
    BY <1>6, <2>1, DoneType DEF DeleteCommit, TypeOK
<1>7. ASSUME ReportRead(r)  PROVE TypeOK'
  <2>1. req[r].pc = "report.read"
    BY <1>7 DEF ReportRead, At
  <2>2. req[r] \in Pending /\ row[req[r].of].assessmentData \in Data
    BY <2>1, InFlight DEF Row
  <2>3. req'[r] = [req[r] EXCEPT !.pc = "report.upsert",
                                !.data = row[req[r].of].assessmentData]
    BY <1>7 DEF ReportRead, TypeOK
  <2>4. req'[r] \in Pending
    BY <2>2, <2>3 DEF Pending, Pc
  <2>5. QED
    BY <1>7, <2>4 DEF ReportRead, TypeOK
<1>8. ASSUME ReportUpsert(r)  PROVE TypeOK'
  <2>1. req[r].pc = "report.upsert"
    BY <1>8 DEF ReportUpsert, At
  <2>2. report' \in [Assessments -> Data \cup {None}]
    BY <1>8, <2>1, InFlight DEF ReportUpsert, TypeOK, Pending
  <2>3. QED
    BY <1>8, <2>2, DoneType DEF ReportUpsert, TypeOK
<1>9. ASSUME RowGone(r) \/ ReviewerGone(r)  PROVE TypeOK'
  BY <1>9, DoneType DEF RowGone, ReviewerGone, TypeOK
<1>10. QED
  BY <1>1, <1>2, <1>3, <1>4, <1>5, <1>6, <1>7, <1>8, <1>9 DEF Proceed

LEMMA TypeNext == TypeOK /\ InFlightIsBacked /\ [Next]_vars => TypeOK'
<1> SUFFICES ASSUME TypeOK, InFlightIsBacked, [Next]_vars  PROVE TypeOK'
  OBVIOUS
<1>1. ASSUME NEW a \in Assessments, CreateAssessment(a)  PROVE TypeOK'
  BY <1>1 DEF CreateAssessment, TypeOK, Row, Status
<1>2. ASSUME NEW r \in Requests, Arrive(r)  PROVE TypeOK'
  BY <1>2, TypeArrive
<1>3. ASSUME NEW r \in Requests, Proceed(r)  PROVE TypeOK'
  BY <1>3, TypeProceed
<1>4. ASSUME NEW r \in Requests, Fail(r)  PROVE TypeOK'
  BY <1>4, DoneType DEF Fail, TypeOK
<1>5. ASSUME ToggleReview  PROVE TypeOK'
  BY <1>5 DEF ToggleReview, TypeOK
<1>6. ASSUME UNCHANGED vars  PROVE TypeOK'
  BY <1>6 DEF vars, TypeOK
<1>7. ASSUME NEW u \in Users, LogIn(u)  PROVE TypeOK'
  BY <1>7 DEF LogIn, TypeOK
<1>8. ASSUME NEW u \in Users, DeleteUser(u)  PROVE TypeOK'
  <2>1. row' \in [Assessments -> Row]
    <3>1. \A a \in Assessments : row'[a] \in Row
      BY <1>8, ErasedRow
    <3>2. row' = [a \in Assessments |-> row'[a]]
      BY <1>8 DEF DeleteUser, Erase
    <3>3. QED
      BY <3>1, <3>2
  <2>2. unsigned' \subseteq Assessments /\ log' \subseteq Activity
    BY <1>8 DEF DeleteUser, Erase, ReviewedBy, TypeOK
  <2>3. QED
    BY <1>8, <2>1, <2>2 DEF DeleteUser, Erase, TypeOK
<1>9. QED
  BY <1>1, <1>2, <1>3, <1>4, <1>5, <1>6, <1>7, <1>8 DEF Next

-----------------------------------------------------------------------------
(* What no step takes away                                                 *)

\* A row that was inserted is never "not yet inserted" again; if it is there
\* after a step it was there before, and it has kept its approval time, and its
\* reviewer unless they were deleted.
Kept(a) ==
  row[a].status # "unborn" =>
    /\ row'[a].status # "unborn"
    /\ row'[a].status \in Status =>
         /\ Live(a)
         /\ row[a].reviewed_by # None \/ a \in unsigned
              => row'[a].reviewed_by # None \/ a \in unsigned'
         /\ row[a].approvedAt => row'[a].approvedAt

\* Only a signature makes up for a deleted reviewer.
LEMMA UnsignedSteps ==
  ASSUME TypeOK, InFlightIsBacked, [Next]_vars, NEW a \in Assessments, a \in unsigned
  PROVE  row'[a].reviewed_by # None \/ a \in unsigned'
<1>1. ASSUME NEW r \in Requests, SubmitWrite(r) \/ ApproveCommit(r) \/ DeclineCommit(r)
      PROVE  row'[a].reviewed_by # None \/ a \in unsigned'
  <2>1. req[r].user # None
    BY <1>1, UsersAssumption
    DEF SubmitWrite, ApproveCommit, DeclineCommit, At, InFlightIsBacked, Backed
  <2>2. row'[req[r].of].reviewed_by = req[r].user
    BY <1>1, Writes DEF Written
  <2>3. unsigned' = unsigned \ {req[r].of}
    BY <1>1 DEF SubmitWrite, ApproveCommit, DeclineCommit, Signed
  <2>4. QED
    BY <2>1, <2>2, <2>3
<1>2. ASSUME NEW r \in Requests, Proceed(r),
             ~ (SubmitWrite(r) \/ ApproveCommit(r) \/ DeclineCommit(r))
      PROVE  a \in unsigned'
  BY <1>2
  DEF Proceed, SaveReset, SaveWrite, GroupWrite, DeleteCommit, ReportRead, ReportUpsert,
      RowGone, ReviewerGone
<1>3. ASSUME NEW u \in Users, LogIn(u) \/ DeleteUser(u)  PROVE a \in unsigned'
  BY <1>3 DEF LogIn, DeleteUser, Erase
<1>4. QED
  BY <1>1, <1>2, <1>3, ArriveReads DEF Next, vars, CreateAssessment, Fail, ToggleReview

\* No decision is forgotten, and who has logged in stays.
AllKept ==
  /\ log \subseteq log'
  /\ \A u \in Users : account[u] = "member" => account'[u] = "member"
  /\ \A a \in Assessments : Kept(a)

LEMMA KeptByNext == TypeOK /\ InFlightIsBacked /\ AuthorsStay /\ [Next]_vars => AllKept
<1> SUFFICES ASSUME TypeOK, InFlightIsBacked, AuthorsStay, [Next]_vars  PROVE AllKept
  OBVIOUS
<1>1. log \subseteq log'
  <2>1. ASSUME NEW r \in Requests, Proceed(r)  PROVE log \subseteq log'
    BY <2>1
    DEF Proceed, SaveReset, SaveWrite, GroupWrite, SubmitWrite, ApproveCommit,
        DeclineCommit, DeleteCommit, ReportRead, ReportUpsert, RowGone, ReviewerGone
  <2>2. ASSUME NEW u \in Users, DeleteUser(u)  PROVE log \subseteq log'
    BY <2>2 DEF DeleteUser, Erase, AuthorsStay
  <2>3. QED
    BY <2>1, <2>2, ArriveReads DEF Next, vars, CreateAssessment, Fail, ToggleReview, LogIn
<1>0. ASSUME NEW u \in Users, account[u] = "member"  PROVE account'[u] = "member"
  <2>1. ASSUME NEW r \in Requests, Proceed(r)  PROVE account' = account
    BY <2>1
    DEF Proceed, SaveReset, SaveWrite, GroupWrite, SubmitWrite, ApproveCommit,
        DeclineCommit, DeleteCommit, ReportRead, ReportUpsert, RowGone, ReviewerGone
  <2>2. ASSUME NEW w \in Users, LogIn(w) \/ DeleteUser(w)  PROVE account'[u] = "member"
    BY <1>0, <2>2 DEF LogIn, DeleteUser, Erase, TypeOK
  <2>3. QED
    BY <1>0, <2>1, <2>2, ArriveReads DEF Next, vars, CreateAssessment, Fail, ToggleReview
<1>2. SUFFICES ASSUME NEW a \in Assessments  PROVE Kept(a)
  BY <1>0, <1>1 DEF AllKept
<1> a \in unsigned => row'[a].reviewed_by # None \/ a \in unsigned'
  BY UnsignedSteps
<1>3. CASE row'[a] = row[a]
  BY <1>3 DEF Kept, Live
<1>4. CASE row'[a] # row[a]
  <2>1. ASSUME NEW b \in Assessments, CreateAssessment(b)  PROVE Kept(a)
    BY <1>4, <2>1 DEF CreateAssessment, Kept, TypeOK
  <2>2. ASSUME NEW r \in Requests, NEW st, NEW by, NEW app, Written(r, st, by, app),
               row[req[r].of].reviewed_by # None => by # None,
               row[req[r].of].approvedAt => app, st \in Status
        PROVE  Kept(a)
    BY <1>4, <2>2 DEF Written, Kept, Status
  <2>3. ASSUME NEW r \in Requests, SaveReset(r) \/ SaveWrite(r)  PROVE Kept(a)
    <3>1. row[req[r].of].status \in Status /\ "in_progress" \in Status
      BY <2>3 DEF SaveReset, SaveWrite, At, Live, Status
    <3>2. PICK st \in Status : Written(r, st, row[req[r].of].reviewed_by,
                                            row[req[r].of].approvedAt)
      BY <2>3, <3>1, Writes
    <3>3. QED
      BY <2>2, <3>2
  <2>4. ASSUME NEW r \in Requests, GroupWrite(r)  PROVE Kept(a)
    <3>1. req[r].status \in Status
      BY <2>4 DEF GroupWrite, At, InFlightIsBacked, Backed
    <3>2. QED
      BY <2>2, <2>4, <3>1, Writes
  <2>5. ASSUME NEW r \in Requests, SubmitWrite(r) \/ ApproveCommit(r) \/ DeclineCommit(r)
        PROVE  Kept(a)
    <3>1. req[r].user # None
      BY <2>5, UsersAssumption
      DEF SubmitWrite, ApproveCommit, DeclineCommit, At, InFlightIsBacked, Backed
    <3>2. SubmitWrite(r) => req[r].status \in Status
      BY DEF SubmitWrite, At, InFlightIsBacked, Backed, Status
    <3>3. "approved" \in Status /\ "declined" \in Status
      BY DEF Status
    <3>4. QED
      BY <2>2, <2>5, <3>1, <3>2, <3>3, Writes
  <2>6. ASSUME NEW r \in Requests, DeleteCommit(r)  PROVE Kept(a)
    BY <1>4, <2>6 DEF DeleteCommit, Kept, Tombstone, Status, TypeOK
  <2>7. ASSUME NEW u \in Users, DeleteUser(u)  PROVE Kept(a)
    BY <1>4, <2>7, ErasedRow DEF Kept
  <2>8. QED
    BY <1>4, <2>1, <2>3, <2>4, <2>5, <2>6, <2>7, RowSteps
<1>5. QED
  BY <1>3, <1>4

\* So what backs a request in flight goes on backing it while it waits.
LEMMA BackedWhileWaiting ==
  ASSUME TypeOK, InFlightIsBacked, AllKept, NEW p \in Requests, req'[p] = req[p]
  PROVE  Backed(req[p])'
<1>1. Backed(req[p])
  BY DEF InFlightIsBacked
<1>2. CASE req[p] = Idle
  BY <1>2 DEF Backed, Idle
<1>3. CASE req[p] # Idle
  <2>1. req[p].of \in Assessments
    BY <1>3 DEF TypeOK, Pending
  <2>2. /\ Kept(req[p].of) /\ log \subseteq log'
        /\ \A u \in Users : account[u] = "member" => account'[u] = "member"
    BY <2>1 DEF AllKept
  <2>3. QED
    BY <1>1, <1>3, <2>2 DEF Backed, Kept, Logged, Live, Idle
<1>4. QED
  BY <1>2, <1>3

-----------------------------------------------------------------------------
(* The steps of the other conjuncts                                        *)

\* What the request that moves is backed by after its step.
LEMMA BackedAfterStep ==
  ASSUME IInv, AllKept, TypeOK', NEW r \in Requests, Arrive(r) \/ Proceed(r) \/ Fail(r)
  PROVE  Backed(req[r])'
<1> USE UsersAssumption DEF IInv
<1>0. ASSUME Done(r)  PROVE Backed(req[r])'
  <2>1. req'[r] = Idle
    BY <1>0 DEF Done, TypeOK
  <2>2. QED
    BY <2>1 DEF Backed, Idle
<1>2. ASSUME NEW a \in Assessments, NEW gs, GroupRead(r, a, gs)
      PROVE  Backed(req[r])'
  <2>1. /\ req'[r].pc = "group.update" /\ req'[r].of = a
        /\ req'[r].status = row[a].status
    BY <1>2 DEF GroupRead, Start, TypeOK
  <2>2. row' = row /\ log' = log /\ unsigned' = unsigned /\ Live(a)
    BY <1>2 DEF GroupRead
  <2>3. /\ row[a].status = "approved" => Logged(a)
        /\ row[a].status # "in_progress" => row[a].reviewed_by # None \/ a \in unsigned
        /\ row[a].status \in Locked => row[a].approvedAt
    BY <2>2 DEF ApprovalIsLogged, ApprovalIsAttributed, Live
  <2>4. QED
    BY <2>1, <2>2, <2>3 DEF Backed, Live, Status, Logged
<1>3. ASSUME NEW a \in Assessments, NEW u \in Users, NEW v \in Validators \cup {None},
             SubmitRead(r, a, u, v)
      PROVE  Backed(req[r])'
  <2>1. /\ req'[r].pc = "submit.update" /\ req'[r].of = a
        /\ req'[r].status \in {"awaiting_review", "submitted_approved"}
        /\ req'[r].user \in Users
        /\ req'[r].status = "submitted_approved" => account'[req'[r].user] = "member"
    BY <1>3 DEF SubmitRead, Start, TypeOK, FinalReviewer
  <2>2. row'[a].status # "unborn"
    BY <1>3 DEF SubmitRead
  <2>3. QED
    BY <2>1, <2>2 DEF Backed
<1>4. ASSUME NEW a \in Assessments, NEW u \in Validators,
             ApproveRead(r, a, u) \/ DeclineRead(r, a, u)
      PROVE  Backed(req[r])'
  <2>1. /\ req'[r].pc \in {"approve.tx", "decline.tx"} /\ req'[r].of = a
        /\ req'[r].user \in Users /\ account'[req'[r].user] = "member"
    BY <1>4 DEF ApproveRead, DeclineRead, Start, TypeOK
  <2>2. row'[a].status # "unborn"
    BY <1>4 DEF ApproveRead, DeclineRead
  <2>3. QED
    BY <2>1, <2>2 DEF Backed
<1>5. ASSUME Arrive(r)  PROVE Backed(req[r])'
  <2>1. PICK a \in Assessments :
          \/ \E s \in Sections : SaveRead(r, a, s)
          \/ \E gs \in {{}} \cup {{g} : g \in Groups} : GroupRead(r, a, gs)
          \/ \E u \in Users, v \in Validators \cup {None} : SubmitRead(r, a, u, v)
          \/ \E u \in Validators : ApproveRead(r, a, u) \/ DeclineRead(r, a, u)
          \/ DeleteRead(r, a) \/ GenerateRead(r, a)
    BY <1>5 DEF Arrive
  <2>2. ASSUME NEW s \in Sections, SaveRead(r, a, s)  PROVE Backed(req[r])'
    <3>1. /\ req'[r].pc \in {"save.reset", "save.update"} /\ req'[r].of = a
          /\ row' = row /\ Live(a)
      BY <2>2 DEF SaveRead, Start, TypeOK
    <3>2. QED
      BY <3>1 DEF Backed, Live, Status
  <2>3. ASSUME DeleteRead(r, a)  PROVE Backed(req[r])'
    <3>1. /\ req'[r].pc = "delete.tx" /\ req'[r].of = a
          /\ row' = row /\ row[a].status = "in_progress"
      BY <2>3 DEF DeleteRead, Start, TypeOK
    <3>2. QED
      BY <3>1 DEF Backed
  <2>4. ASSUME GenerateRead(r, a)  PROVE Backed(req[r])'
    <3>1. /\ req'[r].pc = "report.upsert" /\ req'[r].of = a
          /\ row' = row /\ Live(a)
      BY <2>4 DEF GenerateRead, Start, TypeOK
    <3>2. QED
      BY <3>1 DEF Backed, Live, Status
  <2>5. QED
    BY <1>2, <1>3, <1>4, <2>1, <2>2, <2>3, <2>4
<1>6. ASSUME NEW pc \in {"report.read", "report.upsert", "save.update"},
             req[r].pc # "idle", req'[r].pc = pc, req'[r].of = req[r].of
      PROVE  Backed(req[r])'
  <2>1. req[r].of \in Assessments /\ row[req[r].of].status # "unborn"
    BY <1>6, InFlight DEF InFlightIsBacked, Backed, Idle
  <2>2. row'[req[r].of].status # "unborn"
    BY <2>1 DEF AllKept, Kept
  <2>3. QED
    BY <1>6, <2>2 DEF Backed
<1>7. ASSUME Proceed(r)  PROVE Backed(req[r])'
  <2>1. ASSUME SaveReset(r) \/ ReportRead(r)  PROVE Backed(req[r])'
    <3>1. /\ req[r].pc # "idle" /\ req'[r].of = req[r].of
          /\ req'[r].pc \in {"report.read", "report.upsert", "save.update"}
      BY <2>1, InFlight DEF SaveReset, ReportRead, At, TypeOK, Pending
    <3>2. QED
      BY <1>6, <3>1
  <2>2. ASSUME GroupWrite(r) \/ SubmitWrite(r) \/ ApproveCommit(r)  PROVE Backed(req[r])'
    <3>1. req[r].pc # "idle" /\ Continue(r, "report.read")
      BY <2>2 DEF GroupWrite, SubmitWrite, ApproveCommit, At
    <3>2. req'[r].of = req[r].of /\ req'[r].pc = "report.read"
      BY <3>1 DEF Continue, TypeOK
    <3>3. QED
      BY <1>6, <3>1, <3>2
  <2>3. ASSUME \/ SaveWrite(r) \/ DeclineCommit(r) \/ DeleteCommit(r)
               \/ ReportUpsert(r) \/ RowGone(r) \/ ReviewerGone(r)
        PROVE  Backed(req[r])'
    BY <1>0, <2>3 DEF SaveWrite, DeclineCommit, DeleteCommit, ReportUpsert, RowGone,
                      ReviewerGone
  <2>4. QED
    BY <1>7, <2>1, <2>2, <2>3 DEF Proceed
<1>8. QED
  BY <1>0, <1>5, <1>7 DEF Fail

LEMMA BackedNext == IInv /\ [Next]_vars => InFlightIsBacked'
<1> SUFFICES ASSUME IInv, [Next]_vars, NEW p \in Requests  PROVE Backed(req[p])'
  BY DEF InFlightIsBacked
<1>1. AllKept /\ TypeOK'
  BY KeptByNext, TypeNext DEF IInv, ApprovalIsAttributed
<1>2. CASE req'[p] = req[p]
  BY <1>1, <1>2, BackedWhileWaiting DEF IInv
<1>3. CASE req'[p] # req[p]
  <2>1. PICK r \in Requests : Arrive(r) \/ Proceed(r) \/ Fail(r)
    BY <1>3 DEF Next, vars, CreateAssessment, ToggleReview, LogIn, DeleteUser, Erase
  <2>2. p = r
    <3>1. \/ \E q \in Pending \cup {Idle} : req' = [req EXCEPT ![r] = q]
          \/ req' = [req EXCEPT ![r] = req'[r]]
      <4>1. CASE Arrive(r)
        BY <4>1 DEF Arrive, SaveRead, GroupRead, SubmitRead, ApproveRead, DeclineRead,
                    DeleteRead, GenerateRead, Start, IInv, TypeOK
      <4>2. CASE Proceed(r) \/ Fail(r)
        BY <4>2 DEF Proceed, SaveReset, SaveWrite, GroupWrite, SubmitWrite, ApproveCommit,
                    DeclineCommit, DeleteCommit, ReportRead, ReportUpsert, RowGone,
                    ReviewerGone, Fail, Continue, Done, IInv, TypeOK
      <4>3. QED
        BY <2>1, <4>1, <4>2
    <3>2. QED
      BY <1>3, <3>1 DEF IInv, TypeOK
  <2>3. QED
    BY <1>1, <2>1, <2>2, BackedAfterStep
<1>4. QED
  BY <1>2, <1>3

\* Only GroupWrite and ApproveCommit write the status "approved".
LEMMA LoggedNext == IInv /\ [Next]_vars => ApprovalIsLogged'
<1> SUFFICES ASSUME IInv, [Next]_vars, NEW a \in Assessments,
                    row'[a].status = "approved"
             PROVE  Logged(a)'
  BY DEF ApprovalIsLogged
<1>1. log \subseteq log' /\ TypeOK /\ InFlightIsBacked
  BY KeptByNext DEF IInv, AllKept, ApprovalIsAttributed
<1>2. CASE row[a].status = "approved"
  BY <1>1, <1>2 DEF IInv, ApprovalIsLogged, Logged
<1>3. CASE row[a].status # "approved"
  <2>1. ASSUME NEW b \in Assessments, CreateAssessment(b)  PROVE FALSE
    <3>1. row'[b].status = "in_progress" /\ (a # b => row'[a] = row[a])
      BY <1>1, <2>1 DEF CreateAssessment, TypeOK, Row
    <3>2. QED
      BY <1>3, <3>1
  <2>2. ASSUME NEW r \in Requests,
               SaveReset(r) \/ SaveWrite(r) \/ SubmitWrite(r) \/ DeclineCommit(r)
        PROVE  FALSE
    <3>1. SubmitWrite(r) => req[r].status # "approved"
      BY <1>1 DEF SubmitWrite, At, InFlightIsBacked, Backed
    <3>2. QED
      BY <1>1, <1>3, <2>2, <3>1, Writes DEF Written
  <2>3. ASSUME NEW r \in Requests, DeleteCommit(r)  PROVE FALSE
    BY <1>1, <1>3, <2>3 DEF DeleteCommit, Tombstone, TypeOK
  <2>4. ASSUME NEW r \in Requests, GroupWrite(r)  PROVE Logged(a)'
    <3>1. a = req[r].of /\ req[r].status = "approved"
      BY <1>1, <1>3, <2>4, Writes DEF Written
    <3>2. Logged(a)
      BY <1>1, <2>4, <3>1 DEF GroupWrite, At, InFlightIsBacked, Backed
    <3>3. QED
      BY <1>1, <3>2 DEF Logged
  <2>5. ASSUME NEW r \in Requests, ApproveCommit(r)  PROVE Logged(a)'
    <3>1. a = req[r].of
      BY <1>1, <1>3, <2>5, Writes DEF Written
    <3>2. PICK e : e = [of |-> req[r].of, status |-> "approved", by |-> req[r].user]
      OBVIOUS
    <3>3. e \in log' /\ e.of = a /\ e.status = "approved"
      BY <2>5, <3>1, <3>2 DEF ApproveCommit
    <3>4. QED
      BY <3>3 DEF Logged
  <2>6. ASSUME NEW u \in Users, DeleteUser(u)  PROVE FALSE
    BY <1>1, <1>3, <2>6, ErasedRow
  <2>7. row' # row
    BY <1>3
  <2>8. QED
    BY <2>1, <2>2, <2>3, <2>4, <2>5, <2>6, <2>7, RowSteps
<1>4. QED
  BY <1>2, <1>3

\* A decision is signed by a user who has logged in, and they stay.
LEMMA AuthorsNext == IInv /\ [Next]_vars => AuthorsStay'
<1> SUFFICES ASSUME IInv, [Next]_vars, NEW e \in log'  PROVE account'[e.by] = "member"
  BY DEF AuthorsStay
<1>0. TypeOK /\ InFlightIsBacked /\ AuthorsStay /\ AllKept
  BY KeptByNext DEF IInv, ApprovalIsAttributed
<1>1. CASE e \in log
  BY <1>0, <1>1 DEF AuthorsStay, AllKept, TypeOK, Activity
<1>2. CASE e \notin log
  <2>1. PICK r \in Requests : ApproveCommit(r) \/ DeclineCommit(r)
    BY <1>2, ArriveReads
    DEF Next, vars, CreateAssessment, Fail, ToggleReview, LogIn, DeleteUser, Erase,
        Proceed, SaveReset, SaveWrite, GroupWrite, SubmitWrite, DeleteCommit, ReportRead,
        ReportUpsert, RowGone, ReviewerGone
  <2>2. e.by = req[r].user
    BY <1>2, <2>1 DEF ApproveCommit, DeclineCommit
  <2>3. req[r].user \in Users /\ account[req[r].user] = "member"
    BY <1>0, <2>1 DEF ApproveCommit, DeclineCommit, At, InFlightIsBacked, Backed
  <2>4. QED
    BY <1>0, <2>2, <2>3 DEF AllKept
<1>3. QED
  BY <1>1, <1>2

\* A handler that writes a status leaves the row with the reviewer and the
\* approval time the status needs.
LEMMA AttributedNext == IInv /\ [Next]_vars => ApprovalIsAttributed'
<1> DEFINE Attributed(x, lost) ==
      /\ x.status \in Status \ {"in_progress"} => x.reviewed_by # None \/ lost
      /\ x.status \in Locked => x.approvedAt
<1> SUFFICES ASSUME IInv, [Next]_vars, NEW a \in Assessments
             PROVE  Attributed(row'[a], a \in unsigned')
  BY AuthorsNext DEF ApprovalIsAttributed
<1>1. Attributed(row[a], a \in unsigned) /\ TypeOK /\ InFlightIsBacked
  BY DEF IInv, ApprovalIsAttributed
<1>0. a \in unsigned => row'[a].reviewed_by # None \/ a \in unsigned'
  BY <1>1, UnsignedSteps
<1>2. CASE row'[a] = row[a]
  BY <1>0, <1>1, <1>2
<1>3. CASE row'[a] # row[a]
  <2>1. ASSUME NEW b \in Assessments, CreateAssessment(b)  PROVE Attributed(row'[a], a \in unsigned')
    <3>1. row'[a].status = "in_progress"
      BY <1>1, <1>3, <2>1 DEF CreateAssessment, TypeOK, Row
    <3>2. QED
      BY <3>1 DEF Locked
  <2>2. ASSUME NEW r \in Requests, SaveReset(r) \/ SaveWrite(r)  PROVE Attributed(row'[a], a \in unsigned')
    <3>1. /\ row'[a].reviewed_by = row[a].reviewed_by
          /\ row'[a].approvedAt = row[a].approvedAt
          /\ row'[a].status \in {"in_progress", row[a].status}
      BY <1>1, <1>3, <2>2, Writes DEF Written
    <3>2. QED
      BY <1>0, <1>1, <3>1 DEF Locked
  <2>3. ASSUME NEW r \in Requests, GroupWrite(r)  PROVE Attributed(row'[a], a \in unsigned')
    <3>0. Written(r, req[r].status, row[req[r].of].reviewed_by, row[req[r].of].approvedAt)
      BY <1>1, <2>3, Writes
    <3>1. /\ a = req[r].of
          /\ row'[a].status = req[r].status
          /\ row'[a].reviewed_by = row[a].reviewed_by
          /\ row'[a].approvedAt = row[a].approvedAt
      BY <1>3, <3>0 DEF Written
    <3>2. /\ req[r].status # "in_progress" => row[a].reviewed_by # None \/ a \in unsigned
          /\ req[r].status \in Locked => row[a].approvedAt
      BY <1>1, <2>3, <3>1 DEF GroupWrite, At, InFlightIsBacked, Backed
    <3>3. QED
      BY <1>0, <3>1, <3>2
  <2>4. ASSUME NEW r \in Requests, SubmitWrite(r)  PROVE Attributed(row'[a], a \in unsigned')
    <3>0. Written(r, req[r].status, req[r].user,
                  row[req[r].of].approvedAt \/ req[r].status = "submitted_approved")
      BY <1>1, <2>4, Writes
    <3>1. /\ row'[a].status = req[r].status
          /\ row'[a].reviewed_by = req[r].user
          /\ req[r].status = "submitted_approved" => row'[a].approvedAt
      BY <1>3, <3>0 DEF Written
    <3>2. /\ req[r].user # None
          /\ req[r].status \in {"awaiting_review", "submitted_approved"}
      BY <1>1, <2>4, UsersAssumption DEF SubmitWrite, At, InFlightIsBacked, Backed
    <3>3. QED
      BY <3>1, <3>2 DEF Locked
  <2>5. ASSUME NEW r \in Requests, ApproveCommit(r) \/ DeclineCommit(r)
        PROVE  Attributed(row'[a], a \in unsigned')
    <3>1. /\ row'[a].reviewed_by = req[r].user
          /\ row'[a].status = "declined" \/ (row'[a].status = "approved" /\ row'[a].approvedAt)
      BY <1>1, <1>3, <2>5, Writes DEF Written
    <3>2. req[r].user # None
      BY <1>1, <2>5, UsersAssumption
      DEF ApproveCommit, DeclineCommit, At, InFlightIsBacked, Backed
    <3>3. QED
      BY <3>1, <3>2 DEF Locked
  <2>6. ASSUME NEW r \in Requests, DeleteCommit(r)  PROVE Attributed(row'[a], a \in unsigned')
    BY <1>1, <1>3, <2>6 DEF DeleteCommit, Tombstone, TypeOK, Status, Locked
  <2>7. ASSUME NEW u \in Users, DeleteUser(u)
        PROVE  Attributed(row'[a], a \in unsigned')
    BY <1>1, <1>3, <2>7, ErasedRow
  <2>8. QED
    BY <1>3, <2>1, <2>2, <2>3, <2>4, <2>5, <2>6, <2>7, RowSteps
<1>4. QED
  BY <1>2, <1>3

\* A report appears only for a live assessment, and goes with it.
LEMMA ReportNext == IInv /\ [Next]_vars => ReportHasAssessment'
<1> SUFFICES ASSUME IInv, [Next]_vars, NEW a \in Assessments, report'[a] # None
             PROVE  row'[a].status \in Status
  BY DEF ReportHasAssessment, Live
<1> USE DEF IInv
<1>1. CASE report'[a] = report[a]
  <2>1. row[a].status \in Status
    BY <1>1 DEF ReportHasAssessment, Live
  <2>2. CASE row'[a] = row[a]
    BY <2>1, <2>2
  <2>3. CASE row'[a] # row[a]
    <3>1. ASSUME NEW b \in Assessments, CreateAssessment(b)  PROVE FALSE
      BY <2>1, <2>3, <3>1 DEF CreateAssessment, TypeOK, Status
    <3>2. ASSUME NEW r \in Requests,
                 \/ SaveReset(r) \/ SaveWrite(r) \/ GroupWrite(r) \/ SubmitWrite(r)
                 \/ ApproveCommit(r) \/ DeclineCommit(r)
          PROVE  row'[a].status \in Status
      <4>1. GroupWrite(r) \/ SubmitWrite(r) => req[r].status \in Status
        BY DEF GroupWrite, SubmitWrite, At, InFlightIsBacked, Backed, Status
      <4>2. row'[a].status \in {"in_progress", row[a].status, "approved", "declined"}
              \/ ((GroupWrite(r) \/ SubmitWrite(r)) /\ row'[a].status = req[r].status)
        BY <2>3, <3>2, Writes DEF Written
      <4>3. QED
        BY <2>1, <4>1, <4>2 DEF Status
    <3>3. ASSUME NEW r \in Requests, DeleteCommit(r)  PROVE FALSE
      BY <1>1, <2>3, <3>3 DEF DeleteCommit, TypeOK
    <3>4. ASSUME NEW u \in Users, DeleteUser(u)  PROVE row'[a].status \in Status
      BY <2>1, <3>4, ErasedRow
    <3>5. QED
      BY <2>3, <3>1, <3>2, <3>3, <3>4, RowSteps
  <2>4. QED
    BY <2>2, <2>3
<1>2. CASE report'[a] # report[a]
  <2>1. PICK r \in Requests : DeleteCommit(r) \/ ReportUpsert(r)
    <3>1. ASSUME NEW r \in Requests, Proceed(r), report' # report
          PROVE  DeleteCommit(r) \/ ReportUpsert(r)
      BY <3>1
      DEF Proceed, SaveReset, SaveWrite, GroupWrite, SubmitWrite, ApproveCommit,
          DeclineCommit, ReportRead, RowGone, ReviewerGone
    <3>2. QED
      BY <1>2, <3>1, ArriveReads DEF Next, vars, CreateAssessment, Fail, ToggleReview,
                                     LogIn, DeleteUser, Erase
  <2>2. CASE DeleteCommit(r)
    BY <1>2, <2>2 DEF DeleteCommit, TypeOK
  <2>3. CASE ReportUpsert(r)
    BY <1>2, <2>3 DEF ReportUpsert, At, Live, TypeOK
  <2>4. QED
    BY <2>1, <2>2, <2>3
<1>3. QED
  BY <1>1, <1>2

-----------------------------------------------------------------------------
(* The theorems                                                            *)

\* However many requests overlap, and wherever they are cut short, the
\* inductive invariant holds in every reachable state.
THEOREM Invariance == Spec => []IInv
<1>1. Init => IInv
  <2> SUFFICES ASSUME Init PROVE IInv
    OBVIOUS
  <2>1. /\ \A a \in Assessments : row[a].status = "unborn" /\ report[a] = None
        /\ \A r \in Requests : req[r] = Idle
        /\ log = {}
    BY DEF Init, Tombstone
  <2>2. TypeOK
    BY TypeInit
  <2>3. QED
    BY <2>1, <2>2
    DEF IInv, ApprovalIsLogged, ApprovalIsAttributed, AuthorsStay, InFlightIsBacked, Backed,
        Idle, ReportHasAssessment, Live, Status, Locked
<1>2. IInv /\ [Next]_vars => IInv'
  BY TypeNext, BackedNext, LoggedNext, AttributedNext, ReportNext DEF IInv
<1>3. QED
  BY <1>1, <1>2, PTL DEF Spec

\* Every reachable state is well typed.
THEOREM TypeCorrect == Spec => []TypeOK
<1>1. IInv => TypeOK
  BY DEF IInv
<1>2. QED
  BY <1>1, Invariance, PTL

\* What a request in flight is about to write is backed by the row, however
\* many requests overlap: submitGroup's stale status and submitForReview's
\* reviewer included.
THEOREM RequestsAreBacked == Spec => []InFlightIsBacked
<1>1. IInv => InFlightIsBacked
  BY DEF IInv
<1>2. QED
  BY <1>1, Invariance, PTL

\* approveAssessment's promise, in any interleaving: no assessment is ever
\* "approved" without an approval on record.
THEOREM ApprovalsAreLogged == Spec => []ApprovalIsLogged
<1>1. IInv => ApprovalIsLogged
  BY DEF IInv
<1>2. QED
  BY <1>1, Invariance, PTL

\* No submitted assessment is without a reviewer unless that reviewer was
\* deleted, no approved one without an approval time, and nobody who decided
\* about one is ever deleted, whenever deleteCompanyUser runs.
THEOREM ApprovalsAreAttributed == Spec => []ApprovalIsAttributed
<1>1. IInv => ApprovalIsAttributed
  BY DEF IInv
<1>2. QED
  BY <1>1, Invariance, PTL

\* No report is left behind by the deletion of its assessment.
THEOREM NoOrphanReports == Spec => []ReportHasAssessment
<1>1. IInv => ReportHasAssessment
  BY DEF IInv
<1>2. QED
  BY <1>1, Invariance, PTL

\* No late write of a request brings a deleted assessment back or changes it.
THEOREM DeletionIsFinal == Spec => DeletedIsFinal
<1>1. IInv /\ [Next]_vars =>
        [\A a \in Assessments : row[a].status = "deleted" => row'[a] = row[a]]_vars
  <2> SUFFICES ASSUME IInv, [Next]_vars, NEW a \in Assessments, row[a].status = "deleted"
               PROVE  row'[a] = row[a]
    OBVIOUS
  <2>1. TypeOK /\ InFlightIsBacked
    BY DEF IInv
  <2>2. ASSUME NEW b \in Assessments, CreateAssessment(b)  PROVE row'[a] = row[a]
    BY <2>1, <2>2 DEF CreateAssessment, TypeOK
  <2>3. ASSUME NEW r \in Requests, NEW st, NEW by, NEW app, Written(r, st, by, app)
        PROVE  row'[a] = row[a]
    BY <2>3 DEF Written, Live, Status
  <2>4. ASSUME NEW r \in Requests, DeleteCommit(r)  PROVE row'[a] = row[a]
    BY <2>1, <2>4 DEF DeleteCommit, At, Live, Status, TypeOK
  <2>5. ASSUME NEW u \in Users, DeleteUser(u)  PROVE row'[a] = row[a]
    BY <2>1, <2>5, ErasedRow DEF Live, Status
  <2>6. QED
    BY <2>1, <2>2, <2>3, <2>4, <2>5, RowSteps, Writes
<1>2. QED
  BY <1>1, Invariance, PTL DEF Spec, DeletedIsFinal

=============================================================================
