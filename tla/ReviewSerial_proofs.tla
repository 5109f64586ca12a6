------------------------- MODULE ReviewSerial_proofs -------------------------
(***************************************************************************)
(* Theorems about AssessmentReview while the requests on one assessment    *)
(* follow one another (SerialSpec), for any number of assessments, users   *)
(* and slots: the fields of the review agree, a final report is current,   *)
(* and the handlers implement the atomic life cycle of ReviewLifecycle.    *)
(*                                                                         *)
(* The argument is that a row is still what its request read: Expects says *)
(* so for each database call.  It is what overlapping requests break.      *)
(***************************************************************************)
EXTENDS AssessmentReview_proofs

\* What row x of request q holds when q makes its next call.
ExpectsStatus(q, x) ==
  /\ q # Idle => x.status \in Status
  /\ q.pc = "save.reset" => x.status = "declined"
  /\ q.pc = "save.update" => x.status \in {"in_progress", "awaiting_review"}
  /\ q.pc = "group.update" => x.status = q.status
  /\ q.pc = "submit.update" => x.status \in {"in_progress", "declined"}
  /\ q.pc \in {"approve.tx", "decline.tx"} => x.status = "awaiting_review"
  /\ q.pc = "delete.tx" => x.status = "in_progress"

\* The data q writes is the data x holds, with what the client sent.
ExpectsData(q, x) ==
  /\ q.pc \in {"save.reset", "save.update"} =>
       /\ q.data.submittedGroups = x.assessmentData.submittedGroups
       /\ \E s \in Sections : q.data.saved = x.assessmentData.saved \cup {s}
  /\ q.pc = "group.update" =>
       /\ q.data.saved = x.assessmentData.saved
       /\ \E gs \in {{}} \cup {{g} : g \in Groups} :
            q.data.submittedGroups = x.assessmentData.submittedGroups \cup gs
  /\ q.pc = "report.upsert" => q.data = x.assessmentData

\* Only validators review what awaits a review.
ByValidator(q) ==
  /\ q.pc \in {"approve.tx", "decline.tx"} => q.user \in Validators
  /\ q.pc = "submit.update" /\ q.status = "awaiting_review" => q.user \in Validators

Expects(q, x) == ExpectsStatus(q, x) /\ ExpectsData(q, x) /\ ByValidator(q)

\* The two properties of the serial runs, of one row and of one assessment,
\* and a row before its INSERT.
FieldsAgree(x) ==
  x.status \in Status =>
    /\ x.rejection_reason <=> x.status = "declined"
    /\ x.submittedAt <=> x.status # "in_progress"

Blank(x) == x.status = "unborn" => x = Tombstone("unborn")

ReportIsCurrent(a) ==
  (row[a].status \in Locked /\ ~ failed /\ \A r \in Requests : req[r].of # a)
    => report[a] = row[a].assessmentData

Sound(a) == FieldsAgree(row[a]) /\ Blank(row[a]) /\ ReportIsCurrent(a)

\* Who reviews or reviewed an assessment, as far as deleteCompanyUser leaves it.
Signatory(a) ==
  /\ row[a].status = "awaiting_review" =>
       row[a].reviewed_by \in Validators \/ a \in unsigned
  /\ row[a].status \in {"declined", "approved"} => row[a].reviewed_by \in Validators
  /\ row[a].status \in Locked \cup {"declined"} =>
       row[a].reviewed_by \in Users /\ account[row[a].reviewed_by] = "member"

SignedInv == \A a \in Assessments : Signatory(a)

\* The invariant that holds in every state of SerialSpec, together with IInv
\* and SignedInv.
SerialInv ==
  /\ OneAtATime
  /\ \A r \in Requests : Expects(req[r], row[req[r].of])
  /\ \A a \in Assessments : Sound(a)

-----------------------------------------------------------------------------
(* What a step of one request leaves to the others                         *)

\* Request r is the only one to move, and only its assessment's row and
\* report may change.
Alone(r) ==
  /\ \A q \in Requests : q # r => req'[q] = req[q]
  /\ req'[r] = Idle \/ req'[r].of = req[r].of
  /\ \A a \in Assessments : a # req[r].of => row'[a] = row[a] /\ report'[a] = report[a]
  /\ failed => failed'

\* An idle slot expects nothing.
LEMMA IdleExpects ==
  ASSUME NEW q, NEW x, q = Idle  PROVE Expects(q, x)
BY DEF Expects, ExpectsStatus, ExpectsData, ByValidator, Idle

LEMMA OthersKept ==
  ASSUME TypeOK, SerialInv, NEW r \in Requests, req[r] # Idle, Alone(r)
  PROVE  /\ \A q \in Requests : q # r => Expects(req'[q], row'[req'[q].of])
         /\ \A a \in Assessments : a # req[r].of => Sound(a)'
<1>1. ASSUME NEW q \in Requests, q # r  PROVE Expects(req'[q], row'[req'[q].of])
  <2>1. Expects(req[q], row[req[q].of]) /\ req'[q] = req[q]
    BY <1>1 DEF SerialInv, Alone
  <2>2. CASE req[q] = Idle
    BY <2>1, <2>2, IdleExpects
  <2>3. CASE req[q] # Idle
    <3>1. req[q].of # req[r].of
      BY <1>1, <2>3 DEF SerialInv, OneAtATime
    <3>2. req[q].of \in Assessments
      BY <2>3 DEF TypeOK, Pending
    <3>3. row'[req[q].of] = row[req[q].of]
      BY <3>1, <3>2 DEF Alone
    <3>4. QED
      BY <2>1, <3>3
  <2>4. QED
    BY <2>2, <2>3
<1>2. ASSUME NEW a \in Assessments, a # req[r].of  PROVE Sound(a)'
  <2>1. row'[a] = row[a] /\ report'[a] = report[a] /\ Sound(a)
    BY <1>2 DEF Alone, SerialInv
  <2>2. (\A q \in Requests : req'[q].of # a) => \A q \in Requests : req[q].of # a
    BY <1>2 DEF Alone
  <2>3. QED
    BY <2>1, <2>2 DEF Sound, ReportIsCurrent, Alone
<1>3. QED
  BY <1>1, <1>2

\* A step of r keeps the invariant if it does so for r and its assessment.
LEMMA SerialStep ==
  ASSUME TypeOK, SerialInv, OneAtATime', NEW r \in Requests, req[r] # Idle, Alone(r),
         Expects(req'[r], row'[req'[r].of]), NEW x, x = req[r].of, Sound(x)'
  PROVE  SerialInv'
<1>1. \A q \in Requests : Expects(req'[q], row'[req'[q].of])
  BY OthersKept
<1>2. ASSUME NEW a \in Assessments  PROVE Sound(a)'
  <2>1. CASE a = x
    BY <2>1
  <2>2. CASE a # req[r].of
    BY <2>2, OthersKept
  <2>3. QED
    BY <2>1, <2>2
<1>3. QED
  BY <1>1, <1>2 DEF SerialInv

-----------------------------------------------------------------------------
(* The handlers, one database call at a time                               *)

\* What a request in flight finds: its row is there, and as it expects.
LEMMA Found ==
  ASSUME TypeOK, SerialInv, NEW r \in Requests, req[r].pc # "idle"
  PROVE  /\ req[r] # Idle /\ req[r] \in Pending
         /\ req[r].of \in Assessments
         /\ row[req[r].of] \in Row /\ row[req[r].of].status \in Status
         /\ Expects(req[r], row[req[r].of]) /\ Sound(req[r].of)
BY InFlight DEF Idle, SerialInv, Expects, ExpectsStatus

\* The handler goes on, or ends, after writing row "new".
LEMMA RowStep ==
  ASSUME TypeOK, SerialInv, OneAtATime', NEW r \in Requests, req[r].pc # "idle",
         NEW new, row' = [row EXCEPT ![req[r].of] = new],
         report' = report, failed' = failed,
         NEW q, req' = [req EXCEPT ![r] = q],
         \/ q = Idle /\ new.status \notin Locked
         \/ q.of = req[r].of /\ Expects(q, new),
         FieldsAgree(new), Blank(new)
  PROVE  SerialInv'
<1> PICK x : x = req[r].of
  OBVIOUS
<1>1. x \in Assessments /\ req[r] # Idle
  BY Found
<1>2. row'[x] = new /\ req'[r] = q
  BY <1>1 DEF TypeOK
<1>3. Alone(r)
  BY <1>1 DEF Alone, TypeOK
<1>4. Expects(req'[r], row'[req'[r].of])
  BY <1>2, IdleExpects
<1>5. ReportIsCurrent(x)'
  BY <1>2 DEF ReportIsCurrent
<1>6. Sound(x)'
  BY <1>2, <1>5 DEF Sound
<1>7. QED
  BY <1>1, <1>3, <1>4, <1>6, SerialStep

LEMMA SerialProceed ==
  ASSUME IInv, SerialInv, OneAtATime', NEW r \in Requests, Proceed(r)
  PROVE  SerialInv'
<1> PICK x : x = req[r].of
  OBVIOUS
<1> DEFINE old == row[x]
           q == req[r]
<1>0. TypeOK /\ InFlightIsBacked
  BY DEF IInv
<1>a. ASSUME NEW pc, pc # "idle", At(r, pc)
      PROVE  /\ q.pc = pc /\ q # Idle /\ q \in Pending /\ q.data \in Data
             /\ x \in Assessments /\ old \in Row /\ old.status \in Status
             /\ old.assessmentData \in Data
             /\ Expects(q, old) /\ FieldsAgree(old) /\ ReportIsCurrent(x)
  BY <1>0, <1>a, Found DEF At, Pending, Sound, Row
<1> DEFINE Next1(pc) == [pc |-> pc, of |-> x, status |-> None, user |-> None, data |-> Empty]
<1>b. ASSUME NEW y, y.status \in Status  PROVE Expects(Next1("report.read"), y)
  BY <1>b DEF Expects, ExpectsStatus, ExpectsData, ByValidator
<1>1. ASSUME SaveReset(r)  PROVE SerialInv'
  <2> DEFINE new == [old EXCEPT !.status = "in_progress", !.rejection_reason = FALSE,
                                !.submittedAt = FALSE]
             p == [q EXCEPT !.pc = "save.update"]
  <2>1. /\ q.pc = "save.reset" /\ q \in Pending /\ old \in Row /\ Expects(q, old)
        /\ x \in Assessments
    BY <1>1, <1>a DEF SaveReset
  <2>2. row' = [row EXCEPT ![x] = new] /\ req' = [req EXCEPT ![r] = p]
    BY <1>0, <1>1, <2>1 DEF SaveReset, TypeOK
  <2>3. p.of = x /\ Expects(p, new)
    BY <2>1 DEF Expects, ExpectsStatus, ExpectsData, ByValidator, Row, Pending, Status
  <2>4. FieldsAgree(new) /\ Blank(new)
    BY <2>1 DEF FieldsAgree, Blank, Row
  <2>5. report' = report /\ failed' = failed
    BY <1>1 DEF SaveReset
  <2>6. QED
    <3> HIDE DEF new, p
    <3>1. QED
      BY <1>0, <2>1, <2>2, <2>3, <2>4, <2>5, RowStep
<1>2. ASSUME SaveWrite(r)  PROVE SerialInv'
  <2> DEFINE new == [old EXCEPT !.assessmentData = q.data]
  <2>1. /\ q.pc = "save.update" /\ old \in Row /\ Expects(q, old) /\ FieldsAgree(old)
        /\ x \in Assessments
    BY <1>2, <1>a DEF SaveWrite
  <2>2. row' = [row EXCEPT ![x] = new] /\ req' = [req EXCEPT ![r] = Idle]
    BY <1>0, <1>2, <2>1 DEF SaveWrite, TypeOK, Done
  <2>3. new.status \notin Locked /\ FieldsAgree(new) /\ Blank(new)
    BY <2>1 DEF FieldsAgree, Blank, Row, Expects, ExpectsStatus, Locked
  <2>4. report' = report /\ failed' = failed
    BY <1>2 DEF SaveWrite
  <2>5. QED
    <3> HIDE DEF new
    <3>1. QED
      BY <1>0, <2>1, <2>2, <2>3, <2>4, RowStep
<1>3. ASSUME GroupWrite(r)  PROVE SerialInv'
  <2> DEFINE new == [old EXCEPT !.assessmentData = q.data, !.status = q.status]
             p == Next1("report.read")
  <2>1. /\ q.pc = "group.update" /\ old \in Row /\ Expects(q, old) /\ FieldsAgree(old)
        /\ x \in Assessments /\ old.status \in Status
    BY <1>3, <1>a DEF GroupWrite
  <2>2. row' = [row EXCEPT ![x] = new] /\ req' = [req EXCEPT ![r] = p]
    BY <1>0, <1>3, <2>1 DEF GroupWrite, TypeOK, Continue
  <2>3. new.status = old.status /\ FieldsAgree(new) /\ Blank(new)
    BY <2>1 DEF FieldsAgree, Blank, Row, Expects, ExpectsStatus, Status
  <2>4. report' = report /\ failed' = failed
    BY <1>3 DEF GroupWrite
  <2>5. p.of = x /\ Expects(p, new)
    BY <1>b, <2>1, <2>3
  <2>6. QED
    <3> HIDE DEF new, p
    <3>1. QED
      BY <1>0, <2>1, <2>2, <2>3, <2>4, <2>5, RowStep
<1>4. ASSUME SubmitWrite(r)  PROVE SerialInv'
  <2> DEFINE app == old.approvedAt \/ q.status = "submitted_approved"
             new == [old EXCEPT !.status = q.status, !.reviewed_by = q.user,
                                !.rejection_reason = FALSE, !.submittedAt = TRUE,
                                !.approvedAt = app]
             p == Next1("report.read")
  <2>1. /\ q.pc = "submit.update" /\ old \in Row /\ Expects(q, old)
        /\ x \in Assessments
    BY <1>4, <1>a DEF SubmitWrite
  <2>2. row' = [row EXCEPT ![x] = new] /\ req' = [req EXCEPT ![r] = p]
    BY <1>0, <1>4, <2>1 DEF SubmitWrite, TypeOK, Continue
  <2>3. q.status \in {"awaiting_review", "submitted_approved"}
    BY <1>0, <2>1 DEF InFlightIsBacked, Backed
  <2>4. /\ new.status = q.status /\ new.reviewed_by = q.user
        /\ new.rejection_reason = FALSE /\ new.submittedAt = TRUE
    <3> HIDE DEF app
    <3>1. QED
      BY <2>1 DEF Row
  <2>5. FieldsAgree(new) /\ Blank(new) /\ new.status \in Status
    <3> HIDE DEF new
    <3>1. QED
      BY <2>1, <2>3, <2>4 DEF FieldsAgree, Blank, Expects, ByValidator, Status
  <2>6. report' = report /\ failed' = failed
    BY <1>4 DEF SubmitWrite
  <2>7. p.of = x /\ Expects(p, new)
    BY <1>b, <2>5
  <2>8. QED
    <3> HIDE DEF new, p
    <3>1. QED
      BY <1>0, <2>1, <2>2, <2>5, <2>6, <2>7, RowStep
<1>5. ASSUME ApproveCommit(r)  PROVE SerialInv'
  <2> DEFINE new == [old EXCEPT !.status = "approved", !.reviewed_by = q.user,
                                !.approvedAt = TRUE, !.rejection_reason = FALSE]
             p == Next1("report.read")
  <2>1. /\ q.pc = "approve.tx" /\ old \in Row /\ Expects(q, old) /\ FieldsAgree(old)
        /\ x \in Assessments
    BY <1>5, <1>a DEF ApproveCommit
  <2>2. row' = [row EXCEPT ![x] = new] /\ req' = [req EXCEPT ![r] = p]
    BY <1>0, <1>5, <2>1 DEF ApproveCommit, TypeOK, Continue
  <2>3. FieldsAgree(new) /\ Blank(new) /\ new.status \in Status
    BY <2>1 DEF FieldsAgree, Blank, Row, Expects, ExpectsStatus, ByValidator, Status
  <2>4. report' = report /\ failed' = failed
    BY <1>5 DEF ApproveCommit
  <2>5. p.of = x /\ Expects(p, new)
    BY <1>b, <2>3
  <2>6. QED
    <3> HIDE DEF new, p
    <3>1. QED
      BY <1>0, <2>1, <2>2, <2>3, <2>4, <2>5, RowStep
<1>6. ASSUME DeclineCommit(r)  PROVE SerialInv'
  <2> DEFINE new == [old EXCEPT !.status = "declined", !.reviewed_by = q.user,
                                !.rejection_reason = TRUE]
  <2>1. /\ q.pc = "decline.tx" /\ old \in Row /\ Expects(q, old) /\ FieldsAgree(old)
        /\ x \in Assessments
    BY <1>6, <1>a DEF DeclineCommit
  <2>2. row' = [row EXCEPT ![x] = new] /\ req' = [req EXCEPT ![r] = Idle]
    BY <1>0, <1>6, <2>1 DEF DeclineCommit, TypeOK, Done
  <2>3. FieldsAgree(new) /\ Blank(new) /\ new.status \notin Locked
    BY <2>1 DEF FieldsAgree, Blank, Row, Expects, ExpectsStatus, ByValidator, Status, Locked
  <2>4. report' = report /\ failed' = failed
    BY <1>6 DEF DeclineCommit
  <2>5. QED
    <3> HIDE DEF new
    <3>1. QED
      BY <1>0, <2>1, <2>2, <2>3, <2>4, RowStep
<1>7. ASSUME DeleteCommit(r)  PROVE SerialInv'
  <2>1. q # Idle /\ x \in Assessments
    BY <1>7, <1>a DEF DeleteCommit
  <2>2. req'[r] = Idle /\ row'[x].status = "deleted"
    BY <1>0, <1>7, <2>1 DEF DeleteCommit, Done, TypeOK, Tombstone
  <2>3. Alone(r)
    BY <1>0, <1>7, <2>1 DEF DeleteCommit, Done, TypeOK, Alone
  <2>4. Sound(x)'
    BY <2>2 DEF Sound, FieldsAgree, Blank, ReportIsCurrent, Status, Locked
  <2>5. QED
    BY <1>0, <2>1, <2>2, <2>3, <2>4, IdleExpects, SerialStep
<1>8. ASSUME ReportRead(r)  PROVE SerialInv'
  <2>1. /\ q # Idle /\ x \in Assessments /\ q \in Pending /\ q.pc = "report.read"
        /\ FieldsAgree(old) /\ old.status \in Status
    BY <1>8, <1>a DEF ReportRead
  <2>2. /\ req'[r] = [q EXCEPT !.pc = "report.upsert", !.data = old.assessmentData]
        /\ row' = row
    BY <1>0, <1>8, <2>1 DEF ReportRead, TypeOK
  <2>3. req'[r].of = x /\ req'[r].pc = "report.upsert" /\ req'[r].data = old.assessmentData
    BY <2>1, <2>2 DEF Pending
  <2>4. Alone(r)
    BY <1>0, <1>8, <2>1, <2>3 DEF ReportRead, TypeOK, Alone
  <2>5. Expects(req'[r], row'[req'[r].of])
    BY <2>1, <2>2, <2>3 DEF Expects, ExpectsStatus, ExpectsData, ByValidator
  <2>6. Sound(x)'
    BY <2>1, <2>2, <2>3 DEF Sound, Blank, ReportIsCurrent, Status
  <2>7. QED
    BY <1>0, <2>1, <2>4, <2>5, <2>6, SerialStep
<1>9. ASSUME ReportUpsert(r)  PROVE SerialInv'
  <2>1. /\ q # Idle /\ x \in Assessments /\ q.pc = "report.upsert" /\ Expects(q, old)
        /\ FieldsAgree(old) /\ old.status \in Status
    BY <1>9, <1>a DEF ReportUpsert
  <2>2. /\ req'[r] = Idle /\ row' = row /\ report'[x] = old.assessmentData
    BY <1>0, <1>9, <2>1 DEF ReportUpsert, TypeOK, Done, Expects, ExpectsData
  <2>3. Alone(r)
    BY <1>0, <1>9, <2>1, <2>2 DEF ReportUpsert, TypeOK, Alone, Done
  <2>4. Sound(x)'
    BY <2>1, <2>2 DEF Sound, Blank, ReportIsCurrent, Status
  <2>5. QED
    BY <1>0, <2>1, <2>2, <2>3, <2>4, IdleExpects, SerialStep
<1>10. ~ RowGone(r)
  BY <1>0 DEF RowGone, SerialInv, Expects, ExpectsStatus, Live
<1>11. ASSUME ReviewerGone(r)  PROVE SerialInv'
  <2>1. /\ q # Idle /\ x \in Assessments /\ q.pc = "submit.update" /\ Expects(q, old)
        /\ FieldsAgree(old) /\ old.status \in Status
    BY <1>11, <1>a DEF ReviewerGone
  <2>2. req'[r] = Idle /\ row' = row /\ old.status \notin Locked
    BY <1>0, <1>11, <2>1 DEF ReviewerGone, TypeOK, Done, Expects, ExpectsStatus, Locked
  <2>3. Alone(r)
    BY <1>0, <1>11, <2>1, <2>2 DEF ReviewerGone, TypeOK, Alone, Done
  <2>4. Sound(x)'
    BY <2>1, <2>2 DEF Sound, Blank, ReportIsCurrent, Status
  <2>5. QED
    BY <1>0, <2>1, <2>2, <2>3, <2>4, IdleExpects, SerialStep
<1>12. QED
  BY <1>1, <1>2, <1>3, <1>4, <1>5, <1>6, <1>7, <1>8, <1>9, <1>10, <1>11 DEF Proceed

-----------------------------------------------------------------------------
(* The calls of clients, and the rest of the world                         *)

\* A new request that expects what it has just read.
LEMMA RequestBegins ==
  ASSUME TypeOK, SerialInv, OneAtATime', NEW r \in Requests, req[r] = Idle,
         row' = row, report' = report, failed' = failed,
         NEW q, req' = [req EXCEPT ![r] = q], Expects(q, row[q.of])
  PROVE  SerialInv'
<1>1. req'[r] = q /\ \A p \in Requests : p # r => req'[p] = req[p]
  BY DEF TypeOK
<1>2. \A p \in Requests : Expects(req'[p], row'[req'[p].of])
  BY <1>1 DEF SerialInv
<1>3. ASSUME NEW a \in Assessments  PROVE Sound(a)'
  <2>1. (\A p \in Requests : req'[p].of # a) => \A p \in Requests : req[p].of # a
    BY <1>1, UsersAssumption DEF Idle
  <2>2. QED
    BY <2>1 DEF Sound, ReportIsCurrent, SerialInv
<1>4. QED
  BY <1>2, <1>3 DEF SerialInv

LEMMA SerialArrive ==
  ASSUME IInv, SerialInv, OneAtATime', NEW r \in Requests, Arrive(r)
  PROVE  SerialInv'
<1> PICK a \in Assessments :
       \/ \E s \in Sections : SaveRead(r, a, s)
       \/ \E gs \in {{}} \cup {{g} : g \in Groups} : GroupRead(r, a, gs)
       \/ \E u \in Users, v \in Validators \cup {None} : SubmitRead(r, a, u, v)
       \/ \E u \in Validators : ApproveRead(r, a, u) \/ DeclineRead(r, a, u)
       \/ DeleteRead(r, a) \/ GenerateRead(r, a)
  BY DEF Arrive
<1> DEFINE x == row[a]
           begun(pc, status, user, data) ==
             [pc |-> pc, of |-> a, status |-> status, user |-> user, data |-> data]
<1>0. TypeOK /\ x \in Row /\ x.assessmentData \in Data
  BY DEF IInv, TypeOK, Row
<1>1. SUFFICES ASSUME NEW pc, NEW status, NEW user, NEW data,
                      Start(r, pc, a, status, user, data),
                      Expects(begun(pc, status, user, data), x)
               PROVE  SerialInv'
  <2> USE DEF Expects, ExpectsStatus, ExpectsData, ByValidator
  <2>1. ASSUME NEW s \in Sections, SaveRead(r, a, s)  PROVE SerialInv'
    <3> DEFINE d == [x.assessmentData EXCEPT !.saved = @ \cup {s}]
               pc == IF x.status = "declined" THEN "save.reset" ELSE "save.update"
    <3>1. Start(r, pc, a, None, None, d)
      BY <2>1 DEF SaveRead
    <3>2. d.saved = x.assessmentData.saved \cup {s}
          /\ d.submittedGroups = x.assessmentData.submittedGroups
      BY <1>0 DEF Data
    <3>3. x.status \in Status /\ x.status \notin Locked
      BY <2>1 DEF SaveRead, Live
    <3>4. Expects(begun(pc, None, None, d), x)
      <4> HIDE DEF d
      <4>1. QED
        BY <3>2, <3>3 DEF Status, Locked
    <3> HIDE DEF d, pc, Expects
    <3>5. QED
      BY <3>1, <3>4, <1>1
  <2>2. ASSUME NEW gs \in {{}} \cup {{g} : g \in Groups}, GroupRead(r, a, gs)
        PROVE  SerialInv'
    <3> DEFINE d == [x.assessmentData EXCEPT !.submittedGroups = @ \cup gs]
    <3>1. Start(r, "group.update", a, x.status, None, d) /\ x.status \in Status
      BY <2>2 DEF GroupRead, Live
    <3>2. d.submittedGroups = x.assessmentData.submittedGroups \cup gs
          /\ d.saved = x.assessmentData.saved
      BY <1>0 DEF Data
    <3>3. Expects(begun("group.update", x.status, None, d), x)
      <4> HIDE DEF d
      <4>1. QED
        BY <3>1, <3>2
    <3> HIDE DEF d, Expects
    <3>4. QED
      BY <3>1, <3>3, <1>1
  <2>3. ASSUME NEW u \in Users, NEW v \in Validators \cup {None}, SubmitRead(r, a, u, v)
        PROVE  SerialInv'
    <3> DEFINE st == IF requireReview THEN "awaiting_review" ELSE "submitted_approved"
               w == FinalReviewer(u, v)
    <3>1. Start(r, "submit.update", a, st, w, Empty) /\ x.status \in {"in_progress", "declined"}
      BY <2>3 DEF SubmitRead
    <3>2. st = "awaiting_review" => w \in Validators
      BY <2>3 DEF SubmitRead
    <3>3. Expects(begun("submit.update", st, w, Empty), x)
      <4> HIDE DEF st, w
      <4>1. QED
        BY <3>1, <3>2 DEF Status
    <3> HIDE DEF st, w, Expects
    <3>4. QED
      BY <3>1, <3>3, <1>1
  <2>4. ASSUME NEW u \in Validators, ApproveRead(r, a, u)  PROVE SerialInv'
    <3>1. Start(r, "approve.tx", a, None, u, Empty) /\ x.status = "awaiting_review"
      BY <2>4 DEF ApproveRead
    <3>2. Expects(begun("approve.tx", None, u, Empty), x)
      BY <3>1 DEF Status
    <3>3. QED
      BY <3>1, <3>2, <1>1
  <2>5. ASSUME NEW u \in Validators, DeclineRead(r, a, u)  PROVE SerialInv'
    <3>1. Start(r, "decline.tx", a, None, u, Empty) /\ x.status = "awaiting_review"
      BY <2>5 DEF DeclineRead
    <3>2. Expects(begun("decline.tx", None, u, Empty), x)
      BY <3>1 DEF Status
    <3>3. QED
      BY <3>1, <3>2, <1>1
  <2>6. ASSUME DeleteRead(r, a)  PROVE SerialInv'
    <3>1. Start(r, "delete.tx", a, None, None, Empty) /\ x.status = "in_progress"
      BY <2>6 DEF DeleteRead
    <3>2. Expects(begun("delete.tx", None, None, Empty), x)
      BY <3>1 DEF Status
    <3>3. QED
      BY <3>1, <3>2, <1>1
  <2>7. ASSUME GenerateRead(r, a)  PROVE SerialInv'
    <3>1. Start(r, "report.upsert", a, None, None, x.assessmentData) /\ x.status \in Status
      BY <2>7 DEF GenerateRead, Live
    <3>2. Expects(begun("report.upsert", None, None, x.assessmentData), x)
      BY <3>1
    <3>3. QED
      BY <3>1, <3>2, <1>1
  <2>8. QED
    BY <2>1, <2>2, <2>3, <2>4, <2>5, <2>6, <2>7
<1>2. row' = row /\ report' = report /\ failed' = failed
  BY DEF Arrive, SaveRead, GroupRead, SubmitRead, ApproveRead, DeclineRead, DeleteRead,
         GenerateRead
<1>3. QED
  <2> DEFINE q == begun(pc, status, user, data)
  <2>1. req' = [req EXCEPT ![r] = q] /\ req[r] = Idle /\ Expects(q, row[q.of])
    BY <1>1 DEF Start
  <2> HIDE DEF q
  <2>2. QED
    BY <1>0, <1>2, <2>1, RequestBegins

LEMMA SerialNext == IInv /\ SerialInv /\ [Next /\ OneAtATime']_vars => SerialInv'
<1> SUFFICES ASSUME IInv, SerialInv, [Next /\ OneAtATime']_vars  PROVE SerialInv'
  OBVIOUS
<1>0. TypeOK /\ OneAtATime'
  BY DEF IInv, SerialInv, OneAtATime, vars
<1>1. ASSUME NEW a \in Assessments, CreateAssessment(a)  PROVE SerialInv'
  <2> DEFINE new == [row[a] EXCEPT !.status = "in_progress"]
  <2>1. row[a] = Tombstone("unborn") /\ row' = [row EXCEPT ![a] = new]
    BY <1>0, <1>1 DEF CreateAssessment, SerialInv, Sound, Blank, TypeOK
  <2>2. FieldsAgree(new) /\ Blank(new) /\ new.status \notin Locked
    BY <2>1 DEF FieldsAgree, Blank, Tombstone, Locked
  <2>3. req' = req /\ report' = report /\ failed' = failed
    BY <1>1 DEF CreateAssessment
  <2>4. row'[a] = new /\ \A b \in Assessments : b # a => row'[b] = row[b]
    BY <1>0, <2>1 DEF TypeOK
  <2>5. ASSUME NEW r \in Requests  PROVE Expects(req'[r], row'[req'[r].of])
    <3>1. CASE req[r] = Idle
      BY <2>3, <3>1, IdleExpects
    <3>2. CASE req[r] # Idle
      <4>1. req[r].of \in Assessments /\ row[req[r].of].status \in Status
        BY <1>0, <3>2 DEF TypeOK, Pending, SerialInv, Expects, ExpectsStatus
      <4>2. req[r].of # a
        BY <1>1, <4>1 DEF CreateAssessment, Status
      <4>3. QED
        BY <2>3, <2>4, <4>1, <4>2 DEF SerialInv
    <3>3. QED
      BY <3>1, <3>2
  <2>6. ASSUME NEW b \in Assessments  PROVE Sound(b)'
    <3>1. CASE b = a
      <4>1. row'[b] = new
        BY <2>4, <3>1
      <4> HIDE DEF new
      <4>2. QED
        BY <2>2, <4>1 DEF Sound, ReportIsCurrent
    <3>2. CASE b # a
      BY <2>3, <2>4, <3>2 DEF SerialInv, Sound, ReportIsCurrent
    <3>3. QED
      BY <3>1, <3>2
  <2>7. QED
    BY <1>0, <2>5, <2>6 DEF SerialInv
<1>2. ASSUME NEW r \in Requests, Fail(r)  PROVE SerialInv'
  <2> PICK x : x = req[r].of
    OBVIOUS
  <2>1. req[r] # Idle /\ row' = row /\ req'[r] = Idle /\ failed'
    BY <1>0, <1>2 DEF Fail, Done, TypeOK
  <2>2. x \in Assessments
    BY <1>0, <2>1 DEF TypeOK, Pending
  <2>3. Alone(r)
    BY <1>0, <1>2 DEF Fail, Done, TypeOK, Alone
  <2>4. Sound(x)'
    BY <2>1, <2>2 DEF SerialInv, Sound, ReportIsCurrent
  <2>5. QED
    BY <1>0, <2>1, <2>3, <2>4, IdleExpects, SerialStep
<1>3. CASE ToggleReview \/ (\E u \in Users : LogIn(u)) \/ UNCHANGED vars
  <2>1. row' = row /\ report' = report /\ req' = req /\ failed' = failed
    BY <1>3 DEF ToggleReview, LogIn, vars
  <2>2. QED
    BY <1>0, <2>1 DEF SerialInv, Sound, ReportIsCurrent
<1>4. ASSUME NEW u \in Users, DeleteUser(u)  PROVE SerialInv'
  <2>1. report' = report /\ req' = req /\ failed' = failed
    BY <1>4 DEF DeleteUser, Erase
  <2>2. ASSUME NEW b \in Assessments
        PROVE  /\ row'[b].status = row[b].status
               /\ row'[b].rejection_reason = row[b].rejection_reason
               /\ row'[b].submittedAt = row[b].submittedAt
               /\ row'[b].assessmentData = row[b].assessmentData
               /\ row[b].status = "unborn" => row'[b] = row[b]
    BY <1>0, <1>4, ErasedRow DEF Live, Status
  <2>3. ASSUME NEW r \in Requests  PROVE Expects(req'[r], row'[req'[r].of])
    <3>1. CASE req[r] = Idle
      BY <2>1, <3>1, IdleExpects
    <3>2. CASE req[r] # Idle
      <4>1. req[r].of \in Assessments /\ Expects(req[r], row[req[r].of])
        BY <1>0, <3>2 DEF TypeOK, Pending, SerialInv
      <4>2. QED
        BY <2>1, <2>2, <4>1 DEF Expects, ExpectsStatus, ExpectsData
    <3>3. QED
      BY <3>1, <3>2
  <2>4. ASSUME NEW b \in Assessments  PROVE Sound(b)'
    BY <2>1, <2>2 DEF SerialInv, Sound, FieldsAgree, Blank, ReportIsCurrent
  <2>5. QED
    BY <1>0, <2>3, <2>4 DEF SerialInv
<1>5. QED
  BY <1>0, <1>1, <1>2, <1>3, <1>4, SerialArrive, SerialProceed DEF Next

\* Whoever submits, approves or declines signs for it, and only the deletion
\* of a reviewer who never logged in takes a signature away.
LEMMA SignedNext ==
  IInv /\ SerialInv /\ SignedInv /\ [Next /\ OneAtATime']_vars => SignedInv'
<1> SUFFICES ASSUME IInv, SerialInv, SignedInv, [Next]_vars, NEW a \in Assessments
             PROVE  Signatory(a)'
  BY DEF SignedInv
<1>0. /\ TypeOK /\ InFlightIsBacked /\ Signatory(a)
      /\ \A u \in Users : account[u] = "member" => account'[u] = "member"
  BY KeptByNext DEF IInv, ApprovalIsAttributed, SignedInv, AllKept
<1>1. ASSUME row'[a].status = row[a].status, row'[a].reviewed_by = row[a].reviewed_by,
             a \in unsigned => a \in unsigned'
      PROVE  Signatory(a)'
  BY <1>0, <1>1 DEF Signatory
<1>2. ASSUME NEW b \in Assessments, CreateAssessment(b)  PROVE Signatory(a)'
  <2>1. CASE a = b
    <3>1. row'[a].status = "in_progress"
      BY <1>0, <1>2, <2>1 DEF CreateAssessment, TypeOK, Row
    <3>2. QED
      BY <3>1 DEF Signatory, Locked
  <2>2. CASE a # b
    BY <1>0, <1>1, <1>2, <2>2 DEF CreateAssessment, TypeOK
  <2>3. QED
    BY <2>1, <2>2
<1>3. ASSUME NEW r \in Requests, Proceed(r)  PROVE Signatory(a)'
  <2>1. CASE SaveReset(r)
    <3>1. Written(r, "in_progress", row[req[r].of].reviewed_by, row[req[r].of].approvedAt)
          /\ unsigned' = unsigned
      BY <1>0, <2>1, Writes DEF SaveReset
    <3>2. QED
      BY <1>1, <3>1 DEF Written, Signatory, Locked
  <2>2. CASE SaveWrite(r) \/ GroupWrite(r)
    <3>1. unsigned' = unsigned
      BY <2>2 DEF SaveWrite, GroupWrite
    <3>2. GroupWrite(r) => req[r].status = row[req[r].of].status
      BY DEF GroupWrite, At, SerialInv, Expects, ExpectsStatus
    <3>3. Written(r, row[req[r].of].status, row[req[r].of].reviewed_by,
                  row[req[r].of].approvedAt)
      BY <1>0, <2>2, <3>2, Writes
    <3>4. QED
      BY <1>1, <3>1, <3>3 DEF Written
  <2>3. ASSUME SubmitWrite(r) \/ ApproveCommit(r) \/ DeclineCommit(r)
        PROVE  Signatory(a)'
    <3>1. CASE a # req[r].of
      <4>1. PICK st, app : Written(r, st, req[r].user, app)
        BY <1>0, <2>3, Writes
      <4>2. unsigned' = unsigned \ {req[r].of}
        BY <2>3 DEF SubmitWrite, ApproveCommit, DeclineCommit, Signed
      <4>3. QED
        BY <1>1, <3>1, <4>1, <4>2 DEF Written
    <3>2. CASE a = req[r].of
      <4>1. /\ row'[a].reviewed_by = req[r].user
            /\ SubmitWrite(r) => row'[a].status = req[r].status
            /\ ApproveCommit(r) => row'[a].status = "approved"
            /\ DeclineCommit(r) => row'[a].status = "declined"
        BY <1>0, <2>3, <3>2, Writes DEF Written
      <4>2. /\ SubmitWrite(r) => /\ req[r].pc = "submit.update"
                                 /\ req[r].status \in {"awaiting_review", "submitted_approved"}
            /\ ApproveCommit(r) \/ DeclineCommit(r) => req[r].pc \in {"approve.tx", "decline.tx"}
        BY <1>0 DEF SubmitWrite, ApproveCommit, DeclineCommit, At, InFlightIsBacked, Backed
      <4>3. /\ req[r].user \in Users
            /\ req[r].pc \in {"approve.tx", "decline.tx"} \/ req[r].status = "submitted_approved"
                 => account[req[r].user] = "member"
        BY <1>0, <2>3, <4>2 DEF InFlightIsBacked, Backed
      <4>4. /\ req[r].pc \in {"approve.tx", "decline.tx"} => req[r].user \in Validators
            /\ req[r].pc = "submit.update" /\ req[r].status = "awaiting_review"
                 => req[r].user \in Validators
        BY DEF SerialInv, Expects, ByValidator
      <4>5. QED
        BY <1>0, <2>3, <4>1, <4>2, <4>3, <4>4 DEF Signatory, Locked
    <3>3. QED
      BY <3>1, <3>2
  <2>4. CASE DeleteCommit(r)
    <3>1. CASE a = req[r].of
      BY <1>0, <2>4, <3>1 DEF DeleteCommit, Tombstone, TypeOK, Signatory, Locked
    <3>2. CASE a # req[r].of
      BY <1>0, <1>1, <2>4, <3>2 DEF DeleteCommit, TypeOK
    <3>3. QED
      BY <3>1, <3>2
  <2>5. CASE ReportRead(r) \/ ReportUpsert(r) \/ RowGone(r) \/ ReviewerGone(r)
    BY <1>1, <2>5 DEF ReportRead, ReportUpsert, RowGone, ReviewerGone
  <2>6. QED
    BY <1>3, <2>1, <2>2, <2>3, <2>4, <2>5 DEF Proceed
<1>4. ASSUME NEW u \in Users, DeleteUser(u)  PROVE Signatory(a)'
  <2>1. CASE row'[a] = row[a]
    BY <1>1, <1>4, <2>1 DEF DeleteUser, Erase
  <2>2. CASE row'[a] # row[a]
    <3>1. /\ a \in unsigned' /\ row[a].reviewed_by = u /\ account[u] = "invited"
          /\ row'[a].status = row[a].status
      BY <1>0, <1>4, <2>2, ErasedRow DEF DeleteUser
    <3>2. row[a].status \notin Locked \cup {"declined"}
      BY <1>0, <3>1 DEF Signatory
    <3>3. QED
      BY <3>1, <3>2 DEF Signatory, Locked
  <2>3. QED
    BY <2>1, <2>2
<1>5. CASE \/ \E r \in Requests : Arrive(r) \/ Fail(r)
           \/ ToggleReview \/ UNCHANGED vars \/ \E u \in Users : LogIn(u)
  BY <1>1, <1>5, ArriveReads DEF Fail, ToggleReview, LogIn, vars
<1>6. QED
  BY <1>2, <1>3, <1>4, <1>5 DEF Next

LEMMA SerialInit == Init => SerialInv /\ SignedInv
<1> SUFFICES ASSUME Init  PROVE SerialInv /\ SignedInv
  OBVIOUS
<1>1. \A r \in Requests : req[r] = Idle
  BY DEF Init
<1>2. OneAtATime /\ \A r \in Requests : Expects(req[r], row[req[r].of])
  BY <1>1, IdleExpects DEF OneAtATime
<1>3. \A a \in Assessments : Sound(a)
  BY DEF Init, Sound, FieldsAgree, Blank, ReportIsCurrent, Tombstone, Status, Locked
<1>4. SignedInv
  BY DEF Init, SignedInv, Signatory, Tombstone, Locked
<1>5. QED
  BY <1>2, <1>3, <1>4 DEF SerialInv

-----------------------------------------------------------------------------
(* The invariants of the serial runs                                       *)

\* Requests that do not overlap are requests.
LEMMA SerialIsSpec == SerialSpec => Spec
<1>1. [Next /\ OneAtATime']_vars => [Next]_vars
  OBVIOUS
<1>2. QED
  BY <1>1, PTL DEF SerialSpec, Spec

\* The invariant of overlapping requests and that of the others together.
THEOREM SerialInvariance == SerialSpec => [](IInv /\ SerialInv /\ SignedInv)
<1>1. SerialSpec => []IInv
  BY SerialIsSpec, Invariance, PTL
<1>2. SerialSpec => []SerialInv
  BY <1>1, SerialInit, SerialNext, PTL DEF SerialSpec
<1>3. SerialSpec => []SignedInv
  BY <1>1, <1>2, SerialInit, SignedNext, PTL DEF SerialSpec
<1>4. QED
  BY <1>1, <1>2, <1>3, PTL

\* saveProgress, submitForReview, approve and decline keep the reason, the
\* submission time and the reviewer in step with the status, over any sequence
\* of calls and failures, if no two requests overlap on the assessment; of the
\* reviewers deleteCompanyUser only ever takes one who was selected and has
\* neither declined nor approved.
THEOREM FieldsStayInStep == SerialSpec => []ReviewFieldsAgree
<1>1. SerialInv /\ SignedInv => ReviewFieldsAgree
  BY DEF SerialInv, SignedInv, Signatory, Sound, FieldsAgree, ReviewFieldsAgree, Live
<1>2. QED
  BY <1>1, SerialInvariance, PTL

\* The report after an approval (saveReportingData) is of the data the
\* assessment holds whenever nothing is in flight on it and nothing failed.
THEOREM FinalReportsAreCurrent == SerialSpec => []FinalReportIsCurrent
<1>1. SerialInv => FinalReportIsCurrent
  BY DEF SerialInv, Sound, ReportIsCurrent, FinalReportIsCurrent
<1>2. QED
  BY <1>1, SerialInvariance, PTL

-----------------------------------------------------------------------------
(* The refinement of ReviewLifecycle                                       *)

StatusOf == [a \in Assessments |-> row[a].status]
SavedOf  == [a \in Assessments |-> row[a].assessmentData.saved]
GroupsOf == [a \in Assessments |-> row[a].assessmentData.submittedGroups]
Decisions == {<<e.of, e.status, e.by>> : e \in log}

\* Function g is f with the value v at x.
Point(f, g, x, v) == g = [f EXCEPT ![x] = v]

\* A row written is a point of each abstract variable changed, or nothing.
LEMMA MappedRow ==
  ASSUME TypeOK, NEW x \in Assessments, NEW new, row' = [row EXCEPT ![x] = new]
  PROVE  LET old == row[x] IN
         /\ StatusOf[x] = old.status
         /\ SavedOf[x] = old.assessmentData.saved
         /\ GroupsOf[x] = old.assessmentData.submittedGroups
         /\ Point(StatusOf, StatusOf', x, new.status)
         /\ Point(SavedOf, SavedOf', x, new.assessmentData.saved)
         /\ Point(GroupsOf, GroupsOf', x, new.assessmentData.submittedGroups)
         /\ new.status = old.status => StatusOf' = StatusOf
         /\ new.assessmentData.saved = old.assessmentData.saved => SavedOf' = SavedOf
         /\ new.assessmentData.submittedGroups = old.assessmentData.submittedGroups
              => GroupsOf' = GroupsOf
BY DEF TypeOK, StatusOf, SavedOf, GroupsOf, Point

\* An activity added is a decision added; without one there is none.
LEMMA MappedLog ==
  ASSUME NEW a, NEW verdict, NEW u,
         log' = log \cup {[of |-> a, status |-> verdict, by |-> u]}
  PROVE  Decisions' = Decisions \cup {<<a, verdict, u>>}
<1>1. PICK e : e = [of |-> a, status |-> verdict, by |-> u]
  OBVIOUS
<1>2. log' = log \cup {e} /\ <<e.of, e.status, e.by>> = <<a, verdict, u>>
  BY <1>1
<1>3. Decisions' = Decisions \cup {<<e.of, e.status, e.by>>}
  BY <1>2 DEF Decisions
<1>4. QED
  BY <1>2, <1>3

LEMMA SameLog ==
  ASSUME log' = log  PROVE Decisions' = Decisions
BY DEF Decisions

\* The abstract actions, of the mapped variables.
LEMMA AbstractSteps ==
  ASSUME NEW x \in Assessments
  PROVE  LET st == StatusOf
             to(s) == Point(st, StatusOf', x, s)
             sameData == SavedOf' = SavedOf /\ GroupsOf' = GroupsOf
             sameRest == sameData /\ Decisions' = Decisions
         IN
         /\ (st[x] = "unborn" /\ to("in_progress") /\ sameRest) => Lifecycle!Next
         /\ (st[x] = "declined" /\ to("in_progress") /\ sameRest) => Lifecycle!Next
         /\ (/\ st[x] \in {"in_progress", "declined"}
             /\ to("awaiting_review") \/ to("submitted_approved")
             /\ sameRest) => Lifecycle!Next
         /\ \A s \in Sections :
              (/\ st[x] \in {"in_progress", "awaiting_review"} /\ StatusOf' = StatusOf
               /\ Point(SavedOf, SavedOf', x, SavedOf[x] \cup {s})
               /\ GroupsOf' = GroupsOf /\ Decisions' = Decisions) => Lifecycle!Next
         /\ \A g \in Groups :
              (/\ st[x] \notin {"unborn", "deleted"} /\ StatusOf' = StatusOf
               /\ Point(GroupsOf, GroupsOf', x, GroupsOf[x] \cup {g})
               /\ SavedOf' = SavedOf /\ Decisions' = Decisions) => Lifecycle!Next
         /\ \A verdict \in {"approved", "declined"}, u \in Validators :
              (/\ st[x] = "awaiting_review" /\ to(verdict) /\ sameData
               /\ Decisions' = Decisions \cup {<<x, verdict, u>>}) => Lifecycle!Next
         /\ (/\ st[x] = "in_progress" /\ to("deleted")
             /\ Point(SavedOf, SavedOf', x, {})
             /\ Point(GroupsOf, GroupsOf', x, {})
             /\ Decisions' = Decisions) => Lifecycle!Next
BY DEF Lifecycle!Next, Lifecycle!Create, Lifecycle!Reopen, Lifecycle!Submit, Lifecycle!Save,
       Lifecycle!MarkGroup, Lifecycle!Decide, Lifecycle!Delete, Lifecycle!Move, Lifecycle!Live,
       StatusOf, SavedOf, GroupsOf, Decisions, Point

\* A step that leaves row and log alone is a stutter of the abstract variables.
LEMMA Stutter ==
  ASSUME row' = row, log' = log  PROVE UNCHANGED Lifecycle!vars
BY DEF Lifecycle!vars

\* Each write of a handler is an operation of the life cycle.
LEMMA HandlerRefines ==
  ASSUME IInv, SerialInv, NEW r \in Requests, Proceed(r)
  PROVE  [Lifecycle!Next]_(Lifecycle!vars)
<1> DEFINE x == req[r].of
           old == row[x]
           q == req[r]
           Goal == [Lifecycle!Next]_(Lifecycle!vars)
<1>0. TypeOK /\ InFlightIsBacked
  BY DEF IInv
<1>a. ASSUME NEW pc, pc # "idle", At(r, pc)
      PROVE  /\ q.pc = pc /\ q \in Pending
             /\ x \in Assessments /\ old \in Row
             /\ Expects(q, old)
  BY <1>0, <1>a, Found DEF At
<1>1. ASSUME SaveReset(r)  PROVE Goal
  <2> DEFINE new == [old EXCEPT !.status = "in_progress", !.rejection_reason = FALSE,
                                !.submittedAt = FALSE]
  <2>1. x \in Assessments /\ old \in Row /\ old.status = "declined"
    BY <1>1, <1>a DEF SaveReset, Expects, ExpectsStatus
  <2>2. row' = [row EXCEPT ![x] = new] /\ log' = log
    BY <1>0, <1>1, <2>1 DEF SaveReset, TypeOK
  <2>3. new.status = "in_progress" /\ new.assessmentData = old.assessmentData
    BY <2>1 DEF Row
  <2> HIDE DEF new
  <2>4. /\ StatusOf[x] = "declined" /\ Point(StatusOf, StatusOf', x, "in_progress")
        /\ SavedOf' = SavedOf /\ GroupsOf' = GroupsOf
    BY <1>0, <2>1, <2>2, <2>3, MappedRow
  <2>log. Decisions' = Decisions
    BY <2>2, SameLog
  <2>5. QED
    BY <2>1, <2>4, <2>log, AbstractSteps
<1>2. ASSUME SaveWrite(r)  PROVE Goal
  <2> DEFINE new == [old EXCEPT !.assessmentData = q.data]
  <2>1. /\ x \in Assessments /\ old \in Row /\ q.pc = "save.update" /\ Expects(q, old)
    BY <1>2, <1>a DEF SaveWrite
  <2>2. row' = [row EXCEPT ![x] = new] /\ log' = log
    BY <1>0, <1>2, <2>1 DEF SaveWrite, TypeOK
  <2>3. new.status = old.status /\ new.assessmentData = q.data
    BY <2>1 DEF Row
  <2>4. PICK s \in Sections : q.data.saved = old.assessmentData.saved \cup {s}
    BY <2>1 DEF Expects, ExpectsData
  <2>5. /\ q.data.submittedGroups = old.assessmentData.submittedGroups
        /\ old.status \in {"in_progress", "awaiting_review"}
    BY <2>1 DEF Expects, ExpectsData, ExpectsStatus
  <2> HIDE DEF new
  <2>6. /\ StatusOf' = StatusOf /\ StatusOf[x] = old.status
        /\ Point(SavedOf, SavedOf', x, SavedOf[x] \cup {s})
        /\ GroupsOf' = GroupsOf
    <3>1. TypeOK /\ x \in Assessments /\ row' = [row EXCEPT ![x] = new]
      BY <1>0, <2>1, <2>2
    <3>2. /\ StatusOf[x] = old.status
          /\ SavedOf[x] = old.assessmentData.saved
          /\ GroupsOf[x] = old.assessmentData.submittedGroups
          /\ Point(SavedOf, SavedOf', x, new.assessmentData.saved)
          /\ Point(GroupsOf, GroupsOf', x, new.assessmentData.submittedGroups)
          /\ new.status = old.status => StatusOf' = StatusOf
          /\ new.assessmentData.saved = old.assessmentData.saved => SavedOf' = SavedOf
          /\ new.assessmentData.submittedGroups = old.assessmentData.submittedGroups
               => GroupsOf' = GroupsOf
      BY <3>1, MappedRow
    <3>3. QED
      BY <3>2, <2>3, <2>4, <2>5
  <2>log. Decisions' = Decisions
    BY <2>2, SameLog
  <2>7. QED
    BY <2>1, <2>5, <2>6, <2>log, AbstractSteps
<1>3. ASSUME GroupWrite(r)  PROVE Goal
  <2> DEFINE new == [old EXCEPT !.assessmentData = q.data, !.status = q.status]
  <2>1. /\ x \in Assessments /\ old \in Row /\ q.pc = "group.update" /\ Expects(q, old)
        /\ q # Idle
    BY <1>3, <1>a DEF GroupWrite, Idle
  <2>2. row' = [row EXCEPT ![x] = new] /\ log' = log
    BY <1>0, <1>3, <2>1 DEF GroupWrite, TypeOK
  <2>3. new.status = old.status /\ new.assessmentData = q.data /\ old.status \in Status
    BY <2>1 DEF Row, Expects, ExpectsStatus
  <2>4. PICK gs \in {{}} \cup {{g} : g \in Groups} :
          q.data.submittedGroups = old.assessmentData.submittedGroups \cup gs
    BY <2>1 DEF Expects, ExpectsData
  <2>5. q.data.saved = old.assessmentData.saved
    BY <2>1 DEF Expects, ExpectsData
  <2> HIDE DEF new
  <2>6. /\ StatusOf' = StatusOf /\ StatusOf[x] = old.status
        /\ Point(GroupsOf, GroupsOf', x, GroupsOf[x] \cup gs)
        /\ SavedOf' = SavedOf
    <3>1. TypeOK /\ x \in Assessments /\ row' = [row EXCEPT ![x] = new]
      BY <1>0, <2>1, <2>2
    <3>2. /\ StatusOf[x] = old.status
          /\ SavedOf[x] = old.assessmentData.saved
          /\ GroupsOf[x] = old.assessmentData.submittedGroups
          /\ Point(SavedOf, SavedOf', x, new.assessmentData.saved)
          /\ Point(GroupsOf, GroupsOf', x, new.assessmentData.submittedGroups)
          /\ new.status = old.status => StatusOf' = StatusOf
          /\ new.assessmentData.saved = old.assessmentData.saved => SavedOf' = SavedOf
          /\ new.assessmentData.submittedGroups = old.assessmentData.submittedGroups
               => GroupsOf' = GroupsOf
      BY <3>1, MappedRow
    <3>3. QED
      BY <3>2, <2>3, <2>4, <2>5
  <2>log. Decisions' = Decisions
    BY <2>2, SameLog
  <2>7. CASE gs = {}
    <3>0. GroupsOf[x] \cup gs = GroupsOf[x]
      BY <2>7
    <3>1. GroupsOf' = GroupsOf
      <4>1. Point(GroupsOf, GroupsOf', x, GroupsOf[x])
        BY <2>6, <3>0
      <4>2. QED
        BY <4>1 DEF Point, GroupsOf
    <3>2. QED
      BY <2>6, <2>log, <3>1 DEF Lifecycle!vars, StatusOf, SavedOf, GroupsOf, Decisions
  <2>8. CASE \E g \in Groups : gs = {g}
    BY <2>1, <2>3, <2>6, <2>8, <2>log, AbstractSteps DEF Status
  <2>9. QED
    BY <2>4, <2>7, <2>8
<1>4. ASSUME SubmitWrite(r)  PROVE Goal
  <2> DEFINE app == old.approvedAt \/ q.status = "submitted_approved"
             new == [old EXCEPT !.status = q.status, !.reviewed_by = q.user,
                                !.rejection_reason = FALSE, !.submittedAt = TRUE,
                                !.approvedAt = app]
  <2>1. /\ x \in Assessments /\ old \in Row /\ old.status \in {"in_progress", "declined"}
        /\ q.status \in {"awaiting_review", "submitted_approved"}
    BY <1>0, <1>4, <1>a DEF SubmitWrite, Expects, ExpectsStatus, InFlightIsBacked, Backed
  <2>2. row' = [row EXCEPT ![x] = new] /\ log' = log
    BY <1>0, <1>4, <2>1 DEF SubmitWrite, TypeOK
  <2>3. new.status = q.status /\ new.assessmentData = old.assessmentData
    <3> HIDE DEF app
    <3>1. QED
      BY <2>1 DEF Row
  <2> HIDE DEF new
  <2>4. /\ StatusOf[x] = old.status /\ Point(StatusOf, StatusOf', x, q.status)
        /\ SavedOf' = SavedOf /\ GroupsOf' = GroupsOf
    <3>1. TypeOK /\ x \in Assessments /\ row' = [row EXCEPT ![x] = new]
      BY <1>0, <2>1, <2>2
    <3>2. QED
      BY <3>1, <2>3, MappedRow
  <2>log. Decisions' = Decisions
    BY <2>2, SameLog
  <2>5. QED
    BY <2>1, <2>4, <2>log, AbstractSteps
<1>5. ASSUME NEW verdict \in {"approved", "declined"}, NEW new,
             row' = [row EXCEPT ![x] = new], x \in Assessments,
             log' = log \cup {[of |-> x, status |-> verdict, by |-> q.user]},
             q.user \in Validators, old.status = "awaiting_review",
             new.status = verdict, new.assessmentData = old.assessmentData
      PROVE  Goal
  <2>1. /\ StatusOf[x] = "awaiting_review" /\ Point(StatusOf, StatusOf', x, verdict)
        /\ SavedOf' = SavedOf /\ GroupsOf' = GroupsOf
    BY <1>0, <1>5, MappedRow
  <2>2. Decisions' = Decisions \cup {<<x, verdict, q.user>>}
    BY <1>5, MappedLog
  <2>3. QED
    BY <1>5, <2>1, <2>2, AbstractSteps
<1>6. ASSUME ApproveCommit(r)  PROVE Goal
  <2> DEFINE new == [old EXCEPT !.status = "approved", !.reviewed_by = q.user,
                                !.approvedAt = TRUE, !.rejection_reason = FALSE]
  <2>1. /\ x \in Assessments /\ old \in Row /\ old.status = "awaiting_review"
        /\ q.user \in Validators
    BY <1>6, <1>a DEF ApproveCommit, Expects, ExpectsStatus, ByValidator
  <2>2. /\ row' = [row EXCEPT ![x] = new]
        /\ log' = log \cup {[of |-> x, status |-> "approved", by |-> q.user]}
    BY <1>0, <1>6, <2>1 DEF ApproveCommit, TypeOK
  <2>3. new.status = "approved" /\ new.assessmentData = old.assessmentData
    BY <2>1 DEF Row
  <2> HIDE DEF new, Goal
  <2>4. QED
    BY <1>5, <2>1, <2>2, <2>3
<1>7. ASSUME DeclineCommit(r)  PROVE Goal
  <2> DEFINE new == [old EXCEPT !.status = "declined", !.reviewed_by = q.user,
                                !.rejection_reason = TRUE]
  <2>1. /\ x \in Assessments /\ old \in Row /\ old.status = "awaiting_review"
        /\ q.user \in Validators
    BY <1>7, <1>a DEF DeclineCommit, Expects, ExpectsStatus, ByValidator
  <2>2. /\ row' = [row EXCEPT ![x] = new]
        /\ log' = log \cup {[of |-> x, status |-> "declined", by |-> q.user]}
    BY <1>0, <1>7, <2>1 DEF DeclineCommit, TypeOK
  <2>3. new.status = "declined" /\ new.assessmentData = old.assessmentData
    BY <2>1 DEF Row
  <2> HIDE DEF new, Goal
  <2>4. QED
    BY <1>5, <2>1, <2>2, <2>3
<1>8. ASSUME DeleteCommit(r)  PROVE Goal
  <2>1. x \in Assessments /\ old.status = "in_progress"
    BY <1>8, <1>a DEF DeleteCommit, Expects, ExpectsStatus
  <2>2. row' = [row EXCEPT ![x] = Tombstone("deleted")] /\ log' = log
    BY <1>8 DEF DeleteCommit
  <2>new. PICK new : new = Tombstone("deleted")
    OBVIOUS
  <2>3. /\ new.status = "deleted"
        /\ new.assessmentData.saved = {}
        /\ new.assessmentData.submittedGroups = {}
    BY <2>new DEF Tombstone, Empty
  <2>4. /\ StatusOf[x] = "in_progress" /\ Point(StatusOf, StatusOf', x, "deleted")
        /\ Point(SavedOf, SavedOf', x, {})
        /\ Point(GroupsOf, GroupsOf', x, {})
    <3>1. TypeOK /\ x \in Assessments /\ row' = [row EXCEPT ![x] = new]
      BY <1>0, <2>1, <2>2, <2>new
    <3>2. QED
      BY <3>1, <2>1, <2>3, MappedRow
  <2>log. Decisions' = Decisions
    BY <2>2, SameLog
  <2>5. QED
    BY <2>1, <2>4, <2>log, AbstractSteps
<1>9. ASSUME ReportRead(r) \/ ReportUpsert(r) \/ RowGone(r) \/ ReviewerGone(r)
      PROVE  Goal
  BY <1>9, Stutter DEF ReportRead, ReportUpsert, RowGone, ReviewerGone
<1>10. QED
  <2> HIDE DEF Goal
  <2>1. QED
    BY <1>1, <1>2, <1>3, <1>4, <1>6, <1>7, <1>8, <1>9 DEF Proceed, Goal

\* Every step maps to an operation of the life cycle or to a stutter.
LEMMA StepRefines ==
  IInv /\ SerialInv /\ [Next /\ OneAtATime']_vars => [Lifecycle!Next]_(Lifecycle!vars)
<1> SUFFICES ASSUME IInv, SerialInv, [Next]_vars
             PROVE  [Lifecycle!Next]_(Lifecycle!vars)
  OBVIOUS
<1>1. ASSUME NEW a \in Assessments, CreateAssessment(a)
      PROVE  [Lifecycle!Next]_(Lifecycle!vars)
  <2> DEFINE new == [row[a] EXCEPT !.status = "in_progress"]
  <2>1. /\ TypeOK /\ row[a] \in Row /\ row[a].status = "unborn"
        /\ row' = [row EXCEPT ![a] = new] /\ log' = log
    BY <1>1 DEF CreateAssessment, IInv, TypeOK
  <2>2. new.status = "in_progress" /\ new.assessmentData = row[a].assessmentData
    BY <2>1 DEF Row
  <2> HIDE DEF new
  <2>3. /\ StatusOf[a] = "unborn" /\ Point(StatusOf, StatusOf', a, "in_progress")
        /\ SavedOf' = SavedOf /\ GroupsOf' = GroupsOf
    BY <2>1, <2>2, MappedRow
  <2>log. Decisions' = Decisions
    BY <2>1, SameLog
  <2>4. QED
    BY <2>3, <2>log, AbstractSteps
<1>2. ASSUME NEW r \in Requests, Arrive(r) \/ Fail(r)
      PROVE  [Lifecycle!Next]_(Lifecycle!vars)
  BY <1>2, ArriveReads, Stutter DEF Fail
<1>3. CASE ToggleReview \/ (\E u \in Users : LogIn(u)) \/ UNCHANGED vars
  BY <1>3, Stutter DEF ToggleReview, LogIn, vars
<1>4. ASSUME NEW u \in Users, DeleteUser(u)
      PROVE  [Lifecycle!Next]_(Lifecycle!vars)
  <2>1. TypeOK /\ \A e \in log : account[e.by] = "member"
    BY DEF IInv, ApprovalIsAttributed, AuthorsStay
  <2>2. log' = log
    BY <1>4, <2>1 DEF DeleteUser, Erase
  <2>3. \A a \in Assessments : /\ row'[a].status = row[a].status
                                /\ row'[a].assessmentData = row[a].assessmentData
    BY <1>4, <2>1, ErasedRow
  <2>4. StatusOf' = StatusOf /\ SavedOf' = SavedOf /\ GroupsOf' = GroupsOf
    BY <2>3 DEF StatusOf, SavedOf, GroupsOf
  <2>5. Decisions' = Decisions
    BY <2>2, SameLog
  <2>6. QED
    BY <2>4, <2>5 DEF Lifecycle!vars, StatusOf, SavedOf, GroupsOf, Decisions
<1>5. QED
  BY <1>1, <1>2, <1>3, <1>4, HandlerRefines DEF Next

\* An assessment is born a draft without data or decisions.
LEMMA InitRefines == Init => Lifecycle!Init
BY DEF Init, Tombstone, Empty, Lifecycle!Init

\* The handlers of AssessmentsService, split at every await and cut short
\* anywhere, implement the atomic life cycle as long as requests on one
\* assessment do not overlap.
THEOREM HandlersImplementLifecycle == SerialSpec => ImplementsLifecycle
<1>1. SerialSpec => []SerialInv /\ []IInv
  BY SerialInvariance, PTL
<1>2. QED
  BY <1>1, InitRefines, StepRefines, PTL DEF SerialSpec, ImplementsLifecycle, Lifecycle!Spec
=============================================================================
