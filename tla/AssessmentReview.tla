-------------------------- MODULE AssessmentReview --------------------------
(***************************************************************************)
(* The review life cycle of an ESG assessment                              *)
(* (company/assessments/assessments.service.ts) with the report every      *)
(* submission regenerates (company/report/report.service.ts).              *)
(*                                                                         *)
(* Each HTTP request is an async function on the Node event loop: between  *)
(* two awaited database calls any other request, of this process or of     *)
(* another instance, may run.  No handler locks the row it read, and no    *)
(* UPDATE repeats the status it checked in its WHERE clause.  A request is *)
(* therefore a slot of Requests holding what the handler keeps in local    *)
(* variables between its database calls, and every action below is one     *)
(* database call (or one interactive transaction) with the code up to the  *)
(* next one.                                                               *)
(*                                                                         *)
(* Abstractions.  One company; timestamps and the rejection text are       *)
(* booleans (set or null); assessmentData is the set of sections saved     *)
(* into it and the set submittedGroups; a report is the assessmentData it  *)
(* was computed from.  Of a user's life only what reviewed_by sees is      *)
(* kept: the first login, and the deletion of one who never logged in      *)
(* (ON DELETE SET NULL); roles do not change, or stand for the roles ever  *)
(* held.  The rows written after the last state change of a handler by     *)
(* the best-effort ActivitiesService.logActivity, and e-mails, are left    *)
(* out.  The task rows that createAssessment and deleteAssessment write    *)
(* with the assessment are in AssessmentTasks.                             *)
(***************************************************************************)
CONSTANTS
  Assessments,  \* the ids the assessments table will ever hand out
  Users,        \* the company's users with a role of DATA_WRITE_ROLES
  Validators,   \* those whose role is in VALIDATOR_ROLES
  Permanent,    \* company_esg_admin and the leads: deleteCompanyUser refuses them
  Requests,     \* slots for requests in flight: bounds the concurrency
  Sections,     \* the forms saveProgress can write
  Groups,       \* the form groups submitGroup can mark
  None          \* SQL null, "no row", and the fields an idle slot does not use

ASSUME UsersAssumption ==
  /\ Permanent \subseteq Users /\ Validators \subseteq Users
  /\ None \notin Users \cup Assessments

VARIABLES
  row,            \* the assessments table
  report,         \* the report table, by assessmentId (unique)
  log,            \* the activities rows the review transactions write
  requireReview,  \* company.requireAssessmentReview
  account,        \* the users table: "member" once they have logged in
  req,            \* what each request in flight holds between two awaits
  failed,         \* history: some request was cut short by an error or a crash
  unsigned        \* history: assessments whose last reviewer was deleted

vars == <<row, report, log, requireReview, account, req, failed, unsigned>>

-----------------------------------------------------------------------------
(* Tables and requests                                                     *)

\* The sixth member of the enum, unapproved_rejected, is written nowhere.
Status == {"in_progress", "awaiting_review", "submitted_approved",
           "approved", "declined"}

\* lockedStatuses
Locked == {"submitted_approved", "approved"}

Data == [saved : SUBSET Sections, submittedGroups : SUBSET Groups]

Empty == [saved |-> {}, submittedGroups |-> {}]

\* A row before its INSERT and after its DELETE.
Tombstone(mark) ==
  [status |-> mark, rejection_reason |-> FALSE, reviewed_by |-> None,
   submittedAt |-> FALSE, approvedAt |-> FALSE, assessmentData |-> Empty]

Row == [status : Status \cup {"unborn", "deleted"},
        rejection_reason : BOOLEAN, reviewed_by : Users \cup {None},
        submittedAt : BOOLEAN, approvedAt : BOOLEAN, assessmentData : Data]

Activity == [of : Assessments, status : {"approved", "declined"}, by : Users]

Idle == [pc |-> "idle", of |-> None, status |-> None, user |-> None,
         data |-> Empty]

\* The database call a request in flight is about to make.
Pc == {"save.reset", "save.update", "group.update", "submit.update",
       "approve.tx", "decline.tx", "delete.tx", "report.read", "report.upsert"}

Pending == [pc : Pc, of : Assessments, status : Status \cup {None},
            user : Users \cup {None}, data : Data]

Live(a) == row[a].status \in Status

Deleted == {u \in Users : account[u] = "deleted"}

TypeOK ==
  /\ row \in [Assessments -> Row]
  /\ report \in [Assessments -> Data \cup {None}]
  /\ log \subseteq Activity
  /\ requireReview \in BOOLEAN
  /\ req \in [Requests -> Pending \cup {Idle}]
  /\ account \in [Users -> {"invited", "member", "deleted"}]
  /\ failed \in BOOLEAN
  /\ unsigned \subseteq Assessments

Init ==
  /\ row = [a \in Assessments |-> Tombstone("unborn")]
  /\ report = [a \in Assessments |-> None]
  /\ log = {}
  /\ requireReview = TRUE
  /\ req = [r \in Requests |-> Idle]
  /\ account \in [Users -> {"invited", "member"}]
  /\ failed = FALSE
  /\ unsigned = {}

-----------------------------------------------------------------------------
(* How a request moves on                                                  *)

Start(r, pc, a, status, user, data) ==
  /\ req[r] = Idle
  /\ req' = [req EXCEPT ![r] = [pc |-> pc, of |-> a, status |-> status,
                                user |-> user, data |-> data]]

\* The request's next database call finds its row.
At(r, pc) == req[r].pc = pc /\ Live(req[r].of)

Continue(r, pc) ==
  req' = [req EXCEPT ![r] = [pc |-> pc, of |-> req[r].of, status |-> None,
                             user |-> None, data |-> Empty]]

Done(r) == req' = [req EXCEPT ![r] = Idle]

\* The request writes its user into reviewed_by.
Signed(r) == unsigned' = unsigned \ {req[r].of}

-----------------------------------------------------------------------------
(* createAssessment: the INSERT.  The duplicate check before it and the    *)
(* task after it are in AssessmentTasks.                                   *)

CreateAssessment(a) ==
  /\ row[a].status = "unborn"
  /\ row' = [row EXCEPT ![a].status = "in_progress"]
  /\ UNCHANGED <<report, log, requireReview, account, req, failed, unsigned>>

-----------------------------------------------------------------------------
(* saveProgress                                                            *)

\* Mutant of SaveRead: the lockedStatuses check is forgotten.
SaveReadUnlocked(r, a, s) ==
  /\ Live(a)
  /\ Start(r, IF row[a].status = "declined" THEN "save.reset" ELSE "save.update",
           a, None, None, [row[a].assessmentData EXCEPT !.saved = @ \cup {s}])
  /\ UNCHANGED <<row, report, log, requireReview, account, failed, unsigned>>

SaveRead(r, a, s) ==
  /\ Live(a)
  /\ row[a].status \notin Locked
  /\ Start(r, IF row[a].status = "declined" THEN "save.reset" ELSE "save.update",
           a, None, None, [row[a].assessmentData EXCEPT !.saved = @ \cup {s}])
  /\ UNCHANGED <<row, report, log, requireReview, account, failed, unsigned>>

\* Mutants of SaveReset: the rejection reason survives; the status is a local
\* nobody assigned.
SaveResetKeepsReason(r) ==
  /\ At(r, "save.reset")
  /\ row' = [row EXCEPT ![req[r].of].status = "in_progress",
                        ![req[r].of].submittedAt = FALSE]
  /\ req' = [req EXCEPT ![r].pc = "save.update"]
  /\ UNCHANGED <<report, log, requireReview, account, failed, unsigned>>

SaveResetToNull(r) ==
  /\ At(r, "save.reset")
  /\ row' = [row EXCEPT ![req[r].of].status = req[r].status]
  /\ req' = [req EXCEPT ![r].pc = "save.update"]
  /\ UNCHANGED <<report, log, requireReview, account, failed, unsigned>>

SaveReset(r) ==
  /\ At(r, "save.reset")
  /\ row' = [row EXCEPT ![req[r].of].status = "in_progress",
                        ![req[r].of].rejection_reason = FALSE,
                        ![req[r].of].submittedAt = FALSE]
  /\ req' = [req EXCEPT ![r].pc = "save.update"]
  /\ UNCHANGED <<report, log, requireReview, account, failed, unsigned>>

\* Mutant of SaveWrite: an upsert, which does not need the row to exist.
SaveWriteUpserts(r) ==
  /\ req[r].pc = "save.update"
  /\ row' = [row EXCEPT ![req[r].of].assessmentData = req[r].data]
  /\ Done(r)
  /\ UNCHANGED <<report, log, requireReview, account, failed, unsigned>>

SaveWrite(r) ==
  /\ At(r, "save.update")
  /\ row' = [row EXCEPT ![req[r].of].assessmentData = req[r].data]
  /\ Done(r)
  /\ UNCHANGED <<report, log, requireReview, account, failed, unsigned>>

-----------------------------------------------------------------------------
(* submitGroup: writes back the blob and the status it read, whatever the  *)
(* status.  gs is empty when lastSavedForm names no group.                 *)

GroupRead(r, a, gs) ==
  /\ Live(a)
  /\ Start(r, "group.update", a, row[a].status, None,
           [row[a].assessmentData EXCEPT !.submittedGroups = @ \cup gs])
  /\ UNCHANGED <<row, report, log, requireReview, account, failed, unsigned>>

GroupWrite(r) ==
  /\ At(r, "group.update")
  /\ row' = [row EXCEPT ![req[r].of].assessmentData = req[r].data,
                        ![req[r].of].status = req[r].status]
  /\ Continue(r, "report.read")
  /\ UNCHANGED <<report, log, requireReview, account, failed, unsigned>>

-----------------------------------------------------------------------------
(* submitForReview by user u, who selected reviewer v (None: nobody)       *)

\* Mutant of FinalReviewer: an auto-approval has nobody as its reviewer.
SelectedReviewer(u, v) == v

FinalReviewer(u, v) == IF requireReview /\ v # None THEN v ELSE u

SubmitRead(r, a, u, v) ==
  /\ account[u] = "member"
  /\ row[a].status \in {"in_progress", "declined"}
  /\ requireReview => FinalReviewer(u, v) \in Validators \ Deleted
  /\ Start(r, "submit.update", a,
           IF requireReview THEN "awaiting_review" ELSE "submitted_approved",
           FinalReviewer(u, v), Empty)
  /\ UNCHANGED <<row, report, log, requireReview, account, failed, unsigned>>

\* Mutant of SubmitWrite: no report after the submission.
SubmitWriteOnly(r) ==
  /\ At(r, "submit.update")
  /\ req[r].user \notin Deleted
  /\ row' = [row EXCEPT
       ![req[r].of].status = req[r].status,
       ![req[r].of].reviewed_by = req[r].user,
       ![req[r].of].rejection_reason = FALSE,
       ![req[r].of].submittedAt = TRUE,
       ![req[r].of].approvedAt = @ \/ req[r].status = "submitted_approved"]
  /\ Done(r)
  /\ Signed(r)
  /\ UNCHANGED <<report, log, requireReview, account, failed>>

SubmitWrite(r) ==
  /\ At(r, "submit.update")
  /\ req[r].user \notin Deleted
  /\ row' = [row EXCEPT
       ![req[r].of].status = req[r].status,
       ![req[r].of].reviewed_by = req[r].user,
       ![req[r].of].rejection_reason = FALSE,
       ![req[r].of].submittedAt = TRUE,
       ![req[r].of].approvedAt = @ \/ req[r].status = "submitted_approved"]
  /\ Continue(r, "report.read")
  /\ Signed(r)
  /\ UNCHANGED <<report, log, requireReview, account, failed>>

-----------------------------------------------------------------------------
(* approveAssessment and declineAssessment: a read, then a transaction     *)
(* that writes the status and the activity row together.                   *)

ApproveRead(r, a, u) ==
  /\ account[u] = "member"
  /\ row[a].status = "awaiting_review"
  /\ Start(r, "approve.tx", a, None, u, Empty)
  /\ UNCHANGED <<row, report, log, requireReview, account, failed, unsigned>>

\* Mutants of ApproveCommit: the activity is left to a best-effort call; the
\* report is not generated again.
ApproveCommitUnlogged(r) ==
  /\ At(r, "approve.tx")
  /\ row' = [row EXCEPT ![req[r].of].status = "approved",
                        ![req[r].of].reviewed_by = req[r].user,
                        ![req[r].of].approvedAt = TRUE,
                        ![req[r].of].rejection_reason = FALSE]
  /\ Continue(r, "report.read")
  /\ Signed(r)
  /\ UNCHANGED <<report, log, requireReview, account, failed>>

ApproveCommitOnly(r) ==
  /\ At(r, "approve.tx")
  /\ row' = [row EXCEPT ![req[r].of].status = "approved",
                        ![req[r].of].reviewed_by = req[r].user,
                        ![req[r].of].approvedAt = TRUE,
                        ![req[r].of].rejection_reason = FALSE]
  /\ log' = log \cup {[of |-> req[r].of, status |-> "approved", by |-> req[r].user]}
  /\ Done(r)
  /\ Signed(r)
  /\ UNCHANGED <<report, requireReview, account, failed>>

ApproveCommit(r) ==
  /\ At(r, "approve.tx")
  /\ row' = [row EXCEPT ![req[r].of].status = "approved",
                        ![req[r].of].reviewed_by = req[r].user,
                        ![req[r].of].approvedAt = TRUE,
                        ![req[r].of].rejection_reason = FALSE]
  /\ log' = log \cup {[of |-> req[r].of, status |-> "approved", by |-> req[r].user]}
  /\ Continue(r, "report.read")
  /\ Signed(r)
  /\ UNCHANGED <<report, requireReview, account, failed>>

DeclineRead(r, a, u) ==
  /\ account[u] = "member"
  /\ row[a].status = "awaiting_review"
  /\ Start(r, "decline.tx", a, None, u, Empty)
  /\ UNCHANGED <<row, report, log, requireReview, account, failed, unsigned>>

DeclineCommit(r) ==
  /\ At(r, "decline.tx")
  /\ row' = [row EXCEPT ![req[r].of].status = "declined",
                        ![req[r].of].reviewed_by = req[r].user,
                        ![req[r].of].rejection_reason = TRUE]
  /\ log' = log \cup {[of |-> req[r].of, status |-> "declined", by |-> req[r].user]}
  /\ Done(r)
  /\ Signed(r)
  /\ UNCHANGED <<report, requireReview, account, failed>>

-----------------------------------------------------------------------------
(* deleteAssessment: a read, then one transaction                          *)

DeleteRead(r, a) ==
  /\ row[a].status = "in_progress"
  /\ Start(r, "delete.tx", a, None, None, Empty)
  /\ UNCHANGED <<row, report, log, requireReview, account, failed, unsigned>>

DeleteCommit(r) ==
  /\ At(r, "delete.tx")
  /\ row' = [row EXCEPT ![req[r].of] = Tombstone("deleted")]
  /\ report' = [report EXCEPT ![req[r].of] = None]
  /\ Done(r)
  /\ UNCHANGED <<log, requireReview, account, failed, unsigned>>

-----------------------------------------------------------------------------
(* saveReportingData, the tail of submitGroup, submitForReview and         *)
(* approveAssessment, in a try/catch of its own, and all of the endpoint   *)
(* that generates a report on demand.                                      *)

GenerateRead(r, a) ==
  /\ Live(a)
  /\ Start(r, "report.upsert", a, None, None, row[a].assessmentData)
  /\ UNCHANGED <<row, report, log, requireReview, account, failed, unsigned>>

ReportRead(r) ==
  /\ At(r, "report.read")
  /\ req' = [req EXCEPT ![r].pc = "report.upsert",
                        ![r].data = row[req[r].of].assessmentData]
  /\ UNCHANGED <<row, report, log, requireReview, account, failed, unsigned>>

\* Mutant of ReportUpsert: the foreign key of the report table is missing.
ReportUpsertUnchecked(r) ==
  /\ req[r].pc = "report.upsert"
  /\ report' = [report EXCEPT ![req[r].of] = req[r].data]
  /\ Done(r)
  /\ UNCHANGED <<row, log, requireReview, account, failed, unsigned>>

\* The foreign key report.assessmentId refuses the INSERT once the row is gone.
ReportUpsert(r) ==
  /\ At(r, "report.upsert")
  /\ report' = [report EXCEPT ![req[r].of] = req[r].data]
  /\ Done(r)
  /\ UNCHANGED <<row, log, requireReview, account, failed, unsigned>>

-----------------------------------------------------------------------------
(* The rest of the world                                                   *)

\* Mutant of RowGone: saveReportingData waits for the assessment to show up.
RowAwaited(r) ==
  /\ req[r] # Idle
  /\ req[r].pc # "report.read"
  /\ ~ Live(req[r].of)
  /\ Done(r)
  /\ UNCHANGED <<row, report, log, requireReview, account, failed, unsigned>>

\* The row was deleted under the request: Prisma's P2025 on an update, the
\* NotFoundException of saveReportingData or the foreign key on the upsert.
RowGone(r) ==
  /\ req[r] # Idle
  /\ ~ Live(req[r].of)
  /\ Done(r)
  /\ UNCHANGED <<row, report, log, requireReview, account, failed, unsigned>>

\* The foreign key assessments.reviewed_by refuses the UPDATE of a submission
\* whose reviewer was deleted since the handler looked them up.
ReviewerGone(r) ==
  /\ At(r, "submit.update")
  /\ req[r].user \in Deleted
  /\ Done(r)
  /\ UNCHANGED <<row, report, log, requireReview, account, failed, unsigned>>

\* The first login leaves a refresh token, which nothing ever deletes.
LogIn(u) ==
  /\ account[u] = "invited"
  /\ account' = [account EXCEPT ![u] = "member"]
  /\ UNCHANGED <<row, report, log, requireReview, req, failed, unsigned>>

ReviewedBy(u) == {a \in Assessments : Live(a) /\ row[a].reviewed_by = u}

\* The DELETE of a user: SET NULL in assessments, CASCADE in activities.
Erase(u) ==
  /\ account' = [account EXCEPT ![u] = "deleted"]
  /\ row' = [a \in Assessments |-> IF a \in ReviewedBy(u)
               THEN [row[a] EXCEPT !.reviewed_by = None] ELSE row[a]]
  /\ log' = {e \in log : e.by # u}
  /\ unsigned' = unsigned \cup ReviewedBy(u)
  /\ UNCHANGED <<report, requireReview, req, failed>>

\* Mutant of DeleteUser: the refresh tokens go with their user.
DeleteUserAndTokens(u) == u \notin Permanent /\ account[u] # "deleted" /\ Erase(u)

\* deleteCompanyUser.  The RESTRICT of refresh_tokens.user_id keeps everyone
\* who has logged in, and the handler itself the Permanent.
DeleteUser(u) == u \notin Permanent /\ account[u] = "invited" /\ Erase(u)

\* CompanyService.update with requireAssessmentReview in the dto.
ToggleReview ==
  /\ requireReview' = ~ requireReview
  /\ UNCHANGED <<row, report, log, account, req, failed, unsigned>>

\* A database error, a failed recalculation or a restart of the server ends
\* a request between two of its writes.
Fail(r) ==
  /\ req[r] # Idle
  /\ Done(r)
  /\ failed' = TRUE
  /\ UNCHANGED <<row, report, log, requireReview, account, unsigned>>

\* A client's call: the handler up to the first database answer.
Arrive(r) ==
  \E a \in Assessments :
    \/ \E s \in Sections : SaveRead(r, a, s)
    \/ \E gs \in {{}} \cup {{g} : g \in Groups} : GroupRead(r, a, gs)
    \/ \E u \in Users, v \in Validators \cup {None} : SubmitRead(r, a, u, v)
    \/ \E u \in Validators : ApproveRead(r, a, u) \/ DeclineRead(r, a, u)
    \/ DeleteRead(r, a) \/ GenerateRead(r, a)

\* The rest of a handler, one database call at a time.
Proceed(r) ==
  \/ SaveReset(r) \/ SaveWrite(r)
  \/ GroupWrite(r)
  \/ SubmitWrite(r)
  \/ ApproveCommit(r) \/ DeclineCommit(r)
  \/ DeleteCommit(r)
  \/ ReportRead(r) \/ ReportUpsert(r)
  \/ RowGone(r) \/ ReviewerGone(r)

Next ==
  \/ \E a \in Assessments : CreateAssessment(a)
  \/ \E r \in Requests : Arrive(r) \/ Proceed(r) \/ Fail(r)
  \/ ToggleReview
  \/ \E u \in Users : LogIn(u) \/ DeleteUser(u)

Spec == Init /\ [][Next]_vars

\* The event loop resumes a handler once the database has answered, and the
\* database answers: a request in flight does not wait for ever.
FairSpec == Spec /\ \A r \in Requests : WF_vars(Proceed(r))

\* Requests on one assessment follow one another, as those of one page whose
\* buttons wait for the answer do; requests on different assessments overlap.
OneAtATime ==
  \A r, q \in Requests : (req[r] # Idle /\ req[q].of = req[r].of) => q = r

SerialSpec == Init /\ [][Next /\ OneAtATime']_vars

-----------------------------------------------------------------------------
(* What holds however the requests interleave                              *)

Logged(a) == \E e \in log : e.of = a /\ e.status = "approved"

\* "Either there's an approved assessment with a matching activity entry, or
\* neither": also when submitGroup writes back a status it read before a
\* decline, or when two validators decide at once (approveAssessment).
ApprovalIsLogged ==
  \A a \in Assessments : row[a].status = "approved" => Logged(a)

\* Nobody who ever approved or declined is deleted: the CASCADE of
\* activities.createdById has no decision to take away.
AuthorsStay == \A e \in log : account[e.by] = "member"

\* The audit trail is populated: an assessment that has left in_progress
\* names its reviewer, unless deleteCompanyUser took that very reviewer since
\* the last submission or decision; an approved one has its approval time.
\* And the authors of the decisions stay.  This whichever of the racing
\* handlers wrote the status last, and with the reviewer selected in
\* submitForReview deleted between its two calls.
ApprovalIsAttributed ==
  /\ AuthorsStay
  /\ \A a \in Assessments :
       /\ row[a].status \in Status \ {"in_progress"} =>
            row[a].reviewed_by # None \/ a \in unsigned
       /\ row[a].status \in Locked => row[a].approvedAt

\* What makes the two inductive: the status submitGroup is about to write
\* back was backed by the row when it was read, and still is, since only the
\* deletion of the reviewer sets reviewed_by back to null and nothing does
\* approvedAt; submitForReview carries the reviewer its status needs, who for
\* an auto-approval is its own user; and who is about to decide has logged in,
\* so that no deletion overtakes the decision.
Backed(q) ==
  /\ q # Idle => row[q.of].status # "unborn"
  /\ q.pc = "group.update" =>
       /\ q.status \in Status
       /\ q.status = "approved" => Logged(q.of)
       /\ Live(q.of) =>
            /\ q.status # "in_progress" =>
                 row[q.of].reviewed_by # None \/ q.of \in unsigned
            /\ q.status \in Locked => row[q.of].approvedAt
  /\ q.pc = "submit.update" =>
       /\ q.status \in {"awaiting_review", "submitted_approved"}
       /\ q.user \in Users
       /\ q.status = "submitted_approved" => account[q.user] = "member"
  /\ q.pc \in {"approve.tx", "decline.tx"} =>
       q.user \in Users /\ account[q.user] = "member"

InFlightIsBacked == \A r \in Requests : Backed(req[r])

\* No report outlives its assessment: a saveReportingData that read the
\* assessment before it was deleted must not leave a report behind.
ReportHasAssessment == \A a \in Assessments : report[a] # None => Live(a)

\* The inductive invariant of AssessmentReview_proofs.
IInv ==
  /\ TypeOK
  /\ ApprovalIsLogged
  /\ ApprovalIsAttributed
  /\ InFlightIsBacked
  /\ ReportHasAssessment

\* A deleted assessment stays deleted, with no field of it written, whatever
\* the requests that read it before are still about to do.
DeletedIsFinal ==
  [][\A a \in Assessments : row[a].status = "deleted" => row'[a] = row[a]]_vars

\* No request stays in flight for ever, not even one whose row is gone.
RequestEnds == \A r \in Requests : req[r] # Idle ~> req[r] = Idle

\* Submitting or approving ends with a report of the assessment, unless the
\* assessment is deleted meanwhile or a request was cut short.
SubmittedGetsReport ==
  \A a \in Assessments :
    row[a].status \in Locked \cup {"awaiting_review"}
      ~> (report[a] # None \/ ~ Live(a) \/ failed)

-----------------------------------------------------------------------------
(* What holds while requests on an assessment do not overlap (SerialSpec)  *)

\* rejection_reason is set exactly while declined, submittedAt exactly while
\* not in progress; only a validator ever reviews ("contributors cannot
\* self-review"), and an assessment waits for nobody only once the selected
\* validator was deleted; who declined or approved it is a user who has logged
\* in, and stays.  What saveProgress resets, submitForReview, approve and
\* decline set and deleteCompanyUser nulls, over any sequence of calls and
\* failures between their writes.
ReviewFieldsAgree ==
  \A a \in Assessments : Live(a) =>
    /\ row[a].rejection_reason <=> row[a].status = "declined"
    /\ row[a].submittedAt <=> row[a].status # "in_progress"
    /\ row[a].status = "awaiting_review" =>
         row[a].reviewed_by \in Validators \/ a \in unsigned
    /\ row[a].status \in {"declined", "approved"} => row[a].reviewed_by \in Validators
    /\ row[a].status \in Locked \cup {"declined"} =>
         row[a].reviewed_by \in Users /\ account[row[a].reviewed_by] = "member"

\* Approving "generates final reports": with no request on it and none cut
\* short, an approved assessment has a report of the data it now holds, also
\* after saves during the review and groups submitted after the approval.
FinalReportIsCurrent ==
  \A a \in Assessments :
    (row[a].status \in Locked /\ ~ failed /\ \A r \in Requests : req[r].of # a)
      => report[a] = row[a].assessmentData

Lifecycle == INSTANCE ReviewLifecycle WITH
  status <- [a \in Assessments |-> row[a].status],
  saved <- [a \in Assessments |-> row[a].assessmentData.saved],
  groups <- [a \in Assessments |-> row[a].assessmentData.submittedGroups],
  decisions <- {<<e.of, e.status, e.by>> : e \in log}

\* The handlers, split at every await and cut short anywhere, implement the
\* atomic life cycle.
ImplementsLifecycle == Lifecycle!Spec

-----------------------------------------------------------------------------
(* What the source says and overlapping requests, or submitGroup after an  *)
(* approval, break                                                         *)

\* "Preserve current status - submitGroup no longer transitions status."
GroupKeepsStatus ==
  [][\A r \in Requests : GroupWrite(r) =>
       row'[req[r].of].status = row[req[r].of].status]_vars

\* "Only in_progress, awaiting_review, and declined assessments are editable."
LockedDataIsFrozen ==
  [][\A a \in Assessments : row[a].status \in Locked =>
       row'[a].assessmentData = row[a].assessmentData]_vars

\* "Only assessments with status in_progress can be deleted."
OnlyDraftsAreDeleted ==
  [][\A a \in Assessments :
       row'[a].status = "deleted" => row[a].status \in {"in_progress", "deleted"}]_vars

=============================================================================
