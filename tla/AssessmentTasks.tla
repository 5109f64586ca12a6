--------------------------- MODULE AssessmentTasks ---------------------------
(***************************************************************************)
(* The task board (company/tasks/tasks.service.ts) and the two handlers of *)
(* company/assessments/assessments.service.ts that write tasks together    *)
(* with assessments: createAssessment and deleteAssessment.                *)
(*                                                                         *)
(* As in AssessmentReview, a request is a slot holding the handler's local *)
(* variables, and an action is one database call.  A nested create of      *)
(* Prisma (a task with its assignments) is one transaction, hence one      *)
(* action; deleteMany and createMany one after the other are two.          *)
(*                                                                         *)
(* Abstractions.  One company, one subsidiary.  An assignment row is       *)
(* identified by its task, its user and the batch that created it, which   *)
(* stands for the autoincrement id: a row deleted and created again for    *)
(* the same user is another row.  A userIds array is the set of its        *)
(* elements.  A task's comments are a boolean.  The life cycle of an       *)
(* assessment is reduced to being a draft (in_progress) or not.            *)
(*                                                                         *)
(* The transaction of deleteAssessment is one at READ COMMITTED: until it  *)
(* commits, others read the rows it has deleted, and wait if they want to  *)
(* write them; what it reads itself is what others have committed by then. *)
(***************************************************************************)
EXTENDS Naturals

CONSTANTS
  Tasks,        \* the ids the Task table will ever hand out
  Assessments,  \* the ids the assessments table will ever hand out
  Users,        \* the company's users
  Periods,      \* the reporting periods (subsidiary, start, end) asked for
  Requests,     \* slots for requests in flight
  MaxBatch,     \* bound: batches of assignments created for one task
  None          \* SQL null, and the fields an idle slot does not use

ASSUME TaskConstants ==
  /\ MaxBatch \in Nat \ {0}
  /\ None \notin Users \cup Assessments \cup Tasks \cup Periods

VARIABLES
  task,        \* the Task table
  assignment,  \* the rows of task_assignments
  assessment,  \* the assessments table
  req,         \* what each request in flight holds between two awaits
  failed,      \* history: some request was cut short
  unlinked,    \* history: assessments whose assignment row reassignTask,
               \* editTask or deleteTask removed
  emptied,     \* history: tasks reassigned to nobody, or left without
               \* assignees by a deleteTask whose last step was refused
  crossed      \* history: tasks of which two transactions of deleteAssessment
               \* deleted assignments before either of them ended

vars == <<task, assignment, assessment, req, failed, unlinked, emptied, crossed>>

-----------------------------------------------------------------------------
(* Tables and requests                                                     *)

\* The enum's other two, completed and on_hold, are written nowhere.
TaskStatus == {"pending", "in_progress", "approved", "declined"}

Task == [status : TaskStatus \cup {"unborn", "deleted"}, commented : BOOLEAN,
         batches : 0..MaxBatch]

Assignment == [task : Tasks, user : Users, batch : 0..MaxBatch,
               link : Assessments \cup {None}]

Assessment == [status : {"unborn", "draft", "submitted", "deleted"},
               period : Periods \cup {None}, creator : Users \cup {None},
               form : BOOLEAN]  \* created by createAssessment, not startTask

TaskLive(t) == task[t].status \in TaskStatus

AssessmentLive(a) == assessment[a].status \in {"draft", "submitted"}

RowsOf(t) == {x \in assignment : x.task = t}

LinksTo(a) == {x \in assignment : x.link = a}

\* What the in-flight requests hold: "on" is the row startTask found, "tasks"
\* the tasks deleteAssessment found and may delete, "rows" the assignments its
\* transaction has deleted, and so locked.
Idle == [pc |-> "idle", t |-> None, u |-> None, a |-> None, p |-> None, on |-> 0,
         to |-> {}, tasks |-> {}, rows |-> {}]

Pc == {"create.insert", "create.task", "start.insert", "start.link", "start.status",
       "replace.delete", "replace.create", "drop.comments", "drop.assignments",
       "drop.task", "remove.find", "remove.rows", "remove.group", "remove.commit"}

\* The calls that need the request's user, its task and its assessment.
ByUser == {"create.insert", "create.task", "start.insert", "start.link"}

OnTask == {"start.insert", "start.link", "start.status", "replace.delete",
           "replace.create", "drop.comments", "drop.assignments", "drop.task"}

Removal == {"remove.find", "remove.rows", "remove.group", "remove.commit"}

OnAssessment == {"create.task", "start.link"} \cup Removal

Pending ==
  {q \in [pc : Pc, t : Tasks \cup {None}, u : Users \cup {None},
          a : Assessments \cup {None}, p : Periods \cup {None}, on : 0..MaxBatch,
          to : SUBSET Users, tasks : SUBSET Tasks, rows : SUBSET Assignment] :
     /\ q.pc \in ByUser => q.u \in Users
     /\ q.pc \in OnTask => q.t \in Tasks
     /\ q.pc \in OnAssessment => q.a \in Assessments
     /\ q.pc = "create.insert" => q.p \in Periods}

TypeOK ==
  /\ task \in [Tasks -> Task]
  /\ assignment \subseteq Assignment
  /\ assessment \in [Assessments -> Assessment]
  /\ req \in [Requests -> Pending \cup {Idle}]
  /\ failed \in BOOLEAN
  /\ unlinked \subseteq Assessments
  /\ emptied \subseteq Tasks
  /\ crossed \subseteq Tasks

NoAssessment(mark) == [status |-> mark, period |-> None, creator |-> None, form |-> FALSE]

Init ==
  /\ task = [t \in Tasks |-> [status |-> "unborn", commented |-> FALSE, batches |-> 0]]
  /\ assignment = {}
  /\ assessment = [a \in Assessments |-> NoAssessment("unborn")]
  /\ req = [r \in Requests |-> Idle]
  /\ failed = FALSE
  /\ unlinked = {}
  /\ emptied = {}
  /\ crossed = {}

Done(r) == req' = [req EXCEPT ![r] = Idle]

\* INSERT of the rows of one batch, for task t and the users U.
Batch(t, U, a) ==
  {[task |-> t, user |-> u, batch |-> task[t].batches, link |-> a] : u \in U}

\* INSERT of a task with its assignments.
InsertTask(t, status, U, a) ==
  /\ task[t].status = "unborn"
  /\ task' = [task EXCEPT ![t].status = status, ![t].batches = 1]
  /\ assignment' = assignment \cup Batch(t, U, a)

InsertAssessment(a, p, u, form) ==
  /\ assessment[a].status = "unborn"
  /\ assessment' = [assessment EXCEPT ![a] =
       [status |-> "draft", period |-> p, creator |-> u, form |-> form]]

\* No transaction in flight has deleted one of these rows: a write to them
\* does not wait.
Free(rows) == \A r \in Requests : req[r].rows \cap rows = {}

DeleteRows(t) ==
  /\ Free(RowsOf(t))
  /\ assignment' = assignment \ RowsOf(t)
  /\ unlinked' = unlinked \cup ({x.link : x \in RowsOf(t)} \ {None})

-----------------------------------------------------------------------------
(* createAssessment                                                        *)

Draft(p) == {a \in Assessments : assessment[a].status = "draft" /\ assessment[a].period = p}

\* An existing draft is returned, and nothing else happens.
CreateRead(r, p, u) ==
  /\ req[r] = Idle
  /\ Draft(p) = {}
  /\ req' = [req EXCEPT ![r] = [Idle EXCEPT !.pc = "create.insert", !.u = u, !.p = p]]
  /\ UNCHANGED <<task, assignment, assessment, failed, unlinked, emptied, crossed>>

\* Mutant of CreateInsert: the handler stops short of the task.
CreateInsertOnly(r, a) ==
  /\ req[r].pc = "create.insert"
  /\ InsertAssessment(a, req[r].p, req[r].u, TRUE)
  /\ Done(r)
  /\ UNCHANGED <<task, assignment, failed, unlinked, emptied, crossed>>

CreateInsert(r, a) ==
  /\ req[r].pc = "create.insert"
  /\ InsertAssessment(a, req[r].p, req[r].u, TRUE)
  /\ req' = [req EXCEPT ![r].pc = "create.task", ![r].a = a]
  /\ UNCHANGED <<task, assignment, failed, unlinked, emptied, crossed>>

CreateTask(r, t) ==
  /\ req[r].pc = "create.task"
  /\ AssessmentLive(req[r].a)
  /\ InsertTask(t, "in_progress", {req[r].u}, req[r].a)
  /\ Done(r)
  /\ UNCHANGED <<assessment, failed, unlinked, emptied, crossed>>

-----------------------------------------------------------------------------
(* startTask: the user's assignment, then a draft of its own, the link     *)
(* and the status, each in a call of its own.  A row that has a link is    *)
(* answered with that assessment, and nothing else happens.                *)

StartRead(r, x) ==
  /\ req[r] = Idle
  /\ x.link = None
  /\ req' = [req EXCEPT ![r] = [Idle EXCEPT !.pc = "start.insert", !.t = x.task,
                                            !.u = x.user, !.on = x.batch]]
  /\ UNCHANGED <<task, assignment, assessment, failed, unlinked, emptied, crossed>>

\* Mutant of StartInsert: a draft of the period is taken over, as
\* createAssessment returns it.
StartInsertReuses(r, a, p) ==
  /\ req[r].pc = "start.insert"
  /\ \/ Draft(p) = {} /\ InsertAssessment(a, p, req[r].u, FALSE)
     \/ a \in Draft(p) /\ UNCHANGED assessment
  /\ req' = [req EXCEPT ![r].pc = "start.link", ![r].a = a]
  /\ UNCHANGED <<task, assignment, failed, unlinked, emptied, crossed>>

StartInsert(r, a, p) ==
  /\ req[r].pc = "start.insert"
  /\ InsertAssessment(a, p, req[r].u, FALSE)
  /\ req' = [req EXCEPT ![r].pc = "start.link", ![r].a = a]
  /\ UNCHANGED <<task, assignment, failed, unlinked, emptied, crossed>>

\* Mutant of Found: updateMany by task, all assignees' rows of the batch.
FoundOfTask(r) ==
  {x \in assignment : x.task = req[r].t /\ x.batch = req[r].on}

\* UPDATE by the id of the row that was read, whatever its link is by now.
Found(r) ==
  {x \in assignment : x.task = req[r].t /\ x.user = req[r].u /\ x.batch = req[r].on}

StartLink(r) ==
  /\ req[r].pc = "start.link"
  /\ AssessmentLive(req[r].a)
  /\ Found(r) # {} /\ Free(Found(r))
  /\ assignment' = (assignment \ Found(r))
                     \cup {[x EXCEPT !.link = req[r].a] : x \in Found(r)}
  /\ req' = [req EXCEPT ![r].pc = "start.status"]
  /\ UNCHANGED <<task, assessment, failed, unlinked, emptied, crossed>>

\* Mutant of StartStatus: a status the enum does not have.
StartStatusUnknown(r) ==
  /\ req[r].pc = "start.status"
  /\ TaskLive(req[r].t)
  /\ task' = [task EXCEPT ![req[r].t].status = "started"]
  /\ Done(r)
  /\ UNCHANGED <<assignment, assessment, failed, unlinked, emptied, crossed>>

StartStatus(r) ==
  /\ req[r].pc = "start.status"
  /\ TaskLive(req[r].t)
  /\ task' = [task EXCEPT ![req[r].t].status = "in_progress"]
  /\ Done(r)
  /\ UNCHANGED <<assignment, assessment, failed, unlinked, emptied, crossed>>

-----------------------------------------------------------------------------
(* assignTask, approveTask, rejectTask and addComment: their read only     *)
(* asks whether the task is there, so each is its one write.               *)

AssignTask(t, U) ==
  /\ U # {}
  /\ InsertTask(t, "pending", U, None)
  /\ UNCHANGED <<assessment, req, failed, unlinked, emptied, crossed>>

DecideTask(t, verdict) ==
  /\ TaskLive(t)
  /\ task' = [task EXCEPT ![t].status = verdict]
  /\ UNCHANGED <<assignment, assessment, req, failed, unlinked, emptied, crossed>>

AddComment(t) ==
  /\ TaskLive(t)
  /\ task' = [task EXCEPT ![t].commented = TRUE]
  /\ UNCHANGED <<assignment, assessment, req, failed, unlinked, emptied, crossed>>

-----------------------------------------------------------------------------
(* reassignTask, and editTask with userIds: all assignments of the task    *)
(* are deleted, then created anew with no link and no transaction.         *)

ReplaceRead(r, t, U) ==
  /\ req[r] = Idle
  /\ TaskLive(t)
  /\ req' = [req EXCEPT ![r] = [Idle EXCEPT !.pc = "replace.delete", !.t = t, !.to = U]]
  /\ UNCHANGED <<task, assignment, assessment, failed, unlinked, emptied, crossed>>

ReplaceDelete(r) ==
  /\ req[r].pc = "replace.delete"
  /\ DeleteRows(req[r].t)
  /\ req' = [req EXCEPT ![r].pc = "replace.create"]
  /\ UNCHANGED <<task, assessment, failed, emptied, crossed>>

\* Mutant of ReplaceCreate: no foreign key on taskId.
ReplaceCreateUnchecked(r) ==
  LET t == req[r].t IN
  /\ req[r].pc = "replace.create"
  /\ task[t].batches < MaxBatch
  /\ assignment' = assignment \cup Batch(t, req[r].to, None)
  /\ task' = [task EXCEPT ![t].batches = @ + 1]
  /\ emptied' = IF req[r].to = {} THEN emptied \cup {t} ELSE emptied \ {t}
  /\ crossed' = IF req[r].to # {} /\ Free(RowsOf(t)) THEN crossed \ {t} ELSE crossed
  /\ Done(r)
  /\ UNCHANGED <<assessment, failed, unlinked>>

\* The foreign key taskId refuses rows of a task that is gone.
ReplaceCreate(r) ==
  LET t == req[r].t IN
  /\ req[r].pc = "replace.create"
  /\ TaskLive(t)
  /\ task[t].batches < MaxBatch
  /\ assignment' = assignment \cup Batch(t, req[r].to, None)
  /\ task' = [task EXCEPT ![t].batches = @ + 1]
  /\ emptied' = IF req[r].to = {} THEN emptied \cup {t} ELSE emptied \ {t}
  /\ crossed' = IF req[r].to # {} /\ Free(RowsOf(t)) THEN crossed \ {t} ELSE crossed
  /\ Done(r)
  /\ UNCHANGED <<assessment, failed, unlinked>>

-----------------------------------------------------------------------------
(* deleteTask: comments, assignments and task in three calls               *)

DropRead(r, t) ==
  /\ req[r] = Idle
  /\ TaskLive(t)
  /\ req' = [req EXCEPT ![r] = [Idle EXCEPT !.pc = "drop.comments", !.t = t]]
  /\ UNCHANGED <<task, assignment, assessment, failed, unlinked, emptied, crossed>>

DropComments(r) ==
  /\ req[r].pc = "drop.comments"
  /\ task' = [task EXCEPT ![req[r].t].commented = FALSE]
  /\ req' = [req EXCEPT ![r].pc = "drop.assignments"]
  /\ UNCHANGED <<assignment, assessment, failed, unlinked, emptied, crossed>>

DropAssignments(r) ==
  /\ req[r].pc = "drop.assignments"
  /\ DeleteRows(req[r].t)
  /\ req' = [req EXCEPT ![r].pc = "drop.task"]
  /\ UNCHANGED <<task, assessment, failed, emptied, crossed>>

\* The foreign keys of comments and assignments (ON DELETE RESTRICT) refuse
\* the DELETE when one was added since.
DropTask(r) ==
  LET t == req[r].t IN
  /\ req[r].pc = "drop.task"
  /\ TaskLive(t) /\ Free(RowsOf(t))
  /\ \/ /\ RowsOf(t) = {} /\ ~ task[t].commented
        /\ task' = [task EXCEPT ![t].status = "deleted"]
        /\ UNCHANGED emptied
     \/ /\ RowsOf(t) # {} \/ task[t].commented
        /\ emptied' = IF RowsOf(t) = {} THEN emptied \cup {t} ELSE emptied
        /\ UNCHANGED task
  /\ Done(r)
  /\ UNCHANGED <<assignment, assessment, failed, unlinked, crossed>>

-----------------------------------------------------------------------------
(* deleteAssessment: a read, then the statements of the transaction        *)

RemoveRead(r, a) ==
  /\ req[r] = Idle
  /\ assessment[a].status = "draft"
  /\ req' = [req EXCEPT ![r] = [Idle EXCEPT !.pc = "remove.find", !.a = a]]
  /\ UNCHANGED <<task, assignment, assessment, failed, unlinked, emptied, crossed>>

\* linkedAssignments; without any, the statements about tasks are left out.
RemoveFind(r) ==
  LET found == {x.task : x \in LinksTo(req[r].a)} IN
  /\ req[r].pc = "remove.find"
  /\ req' = [req EXCEPT ![r].pc = IF found = {} THEN "remove.commit" ELSE "remove.rows",
                        ![r].tasks = found]
  /\ UNCHANGED <<task, assignment, assessment, failed, unlinked, emptied, crossed>>

\* The tasks of which another transaction has deleted a row.
HeldByOthers(r) == UNION {{x.task : x \in req[s].rows} : s \in Requests \ {r}}

\* The DELETE of the assignments, not committed yet.
RemoveRows(r) ==
  LET rows == LinksTo(req[r].a) IN
  /\ req[r].pc = "remove.rows"
  /\ Free(rows)
  /\ req' = [req EXCEPT ![r].pc = "remove.group", ![r].rows = rows]
  /\ crossed' = crossed \cup ({x.task : x \in rows} \cap HeldByOthers(r))
  /\ UNCHANGED <<task, assignment, assessment, failed, unlinked, emptied>>

\* tasksWithOtherAssignments, as committed by now; "tasks" keeps the orphaned.
RemoveGroup(r) ==
  /\ req[r].pc = "remove.group"
  /\ req' = [req EXCEPT ![r].pc = "remove.commit",
                        ![r].tasks = @ \ {x.task : x \in assignment \ req[r].rows}]
  /\ UNCHANGED <<task, assignment, assessment, failed, unlinked, emptied, crossed>>

\* What becomes of the assignments: ON DELETE SET NULL for those that were
\* linked after the transaction looked for them.
Remaining(r) ==
  {IF x.link = req[r].a THEN [x EXCEPT !.link = None] ELSE x :
     x \in assignment \ req[r].rows}

\* Mutant of RemoveCommit: the tasks stay.
RemoveCommitKeepsTasks(r) ==
  /\ req[r].pc = "remove.commit"
  /\ AssessmentLive(req[r].a)
  /\ Free(LinksTo(req[r].a) \ req[r].rows)
  /\ assignment' = Remaining(r)
  /\ assessment' = [assessment EXCEPT ![req[r].a] = NoAssessment("deleted")]
  /\ Done(r)
  /\ UNCHANGED <<task, failed, unlinked, emptied, crossed>>

\* The orphaned tasks with their comments and the assessment are deleted, and
\* the transaction commits.
RemoveCommit(r) ==
  LET q == req[r] IN
  /\ q.pc = "remove.commit"
  /\ AssessmentLive(q.a)
  /\ Free(LinksTo(q.a) \ q.rows)
  /\ \A t \in q.tasks : RowsOf(t) \subseteq q.rows
  /\ assignment' = Remaining(r)
  /\ task' = [t \in Tasks |->
       IF t \in q.tasks THEN [task[t] EXCEPT !.status = "deleted", !.commented = FALSE]
       ELSE task[t]]
  /\ assessment' = [assessment EXCEPT ![q.a] = NoAssessment("deleted")]
  /\ Done(r)
  /\ UNCHANGED <<failed, unlinked, emptied, crossed>>

\* The foreign keys of assignments and comments (ON DELETE RESTRICT) refuse
\* the DELETE of a task that got an assignment since the groupBy, or a comment
\* since the DELETE of its comments: everything is rolled back.
RemoveRefused(r) ==
  /\ req[r].pc = "remove.commit"
  /\ \E t \in req[r].tasks :
       \/ task[t].commented
       \/ RowsOf(t) # {} /\ Free(RowsOf(t) \ req[r].rows) /\ ~ RowsOf(t) \subseteq req[r].rows
  /\ Done(r)
  /\ UNCHANGED <<task, assignment, assessment, failed, unlinked, emptied, crossed>>

-----------------------------------------------------------------------------
(* The rest of the world                                                   *)

\* submitForReview takes a draft away, saveProgress on a declined assessment
\* makes it a draft again: AssessmentReview has the whole cycle.
Review(a) ==
  /\ AssessmentLive(a)
  /\ assessment' = [assessment EXCEPT ![a].status =
       IF @ = "draft" THEN "submitted" ELSE "draft"]
  /\ UNCHANGED <<task, assignment, req, failed, unlinked, emptied, crossed>>

\* A call finds its row gone (Prisma's P2025) or its reference dangling (a
\* foreign key): the request ends with an error.
RowGone(r) ==
  /\ \/ /\ req[r].pc \in {"create.task", "start.link", "remove.commit"}
        /\ ~ AssessmentLive(req[r].a)
     \/ req[r].pc = "start.link" /\ Found(r) = {}
     \/ req[r].pc \in {"start.status", "replace.create", "drop.task"} /\ ~ TaskLive(req[r].t)
  /\ Done(r)
  /\ UNCHANGED <<task, assignment, assessment, failed, unlinked, emptied, crossed>>

\* A database error or a restart of the server between two writes.
Fail(r) ==
  /\ req[r] # Idle
  /\ Done(r)
  /\ failed' = TRUE
  /\ UNCHANGED <<task, assignment, assessment, unlinked, emptied, crossed>>

Arrive(r) ==
  \/ \E p \in Periods, u \in Users : CreateRead(r, p, u)
  \/ \E x \in assignment : StartRead(r, x)
  \/ \E t \in Tasks, U \in SUBSET Users : ReplaceRead(r, t, U)
  \/ \E t \in Tasks : DropRead(r, t)
  \/ \E a \in Assessments : RemoveRead(r, a)

Proceed(r) ==
  \/ \E a \in Assessments : CreateInsert(r, a)
  \/ \E t \in Tasks : CreateTask(r, t)
  \/ \E a \in Assessments, p \in Periods : StartInsert(r, a, p)
  \/ StartLink(r) \/ StartStatus(r)
  \/ ReplaceDelete(r) \/ ReplaceCreate(r)
  \/ DropComments(r) \/ DropAssignments(r) \/ DropTask(r)
  \/ RemoveFind(r) \/ RemoveRows(r) \/ RemoveGroup(r)
  \/ RemoveCommit(r) \/ RemoveRefused(r)
  \/ RowGone(r)

Next ==
  \/ \E t \in Tasks, U \in SUBSET Users : AssignTask(t, U)
  \/ \E t \in Tasks, verdict \in {"approved", "declined"} : DecideTask(t, verdict)
  \/ \E t \in Tasks : AddComment(t)
  \/ \E a \in Assessments : Review(a)
  \/ \E r \in Requests : Arrive(r) \/ Proceed(r) \/ Fail(r)

Spec == Init /\ [][Next]_vars

-----------------------------------------------------------------------------
(* What holds however the requests interleave                              *)

\* An assessment belongs to one assignment, of the user who created it: no
\* two rows share one, also after double starts, reassignments in the middle
\* of a start, and deletions (startTask, createAssessment).
LinksArePrivate ==
  \A x \in assignment : x.link # None =>
    /\ assessment[x.link].creator = x.user
    /\ \A y \in LinksTo(x.link) : y = x

\* Assignments and comments have a task, links an assessment: nothing that a
\* late createMany, addComment or link writes outlives what it points to.
NothingDangles ==
  /\ \A x \in assignment : TaskLive(x.task) /\ (x.link # None => AssessmentLive(x.link))
  /\ \A t \in Tasks : task[t].commented => TaskLive(t)

\* A request between the INSERT of an assessment and the link to it.
Holds(q) == q.pc \in {"create.task", "start.link"}

\* What makes LinksArePrivate inductive: an assessment that startTask or
\* createAssessment inserted and has not linked yet is its user's, nobody
\* links it meanwhile and no other request is about to.
HeldIsFresh ==
  /\ \A r \in Requests : Holds(req[r]) =>
       LET a == req[r].a IN
       /\ assessment[a].status # "unborn"
       /\ AssessmentLive(a) => assessment[a].creator = req[r].u
       /\ LinksTo(a) = {}
  /\ \A r, s \in Requests :
       (Holds(req[r]) /\ Holds(req[s]) /\ req[r].a = req[s].a) => r = s

\* Task, user and batch identify a row, as its id does, and the next batch
\* of a task is a new one.
RowsAreNumbered ==
  /\ \A t \in Tasks : task[t].status = "unborn" => task[t].batches = 0
  /\ \A x \in assignment :
       /\ x.batch < task[x.task].batches
       /\ \A y \in assignment :
            (x.task = y.task /\ x.user = y.user /\ x.batch = y.batch) => x = y

\* The inductive invariant of AssessmentTasks_proofs.
IInv ==
  /\ TypeOK
  /\ NothingDangles
  /\ RowsAreNumbered
  /\ HeldIsFresh
  /\ LinksArePrivate

\* A task on the board has an assignee, unless it was reassigned to nobody, a
\* deleteTask or a reassignment is between its steps, or one of them was cut
\* short or refused there, or two deletions of assessments crossed on it: each
\* then saw the assignment that the other had deleted and not committed, and
\* neither did as its comment says ("delete parent tasks that now have no
\* remaining assignments").  A deleteAssessment by itself leaves none.
UnassignedIsExplained ==
  \A t \in Tasks : (TaskLive(t) /\ RowsOf(t) = {}) =>
    \/ failed \/ t \in emptied \/ t \in crossed
    \/ \E r \in Requests : req[r].t = t /\ req[r].pc \in {"replace.create", "drop.task"}

\* What makes it inductive: no other request writes a row that a transaction
\* has deleted; what the transaction deletes is of the tasks it found, since
\* an assessment that was linked once is linked by nobody again; two of them
\* on one task have crossed; and a task that was still in use at the groupBy
\* is so at the commit, or was crossed.
RemovalsAreSerial ==
  \A r \in Requests :
    LET q == req[r] IN
    /\ q.rows # {} => q.pc \in {"remove.group", "remove.commit"}
    /\ q.rows \subseteq LinksTo(q.a)
    /\ \A s \in Requests \ {r} :
         /\ q.rows \cap req[s].rows = {}
         /\ {x.task : x \in q.rows} \cap {x.task : x \in req[s].rows} \subseteq crossed
    /\ q.pc = "remove.rows" =>
         /\ assessment[q.a].status # "unborn"
         /\ \A s \in Requests : Holds(req[s]) => req[s].a # q.a
         /\ {x.task : x \in LinksTo(q.a)} \subseteq q.tasks
    /\ q.pc = "remove.group" => {x.task : x \in q.rows} \subseteq q.tasks
    /\ q.pc = "remove.commit" =>
         \A x \in q.rows : \/ x.task \in q.tasks \cup crossed
                            \/ RowsOf(x.task) \ q.rows # {}

\* "So this assessment appears in the Tasks dashboard": an assessment made by
\* createAssessment is on the board from the end of that call on, unless the
\* call failed or its task was reassigned, edited or deleted.
FormsStayOnBoard ==
  \A a \in Assessments : (AssessmentLive(a) /\ assessment[a].form) =>
    \/ LinksTo(a) # {}
    \/ failed \/ a \in unlinked
    \/ \E r \in Requests : req[r].pc = "create.task" /\ req[r].a = a

\* What makes FormsStayOnBoard inductive: startTask only ever links a row that
\* had no link when it was read, which is no row of createAssessment, nor one
\* of a batch inserted since; so the link it overwrites, if another startTask
\* was faster, is to an assessment startTask made, as is the one it writes.
StartSparesForms ==
  \A r \in Requests : req[r].pc \in {"start.insert", "start.link"} =>
    /\ req[r].on < task[req[r].t].batches
    /\ \A x \in Found(r) : x.link # None => ~ assessment[x.link].form
    /\ req[r].pc = "start.link" => ~ assessment[req[r].a].form

\* The inductive invariant of the dashboard, relative to IInv.
BoardInv ==
  /\ UnassignedIsExplained
  /\ RemovalsAreSerial
  /\ StartSparesForms
  /\ FormsStayOnBoard

-----------------------------------------------------------------------------
(* What the source says and overlapping requests break                     *)

\* "Deduplication: return existing in-progress assessment for same company +
\* period" (createAssessment).
OneDraftPerPeriod == \A p \in Periods : \A a, b \in Draft(p) : a = b

\* "Task already started - return existing assessment" (startTask): a started
\* assignment keeps its assessment.
LinkIsKept ==
  [][\A x \in assignment : \A y \in assignment' :
       (x.task = y.task /\ x.user = y.user /\ x.batch = y.batch /\ x.link # None)
         => y.link = x.link]_vars

=============================================================================
