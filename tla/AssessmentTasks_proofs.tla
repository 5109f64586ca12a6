------------------------ MODULE AssessmentTasks_proofs ------------------------
(***************************************************************************)
(* Theorems about AssessmentTasks for any set of tasks, assessments, users *)
(* and periods and any number of requests in flight.                       *)
(*                                                                         *)
(* The inductive invariant is IInv.  That nothing dangles carries itself,  *)
(* with the numbering of rows; that no two assignments share an assessment *)
(* needs HeldIsFresh: a request about to link holds an assessment that no  *)
(* row links and no other request holds.  BoardInv, inductive given IInv,  *)
(* is about what the dashboard shows: a task without assignees and an      *)
(* assessment without a task both have an explanation.  Its conjunct       *)
(* RemovalsAreSerial follows the transactions of deleteAssessment from     *)
(* statement to statement.                                                 *)
(***************************************************************************)
EXTENDS AssessmentTasks, TLAPS

-----------------------------------------------------------------------------
(* Types                                                                   *)

\* What a slot holds when it holds a request.
LEMMA InFlight ==
  ASSUME TypeOK, NEW r \in Requests, req[r].pc # "idle"
  PROVE  /\ req[r] \in Pending
         /\ req[r].pc \in ByUser => req[r].u \in Users
         /\ req[r].pc \in OnTask => req[r].t \in Tasks
         /\ req[r].pc \in OnAssessment => req[r].a \in Assessments
         /\ req[r].pc = "create.insert" => req[r].p \in Periods
BY DEF TypeOK, Idle, Pending

\* A handler that goes on to a call it has what it needs for.
LEMMA NextCall ==
  ASSUME NEW q \in Pending, NEW pc \in Pc, NEW a \in Assessments \cup {None},
         pc \in ByUser => q.u \in Users, pc \in OnTask => q.t \in Tasks,
         pc \in OnAssessment => a \in Assessments, pc # "create.insert"
  PROVE  [q EXCEPT !.pc = pc, !.a = a] \in Pending
BY DEF Pending

LEMMA NextCallSame ==
  ASSUME NEW q \in Pending, NEW pc \in Pc,
         pc \in ByUser => q.u \in Users, pc \in OnTask => q.t \in Tasks,
         pc \in OnAssessment => q.a \in Assessments, pc # "create.insert"
  PROVE  [q EXCEPT !.pc = pc] \in Pending
BY DEF Pending

LEMMA SlotType ==
  ASSUME TypeOK, NEW r \in Requests, NEW q \in Pending \cup {Idle},
         req' = [req EXCEPT ![r] = q]
  PROVE  req' \in [Requests -> Pending \cup {Idle}]
BY DEF TypeOK

LEMMA BatchType ==
  ASSUME TypeOK, NEW t \in Tasks, NEW U \in SUBSET Users, NEW a \in Assessments \cup {None}
  PROVE  Batch(t, U, a) \subseteq Assignment
BY DEF TypeOK, Batch, Assignment, Task

LEMMA TypeInit == Init => TypeOK
<1> SUFFICES ASSUME Init PROVE TypeOK
  OBVIOUS
<1>1. 0 \in 0..MaxBatch
  BY TaskConstants
<1>2. task \in [Tasks -> Task] /\ assessment \in [Assessments -> Assessment]
  BY <1>1 DEF Init, Task, Assessment, NoAssessment
<1>3. QED
  BY <1>2 DEF Init, TypeOK

\* A client's call starts a request with what its first call needs.
LEMMA TypeArrive ==
  ASSUME TypeOK, NEW r \in Requests, Arrive(r)
  PROVE  TypeOK'
<1>0. 0 \in 0..MaxBatch
  BY TaskConstants
<1>1. ASSUME NEW p \in Periods, NEW u \in Users, CreateRead(r, p, u)  PROVE TypeOK'
  <2> DEFINE q == [Idle EXCEPT !.pc = "create.insert", !.u = u, !.p = p]
  <2>1. q \in Pending
    BY <1>0 DEF Idle, Pending, Pc, ByUser, OnTask, OnAssessment, Removal
  <2>2. QED
    BY <1>1, <2>1, SlotType DEF CreateRead, TypeOK
<1>2. ASSUME NEW x \in assignment, StartRead(r, x)  PROVE TypeOK'
  <2> DEFINE q == [Idle EXCEPT !.pc = "start.insert", !.t = x.task, !.u = x.user,
                            !.on = x.batch]
  <2>1. x.task \in Tasks /\ x.user \in Users /\ x.batch \in 0..MaxBatch
    BY DEF TypeOK, Assignment
  <2>2. q \in Pending
    BY <2>1 DEF Idle, Pending, Pc, ByUser, OnTask, OnAssessment, Removal
  <2>3. QED
    BY <1>2, <2>2, SlotType DEF StartRead, TypeOK
<1>3. ASSUME NEW t \in Tasks, NEW U \in SUBSET Users, ReplaceRead(r, t, U)  PROVE TypeOK'
  <2> DEFINE q == [Idle EXCEPT !.pc = "replace.delete", !.t = t, !.to = U]
  <2>1. q \in Pending
    BY <1>0 DEF Idle, Pending, Pc, ByUser, OnTask, OnAssessment, Removal
  <2>2. QED
    BY <1>3, <2>1, SlotType DEF ReplaceRead, TypeOK
<1>4. ASSUME NEW t \in Tasks, DropRead(r, t)  PROVE TypeOK'
  <2> DEFINE q == [Idle EXCEPT !.pc = "drop.comments", !.t = t]
  <2>1. q \in Pending
    BY <1>0 DEF Idle, Pending, Pc, ByUser, OnTask, OnAssessment, Removal
  <2>2. QED
    BY <1>4, <2>1, SlotType DEF DropRead, TypeOK
<1>5. ASSUME NEW a \in Assessments, RemoveRead(r, a)  PROVE TypeOK'
  <2> DEFINE q == [Idle EXCEPT !.pc = "remove.find", !.a = a]
  <2>1. q \in Pending
    BY <1>0 DEF Idle, Pending, Pc, ByUser, OnTask, OnAssessment, Removal
  <2>2. QED
    BY <1>5, <2>1, SlotType DEF RemoveRead, TypeOK
<1>6. QED
  BY <1>1, <1>2, <1>3, <1>4, <1>5 DEF Arrive

LEMMA DoneType ==
  ASSUME TypeOK, NEW r \in Requests, Done(r)
  PROVE  req' \in [Requests -> Pending \cup {Idle}]
BY SlotType DEF Done

LEMMA InsertTaskType ==
  ASSUME TypeOK, NEW t \in Tasks, NEW status \in TaskStatus, NEW U \in SUBSET Users,
         NEW a \in Assessments \cup {None}, InsertTask(t, status, U, a)
  PROVE  task' \in [Tasks -> Task] /\ assignment' \subseteq Assignment
<1>1. 1 \in 0..MaxBatch
  BY TaskConstants
<1>2. [task[t] EXCEPT !.status = status, !.batches = 1] \in Task
  BY <1>1 DEF TypeOK, Task
<1>3. task' \in [Tasks -> Task]
  BY <1>2 DEF InsertTask, TypeOK
<1>4. QED
  BY <1>3, BatchType DEF InsertTask, TypeOK

LEMMA InsertAssessmentType ==
  ASSUME TypeOK, NEW a \in Assessments, NEW p \in Periods, NEW u \in Users,
         NEW form \in BOOLEAN, InsertAssessment(a, p, u, form)
  PROVE  assessment' \in [Assessments -> Assessment]
<1>1. [status |-> "draft", period |-> p, creator |-> u, form |-> form] \in Assessment
  BY DEF Assessment
<1>2. QED
  BY <1>1 DEF InsertAssessment, TypeOK

\* A new status or comment mark of a task leaves it a task.
LEMMA TaskType ==
  ASSUME TypeOK, NEW t \in Tasks, NEW new \in Task, task' = [task EXCEPT ![t] = new]
  PROVE  task' \in [Tasks -> Task]
BY DEF TypeOK

LEMMA Commented ==
  ASSUME NEW x \in Task, NEW mark \in BOOLEAN
  PROVE  [x EXCEPT !.commented = mark] \in Task
BY DEF Task

\* Every step of a handler leaves the tables and its slot well typed.
LEMMA TypeProceed ==
  ASSUME TypeOK, NEW r \in Requests, Proceed(r)
  PROVE  TypeOK'
<1> DEFINE q == req[r]
<1>1. ASSUME NEW a \in Assessments, CreateInsert(r, a)  PROVE TypeOK'
  <2>1. q \in Pending /\ q.u \in Users /\ q.p \in Periods
    BY <1>1, InFlight DEF CreateInsert, ByUser
  <2>2. assessment' \in [Assessments -> Assessment]
    BY <1>1, <2>1, InsertAssessmentType DEF CreateInsert
  <2>3. [q EXCEPT !.pc = "create.task", !.a = a] \in Pending
    BY <2>1, NextCall DEF Pc, OnTask
  <2>4. QED
    BY <1>1, <2>2, <2>3, SlotType DEF CreateInsert, TypeOK
<1>2. ASSUME NEW t \in Tasks, CreateTask(r, t)  PROVE TypeOK'
  <2>1. q.u \in Users /\ q.a \in Assessments /\ "in_progress" \in TaskStatus
    BY <1>2, InFlight DEF CreateTask, ByUser, OnAssessment, TaskStatus
  <2>2. task' \in [Tasks -> Task] /\ assignment' \subseteq Assignment
    BY <1>2, <2>1, InsertTaskType DEF CreateTask
  <2>3. QED
    BY <1>2, <2>2, DoneType DEF CreateTask, TypeOK
<1>3. ASSUME NEW a \in Assessments, NEW p \in Periods, StartInsert(r, a, p)  PROVE TypeOK'
  <2>1. q \in Pending /\ q.u \in Users /\ q.t \in Tasks
    BY <1>3, InFlight DEF StartInsert, ByUser, OnTask
  <2>2. assessment' \in [Assessments -> Assessment]
    BY <1>3, <2>1, InsertAssessmentType DEF StartInsert
  <2>3. [q EXCEPT !.pc = "start.link", !.a = a] \in Pending
    BY <2>1, NextCall DEF Pc
  <2>4. QED
    BY <1>3, <2>2, <2>3, SlotType DEF StartInsert, TypeOK
<1>4. ASSUME StartLink(r)  PROVE TypeOK'
  <2>1. q \in Pending /\ q.t \in Tasks /\ q.a \in Assessments
    BY <1>4, InFlight DEF StartLink, OnTask, OnAssessment
  <2>2. ASSUME NEW x \in assignment  PROVE [x EXCEPT !.link = q.a] \in Assignment
    BY <2>1 DEF TypeOK, Assignment
  <2>3. assignment' \subseteq Assignment
    BY <1>4, <2>2 DEF StartLink, Found, TypeOK
  <2>4. [q EXCEPT !.pc = "start.status"] \in Pending
    BY <2>1, NextCallSame DEF Pc, ByUser, OnAssessment, Removal
  <2>5. QED
    BY <1>4, <2>3, <2>4, SlotType DEF StartLink, TypeOK
<1>5. ASSUME StartStatus(r)  PROVE TypeOK'
  <2>1. q.t \in Tasks
    BY <1>5, InFlight DEF StartStatus, OnTask
  <2>2. [task[q.t] EXCEPT !.status = "in_progress"] \in Task
    BY <2>1 DEF TypeOK, Task, TaskStatus
  <2>3. task' \in [Tasks -> Task]
    BY <1>5, <2>1, <2>2, TaskType DEF StartStatus
  <2>4. QED
    BY <1>5, <2>3, DoneType DEF StartStatus, TypeOK
<1>6. ASSUME ReplaceDelete(r)  PROVE TypeOK'
  <2>1. q \in Pending /\ q.t \in Tasks
    BY <1>6, InFlight DEF ReplaceDelete, OnTask
  <2>2. [q EXCEPT !.pc = "replace.create"] \in Pending
    BY <2>1, NextCallSame DEF Pc, ByUser, OnAssessment, Removal
  <2>3. unlinked' \subseteq Assessments
    BY <1>6 DEF ReplaceDelete, DeleteRows, RowsOf, TypeOK, Assignment
  <2>4. QED
    BY <1>6, <2>2, <2>3, SlotType DEF ReplaceDelete, DeleteRows, TypeOK
<1>7. ASSUME ReplaceCreate(r)  PROVE TypeOK'
  <2>1. q \in Pending /\ q.t \in Tasks /\ q.to \in SUBSET Users
    BY <1>7, InFlight DEF ReplaceCreate, OnTask, Pending
  <2>2. task[q.t].batches + 1 \in 0..MaxBatch
    BY <1>7, <2>1, TaskConstants DEF ReplaceCreate, TypeOK, Task
  <2>3. [task[q.t] EXCEPT !.batches = task[q.t].batches + 1] \in Task
    BY <2>1, <2>2 DEF TypeOK, Task
  <2>4. task' \in [Tasks -> Task]
    BY <1>7, <2>1, <2>3, TaskType DEF ReplaceCreate
  <2>5. assignment' \subseteq Assignment /\ emptied' \subseteq Tasks
    BY <1>7, <2>1, BatchType DEF ReplaceCreate, TypeOK
  <2>6. crossed' \subseteq Tasks
    BY <1>7 DEF ReplaceCreate, TypeOK
  <2>7. QED
    BY <1>7, <2>4, <2>5, <2>6, DoneType DEF ReplaceCreate, TypeOK
<1>8. ASSUME DropComments(r)  PROVE TypeOK'
  <2>1. q \in Pending /\ q.t \in Tasks
    BY <1>8, InFlight DEF DropComments, OnTask
  <2>2. [q EXCEPT !.pc = "drop.assignments"] \in Pending
    BY <2>1, NextCallSame DEF Pc, ByUser, OnAssessment, Removal
  <2>3. [task[q.t] EXCEPT !.commented = FALSE] \in Task
    BY <2>1, Commented DEF TypeOK
  <2>4. task' \in [Tasks -> Task]
    BY <1>8, <2>1, <2>3, TaskType DEF DropComments
  <2>5. QED
    BY <1>8, <2>2, <2>4, SlotType DEF DropComments, TypeOK
<1>9. ASSUME DropAssignments(r)  PROVE TypeOK'
  <2>1. q \in Pending /\ q.t \in Tasks
    BY <1>9, InFlight DEF DropAssignments, OnTask
  <2>2. [q EXCEPT !.pc = "drop.task"] \in Pending
    BY <2>1, NextCallSame DEF Pc, ByUser, OnAssessment, Removal
  <2>3. unlinked' \subseteq Assessments
    BY <1>9 DEF DropAssignments, DeleteRows, RowsOf, TypeOK, Assignment
  <2>4. QED
    BY <1>9, <2>2, <2>3, SlotType DEF DropAssignments, DeleteRows, TypeOK
<1>10. ASSUME DropTask(r)  PROVE TypeOK'
  <2>1. q.t \in Tasks
    BY <1>10, InFlight DEF DropTask, OnTask
  <2>2. [task[q.t] EXCEPT !.status = "deleted"] \in Task
    BY <2>1 DEF TypeOK, Task
  <2>3. task' \in [Tasks -> Task] /\ emptied' \subseteq Tasks
    BY <1>10, <2>1, <2>2, TaskType DEF DropTask, TypeOK
  <2>4. QED
    BY <1>10, <2>3, DoneType DEF DropTask, TypeOK
<1>11. ASSUME RemoveCommit(r)  PROVE TypeOK'
  <2>1. q.a \in Assessments
    BY <1>11, InFlight DEF RemoveCommit, OnAssessment, Removal
  <2>2. ASSUME NEW t \in Tasks
        PROVE  [task[t] EXCEPT !.status = "deleted", !.commented = FALSE] \in Task
    BY DEF TypeOK, Task
  <2>3. task' \in [Tasks -> Task]
    BY <1>11, <2>2 DEF RemoveCommit, TypeOK
  <2>4. assessment' \in [Assessments -> Assessment]
    BY <1>11, <2>1 DEF RemoveCommit, TypeOK, NoAssessment, Assessment
  <2>5. assignment' \subseteq Assignment
    BY <1>11 DEF RemoveCommit, Remaining, TypeOK, Assignment
  <2>6. QED
    BY <1>11, <2>3, <2>4, <2>5, DoneType DEF RemoveCommit, TypeOK
<1>12. ASSUME RowGone(r) \/ RemoveRefused(r)  PROVE TypeOK'
  BY <1>12, DoneType DEF RowGone, RemoveRefused, TypeOK
<1>13. ASSUME RemoveFind(r) \/ RemoveRows(r) \/ RemoveGroup(r)  PROVE TypeOK'
  <2>1. q \in Pending /\ q.a \in Assessments
    BY <1>13, InFlight DEF RemoveFind, RemoveRows, RemoveGroup, OnAssessment, Removal
  <2>2. ASSUME NEW pc \in Removal, NEW T \in SUBSET Tasks, NEW S \in SUBSET Assignment
        PROVE  [q EXCEPT !.pc = pc, !.tasks = T, !.rows = S] \in Pending
    BY <2>1 DEF Pending, Pc, Removal, ByUser, OnTask
  <2>3. q.tasks \in SUBSET Tasks /\ q.rows \in SUBSET Assignment
    BY <2>1 DEF Pending
  <2>4. /\ \A x \in assignment : x.task \in Tasks
        /\ LinksTo(q.a) \in SUBSET Assignment
    BY DEF TypeOK, Assignment, LinksTo
  <2>5. CASE RemoveFind(r)
    <3> DEFINE found == {x.task : x \in LinksTo(q.a)}
               pc == IF found = {} THEN "remove.commit" ELSE "remove.rows"
    <3>1. req' = [req EXCEPT ![r] = [q EXCEPT !.pc = pc, !.tasks = found, !.rows = q.rows]]
      BY <2>1, <2>5 DEF RemoveFind, TypeOK, Pending
    <3>2. found \in SUBSET Tasks /\ pc \in Removal
      BY <2>4 DEF LinksTo, Removal
    <3> HIDE DEF found, pc
    <3>3. QED
      BY <2>2, <2>3, <2>5, <3>1, <3>2, SlotType DEF RemoveFind, TypeOK
  <2>6. CASE RemoveRows(r)
    <3>1. req' = [req EXCEPT ![r] =
                    [q EXCEPT !.pc = "remove.group", !.tasks = q.tasks, !.rows = LinksTo(q.a)]]
      BY <2>1, <2>6 DEF RemoveRows, TypeOK, Pending
    <3>2. crossed' \subseteq Tasks
      BY <2>4, <2>6 DEF RemoveRows, LinksTo, TypeOK
    <3>3. QED
      BY <2>2, <2>3, <2>4, <2>6, <3>1, <3>2, SlotType DEF RemoveRows, Removal, TypeOK
  <2>7. CASE RemoveGroup(r)
    <3> DEFINE T == q.tasks \ {x.task : x \in assignment \ q.rows}
    <3>1. req' = [req EXCEPT ![r] =
                    [q EXCEPT !.pc = "remove.commit", !.tasks = T, !.rows = q.rows]]
      BY <2>1, <2>7 DEF RemoveGroup, TypeOK, Pending
    <3>2. T \in SUBSET Tasks
      BY <2>3
    <3> HIDE DEF T
    <3>3. QED
      BY <2>2, <2>3, <2>7, <3>1, <3>2, SlotType DEF RemoveGroup, Removal, TypeOK
  <2>8. QED
    BY <1>13, <2>5, <2>6, <2>7
<1>14. QED
  BY <1>1, <1>2, <1>3, <1>4, <1>5, <1>6, <1>7, <1>8, <1>9, <1>10, <1>11, <1>12, <1>13
  DEF Proceed

LEMMA TypeNext == TypeOK /\ [Next]_vars => TypeOK'
<1> SUFFICES ASSUME TypeOK, [Next]_vars  PROVE TypeOK'
  OBVIOUS
<1>1. ASSUME NEW t \in Tasks, NEW U \in SUBSET Users, AssignTask(t, U)  PROVE TypeOK'
  <2>1. task' \in [Tasks -> Task] /\ assignment' \subseteq Assignment
    BY <1>1, InsertTaskType DEF AssignTask, TaskStatus
  <2>2. QED
    BY <1>1, <2>1 DEF AssignTask, TypeOK
<1>2. ASSUME NEW t \in Tasks, NEW verdict \in {"approved", "declined"},
             DecideTask(t, verdict)
      PROVE  TypeOK'
  <2>1. [task[t] EXCEPT !.status = verdict] \in Task
    BY DEF TypeOK, Task, TaskStatus
  <2>2. QED
    BY <1>2, <2>1, TaskType DEF DecideTask, TypeOK
<1>3. ASSUME NEW t \in Tasks, AddComment(t)  PROVE TypeOK'
  <2>1. [task[t] EXCEPT !.commented = TRUE] \in Task
    BY Commented DEF TypeOK
  <2>2. QED
    BY <1>3, <2>1, TaskType DEF AddComment, TypeOK
<1>4. ASSUME NEW a \in Assessments, Review(a)  PROVE TypeOK'
  BY <1>4 DEF Review, TypeOK, Assessment
<1>5. ASSUME NEW r \in Requests, Arrive(r) \/ Proceed(r) \/ Fail(r)  PROVE TypeOK'
  BY <1>5, TypeArrive, TypeProceed, DoneType DEF Fail, TypeOK
<1>6. ASSUME UNCHANGED vars  PROVE TypeOK'
  BY <1>6 DEF vars, TypeOK
<1>7. QED
  BY <1>1, <1>2, <1>3, <1>4, <1>5, <1>6 DEF Next

-----------------------------------------------------------------------------
(* The steps by what they do to the tables                                 *)

\* The other conjuncts of IInv.
Consistent == NothingDangles /\ RowsAreNumbered /\ HeldIsFresh /\ LinksArePrivate

\* No request starts to hold an assessment, and none is inserted or changes
\* its creator.
NobodyCreates ==
  /\ \A s \in Requests : Holds(req'[s]) => req'[s] = req[s]
  /\ \A a \in Assessments :
       /\ assessment[a].status # "unborn" => assessment'[a].status # "unborn"
       /\ assessment'[a].status \in {"draft", "submitted"} =>
            AssessmentLive(a) /\ assessment'[a].creator = assessment[a].creator

\* What is left of the rows S when the links to a are set to null.
Cleared(S, a) == {IF x.link = a THEN [x EXCEPT !.link = None] ELSE x : x \in S}

\* Steps that add no row, and take away rows or links.
LEMMA Clearing ==
  ASSUME IInv, TypeOK', NobodyCreates,
         NEW S \in SUBSET assignment, NEW a, assignment' = Cleared(S, a),
         \A t \in Tasks :
           /\ task'[t].batches = task[t].batches
           /\ task'[t].status = "unborn" => task[t].status = "unborn"
           /\ task'[t].commented => TaskLive(t)',
         \A x \in assignment' :
           TaskLive(x.task)' /\ (x.link # None => AssessmentLive(x.link)')
  PROVE  Consistent'
<1> USE DEF IInv
<1> DEFINE clear(y) == IF y.link = a THEN [y EXCEPT !.link = None] ELSE y
<1>0. ASSUME NEW x \in assignment'
      PROVE  \E y \in assignment :
               /\ x = clear(y) /\ x.task = y.task /\ x.user = y.user /\ x.batch = y.batch
               /\ x.link # None => x.link = y.link
  BY DEF Cleared, TypeOK, Assignment
<1> HIDE DEF clear
<1>1. NothingDangles'
  BY DEF NothingDangles
<1>2. RowsAreNumbered'
  <2>1. ASSUME NEW x \in assignment'
        PROVE  /\ x.batch < task'[x.task].batches
               /\ \A y \in assignment' :
                    (x.task = y.task /\ x.user = y.user /\ x.batch = y.batch) => x = y
    BY <1>0 DEF RowsAreNumbered, TypeOK, Assignment
  <2>2. QED
    BY <2>1 DEF RowsAreNumbered
<1>3. HeldIsFresh'
  <2>1. ASSUME NEW s \in Requests, Holds(req'[s])
        PROVE  LET b == req'[s].a IN
               /\ Holds(req[s]) /\ req[s] = req'[s]
               /\ assessment'[b].status # "unborn"
               /\ assessment'[b].status \in {"draft", "submitted"} =>
                    assessment'[b].creator = req'[s].u
               /\ \A x \in assignment' : x.link # b
    <3> DEFINE b == req'[s].a
    <3>1. req[s] = req'[s] /\ Holds(req[s])
      BY <2>1 DEF NobodyCreates
    <3>2. b \in Assessments /\ b # None
      BY <3>1, InFlight, TaskConstants DEF Holds, OnAssessment
    <3>3. /\ assessment[b].status # "unborn"
          /\ AssessmentLive(b) => assessment[b].creator = req'[s].u
          /\ \A x \in assignment : x.link # b
      BY <3>1 DEF HeldIsFresh, LinksTo
    <3> HIDE DEF b
    <3>4. \A x \in assignment' : x.link # b
      BY <1>0, <3>2, <3>3
    <3>5. QED
      BY <3>1, <3>2, <3>3, <3>4 DEF NobodyCreates, b
  <2>2. \A r, s \in Requests :
          (Holds(req'[r]) /\ Holds(req'[s]) /\ req'[r].a = req'[s].a) => r = s
    BY <2>1 DEF HeldIsFresh
  <2>3. QED
    BY <2>1, <2>2 DEF HeldIsFresh, Holds, AssessmentLive, LinksTo
<1>4. LinksArePrivate'
  <2> SUFFICES ASSUME NEW x \in assignment', x.link # None
               PROVE  /\ assessment'[x.link].creator = x.user
                      /\ \A y \in assignment' : y.link = x.link => y = x
    BY DEF LinksArePrivate, LinksTo
  <2>1. PICK z \in assignment : x = clear(z) /\ x.user = z.user /\ x.link = z.link
    BY <1>0
  <2>2. z.link \in Assessments /\ z.link # None /\ AssessmentLive(z.link)'
    BY <2>1 DEF TypeOK, Assignment
  <2>3. /\ assessment[z.link].creator = z.user
        /\ \A y \in assignment : y.link = z.link => y = z
    BY <2>2 DEF LinksArePrivate, LinksTo
  <2>4. ASSUME NEW y \in assignment', y.link = x.link  PROVE y = x
    BY <1>0, <2>1, <2>3, <2>4
  <2>5. QED
    BY <2>1, <2>2, <2>3, <2>4 DEF NobodyCreates, AssessmentLive
<1>5. QED
  BY <1>1, <1>2, <1>3, <1>4 DEF Consistent

LEMMA Removing ==
  ASSUME IInv, TypeOK', NobodyCreates, assignment' \subseteq assignment,
         \A t \in Tasks :
           /\ task'[t].batches = task[t].batches
           /\ task'[t].status = "unborn" => task[t].status = "unborn"
           /\ task'[t].commented => TaskLive(t)',
         \A x \in assignment' :
           TaskLive(x.task)' /\ (x.link # None => AssessmentLive(x.link)')
  PROVE  Consistent'
<1>1. ASSUME NEW x \in assignment'
      PROVE  x = IF x.link = None THEN [x EXCEPT !.link = None] ELSE x
  BY DEF TypeOK, Assignment
<1>2. assignment' = Cleared(assignment', None)
  <2>1. assignment' \subseteq Cleared(assignment', None)
    BY <1>1 DEF Cleared
  <2>2. Cleared(assignment', None) \subseteq assignment'
    BY <1>1 DEF Cleared
  <2>3. QED
    BY <2>1, <2>2
<1> DEFINE S == assignment'
<1>3. S \in SUBSET assignment /\ assignment' = Cleared(S, None)
  BY <1>2
<1> HIDE DEF S
<1>4. QED
  BY <1>3, Clearing

\* The rows of a new batch.
LEMMA BatchRows ==
  ASSUME NEW t \in Tasks, NEW U \in SUBSET Users, NEW a, NEW x \in Batch(t, U, a)
  PROVE  x.task = t /\ x.user \in U /\ x.batch = task[t].batches /\ x.link = a
BY DEF Batch

LEMMA BatchUsers ==
  ASSUME NEW t \in Tasks, NEW U \in SUBSET Users, NEW a,
         NEW x \in Batch(t, U, a), NEW y \in Batch(t, U, a), x.user = y.user
  PROVE  x = y
BY DEF Batch

\* The next batch of a task is inserted, with the task or after it.
Batched(t, U, a) ==
  /\ assignment' = assignment \cup Batch(t, U, a)
  /\ task'[t].status \in TaskStatus
  /\ task[t].status = "unborn" => task[t].batches = 0
  /\ task'[t].batches = task[t].batches + 1
  /\ \A b \in Tasks : b # t => task'[b] = task[b]

LEMMA BatchIsNumbered ==
  ASSUME IInv, TypeOK', NEW t \in Tasks, NEW U \in SUBSET Users,
         NEW a \in Assessments \cup {None}, Batched(t, U, a)
  PROVE  RowsAreNumbered'
<1> USE DEF IInv
<1>1. ASSUME NEW b \in Tasks
      PROVE  /\ task[b].batches \in Nat /\ task'[b].batches \in Nat
             /\ task[b].batches <= task'[b].batches
             /\ task'[b].status = "unborn" => task'[b].batches = 0
  BY TaskConstants DEF Batched, RowsAreNumbered, TypeOK, Task, TaskStatus
<1>2. ASSUME NEW x \in assignment
      PROVE  /\ x.task \in Tasks /\ x.batch \in Nat
             /\ x.batch < task[x.task].batches /\ x.batch < task'[x.task].batches
             /\ \A y \in assignment :
                  (x.task = y.task /\ x.user = y.user /\ x.batch = y.batch) => x = y
  <2>1. x.task \in Tasks /\ x.batch \in Nat
    BY DEF TypeOK, Assignment
  <2>2. x.batch < task[x.task].batches
    BY DEF RowsAreNumbered
  <2>3. x.batch < task'[x.task].batches
    BY <1>1, <2>1, <2>2
  <2>4. QED
    BY <2>1, <2>2, <2>3 DEF RowsAreNumbered
<1>3. ASSUME NEW x \in Batch(t, U, a)
      PROVE  x.task = t /\ x.batch = task[t].batches /\ x.batch < task'[x.task].batches
  BY <1>1, BatchRows DEF Batched
<1>4. ASSUME NEW x \in assignment', NEW y \in assignment',
             x.task = y.task, x.user = y.user, x.batch = y.batch
      PROVE  x = y
  <2>1. CASE x \in assignment /\ y \in assignment
    BY <1>2, <1>4, <2>1
  <2>2. CASE x \in Batch(t, U, a) /\ y \in Batch(t, U, a)
    BY <1>4, <2>2, BatchUsers
  <2>3. CASE x \in assignment /\ y \in Batch(t, U, a)
    BY <1>1, <1>2, <1>3, <1>4, <2>3
  <2>4. CASE x \in Batch(t, U, a) /\ y \in assignment
    BY <1>1, <1>2, <1>3, <1>4, <2>4
  <2>5. QED
    BY <1>4, <2>1, <2>2, <2>3, <2>4 DEF Batched
<1>5. ASSUME NEW x \in assignment'  PROVE x.batch < task'[x.task].batches
  BY <1>2, <1>3 DEF Batched
<1>6. QED
  BY <1>1, <1>4, <1>5 DEF RowsAreNumbered

\* A batch of rows, without a link or with that of the request which inserts
\* its only row, changes nothing for the assessments of the other rows.
LEMMA Adding ==
  ASSUME IInv, TypeOK', NEW t \in Tasks, NEW U \in SUBSET Users,
         NEW a \in Assessments \cup {None}, Batched(t, U, a),
         task'[t].commented = task[t].commented, assessment' = assessment,
         \A s \in Requests : Holds(req'[s]) => req'[s] = req[s],
         a # None => \E r \in Requests :
                       /\ Holds(req[r]) /\ ~ Holds(req'[r])
                       /\ a = req[r].a /\ U = {req[r].u} /\ AssessmentLive(a)
  PROVE  Consistent'
<1> USE DEF IInv
<1>0. None \notin Assessments
  BY TaskConstants
<1>1. ASSUME NEW x \in assignment'
      PROVE  \/ x \in assignment
             \/ x \in Batch(t, U, a) /\ x.task = t /\ x.user \in U /\ x.link = a
  BY BatchRows DEF Batched
<1>2. NothingDangles'
  <2>1. ASSUME NEW b \in Tasks  PROVE TaskLive(b) => TaskLive(b)'
    BY DEF Batched, TaskLive
  <2>2. ASSUME NEW x \in assignment'
        PROVE  TaskLive(x.task)' /\ (x.link # None => AssessmentLive(x.link)')
    <3>1. CASE x \in assignment
      BY <2>1, <3>1 DEF NothingDangles, AssessmentLive, TypeOK, Assignment
    <3>2. CASE x.task = t /\ x.link = a
      BY <3>2 DEF Batched, TaskLive, AssessmentLive
    <3>3. QED
      BY <1>1, <3>1, <3>2
  <2>3. ASSUME NEW b \in Tasks, task'[b].commented  PROVE TaskLive(b)'
    BY <2>1, <2>3 DEF NothingDangles, Batched, TaskLive
  <2>4. QED
    BY <2>2, <2>3 DEF NothingDangles
<1>3. RowsAreNumbered'
  BY BatchIsNumbered
<1>4. HeldIsFresh'
  <2>1. ASSUME NEW s \in Requests, Holds(req'[s])
        PROVE  LET b == req'[s].a IN
               /\ Holds(req[s]) /\ req[s] = req'[s]
               /\ assessment'[b].status # "unborn"
               /\ assessment'[b].status \in {"draft", "submitted"} =>
                    assessment'[b].creator = req'[s].u
               /\ \A x \in assignment' : x.link # b
    <3> DEFINE b == req'[s].a
    <3>1. req[s] = req'[s] /\ Holds(req[s])
      BY <2>1
    <3>2. b \in Assessments
      BY <3>1, InFlight DEF Holds, OnAssessment
    <3>3. /\ assessment[b].status # "unborn"
          /\ AssessmentLive(b) => assessment[b].creator = req'[s].u
          /\ \A x \in assignment : x.link # b
      BY <3>1 DEF HeldIsFresh, LinksTo
    <3>4. a # b
      BY <1>0, <2>1, <3>1, <3>2 DEF HeldIsFresh
    <3>5. \A x \in assignment' : x.link # b
      BY <1>1, <3>3, <3>4
    <3> HIDE DEF b
    <3>6. QED
      BY <3>1, <3>3, <3>5 DEF AssessmentLive, b
  <2>2. \A r, s \in Requests :
          (Holds(req'[r]) /\ Holds(req'[s]) /\ req'[r].a = req'[s].a) => r = s
    BY <2>1 DEF HeldIsFresh
  <2>3. QED
    BY <2>1, <2>2 DEF HeldIsFresh, Holds, AssessmentLive, LinksTo
<1>5. LinksArePrivate'
  <2> SUFFICES ASSUME NEW x \in assignment', x.link # None
               PROVE  /\ assessment'[x.link].creator = x.user
                      /\ \A y \in assignment' : y.link = x.link => y = x
    BY DEF LinksArePrivate, LinksTo
  <2>1. a # None =>
          /\ AssessmentLive(a) /\ a \in Assessments
          /\ \A y \in assignment : y.link # a
          /\ \A u \in U : assessment[a].creator = u
          /\ \A u, v \in U : u = v
    BY DEF HeldIsFresh, LinksTo
  <2>2. CASE x \in assignment
    <3>1. /\ assessment[x.link].creator = x.user
          /\ \A y \in assignment : y.link = x.link => y = x
      BY <2>2 DEF LinksArePrivate, LinksTo
    <3>2. a # x.link
      BY <2>1, <2>2
    <3>3. QED
      BY <1>1, <3>1, <3>2
  <2>3. CASE x \in Batch(t, U, a) /\ x.user \in U /\ x.link = a
    <3>1. assessment'[x.link].creator = x.user
      BY <2>1, <2>3
    <3>2. ASSUME NEW y \in assignment', y.link = x.link  PROVE y = x
      <4>1. y \in Batch(t, U, a) /\ y.user \in U
        BY <1>1, <2>1, <2>3, <3>2
      <4>2. y.user = x.user
        BY <2>1, <2>3, <4>1
      <4>3. QED
        BY <2>3, <4>1, <4>2, BatchUsers
    <3>3. QED
      BY <3>1, <3>2
  <2>4. QED
    BY <1>1, <2>2, <2>3
<1>6. QED
  BY <1>2, <1>3, <1>4, <1>5 DEF Consistent

\* startTask sets the link of the one row it found.
LEMMA Linking ==
  ASSUME IInv, TypeOK', NEW r \in Requests, StartLink(r)
  PROVE  Consistent'
<1> USE DEF IInv
<1> DEFINE a == req[r].a
<1>0. /\ a \in Assessments /\ a # None /\ AssessmentLive(a) /\ Holds(req[r])
      /\ assessment' = assessment /\ task' = task
  BY InFlight, TaskConstants DEF StartLink, OnAssessment, Holds
<1>1. PICK f \in assignment : f.user = req[r].u /\ Found(r) = {f}
  BY DEF StartLink, Found, RowsAreNumbered
<1> DEFINE g == [f EXCEPT !.link = a]
<1>2. assignment' = (assignment \ {f}) \cup {g}
  BY <1>1 DEF StartLink
<1>3. /\ g.link = a /\ g.user = f.user /\ g.task = f.task /\ g.batch = f.batch
      /\ g.user = req[r].u
  BY <1>1 DEF TypeOK, Assignment
<1>4. /\ assessment[a].creator = req[r].u
      /\ \A x \in assignment : x.link # a
  BY <1>0 DEF HeldIsFresh, LinksTo
<1> HIDE DEF a, g
<1>5. ASSUME NEW s \in Requests, Holds(req'[s])  PROVE req'[s] = req[s] /\ s # r
  BY <1>5 DEF StartLink, Holds, TypeOK
<1>6. NothingDangles'
  <2>1. ASSUME NEW x \in assignment'
        PROVE  task[x.task].status \in TaskStatus /\ (x.link # None => AssessmentLive(x.link))
    BY <1>0, <1>1, <1>2, <1>3 DEF NothingDangles, TaskLive
  <2>2. QED
    BY <1>0, <2>1 DEF NothingDangles, TaskLive, AssessmentLive
<1>7. RowsAreNumbered'
  BY <1>0, <1>1, <1>2, <1>3 DEF RowsAreNumbered
<1>8. HeldIsFresh'
  <2>1. ASSUME NEW s \in Requests, Holds(req'[s])
        PROVE  LET b == req'[s].a IN
               /\ Holds(req[s]) /\ req[s] = req'[s]
               /\ assessment'[b].status # "unborn"
               /\ assessment'[b].status \in {"draft", "submitted"} =>
                    assessment'[b].creator = req'[s].u
               /\ \A x \in assignment' : x.link # b
    <3> DEFINE b == req'[s].a
    <3>1. req[s] = req'[s] /\ Holds(req[s]) /\ s # r
      BY <1>5, <2>1
    <3>2. /\ assessment[b].status # "unborn"
          /\ AssessmentLive(b) => assessment[b].creator = req'[s].u
          /\ \A x \in assignment : x.link # b
      BY <3>1 DEF HeldIsFresh, LinksTo
    <3>3. a # b
      BY <1>0, <3>1 DEF HeldIsFresh, a
    <3>4. \A x \in assignment' : x.link # b
      BY <1>2, <1>3, <3>2, <3>3
    <3> HIDE DEF b
    <3>5. QED
      BY <1>0, <3>1, <3>2, <3>4 DEF AssessmentLive, b
  <2>2. \A p, s \in Requests :
          (Holds(req'[p]) /\ Holds(req'[s]) /\ req'[p].a = req'[s].a) => p = s
    BY <2>1 DEF HeldIsFresh
  <2>3. QED
    BY <2>1, <2>2 DEF HeldIsFresh, Holds, AssessmentLive, LinksTo
<1>9. LinksArePrivate'
  <2> SUFFICES ASSUME NEW x \in assignment', x.link # None
               PROVE  /\ assessment'[x.link].creator = x.user
                      /\ \A y \in assignment' : y.link = x.link => y = x
    BY DEF LinksArePrivate, LinksTo
  <2>1. CASE x = g
    BY <1>0, <1>2, <1>3, <1>4, <2>1
  <2>2. CASE x # g
    <3>1. x \in assignment /\ x.link # a
      BY <1>2, <1>4, <2>2
    <3>2. /\ assessment[x.link].creator = x.user
          /\ \A y \in assignment : y.link = x.link => y = x
      BY <3>1 DEF LinksArePrivate, LinksTo
    <3>3. QED
      BY <1>0, <1>2, <1>3, <3>1, <3>2
  <2>3. QED
    BY <2>1, <2>2
<1>10. QED
  BY <1>6, <1>7, <1>8, <1>9 DEF Consistent

\* createAssessment and startTask insert a draft that nobody links.
LEMMA Creating ==
  ASSUME IInv, TypeOK', NEW r \in Requests, NEW a \in Assessments,
         assessment[a].status = "unborn", assessment'[a].status = "draft",
         assessment'[a].creator = req'[r].u, req'[r].a = a,
         \A b \in Assessments : b # a => assessment'[b] = assessment[b],
         \A s \in Requests : s # r => req'[s] = req[s],
         task' = task, assignment' = assignment
  PROVE  Consistent'
<1> USE DEF IInv
<1>0. None \notin Assessments
  BY TaskConstants
<1>1. ASSUME NEW x \in assignment
      PROVE  x.link # a /\ (x.link # None => x.link \in Assessments)
  BY <1>0 DEF NothingDangles, AssessmentLive, TypeOK, Assignment
<1>2. NothingDangles'
  <2>1. ASSUME NEW x \in assignment'
        PROVE  TaskLive(x.task)' /\ (x.link # None => AssessmentLive(x.link)')
    BY <1>1 DEF NothingDangles, TaskLive, AssessmentLive
  <2>2. QED
    BY <2>1 DEF NothingDangles, TaskLive
<1>3. RowsAreNumbered'
  BY DEF RowsAreNumbered
<1>4. HeldIsFresh'
  <2>1. ASSUME NEW s \in Requests, s # r, Holds(req'[s])
        PROVE  LET b == req'[s].a IN
               /\ Holds(req[s]) /\ req[s] = req'[s] /\ b # a
               /\ assessment'[b].status # "unborn"
               /\ assessment'[b].status \in {"draft", "submitted"} =>
                    assessment'[b].creator = req'[s].u
               /\ \A x \in assignment' : x.link # b
    <3> DEFINE b == req'[s].a
    <3>1. req[s] = req'[s] /\ Holds(req[s])
      BY <2>1
    <3>2. b \in Assessments
      BY <3>1, InFlight DEF Holds, OnAssessment
    <3>3. /\ assessment[b].status # "unborn"
          /\ AssessmentLive(b) => assessment[b].creator = req'[s].u
          /\ \A x \in assignment : x.link # b
      BY <3>1 DEF HeldIsFresh, LinksTo
    <3> HIDE DEF b
    <3>4. QED
      BY <3>1, <3>2, <3>3 DEF AssessmentLive, b
  <2>2. \A x \in assignment' : x.link # a
    BY <1>1
  <2>3. \A p, s \in Requests :
          (Holds(req'[p]) /\ Holds(req'[s]) /\ req'[p].a = req'[s].a) => p = s
    BY <2>1 DEF HeldIsFresh
  <2>4. ASSUME NEW s \in Requests, Holds(req'[s])
        PROVE  LET b == req'[s].a IN
               /\ assessment'[b].status # "unborn"
               /\ assessment'[b].status \in {"draft", "submitted"} =>
                    assessment'[b].creator = req'[s].u
               /\ \A x \in assignment' : x.link # b
    BY <2>1, <2>2, <2>4
  <2>5. QED
    BY <2>3, <2>4 DEF HeldIsFresh, Holds, AssessmentLive, LinksTo
<1>5. LinksArePrivate'
  BY <1>1 DEF LinksArePrivate, LinksTo
<1>6. QED
  BY <1>2, <1>3, <1>4, <1>5 DEF Consistent

-----------------------------------------------------------------------------
(* The invariant                                                           *)

\* Steps that leave the tables alone and give no request an assessment.
LEMMA Waiting ==
  ASSUME IInv, TypeOK', UNCHANGED <<task, assignment, assessment>>,
         \A s \in Requests : Holds(req'[s]) => req'[s] = req[s]
  PROVE  Consistent'
<1>1. NobodyCreates
  BY DEF NobodyCreates, AssessmentLive
<1>2. /\ \A t \in Tasks : task'[t].commented => TaskLive(t)'
      /\ \A x \in assignment' :
           TaskLive(x.task)' /\ (x.link # None => AssessmentLive(x.link)')
  BY DEF IInv, NothingDangles, TaskLive, AssessmentLive
<1>3. QED
  BY <1>1, <1>2, Removing

\* Steps that write a task and no other table, and keep it if it has rows.
LEMMA Marking ==
  ASSUME IInv, TypeOK', UNCHANGED <<assignment, assessment>>,
         \A s \in Requests : Holds(req'[s]) => req'[s] = req[s],
         NEW t \in Tasks,
         \A b \in Tasks : b # t => task'[b] = task[b],
         task'[t].batches = task[t].batches,
         task'[t].status = "unborn" => task[t].status = "unborn",
         task'[t].commented => task'[t].status \in TaskStatus,
         RowsOf(t) # {} => task'[t].status \in TaskStatus
  PROVE  Consistent'
<1>1. NobodyCreates
  BY DEF NobodyCreates, AssessmentLive
<1>2. ASSUME NEW b \in Tasks
      PROVE  /\ task'[b].batches = task[b].batches
             /\ task'[b].status = "unborn" => task[b].status = "unborn"
             /\ task'[b].commented => TaskLive(b)'
  BY DEF IInv, NothingDangles, TaskLive
<1>3. ASSUME NEW x \in assignment'
      PROVE  TaskLive(x.task)' /\ (x.link # None => AssessmentLive(x.link)')
  <2>1. x \in assignment /\ x.task \in Tasks
    BY DEF TypeOK, Assignment
  <2>2. task'[x.task].status \in TaskStatus
    BY <2>1 DEF IInv, NothingDangles, TaskLive, RowsOf
  <2>3. QED
    BY <2>1, <2>2 DEF IInv, NothingDangles, TaskLive, AssessmentLive
<1>4. QED
  BY <1>1, <1>2, <1>3, Removing

\* A call of deleteAssessment before its last sends its request to the next.
LEMMA Removes ==
  ASSUME TypeOK, NEW r \in Requests, RemoveFind(r) \/ RemoveRows(r) \/ RemoveGroup(r)
  PROVE  \E q : /\ req' = [req EXCEPT ![r] = q] /\ q.a = req[r].a
                /\ q.pc \in Removal /\ q.t = req[r].t
<1>1. req[r] \in Pending
  BY InFlight DEF RemoveFind, RemoveRows, RemoveGroup
<1>2. CASE RemoveFind(r)
  <2> DEFINE found == {x.task : x \in LinksTo(req[r].a)}
             pc == IF found = {} THEN "remove.commit" ELSE "remove.rows"
             q == [req[r] EXCEPT !.pc = pc, !.tasks = found]
  <2>1. req' = [req EXCEPT ![r] = q]
    BY <1>2 DEF RemoveFind, TypeOK
  <2>2. q.a = req[r].a /\ q.pc \in Removal /\ q.t = req[r].t
    BY <1>1 DEF Pending, Removal
  <2> HIDE DEF q
  <2>3. QED
    BY <2>1, <2>2
<1>3. CASE RemoveRows(r)
  <2> DEFINE q == [req[r] EXCEPT !.pc = "remove.group", !.rows = LinksTo(req[r].a)]
  <2>1. req' = [req EXCEPT ![r] = q]
    BY <1>3 DEF RemoveRows, TypeOK
  <2>2. q.a = req[r].a /\ q.pc \in Removal /\ q.t = req[r].t
    BY <1>1 DEF Pending, Removal
  <2> HIDE DEF q
  <2>3. QED
    BY <2>1, <2>2
<1>4. CASE RemoveGroup(r)
  <2> DEFINE T == req[r].tasks \ {x.task : x \in assignment \ req[r].rows}
             q == [req[r] EXCEPT !.pc = "remove.commit", !.tasks = T]
  <2>1. req' = [req EXCEPT ![r] = q]
    BY <1>4 DEF RemoveGroup, TypeOK
  <2>2. q.a = req[r].a /\ q.pc \in Removal /\ q.t = req[r].t
    BY <1>1 DEF Pending, Removal
  <2> HIDE DEF q
  <2>3. QED
    BY <2>1, <2>2
<1>5. QED
  BY <1>2, <1>3, <1>4

\* A request that ends, or goes on to a call that does not link, holds nothing.
LEMMA HoldsNoMore ==
  ASSUME TypeOK, NEW r \in Requests,
         \/ Done(r)
         \/ \E q : req' = [req EXCEPT ![r] = q] /\ ~ Holds(q)
  PROVE  /\ \A s \in Requests : Holds(req'[s]) => req'[s] = req[s]
         /\ ~ Holds(req'[r])
BY DEF Done, Holds, Idle, TypeOK

LEMMA ConsistentArrive ==
  ASSUME IInv, TypeOK', NEW r \in Requests,
         Arrive(r) \/ Fail(r) \/ RowGone(r) \/ RemoveRefused(r)
  PROVE  Consistent'
<1>1. UNCHANGED <<task, assignment, assessment>>
  BY DEF Arrive, CreateRead, StartRead, ReplaceRead, DropRead, RemoveRead, Fail, RowGone,
         RemoveRefused
<1>2. CASE Arrive(r)
  <2> DEFINE Unlinking == \A s \in Requests : Holds(req'[s]) => req'[s] = req[s]
  <2>1. ASSUME NEW p \in Periods, NEW u \in Users, CreateRead(r, p, u)  PROVE Unlinking
    BY <2>1 DEF CreateRead, Holds, Idle, IInv, TypeOK
  <2>2. ASSUME NEW x \in assignment, StartRead(r, x)  PROVE Unlinking
    BY <2>2 DEF StartRead, Holds, Idle, IInv, TypeOK
  <2>3. ASSUME NEW t \in Tasks, NEW U \in SUBSET Users, ReplaceRead(r, t, U)
        PROVE  Unlinking
    BY <2>3 DEF ReplaceRead, Holds, Idle, IInv, TypeOK
  <2>4. ASSUME NEW t \in Tasks, DropRead(r, t)  PROVE Unlinking
    BY <2>4 DEF DropRead, Holds, Idle, IInv, TypeOK
  <2>5. ASSUME NEW a \in Assessments, RemoveRead(r, a)  PROVE Unlinking
    BY <2>5 DEF RemoveRead, Holds, Idle, IInv, TypeOK
  <2>6. Unlinking
    BY <1>2, <2>1, <2>2, <2>3, <2>4, <2>5 DEF Arrive
  <2>7. QED
    BY <1>1, <2>6, Waiting
<1>3. CASE Fail(r) \/ RowGone(r) \/ RemoveRefused(r)
  BY <1>1, <1>3, HoldsNoMore, Waiting DEF IInv, Fail, RowGone, RemoveRefused
<1>4. QED
  BY <1>2, <1>3

LEMMA ConsistentProceed ==
  ASSUME IInv, TypeOK', NEW r \in Requests, Proceed(r)
  PROVE  Consistent'
<1> DEFINE q == req[r]
<1> USE DEF IInv
<1>1. ASSUME NEW a \in Assessments, CreateInsert(r, a)  PROVE Consistent'
  <2>1. q \in Pending
    BY <1>1, InFlight DEF CreateInsert
  <2>2. req'[r].u = q.u /\ req'[r].a = a /\ \A s \in Requests : s # r => req'[s] = req[s]
    BY <1>1, <2>1 DEF CreateInsert, TypeOK, Pending
  <2>3. /\ assessment[a].status = "unborn" /\ assessment'[a].status = "draft"
        /\ assessment'[a].creator = q.u
        /\ \A b \in Assessments : b # a => assessment'[b] = assessment[b]
        /\ task' = task /\ assignment' = assignment
    BY <1>1 DEF CreateInsert, InsertAssessment, TypeOK
  <2>4. QED
    BY <2>2, <2>3, Creating
<1>2. ASSUME NEW a \in Assessments, NEW p \in Periods, StartInsert(r, a, p)
      PROVE  Consistent'
  <2>1. q \in Pending
    BY <1>2, InFlight DEF StartInsert
  <2>2. req'[r].u = q.u /\ req'[r].a = a /\ \A s \in Requests : s # r => req'[s] = req[s]
    BY <1>2, <2>1 DEF StartInsert, TypeOK, Pending
  <2>3. /\ assessment[a].status = "unborn" /\ assessment'[a].status = "draft"
        /\ assessment'[a].creator = q.u
        /\ \A b \in Assessments : b # a => assessment'[b] = assessment[b]
        /\ task' = task /\ assignment' = assignment
    BY <1>2 DEF StartInsert, InsertAssessment, TypeOK
  <2>4. QED
    BY <2>2, <2>3, Creating
<1>3. ASSUME NEW t \in Tasks, CreateTask(r, t)  PROVE Consistent'
  <2>1. Holds(q) /\ q.u \in Users /\ q.a \in Assessments /\ AssessmentLive(q.a)
    BY <1>3, InFlight DEF CreateTask, ByUser, OnAssessment, Holds
  <2>2. Batched(t, {q.u}, q.a) /\ task'[t].commented = task[t].commented
    BY <1>3, <2>1 DEF CreateTask, InsertTask, Batched, RowsAreNumbered, TypeOK, Task, TaskStatus
  <2>3. (\A s \in Requests : Holds(req'[s]) => req'[s] = req[s]) /\ ~ Holds(req'[r])
    BY <1>3, HoldsNoMore DEF CreateTask
  <2>4. assessment' = assessment
    BY <1>3 DEF CreateTask
  <2>5. QED
    BY <2>1, <2>2, <2>3, <2>4, Adding
<1>4. ASSUME StartLink(r)  PROVE Consistent'
  BY <1>4, Linking
<1>5. ASSUME ReplaceCreate(r)  PROVE Consistent'
  <2>1. q.t \in Tasks /\ q.to \in SUBSET Users
    BY <1>5, InFlight DEF ReplaceCreate, OnTask, Pending
  <2>2. Batched(q.t, q.to, None) /\ task'[q.t].commented = task[q.t].commented
    BY <1>5, <2>1 DEF ReplaceCreate, Batched, TaskLive, TypeOK, Task, TaskStatus
  <2>3. \A s \in Requests : Holds(req'[s]) => req'[s] = req[s]
    BY <1>5, HoldsNoMore DEF ReplaceCreate
  <2>4. assessment' = assessment
    BY <1>5 DEF ReplaceCreate
  <2>5. QED
    BY <2>1, <2>2, <2>3, <2>4, Adding
<1>6. ASSUME StartStatus(r) \/ DropComments(r) \/ DropTask(r)  PROVE Consistent'
  <2>1. q.t \in Tasks
    BY <1>6, InFlight DEF StartStatus, DropComments, DropTask, OnTask
  <2>2. \A s \in Requests : Holds(req'[s]) => req'[s] = req[s]
    <3>1. Done(r) \/ \E new : req' = [req EXCEPT ![r] = new] /\ ~ Holds(new)
      BY <1>6, InFlight DEF StartStatus, DropComments, DropTask, Holds, Pending
    <3>2. QED
      BY <3>1, HoldsNoMore
  <2>3. UNCHANGED <<assignment, assessment>>
    BY <1>6 DEF StartStatus, DropComments, DropTask
  <2>4. /\ \A b \in Tasks : b # q.t => task'[b] = task[b]
        /\ task'[q.t].batches = task[q.t].batches
    BY <1>6, <2>1 DEF StartStatus, DropComments, DropTask, TypeOK, Task
  <2>5. /\ task'[q.t].status = "unborn" => task[q.t].status = "unborn"
        /\ task'[q.t].commented => task'[q.t].status \in TaskStatus
        /\ RowsOf(q.t) # {} => task'[q.t].status \in TaskStatus
    <3>1. /\ task[q.t].commented => task[q.t].status \in TaskStatus
          /\ RowsOf(q.t) # {} => task[q.t].status \in TaskStatus
      BY <2>1 DEF NothingDangles, TaskLive, RowsOf
    <3>2. CASE StartStatus(r)
      BY <2>1, <3>2 DEF StartStatus, TypeOK, Task, TaskStatus
    <3>3. CASE DropComments(r)
      BY <2>1, <3>1, <3>3 DEF DropComments, TypeOK, Task
    <3>4. CASE DropTask(r)
      BY <2>1, <3>1, <3>4 DEF DropTask, TypeOK, Task
    <3>5. QED
      BY <1>6, <3>2, <3>3, <3>4
  <2>6. QED
    BY <2>1, <2>2, <2>3, <2>4, <2>5, Marking
<1>7. ASSUME ReplaceDelete(r) \/ DropAssignments(r)  PROVE Consistent'
  <2>1. /\ UNCHANGED <<task, assessment>> /\ assignment' \subseteq assignment
        /\ \E new : req' = [req EXCEPT ![r] = new] /\ ~ Holds(new)
    BY <1>7, InFlight DEF ReplaceDelete, DropAssignments, DeleteRows, Holds, Pending
  <2>2. NobodyCreates
    BY <2>1, HoldsNoMore DEF NobodyCreates, AssessmentLive
  <2>3. /\ \A t \in Tasks : task'[t].commented => TaskLive(t)'
        /\ \A x \in assignment' :
             TaskLive(x.task)' /\ (x.link # None => AssessmentLive(x.link)')
    BY <2>1 DEF NothingDangles, TaskLive, AssessmentLive
  <2>4. QED
    BY <2>1, <2>2, <2>3, Removing
<1>8. ASSUME RemoveCommit(r)  PROVE Consistent'
  <2> DEFINE a == q.a
             left == assignment \ q.rows
  <2>1. a \in Assessments
    BY <1>8, InFlight DEF RemoveCommit, OnAssessment, Removal
  <2>2. /\ assignment' = Cleared(left, a) /\ left \in SUBSET assignment
        /\ assessment' = [assessment EXCEPT ![a] = NoAssessment("deleted")]
        /\ Done(r)
    BY <1>8 DEF RemoveCommit, Remaining, Cleared
  <2>3. ASSUME NEW t \in Tasks
        PROVE  /\ task'[t].batches = task[t].batches
               /\ task'[t].status = "unborn" => task[t].status = "unborn"
               /\ task'[t].commented => TaskLive(t)'
               /\ t \notin q.tasks => task'[t] = task[t]
    <3>1. task'[t] = IF t \in q.tasks
                       THEN [task[t] EXCEPT !.status = "deleted", !.commented = FALSE]
                       ELSE task[t]
      BY <1>8 DEF RemoveCommit
    <3>2. QED
      BY <3>1 DEF NothingDangles, TaskLive, TypeOK, Task
  <2>4. NobodyCreates
    BY <2>1, <2>2, HoldsNoMore DEF NobodyCreates, AssessmentLive, NoAssessment, TypeOK
  <2>5. ASSUME NEW x \in assignment'
        PROVE  TaskLive(x.task)' /\ (x.link # None => AssessmentLive(x.link)')
    <3>1. PICK y \in left : x = IF y.link = a THEN [y EXCEPT !.link = None] ELSE y
      BY <2>2 DEF Cleared
    <3>2. /\ y \in assignment /\ y.task \in Tasks /\ x.task = y.task
          /\ x.link # None => x.link = y.link /\ x.link # a /\ x.link \in Assessments
      BY <3>1 DEF TypeOK, Assignment
    <3>3. x.task \notin q.tasks
      BY <1>8, <3>1, <3>2 DEF RemoveCommit, RowsOf
    <3>4. task'[x.task] = task[x.task]
      BY <2>3, <3>2, <3>3
    <3>5. x.link # None => assessment'[x.link] = assessment[x.link]
      BY <2>1, <2>2, <3>2 DEF TypeOK
    <3>6. QED
      BY <3>2, <3>4, <3>5 DEF NothingDangles, TaskLive, AssessmentLive
  <2> HIDE DEF a, left
  <2>6. QED
    BY <2>2, <2>3, <2>4, <2>5, Clearing
<1>9. ASSUME RowGone(r) \/ RemoveRefused(r)  PROVE Consistent'
  BY <1>9, ConsistentArrive
<1>10. ASSUME RemoveFind(r) \/ RemoveRows(r) \/ RemoveGroup(r)  PROVE Consistent'
  <2>1. \E new : req' = [req EXCEPT ![r] = new] /\ ~ Holds(new)
    BY <1>10, Removes DEF Removal, Holds
  <2>2. UNCHANGED <<task, assignment, assessment>>
    BY <1>10 DEF RemoveFind, RemoveRows, RemoveGroup
  <2>3. QED
    BY <2>1, <2>2, HoldsNoMore, Waiting
<1>11. QED
  BY <1>1, <1>2, <1>3, <1>4, <1>5, <1>6, <1>7, <1>8, <1>9, <1>10 DEF Proceed

LEMMA ConsistentNext == IInv /\ [Next]_vars => Consistent'
<1> SUFFICES ASSUME IInv, [Next]_vars  PROVE Consistent'
  OBVIOUS
<1> USE DEF IInv
<1>0. TypeOK'
  BY TypeNext
<1>1. ASSUME NEW t \in Tasks, NEW U \in SUBSET Users, AssignTask(t, U)  PROVE Consistent'
  <2>1. Batched(t, U, None) /\ task'[t].commented = task[t].commented
    BY <1>1 DEF AssignTask, InsertTask, Batched, RowsAreNumbered, TypeOK, Task, TaskStatus
  <2>2. assessment' = assessment /\ req' = req
    BY <1>1 DEF AssignTask
  <2>3. QED
    BY <1>0, <2>1, <2>2, Adding
<1>2. ASSUME NEW t \in Tasks, NEW verdict \in {"approved", "declined"},
             DecideTask(t, verdict)
      PROVE  Consistent'
  <2>1. /\ UNCHANGED <<assignment, assessment, req>>
        /\ \A b \in Tasks : b # t => task'[b] = task[b]
        /\ task'[t].batches = task[t].batches
        /\ task'[t].status \in TaskStatus /\ task'[t].status # "unborn"
    BY <1>2 DEF DecideTask, TypeOK, Task, TaskStatus
  <2>2. QED
    BY <1>0, <2>1, Marking
<1>3. ASSUME NEW t \in Tasks, AddComment(t)  PROVE Consistent'
  <2>1. /\ UNCHANGED <<assignment, assessment, req>>
        /\ \A b \in Tasks : b # t => task'[b] = task[b]
        /\ task'[t].batches = task[t].batches
        /\ task'[t].status = task[t].status /\ task'[t].status \in TaskStatus
    BY <1>3 DEF AddComment, TaskLive, TypeOK, Task
  <2>2. QED
    BY <1>0, <2>1, Marking
<1>4. ASSUME NEW a \in Assessments, Review(a)  PROVE Consistent'
  <2>1. /\ UNCHANGED <<task, assignment, req>>
        /\ AssessmentLive(a) /\ assessment'[a].status \in {"draft", "submitted"}
        /\ assessment'[a].creator = assessment[a].creator
        /\ \A b \in Assessments : b # a => assessment'[b] = assessment[b]
    BY <1>4 DEF Review, AssessmentLive, TypeOK, Assessment
  <2>2. NobodyCreates
    BY <2>1 DEF NobodyCreates, AssessmentLive
  <2>3. /\ \A t \in Tasks : task'[t].commented => TaskLive(t)'
        /\ \A x \in assignment' :
             TaskLive(x.task)' /\ (x.link # None => AssessmentLive(x.link)')
    BY <2>1 DEF NothingDangles, TaskLive, AssessmentLive, TypeOK, Assignment
  <2>4. QED
    BY <1>0, <2>1, <2>2, <2>3, Removing
<1>5. ASSUME NEW r \in Requests, Arrive(r) \/ Proceed(r) \/ Fail(r)  PROVE Consistent'
  BY <1>0, <1>5, ConsistentArrive, ConsistentProceed
<1>6. ASSUME UNCHANGED vars  PROVE Consistent'
  BY <1>0, <1>6, Waiting DEF vars
<1>7. QED
  BY <1>1, <1>2, <1>3, <1>4, <1>5, <1>6 DEF Next

-----------------------------------------------------------------------------
(* The transactions of deleteAssessment                                    *)

Deleting == {"remove.group", "remove.commit"}

\* What RemovalsAreSerial says of one request.
Serial(r) ==
  LET q == req[r] IN
  /\ q.rows # {} => q.pc \in Deleting
  /\ q.rows \subseteq LinksTo(q.a)
  /\ \A s \in Requests \ {r} :
       /\ q.rows \cap req[s].rows = {}
       /\ {x.task : x \in q.rows} \cap {x.task : x \in req[s].rows} \subseteq crossed
  /\ q.pc = "remove.rows" =>
       /\ assessment[q.a].status # "unborn"
       /\ \A s \in Requests : Holds(req[s]) => req[s].a # q.a
       /\ {x.task : x \in LinksTo(q.a)} \subseteq q.tasks
  /\ q.pc = "remove.group" => {x.task : x \in q.rows} \subseteq q.tasks
  /\ q.pc = "remove.commit" =>
       \A x \in q.rows : \/ x.task \in q.tasks \cup crossed
                          \/ RowsOf(x.task) \ q.rows # {}

LEMMA SerialParts == RemovalsAreSerial <=> \A r \in Requests : Serial(r)
BY DEF RemovalsAreSerial, Serial, Deleting

LEMMA SerialPartsNext == (\A r \in Requests : Serial(r)') => RemovalsAreSerial'
BY DEF RemovalsAreSerial, Serial, Deleting

\* A step after which a request either is where it was in its transaction or
\* has none open, and which leaves the open ones what they rest on.
Steady ==
  /\ \A s \in Requests :
       (req'[s].rows # {} \/ req'[s].pc \in {"remove.rows"} \cup Deleting) => req'[s] = req[s]
  /\ \A s \in Requests : req'[s] = req[s] =>
       \A x \in req[s].rows :
         /\ x \in assignment'
         /\ x.task \in crossed => x.task \in crossed'
         /\ RowsOf(x.task) \ req[s].rows # {} =>
              x.task \in crossed' \/ \E y \in assignment' : y.task = x.task /\ y \notin req[s].rows
  /\ \A a \in Assessments : assessment[a].status # "unborn" => assessment'[a].status # "unborn"
  /\ \A p \in Requests : Holds(req'[p]) =>
       \/ Holds(req[p]) /\ req'[p].a = req[p].a
       \/ assessment[req'[p].a].status = "unborn"
  /\ \A x \in assignment' : x.link # None =>
       \/ \E y \in assignment : y.link = x.link /\ y.task = x.task
       \/ \E p \in Requests : Holds(req[p]) /\ x.link = req[p].a

LEMMA SteadySerial ==
  ASSUME IInv, RemovalsAreSerial, Steady
  PROVE  RemovalsAreSerial'
<1> USE DEF IInv
<1> SUFFICES ASSUME NEW r \in Requests  PROVE Serial(r)'
  BY SerialPartsNext
<1> DEFINE q == req[r]
<1>0. \A s \in Requests : Serial(s)
  BY SerialParts
<1>1. CASE req'[r].rows = {} /\ req'[r].pc \notin {"remove.rows"} \cup Deleting
  BY <1>1 DEF Serial, Deleting
<1>2. CASE req'[r] = q
  <2>1. (q.rows # {} => q.pc \in Deleting) /\ q.rows \subseteq LinksTo(q.a)
    BY <1>0 DEF Serial
  <2>2. \A x \in q.rows : x \in assignment' /\ x.link = q.a
    BY <1>2, <2>1 DEF Steady, LinksTo
  <2>3. ASSUME NEW s \in Requests \ {r}
        PROVE  /\ q.rows \cap req'[s].rows = {}
               /\ {x.task : x \in q.rows} \cap {x.task : x \in req'[s].rows} \subseteq crossed'
    <3>1. CASE req'[s].rows = {}
      BY <3>1
    <3>2. CASE req'[s] = req[s]
      <4>1. /\ q.rows \cap req[s].rows = {}
            /\ {x.task : x \in q.rows} \cap {x.task : x \in req[s].rows} \subseteq crossed
        BY <1>0 DEF Serial
      <4>2. \A x \in q.rows : x.task \in crossed => x.task \in crossed'
        BY <1>2 DEF Steady
      <4>3. QED
        BY <3>2, <4>1, <4>2
    <3>3. QED
      BY <3>1, <3>2 DEF Steady
  <2>4. ASSUME q.pc = "remove.rows"
        PROVE  /\ assessment'[q.a].status # "unborn"
               /\ \A s \in Requests : Holds(req'[s]) => req'[s].a # q.a
               /\ \A x \in assignment' : x.link = q.a => x.task \in q.tasks
    <3>1. q.a \in Assessments /\ q.a # None
      BY <2>4, InFlight, TaskConstants DEF OnAssessment, Removal
    <3>2. /\ assessment[q.a].status # "unborn"
          /\ \A s \in Requests : Holds(req[s]) => req[s].a # q.a
          /\ \A x \in assignment : x.link = q.a => x.task \in q.tasks
      BY <1>0, <2>4 DEF Serial, LinksTo
    <3>3. QED
      BY <3>1, <3>2 DEF Steady
  <2>5. ASSUME q.pc = "remove.commit", NEW x \in q.rows
        PROVE  \/ x.task \in q.tasks \cup crossed'
               \/ \E y \in assignment' : y.task = x.task /\ y \notin q.rows
    <3>1. x.task \in q.tasks \cup crossed \/ RowsOf(x.task) \ q.rows # {}
      BY <1>0, <2>5 DEF Serial
    <3>2. QED
      BY <1>2, <3>1 DEF Steady
  <2>6. q.pc = "remove.group" => {x.task : x \in q.rows} \subseteq q.tasks
    BY <1>0 DEF Serial
  <2> HIDE DEF q
  <2>7. QED
    BY <1>2, <2>1, <2>2, <2>3, <2>4, <2>5, <2>6 DEF Serial, LinksTo, RowsOf
<1>3. QED
  BY <1>1, <1>2 DEF Steady

\* A step of request r opens no transaction and takes over no assessment.
Sends(r) ==
  \/ req' = req
  \/ \E q : /\ req' = [req EXCEPT ![r] = q] /\ q.rows = {}
            /\ q.pc \notin {"remove.rows"} \cup Deleting
            /\ Holds(q) => assessment[q.a].status = "unborn"

\* Tables after a step that takes no assignment away and gives them no link
\* but that of the assessment which request r holds.
Adds(r) ==
  /\ assignment \subseteq assignment' /\ crossed \subseteq crossed'
  /\ \A a \in Assessments :
       assessment[a].status # "unborn" => assessment'[a].status # "unborn"
  /\ \A x \in assignment' :
       \/ x \in assignment
       \/ x.link = None
       \/ r \in Requests /\ Holds(req[r]) /\ x.link = req[r].a

LEMMA AddsNothing ==
  ASSUME NEW r, UNCHANGED <<assignment, assessment, crossed>>
  PROVE  Adds(r)
BY DEF Adds

\* Most steps are quiet.
LEMMA Quiet ==
  ASSUME IInv, RemovalsAreSerial, NEW r, Sends(r), Adds(r)
  PROVE  RemovalsAreSerial'
<1> USE DEF IInv
<1>1. ASSUME NEW s \in Requests
      PROVE  \/ req'[s] = req[s]
             \/ /\ req'[s].rows = {} /\ req'[s].pc \notin {"remove.rows"} \cup Deleting
                /\ Holds(req'[s]) => assessment[req'[s].a].status = "unborn"
  BY DEF Sends, TypeOK
<1>2. ASSUME NEW s \in Requests, NEW x \in req[s].rows
      PROVE  /\ x \in assignment' /\ (x.task \in crossed => x.task \in crossed')
             /\ RowsOf(x.task) \ req[s].rows # {} =>
                  \E y \in assignment' : y.task = x.task /\ y \notin req[s].rows
  <2>1. x \in assignment
    BY SerialParts DEF Serial, LinksTo
  <2>2. QED
    BY <2>1 DEF Adds, RowsOf
<1>3. Steady
  BY <1>1, <1>2 DEF Adds, Steady
<1>4. QED
  BY <1>3, SteadySerial

\* The handler of a request that has deleted nothing goes on to another call.
LEMMA OtherCall ==
  ASSUME TypeOK, RemovalsAreSerial, NEW r \in Requests, req[r].pc # "idle",
         req[r].pc \notin Removal, NEW pc \in Pc, pc \notin Removal, pc # "create.task",
         pc # "start.link", req' = [req EXCEPT ![r].pc = pc]
  PROVE  Sends(r)
<1> DEFINE q == [req[r] EXCEPT !.pc = pc]
<1>1. req' = [req EXCEPT ![r] = q]
  BY DEF TypeOK
<1>2. q.rows = req[r].rows /\ q.pc = pc
  BY InFlight DEF Pending
<1>3. req[r].rows = {}
  BY SerialParts DEF Serial, Deleting, Removal
<1> HIDE DEF q
<1>4. QED
  BY <1>1, <1>2, <1>3 DEF Sends, Holds, Deleting, Removal

LEMMA Inserting ==
  ASSUME TypeOK, RemovalsAreSerial, NEW r \in Requests, req[r].pc # "idle",
         req[r].pc \notin Removal, NEW pc \in {"create.task", "start.link"},
         NEW a \in Assessments, assessment[a].status = "unborn",
         req' = [req EXCEPT ![r].pc = pc, ![r].a = a]
  PROVE  Sends(r)
<1> DEFINE q == [req[r] EXCEPT !.pc = pc, !.a = a]
<1>1. req' = [req EXCEPT ![r] = q]
  BY DEF TypeOK
<1>2. q.rows = req[r].rows /\ q.pc = pc /\ q.a = a
  BY InFlight DEF Pending
<1>3. req[r].rows = {}
  BY SerialParts DEF Serial, Deleting, Removal
<1> HIDE DEF q
<1>4. QED
  BY <1>1, <1>2, <1>3 DEF Sends, Holds, Deleting, Removal

LEMMA Ending ==
  ASSUME TypeOK, NEW r \in Requests, Done(r)
  PROVE  Sends(r)
<1>1. /\ req' = [req EXCEPT ![r] = Idle] /\ Idle.rows = {}
      /\ Idle.pc \notin {"remove.rows"} \cup Deleting /\ ~ Holds(Idle)
  BY DEF Done, Idle, Holds, Deleting
<1>2. QED
  BY <1>1 DEF Sends

\* A step of a handler other than deleteAssessment's.
LEMMA SerialProceed ==
  ASSUME IInv, RemovalsAreSerial, NEW r \in Requests, Proceed(r),
         ~ RemoveFind(r), ~ RemoveRows(r), ~ RemoveGroup(r), ~ RemoveCommit(r)
  PROVE  RemovalsAreSerial'
<1> DEFINE q == req[r]
<1> USE DEF IInv
<1>1. ASSUME NEW a \in Assessments, CreateInsert(r, a)  PROVE RemovalsAreSerial'
  <2>1. Sends(r)
    BY <1>1, Inserting DEF CreateInsert, InsertAssessment, Removal
  <2>2. Adds(r)
    BY <1>1 DEF CreateInsert, InsertAssessment, TypeOK, Adds
  <2>3. QED
    BY <2>1, <2>2, Quiet
<1>2. ASSUME NEW a \in Assessments, NEW p \in Periods, StartInsert(r, a, p)
      PROVE  RemovalsAreSerial'
  <2>1. Sends(r)
    BY <1>2, Inserting DEF StartInsert, InsertAssessment, Removal
  <2>2. Adds(r)
    BY <1>2 DEF StartInsert, InsertAssessment, TypeOK, Adds
  <2>3. QED
    BY <2>1, <2>2, Quiet
<1>3. ASSUME NEW t \in Tasks, CreateTask(r, t)  PROVE RemovalsAreSerial'
  <2>1. Sends(r)
    BY <1>3, Ending DEF CreateTask
  <2>2. Holds(q) /\ q.u \in Users
    BY <1>3, InFlight DEF CreateTask, Holds, ByUser
  <2>3. ASSUME NEW x \in assignment'  PROVE x \in assignment \/ x.link = q.a
    BY <1>3, <2>2, <2>3, BatchRows DEF CreateTask, InsertTask
  <2>4. assignment \subseteq assignment' /\ UNCHANGED <<assessment, crossed>>
    BY <1>3 DEF CreateTask, InsertTask
  <2>5. Adds(r)
    BY <2>2, <2>3, <2>4 DEF Adds
  <2>6. QED
    BY <2>1, <2>5, Quiet
<1>4. ASSUME StartLink(r)  PROVE RemovalsAreSerial'
  <2>1. Holds(q) /\ q.a \in Assessments /\ q.a # None /\ Sends(r)
    BY <1>4, InFlight, OtherCall, TaskConstants
    DEF StartLink, Holds, OnAssessment, Removal, Pc
  <2>2. LinksTo(q.a) = {}
    BY <2>1 DEF HeldIsFresh
  <2>3. ASSUME NEW s \in Requests, NEW x \in req[s].rows
        PROVE  /\ x \in assignment'
               /\ RowsOf(x.task) \ req[s].rows # {} =>
                    \E y \in assignment' : y.task = x.task /\ y \notin req[s].rows
    <3>1. req[s].rows \subseteq assignment /\ req[s].rows \cap Found(r) = {}
      BY <1>4, SerialParts DEF Serial, LinksTo, StartLink, Free
    <3>2. ASSUME NEW z \in RowsOf(x.task), z \notin req[s].rows
          PROVE  \E y \in assignment' : y.task = x.task /\ y \notin req[s].rows
      <4>1. CASE z \notin Found(r)
        BY <1>4, <3>2, <4>1 DEF StartLink, RowsOf
      <4>2. CASE z \in Found(r)
        <5> DEFINE y == [z EXCEPT !.link = q.a]
        <5>1. y \in assignment'
          BY <1>4, <4>2 DEF StartLink
        <5>2. y.task = x.task /\ y.link = q.a
          BY DEF RowsOf, TypeOK, Assignment
        <5> HIDE DEF y
        <5>3. y \notin req[s].rows
          BY <2>2, <3>1, <5>2 DEF LinksTo
        <5>4. QED
          BY <5>1, <5>2, <5>3
      <4>3. QED
        BY <4>1, <4>2
    <3>3. x \in assignment'
      BY <1>4, <3>1 DEF StartLink
    <3>4. QED
      BY <3>2, <3>3
  <2>4. ASSUME NEW x \in assignment'  PROVE x \in assignment \/ x.link = q.a
    <3>1. x \in assignment \/ \E z \in Found(r) : x = [z EXCEPT !.link = q.a]
      BY <1>4 DEF StartLink
    <3>2. QED
      BY <3>1 DEF Found, TypeOK, Assignment
  <2>5. UNCHANGED <<assessment, crossed>>
    BY <1>4 DEF StartLink
  <2>6. ASSUME NEW s \in Requests
        PROVE  \/ req'[s] = req[s]
               \/ /\ req'[s].rows = {} /\ req'[s].pc \notin {"remove.rows"} \cup Deleting
                  /\ Holds(req'[s]) => assessment[req'[s].a].status = "unborn"
    BY <2>1 DEF Sends, TypeOK
  <2>7. Steady
    BY <2>1, <2>3, <2>4, <2>5, <2>6 DEF Steady
  <2>8. QED
    BY <2>7, SteadySerial
<1>5. ASSUME StartStatus(r) \/ DropTask(r) \/ RowGone(r) \/ RemoveRefused(r)
      PROVE  RemovalsAreSerial'
  <2>1. Sends(r)
    BY <1>5, Ending DEF StartStatus, DropTask, RowGone, RemoveRefused
  <2>2. UNCHANGED <<assignment, assessment, crossed>>
    BY <1>5 DEF StartStatus, DropTask, RowGone, RemoveRefused
  <2>3. QED
    BY <2>1, <2>2, AddsNothing, Quiet
<1>6. ASSUME DropComments(r)  PROVE RemovalsAreSerial'
  <2>1. Sends(r)
    BY <1>6, OtherCall DEF DropComments, Removal, Pc
  <2>2. UNCHANGED <<assignment, assessment, crossed>>
    BY <1>6 DEF DropComments
  <2>3. QED
    BY <2>1, <2>2, AddsNothing, Quiet
<1>7. ASSUME ReplaceDelete(r) \/ DropAssignments(r)  PROVE RemovalsAreSerial'
  <2>1. Sends(r)
    BY <1>7, OtherCall DEF ReplaceDelete, DropAssignments, Removal, Pc
  <2>2. /\ DeleteRows(q.t) /\ UNCHANGED <<assessment, crossed>>
    BY <1>7 DEF ReplaceDelete, DropAssignments
  <2>3. ASSUME NEW s \in Requests
        PROVE  \/ req'[s] = req[s]
               \/ /\ req'[s].rows = {} /\ req'[s].pc \notin {"remove.rows"} \cup Deleting
                  /\ Holds(req'[s]) => assessment[req'[s].a].status = "unborn"
    BY <2>1 DEF Sends, TypeOK
  <2>4. ASSUME NEW s \in Requests, NEW x \in req[s].rows
        PROVE  /\ x \in assignment'
               /\ RowsOf(x.task) \ req[s].rows # {} =>
                    \E y \in assignment' : y.task = x.task /\ y \notin req[s].rows
    <3>1. x \in assignment /\ x.task # q.t
      BY <2>2, SerialParts DEF Serial, LinksTo, DeleteRows, Free, RowsOf
    <3>2. QED
      BY <2>2, <3>1 DEF DeleteRows, RowsOf
  <2>5. assignment' \subseteq assignment
    BY <2>2 DEF DeleteRows
  <2>6. Steady
    BY <2>2, <2>3, <2>4, <2>5 DEF Steady
  <2>7. QED
    BY <2>6, SteadySerial
<1>8. ASSUME ReplaceCreate(r)  PROVE RemovalsAreSerial'
  <2>1. q.t \in Tasks /\ q.to \in SUBSET Users /\ Sends(r)
    BY <1>8, InFlight, Ending DEF ReplaceCreate, OnTask, Pending
  <2>2. assignment \subseteq assignment' /\ UNCHANGED assessment
    BY <1>8 DEF ReplaceCreate
  <2>3. ASSUME NEW x \in assignment'  PROVE x \in assignment \/ x.link = None
    BY <1>8, <2>1, <2>3, BatchRows DEF ReplaceCreate
  <2>4. ASSUME NEW s \in Requests
        PROVE  \/ req'[s] = req[s]
               \/ /\ req'[s].rows = {} /\ req'[s].pc \notin {"remove.rows"} \cup Deleting
                  /\ Holds(req'[s]) => assessment[req'[s].a].status = "unborn"
    BY <2>1 DEF Sends, TypeOK
  <2>5. ASSUME NEW s \in Requests, NEW x \in req[s].rows
        PROVE  /\ x \in assignment' /\ (x.task \in crossed => x.task \in crossed')
               /\ RowsOf(x.task) \ req[s].rows # {} =>
                    \E y \in assignment' : y.task = x.task /\ y \notin req[s].rows
    <3>1. x \in assignment
      BY SerialParts DEF Serial, LinksTo
    <3>2. Free(RowsOf(q.t)) => x.task # q.t
      BY <3>1 DEF Free, RowsOf
    <3>3. QED
      BY <1>8, <2>2, <3>1, <3>2 DEF ReplaceCreate, RowsOf
  <2>6. Steady
    BY <2>2, <2>3, <2>4, <2>5 DEF Steady
  <2>7. QED
    BY <2>6, SteadySerial
<1>9. QED
  BY <1>1, <1>2, <1>3, <1>4, <1>5, <1>6, <1>7, <1>8 DEF Proceed

\* The statements of the transaction before its last: the tables stay, and the
\* request's own part of RemovalsAreSerial is made true for the next.
LEMMA SerialRemove ==
  ASSUME IInv, RemovalsAreSerial, NEW r \in Requests,
         RemoveFind(r) \/ RemoveRows(r) \/ RemoveGroup(r)
  PROVE  RemovalsAreSerial'
<1> DEFINE q == req[r]
<1> USE DEF IInv
<1>0. q \in Pending /\ q.a \in Assessments /\ q.a # None
  BY InFlight, TaskConstants DEF RemoveFind, RemoveRows, RemoveGroup, OnAssessment, Removal
<1>1. \A s \in Requests : Serial(s)
  BY SerialParts
<1>2. /\ UNCHANGED <<task, assignment, assessment>> /\ crossed \subseteq crossed'
      /\ \A s \in Requests : s # r => req'[s] = req[s]
      /\ ~ Holds(req'[r]) /\ req'[r].a = q.a
  <2>1. UNCHANGED <<task, assignment, assessment>> /\ crossed \subseteq crossed'
    BY DEF RemoveFind, RemoveRows, RemoveGroup
  <2>2. PICK new : /\ req' = [req EXCEPT ![r] = new] /\ new.a = q.a
                   /\ new.pc \in Removal
    BY Removes
  <2>3. QED
    BY <2>1, <2>2 DEF TypeOK, Holds, Removal
<1>3. ASSUME NEW s \in Requests, s # r,
             /\ req'[r].rows \cap req[s].rows = {}
             /\ {x.task : x \in req'[r].rows} \cap {x.task : x \in req[s].rows} \subseteq crossed'
      PROVE  Serial(s)'
  <2> DEFINE p == req[s]
  <2>1. /\ (p.rows # {} => p.pc \in Deleting) /\ p.rows \subseteq LinksTo(p.a)
        /\ \A z \in Requests \ {s} :
             /\ p.rows \cap req[z].rows = {}
             /\ {x.task : x \in p.rows} \cap {x.task : x \in req[z].rows} \subseteq crossed
    BY <1>1 DEF Serial
  <2>2. ASSUME NEW z \in Requests \ {s}
        PROVE  /\ p.rows \cap req'[z].rows = {}
               /\ {x.task : x \in p.rows} \cap {x.task : x \in req'[z].rows} \subseteq crossed'
    <3>1. CASE z = r
      BY <1>3, <3>1
    <3>2. CASE z # r
      <4>1. req'[z] = req[z]
        BY <1>2, <3>2
      <4>2. QED
        BY <1>2, <2>1, <4>1
    <3>3. QED
      BY <3>1, <3>2
  <2>3. p.pc = "remove.rows" =>
          /\ assessment[p.a].status # "unborn"
          /\ \A z \in Requests : Holds(req'[z]) => req'[z].a # p.a
          /\ {x.task : x \in LinksTo(p.a)} \subseteq p.tasks
    BY <1>1, <1>2 DEF Serial
  <2>4. p.pc = "remove.group" => {x.task : x \in p.rows} \subseteq p.tasks
    BY <1>1 DEF Serial
  <2>5. p.pc = "remove.commit" =>
          \A x \in p.rows : \/ x.task \in p.tasks \cup crossed'
                             \/ RowsOf(x.task) \ p.rows # {}
    BY <1>1, <1>2 DEF Serial
  <2>6. req'[s] = p
    BY <1>2, <1>3
  <2> HIDE DEF p
  <2>7. QED
    BY <1>2, <2>1, <2>2, <2>3, <2>4, <2>5, <2>6 DEF Serial, LinksTo, RowsOf
<1>4. CASE RemoveFind(r)
  <2> DEFINE found == {x.task : x \in LinksTo(q.a)}
  <2>1. q.rows = {}
    BY <1>1, <1>4 DEF Serial, RemoveFind, Deleting
  <2>2. /\ req'[r].pc = IF found = {} THEN "remove.commit" ELSE "remove.rows"
        /\ req'[r].tasks = found /\ req'[r].rows = {}
    BY <1>0, <1>4, <2>1 DEF RemoveFind, TypeOK, Pending
  <2>3. ASSUME req'[r].pc = "remove.rows"
        PROVE  /\ assessment[q.a].status # "unborn"
               /\ \A s \in Requests : Holds(req'[s]) => req'[s].a # q.a
    <3>1. LinksTo(q.a) # {}
      BY <2>2, <2>3
    <3>2. AssessmentLive(q.a)
      BY <1>0, <3>1 DEF LinksTo, NothingDangles
    <3>3. \A s \in Requests : Holds(req[s]) => req[s].a # q.a
      BY <3>1 DEF HeldIsFresh
    <3>4. QED
      BY <1>2, <3>2, <3>3 DEF AssessmentLive
  <2>4. Serial(r)'
    BY <1>2, <2>2, <2>3 DEF Serial, Deleting, LinksTo
  <2>5. QED
    BY <1>3, <2>2, <2>4, SerialPartsNext
<1>5. CASE RemoveRows(r)
  <2> DEFINE rows == LinksTo(q.a)
  <2>1. req'[r].pc = "remove.group" /\ req'[r].rows = rows /\ req'[r].tasks = q.tasks
    BY <1>0, <1>5 DEF RemoveRows, TypeOK, Pending
  <2>2. ASSUME NEW s \in Requests, s # r
        PROVE  /\ rows \cap req[s].rows = {}
               /\ {x.task : x \in rows} \cap {x.task : x \in req[s].rows} \subseteq crossed'
    <3>1. rows \cap req[s].rows = {}
      BY <1>5 DEF RemoveRows, Free
    <3>2. {x.task : x \in req[s].rows} \subseteq HeldByOthers(r)
      BY <2>2 DEF HeldByOthers
    <3>3. {x.task : x \in rows} \cap HeldByOthers(r) \subseteq crossed'
      BY <1>5 DEF RemoveRows
    <3>4. QED
      BY <3>1, <3>2, <3>3
  <2>3. {x.task : x \in rows} \subseteq q.tasks
    BY <1>1, <1>5 DEF Serial, RemoveRows
  <2>4. rows = LinksTo(q.a)'
    BY <1>2 DEF LinksTo
  <2> HIDE DEF rows
  <2>5. ASSUME NEW s \in Requests, s # r  PROVE Serial(s)'
    BY <1>3, <2>1, <2>2, <2>5
  <2>6. ASSUME NEW s \in Requests \ {r}
        PROVE  /\ req'[r].rows \cap req'[s].rows = {}
               /\ {x.task : x \in req'[r].rows} \cap {x.task : x \in req'[s].rows}
                    \subseteq crossed'
    <3>1. req'[s] = req[s]
      BY <1>2
    <3>2. QED
      BY <2>1, <2>2, <3>1
  <2>7. Serial(r)'
    BY <1>2, <2>1, <2>3, <2>4, <2>6 DEF Serial, Deleting
  <2>8. QED
    BY <2>5, <2>7, SerialPartsNext
<1>6. CASE RemoveGroup(r)
  <2>1. /\ req'[r].pc = "remove.commit" /\ req'[r].rows = q.rows
        /\ req'[r].tasks = q.tasks \ {x.task : x \in assignment \ q.rows}
    BY <1>0, <1>6 DEF RemoveGroup, TypeOK, Pending
  <2>2. /\ q.rows \subseteq LinksTo(q.a) /\ {x.task : x \in q.rows} \subseteq q.tasks
        /\ \A s \in Requests \ {r} :
             /\ q.rows \cap req[s].rows = {}
             /\ {x.task : x \in q.rows} \cap {x.task : x \in req[s].rows} \subseteq crossed
    BY <1>1, <1>6 DEF Serial, RemoveGroup
  <2>3. ASSUME NEW x \in q.rows
        PROVE  x.task \in req'[r].tasks \/ RowsOf(x.task) \ q.rows # {}
    BY <2>1, <2>2 DEF RowsOf
  <2>4. ASSUME NEW s \in Requests, s # r  PROVE Serial(s)'
    <3>1. /\ q.rows \cap req[s].rows = {}
          /\ {x.task : x \in q.rows} \cap {x.task : x \in req[s].rows} \subseteq crossed
      BY <2>2, <2>4
    <3>2. QED
      BY <1>2, <1>3, <2>1, <2>4, <3>1
  <2>5. ASSUME NEW s \in Requests \ {r}
        PROVE  /\ req'[r].rows \cap req'[s].rows = {}
               /\ {x.task : x \in req'[r].rows} \cap {x.task : x \in req'[s].rows}
                    \subseteq crossed'
    <3>1. req'[s] = req[s]
      BY <1>2
    <3>2. QED
      BY <1>2, <2>1, <2>2, <3>1
  <2>6. Serial(r)'
    BY <1>2, <2>1, <2>2, <2>3, <2>5 DEF Serial, Deleting, LinksTo, RowsOf
  <2>7. QED
    BY <2>4, <2>6, SerialPartsNext
<1>7. QED
  BY <1>4, <1>5, <1>6

\* The commit takes away what its transaction deleted, which is nothing that
\* another has, and waits for the rows whose link it sets to null.
LEMMA SerialCommit ==
  ASSUME IInv, RemovalsAreSerial, NEW r \in Requests, RemoveCommit(r)
  PROVE  RemovalsAreSerial'
<1> DEFINE q == req[r]
<1> USE DEF IInv
<1>1. /\ assignment' = Remaining(r) /\ UNCHANGED crossed /\ Done(r)
      /\ Free(LinksTo(q.a) \ q.rows) /\ q.a \in Assessments
  BY InFlight DEF RemoveCommit, OnAssessment, Removal
<1>2. ASSUME NEW s \in Requests
      PROVE  \/ s # r /\ req'[s] = req[s]
             \/ /\ req'[s].rows = {} /\ req'[s].pc \notin {"remove.rows"} \cup Deleting
                /\ ~ Holds(req'[s])
  BY <1>1 DEF Done, Idle, Holds, Deleting, TypeOK
<1>3. ASSUME NEW s \in Requests, s # r, NEW x \in req[s].rows
      PROVE  /\ x \in assignment'
             /\ RowsOf(x.task) \ req[s].rows # {} =>
                  \/ x.task \in crossed
                  \/ \E y \in assignment' : y.task = x.task /\ y \notin req[s].rows
  <2>1. /\ req[s].rows \subseteq LinksTo(req[s].a) /\ req[s].a \in Assessments
        /\ req[s].a # None
    <3>1. req[s].rows \subseteq LinksTo(req[s].a) /\ req[s].pc \in Deleting
      BY SerialParts DEF Serial
    <3>2. QED
      BY <3>1, InFlight, TaskConstants DEF Deleting, OnAssessment, Removal
  <2>2. /\ req[s].rows \cap q.rows = {}
        /\ {y.task : y \in req[s].rows} \cap {y.task : y \in q.rows} \subseteq crossed
    BY <1>3, SerialParts DEF Serial
  <2>3. req[s].rows \cap (LinksTo(q.a) \ q.rows) = {}
    BY <1>1 DEF Free
  <2>4. x \in assignment /\ x \notin q.rows /\ x.link # q.a
    BY <2>1, <2>2, <2>3 DEF LinksTo
  <2>5. x \in assignment'
    BY <1>1, <2>4 DEF Remaining
  <2>6. ASSUME NEW z \in RowsOf(x.task), z \notin req[s].rows
        PROVE  \/ x.task \in crossed
               \/ \E y \in assignment' : y.task = x.task /\ y \notin req[s].rows
    <3>1. CASE z \in q.rows
      <4>1. z.task = x.task
        BY DEF RowsOf
      <4>2. QED
        BY <2>2, <3>1, <4>1
    <3>2. CASE z \notin q.rows
      <4> DEFINE y == IF z.link = q.a THEN [z EXCEPT !.link = None] ELSE z
      <4>1. y \in assignment'
        BY <1>1, <3>2 DEF Remaining, RowsOf
      <4>2. y.task = x.task /\ (y = z \/ y.link = None)
        BY DEF RowsOf, TypeOK, Assignment
      <4> HIDE DEF y
      <4>3. y \notin req[s].rows
        BY <2>1, <2>6, <4>2 DEF LinksTo
      <4>4. QED
        BY <4>1, <4>2, <4>3
    <3>3. QED
      BY <3>1, <3>2
  <2>7. QED
    BY <2>5, <2>6
<1>4. ASSUME NEW x \in assignment'  PROVE x \in assignment \/ x.link = None
  <2>1. PICK y \in assignment : x = IF y.link = q.a THEN [y EXCEPT !.link = None] ELSE y
    BY <1>1 DEF Remaining
  <2>2. QED
    BY <2>1 DEF TypeOK, Assignment
<1>5. \A a \in Assessments :
        assessment[a].status # "unborn" => assessment'[a].status # "unborn"
  BY DEF RemoveCommit, NoAssessment, TypeOK
<1>6. Steady
  <2>1. ASSUME NEW s \in Requests, req'[s] = req[s], NEW x \in req[s].rows
        PROVE  s # r
    BY <1>2, <2>1
  <2>2. QED
    BY <1>1, <1>2, <1>3, <1>4, <1>5, <2>1 DEF Steady
<1>7. QED
  BY <1>6, SteadySerial

LEMMA SerialNext ==
  ASSUME IInv, RemovalsAreSerial, [Next]_vars
  PROVE  RemovalsAreSerial'
<1> USE DEF IInv
<1>1. ASSUME NEW t \in Tasks, NEW U \in SUBSET Users, AssignTask(t, U)
      PROVE  RemovalsAreSerial'
  <2>1. ASSUME NEW x \in assignment'  PROVE x \in assignment \/ x.link = None
    BY <1>1, BatchRows DEF AssignTask, InsertTask
  <2>2. assignment \subseteq assignment' /\ UNCHANGED <<assessment, req, crossed>>
    BY <1>1 DEF AssignTask, InsertTask
  <2>3. Sends(t) /\ Adds(t)
    BY <2>1, <2>2 DEF Sends, Adds
  <2>4. QED
    BY <2>3, Quiet
<1>2. ASSUME NEW t \in Tasks, NEW verdict \in {"approved", "declined"},
             DecideTask(t, verdict)
      PROVE  RemovalsAreSerial'
  <2>1. UNCHANGED <<assignment, assessment, req, crossed>>
    BY <1>2 DEF DecideTask
  <2>2. QED
    BY <2>1, AddsNothing, Quiet DEF Sends
<1>3. ASSUME NEW t \in Tasks, AddComment(t)  PROVE RemovalsAreSerial'
  <2>1. UNCHANGED <<assignment, assessment, req, crossed>>
    BY <1>3 DEF AddComment
  <2>2. QED
    BY <2>1, AddsNothing, Quiet DEF Sends
<1>4. ASSUME NEW a \in Assessments, Review(a)  PROVE RemovalsAreSerial'
  <2>1. UNCHANGED <<assignment, req, crossed>>
    BY <1>4 DEF Review
  <2>2. /\ assessment'[a].status # "unborn"
        /\ \A b \in Assessments : b # a => assessment'[b] = assessment[b]
    BY <1>4 DEF Review, TypeOK, Assessment
  <2>3. Sends(a) /\ Adds(a)
    BY <2>1, <2>2 DEF Sends, Adds
  <2>4. QED
    BY <2>3, Quiet
<1>5. ASSUME NEW r \in Requests, Arrive(r)  PROVE RemovalsAreSerial'
  <2>1. \E q : /\ req' = [req EXCEPT ![r] = q] /\ q.rows = {}
               /\ q.pc \notin {"remove.rows"} \cup Deleting /\ ~ Holds(q)
    <3> DEFINE Quietly(q) == /\ req' = [req EXCEPT ![r] = q] /\ q.rows = {}
                             /\ q.pc \notin {"remove.rows"} \cup Deleting /\ ~ Holds(q)
    <3> USE DEF Idle, Deleting, Holds
    <3>1. ASSUME NEW p \in Periods, NEW u \in Users, CreateRead(r, p, u)
          PROVE  Quietly([Idle EXCEPT !.pc = "create.insert", !.u = u, !.p = p])
      BY <3>1 DEF CreateRead
    <3>2. ASSUME NEW x \in assignment, StartRead(r, x)
          PROVE  Quietly([Idle EXCEPT !.pc = "start.insert", !.t = x.task, !.u = x.user,
                                      !.on = x.batch])
      BY <3>2 DEF StartRead
    <3>3. ASSUME NEW t \in Tasks, NEW U \in SUBSET Users, ReplaceRead(r, t, U)
          PROVE  Quietly([Idle EXCEPT !.pc = "replace.delete", !.t = t, !.to = U])
      BY <3>3 DEF ReplaceRead
    <3>4. ASSUME NEW t \in Tasks, DropRead(r, t)
          PROVE  Quietly([Idle EXCEPT !.pc = "drop.comments", !.t = t])
      BY <3>4 DEF DropRead
    <3>5. ASSUME NEW a \in Assessments, RemoveRead(r, a)
          PROVE  Quietly([Idle EXCEPT !.pc = "remove.find", !.a = a])
      BY <3>5 DEF RemoveRead
    <3> HIDE DEF Quietly
    <3>6. \E q : Quietly(q)
      BY <1>5, <3>1, <3>2, <3>3, <3>4, <3>5 DEF Arrive
    <3>7. QED
      BY <3>6 DEF Quietly
  <2>2. UNCHANGED <<assignment, assessment, crossed>>
    BY <1>5 DEF Arrive, CreateRead, StartRead, ReplaceRead, DropRead, RemoveRead
  <2>3. Sends(r)
    BY <2>1 DEF Sends
  <2>4. QED
    BY <2>2, <2>3, AddsNothing, Quiet
<1>6. ASSUME NEW r \in Requests, Proceed(r)  PROVE RemovalsAreSerial'
  BY <1>6, SerialProceed, SerialRemove, SerialCommit
<1>7. ASSUME NEW r \in Requests, Fail(r)  PROVE RemovalsAreSerial'
  <2>1. UNCHANGED <<assignment, assessment, crossed>> /\ Done(r)
    BY <1>7 DEF Fail
  <2>2. QED
    BY <2>1, Ending, AddsNothing, Quiet
<1>8. ASSUME UNCHANGED vars  PROVE RemovalsAreSerial'
  <2>1. UNCHANGED <<assignment, assessment, req, crossed>>
    BY <1>8 DEF vars
  <2>2. QED
    BY <2>1, AddsNothing, Quiet DEF Sends
<1>9. QED
  BY <1>1, <1>2, <1>3, <1>4, <1>5, <1>6, <1>7, <1>8 DEF Next

-----------------------------------------------------------------------------
(* The dashboard: tasks without assignees                                  *)

\* A deleteTask or a reassignment whose rows are gone and whose end is not here.
Between(q) == q.pc \in {"replace.create", "drop.task"}

Explained(t) ==
  (TaskLive(t) /\ RowsOf(t) = {}) =>
    \/ failed \/ t \in emptied \/ t \in crossed
    \/ \E r \in Requests : req[r].t = t /\ Between(req[r])

\* A step that takes nothing from task t which explains it.
Spared(t) ==
  /\ TaskLive(t)' => TaskLive(t)
  /\ RowsOf(t) # {} => RowsOf(t)' # {}
  /\ failed => failed'
  /\ t \in emptied => t \in emptied'
  /\ t \in crossed => t \in crossed'
  /\ \A r \in Requests : (req[r].t = t /\ Between(req[r])) => req'[r] = req[r]

LEMMA SparedIsExplained ==
  ASSUME NEW t \in Tasks, Explained(t), Spared(t)  PROVE Explained(t)'
BY DEF Explained, Spared

\* The rest of the table when one row of it is written.
LEMMA OtherSlots ==
  ASSUME TypeOK, NEW r \in Requests, NEW q, req' = [req EXCEPT ![r] = q]
  PROVE  req'[r] = q /\ \A s \in Requests : s # r => req'[s] = req[s]
BY DEF TypeOK

LEMMA SameRows ==
  ASSUME NEW t, \A x \in assignment : x.task = t => \E y \in assignment' : y.task = t
  PROVE  RowsOf(t) # {} => RowsOf(t)' # {}
BY DEF RowsOf

\* A new task has the assignees it was made with.
LEMMA InsertedIsExplained ==
  ASSUME IInv, NEW t \in Tasks, NEW b \in Tasks, NEW status, NEW U \in SUBSET Users, NEW a,
         U # {}, InsertTask(b, status, U, a), Explained(t),
         failed' = failed, emptied' = emptied, crossed' = crossed,
         \A r \in Requests : Between(req[r]) => req'[r] = req[r]
  PROVE  Explained(t)'
<1>1. CASE t = b
  <2>1. PICK u \in U : TRUE
    OBVIOUS
  <2>2. PICK x : x = [task |-> b, user |-> u, batch |-> task[b].batches, link |-> a]
    OBVIOUS
  <2>3. x \in assignment' /\ x.task = t
    BY <1>1, <2>1, <2>2 DEF InsertTask, Batch
  <2>4. QED
    BY <2>3 DEF Explained, RowsOf
<1>2. CASE t # b
  <2>1. TaskLive(t)' => TaskLive(t)
    BY <1>2 DEF InsertTask, TaskLive, IInv, TypeOK
  <2>2. RowsOf(t) # {} => RowsOf(t)' # {}
    BY DEF InsertTask, RowsOf
  <2>3. QED
    BY <2>1, <2>2, SparedIsExplained DEF Spared
<1>3. QED
  BY <1>1, <1>2

LEMMA ExplainedProceed ==
  ASSUME IInv, RemovalsAreSerial, NEW r \in Requests, Proceed(r), NEW t \in Tasks, Explained(t)
  PROVE  Explained(t)'
<1> DEFINE q == req[r]
           Elsewhere == \A s \in Requests : s # r => req'[s] = req[s]
<1> USE DEF IInv
<1>1. ASSUME NEW a \in Assessments, CreateInsert(r, a)  PROVE Explained(t)'
  <2>1. Elsewhere /\ ~ Between(q)
    BY <1>1 DEF CreateInsert, Between, TypeOK
  <2>2. QED
    BY <1>1, <2>1, SparedIsExplained DEF CreateInsert, Spared, TaskLive, RowsOf
<1>2. ASSUME NEW b \in Tasks, CreateTask(r, b)  PROVE Explained(t)'
  <2>1. Elsewhere /\ ~ Between(q) /\ q.u \in Users
    BY <1>2, InFlight DEF CreateTask, Done, Between, TypeOK, ByUser
  <2>2. QED
    BY <1>2, <2>1, InsertedIsExplained DEF CreateTask
<1>3. ASSUME NEW a \in Assessments, NEW p \in Periods, StartInsert(r, a, p)
      PROVE  Explained(t)'
  <2>1. Elsewhere /\ ~ Between(q)
    BY <1>3 DEF StartInsert, Between, TypeOK
  <2>2. QED
    BY <1>3, <2>1, SparedIsExplained DEF StartInsert, Spared, TaskLive, RowsOf
<1>4. ASSUME StartLink(r)  PROVE Explained(t)'
  <2>1. Elsewhere /\ ~ Between(q)
    BY <1>4 DEF StartLink, Between, TypeOK
  <2>2. ASSUME NEW x \in assignment  PROVE \E y \in assignment' : y.task = x.task
    <3>1. CASE x \notin Found(r)
      BY <1>4, <3>1 DEF StartLink
    <3>2. CASE x \in Found(r)
      <4>1. [x EXCEPT !.link = q.a] \in assignment'
        BY <1>4, <3>2 DEF StartLink
      <4>2. [x EXCEPT !.link = q.a].task = x.task
        BY DEF TypeOK, Assignment
      <4>3. QED
        BY <4>1, <4>2
    <3>3. QED
      BY <3>1, <3>2
  <2>3. RowsOf(t) # {} => RowsOf(t)' # {}
    BY <2>2, SameRows
  <2>4. QED
    BY <1>4, <2>1, <2>3, SparedIsExplained DEF StartLink, Spared, TaskLive
<1>5. ASSUME StartStatus(r) \/ DropComments(r)  PROVE Explained(t)'
  <2>1. Elsewhere /\ ~ Between(q) /\ q.t \in Tasks
    BY <1>5, InFlight DEF StartStatus, DropComments, Done, Between, TypeOK, OnTask
  <2>2. TaskLive(t)' => TaskLive(t)
    BY <1>5, <2>1 DEF StartStatus, DropComments, TaskLive, TypeOK, Task
  <2>3. QED
    BY <1>5, <2>1, <2>2, SparedIsExplained DEF StartStatus, DropComments, Spared, RowsOf
<1>6. ASSUME ReplaceDelete(r) \/ DropAssignments(r)  PROVE Explained(t)'
  <2>1. q \in Pending /\ ~ Between(q)
    BY <1>6, InFlight DEF ReplaceDelete, DropAssignments, Between
  <2>2. Elsewhere /\ req'[r].t = q.t /\ Between(req'[r])
    BY <1>6, <2>1 DEF ReplaceDelete, DropAssignments, Between, TypeOK, Pending
  <2>3. CASE t = q.t
    BY <2>2, <2>3 DEF Explained
  <2>4. CASE t # q.t
    <3>1. RowsOf(t) # {} => RowsOf(t)' # {}
      BY <1>6, <2>4 DEF ReplaceDelete, DropAssignments, DeleteRows, RowsOf
    <3>2. QED
      BY <1>6, <2>1, <2>2, <3>1, SparedIsExplained
      DEF ReplaceDelete, DropAssignments, Spared, TaskLive
  <2>5. QED
    BY <2>3, <2>4
<1>7. ASSUME ReplaceCreate(r)  PROVE Explained(t)'
  <2>1. q.t \in Tasks /\ Elsewhere
    BY <1>7, InFlight DEF ReplaceCreate, OnTask, Done, TypeOK
  <2>2. CASE t # q.t
    BY <1>7, <2>1, <2>2, SparedIsExplained
    DEF ReplaceCreate, Spared, TaskLive, RowsOf, TypeOK
  <2>3. CASE t = q.t /\ q.to = {}
    BY <1>7, <2>3 DEF ReplaceCreate, Explained
  <2>4. CASE t = q.t /\ q.to # {}
    <3>1. PICK u \in q.to : TRUE
      BY <2>4
    <3>2. PICK x : x = [task |-> t, user |-> u, batch |-> task[t].batches, link |-> None]
      OBVIOUS
    <3>3. x \in assignment' /\ x.task = t
      BY <1>7, <2>4, <3>1, <3>2 DEF ReplaceCreate, Batch
    <3>4. QED
      BY <3>3 DEF Explained, RowsOf
  <2>5. QED
    BY <2>2, <2>3, <2>4
<1>8. ASSUME DropTask(r)  PROVE Explained(t)'
  <2>1. q.t \in Tasks /\ Elsewhere
    BY <1>8, InFlight DEF DropTask, OnTask, Done, TypeOK
  <2>2. CASE t # q.t
    BY <1>8, <2>1, <2>2, SparedIsExplained DEF DropTask, Spared, TaskLive, RowsOf, TypeOK
  <2>3. CASE t = q.t
    BY <1>8, <2>1, <2>3 DEF DropTask, Explained, TaskLive, TaskStatus, RowsOf, TypeOK, Task
  <2>4. QED
    BY <2>2, <2>3
<1>9. ASSUME RemoveCommit(r)  PROVE Explained(t)'
  <2>1. Elsewhere /\ ~ Between(q)
    BY <1>9 DEF RemoveCommit, Done, Between, TypeOK
  <2>2. task'[t] = IF t \in q.tasks
                     THEN [task[t] EXCEPT !.status = "deleted", !.commented = FALSE]
                     ELSE task[t]
    BY <1>9 DEF RemoveCommit
  <2>3. CASE t \in q.tasks
    <3>1. task'[t].status = "deleted"
      BY <2>2, <2>3 DEF TypeOK, Task
    <3>2. QED
      BY <3>1 DEF Explained, TaskLive, TaskStatus
  <2>4. CASE t \notin q.tasks /\ \E x \in RowsOf(t) : x \notin q.rows
    <3>1. PICK x \in assignment : x.task = t /\ x \notin q.rows
      BY <2>4 DEF RowsOf
    <3> DEFINE y == IF x.link = q.a THEN [x EXCEPT !.link = None] ELSE x
    <3>2. y \in assignment'
      BY <1>9, <3>1 DEF RemoveCommit, Remaining
    <3>3. y.task = t
      BY <3>1 DEF TypeOK, Assignment
    <3> HIDE DEF y
    <3>4. RowsOf(t)' # {}
      BY <3>2, <3>3 DEF RowsOf
    <3>5. QED
      BY <3>4 DEF Explained
  <2>5. CASE t \notin q.tasks /\ RowsOf(t) # {} /\ RowsOf(t) \subseteq q.rows
    <3>1. PICK x \in RowsOf(t) : x \in q.rows /\ x.task = t
      BY <2>5 DEF RowsOf
    <3>2. t \in crossed
      <4>1. q.pc = "remove.commit" /\ Serial(r)
        BY <1>9, SerialParts DEF RemoveCommit
      <4>2. x.task \in q.tasks \cup crossed \/ RowsOf(x.task) \ q.rows # {}
        BY <3>1, <4>1 DEF Serial
      <4>3. QED
        BY <2>5, <3>1, <4>2
    <3>3. QED
      BY <1>9, <3>2 DEF RemoveCommit, Explained
  <2>6. CASE t \notin q.tasks /\ RowsOf(t) = {}
    BY <1>9, <2>1, <2>2, <2>6, SparedIsExplained DEF RemoveCommit, Spared, TaskLive
  <2>7. QED
    BY <2>3, <2>4, <2>5, <2>6
<1>10. ASSUME RowGone(r)  PROVE Explained(t)'
  <2>1. Elsewhere /\ (Between(q) => ~ TaskLive(q.t))
    BY <1>10 DEF RowGone, Done, Between, TypeOK
  <2>2. CASE TaskLive(t)
    BY <1>10, <2>1, <2>2, SparedIsExplained DEF RowGone, Spared, TaskLive, RowsOf
  <2>3. CASE ~ TaskLive(t)
    BY <1>10, <2>3 DEF RowGone, Explained, TaskLive
  <2>4. QED
    BY <2>2, <2>3
<1>11. ASSUME RemoveFind(r) \/ RemoveRows(r) \/ RemoveGroup(r) \/ RemoveRefused(r)
       PROVE  Explained(t)'
  <2>1. Elsewhere /\ ~ Between(q)
    BY <1>11 DEF RemoveFind, RemoveRows, RemoveGroup, RemoveRefused, Done, Between, TypeOK
  <2>2. UNCHANGED <<task, assignment, failed, emptied>> /\ crossed \subseteq crossed'
    BY <1>11 DEF RemoveFind, RemoveRows, RemoveGroup, RemoveRefused
  <2>3. QED
    BY <2>1, <2>2, SparedIsExplained DEF Spared, TaskLive, RowsOf
<1>12. QED
  BY <1>1, <1>2, <1>3, <1>4, <1>5, <1>6, <1>7, <1>8, <1>9, <1>10, <1>11 DEF Proceed

LEMMA ExplainedNext ==
  ASSUME IInv, RemovalsAreSerial, [Next]_vars, NEW t \in Tasks, Explained(t)
  PROVE  Explained(t)'
<1> USE DEF IInv
<1>1. ASSUME NEW b \in Tasks, NEW U \in SUBSET Users, AssignTask(b, U)  PROVE Explained(t)'
  BY <1>1, InsertedIsExplained DEF AssignTask
<1>2. ASSUME NEW b \in Tasks, NEW verdict \in {"approved", "declined"},
             DecideTask(b, verdict) \/ AddComment(b)
      PROVE  Explained(t)'
  <2>1. TaskLive(t)' => TaskLive(t)
    BY <1>2 DEF DecideTask, AddComment, TaskLive, TypeOK, Task
  <2>2. QED
    BY <1>2, <2>1, SparedIsExplained DEF DecideTask, AddComment, Spared, RowsOf
<1>3. ASSUME NEW a \in Assessments, Review(a)  PROVE Explained(t)'
  BY <1>3, SparedIsExplained DEF Review, Spared, RowsOf, TaskLive
<1>4. ASSUME NEW r \in Requests, Arrive(r)  PROVE Explained(t)'
  <2>1. /\ UNCHANGED <<task, assignment, failed, emptied, crossed>> /\ req[r] = Idle
        /\ \A s \in Requests : s # r => req'[s] = req[s]
    BY <1>4 DEF Arrive, CreateRead, StartRead, ReplaceRead, DropRead, RemoveRead, TypeOK
  <2>2. QED
    BY <2>1, SparedIsExplained DEF Spared, RowsOf, TaskLive, Between, Idle
<1>5. ASSUME NEW r \in Requests, Fail(r)  PROVE Explained(t)'
  BY <1>5 DEF Fail, Explained
<1>6. ASSUME NEW r \in Requests, Proceed(r)  PROVE Explained(t)'
  BY <1>6, ExplainedProceed
<1>7. ASSUME UNCHANGED vars  PROVE Explained(t)'
  BY <1>7, SparedIsExplained DEF vars, Spared, RowsOf, TaskLive
<1>8. ASSUME NEW b \in Tasks, AddComment(b)  PROVE Explained(t)'
  BY <1>2, <1>8
<1>9. QED
  BY <1>1, <1>2, <1>3, <1>4, <1>5, <1>6, <1>7, <1>8 DEF Next

-----------------------------------------------------------------------------
(* The dashboard: the assessments of createAssessment                      *)

Starts == {"start.insert", "start.link"}

\* What StartSparesForms says of one request.
Spares(r) ==
  req[r].pc \in Starts =>
    /\ req[r].on < task[req[r].t].batches
    /\ \A x \in assignment :
         (x.task = req[r].t /\ x.user = req[r].u /\ x.batch = req[r].on /\ x.link # None)
           => ~ assessment[x.link].form
    /\ req[r].pc = "start.link" => ~ assessment[req[r].a].form

LEMMA SparesForms == StartSparesForms <=> \A r \in Requests : Spares(r)
BY DEF StartSparesForms, Spares, Starts, Found

\* Tasks count their batches up; an assessment becomes one of createAssessment
\* only when inserted; and a link to one is written only in a new batch.
FormsAreNew ==
  /\ \A t \in Tasks : task[t].batches <= task'[t].batches
  /\ \A a \in Assessments :
       assessment'[a].form => assessment[a].form \/ assessment[a].status = "unborn"
  /\ \A x \in assignment' :
       \/ x \in assignment
       \/ x.batch = task[x.task].batches
       \/ x.link # None => ~ assessment'[x.link].form

\* A request that stays with its row, or was not in flight.
Carried(r) ==
  req'[r].pc \in Starts =>
    /\ req[r].pc \in Starts
    /\ req'[r].t = req[r].t /\ req'[r].u = req[r].u /\ req'[r].on = req[r].on
    /\ req'[r].pc = "start.link" =>
         ~ assessment'[req'[r].a].form \/ req'[r] = req[r]

LEMMA CarriedSpares ==
  ASSUME IInv, TypeOK', NEW r \in Requests, Spares(r), FormsAreNew, Carried(r)
  PROVE  Spares(r)'
<1> USE DEF IInv
<1> SUFFICES ASSUME req'[r].pc \in Starts
             PROVE  /\ req'[r].on < task'[req'[r].t].batches
                    /\ \A x \in assignment' :
                         (/\ x.task = req'[r].t /\ x.user = req'[r].u
                          /\ x.batch = req'[r].on /\ x.link # None)
                           => ~ assessment'[x.link].form
                    /\ req'[r].pc = "start.link" => ~ assessment'[req'[r].a].form
  BY DEF Spares
<1> DEFINE q == req[r]
<1>1. /\ q.pc \in Starts /\ q \in Pending /\ q.t \in Tasks
      /\ req'[r].t = q.t /\ req'[r].u = q.u /\ req'[r].on = q.on
  BY InFlight DEF Carried, Starts, OnTask
<1>2. q.on \in Nat /\ task[q.t].batches \in Nat /\ q.on < task[q.t].batches
  BY <1>1, TaskConstants DEF Spares, Pending, TypeOK, Task
<1>3. q.on < task'[q.t].batches
  <2>1. task[q.t].batches <= task'[q.t].batches
    BY <1>1 DEF FormsAreNew
  <2>2. task'[q.t].batches \in Nat
    BY <1>1, TaskConstants DEF TypeOK, Task
  <2>3. QED
    BY <1>2, <2>1, <2>2
<1>4. ASSUME NEW x \in assignment', x.task = q.t, x.user = q.u, x.batch = q.on,
             x.link # None
      PROVE  ~ assessment'[x.link].form
  <2>1. CASE x \in assignment
    <3>1. x.link \in Assessments /\ AssessmentLive(x.link)
      BY <1>4, <2>1 DEF NothingDangles, TypeOK, Assignment
    <3>2. ~ assessment[x.link].form
      BY <1>1, <1>4, <2>1 DEF Spares
    <3>3. QED
      BY <3>1, <3>2 DEF FormsAreNew, AssessmentLive
  <2>2. x.batch # task[x.task].batches
    BY <1>2, <1>4
  <2>3. QED
    BY <1>4, <2>1, <2>2 DEF FormsAreNew
<1>5. ASSUME req'[r].pc = "start.link", req'[r] = q  PROVE ~ assessment'[q.a].form
  <2>1. q.a \in Assessments /\ assessment[q.a].status # "unborn"
    BY <1>1, <1>5, InFlight DEF HeldIsFresh, Holds, OnAssessment, Starts
  <2>2. ~ assessment[q.a].form
    BY <1>1, <1>5 DEF Spares
  <2>3. QED
    BY <2>1, <2>2 DEF FormsAreNew
<1>6. QED
  BY <1>1, <1>3, <1>4, <1>5 DEF Carried

\* Steps that insert no assessment and write no link.
LEMMA FormsKept ==
  ASSUME TypeOK, TypeOK', \A a \in Assessments : assessment'[a].form => assessment[a].form,
         \A x \in assignment' : x \in assignment \/ x.link = None,
         \A t \in Tasks : task'[t].batches = task[t].batches
  PROVE  FormsAreNew
BY TaskConstants DEF FormsAreNew, TypeOK, Task

LEMMA FormsBatched ==
  ASSUME TypeOK, TypeOK', assessment' = assessment,
         NEW b \in Tasks, NEW U \in SUBSET Users, NEW a, Batched(b, U, a)
  PROVE  FormsAreNew
<1>1. ASSUME NEW t \in Tasks  PROVE task[t].batches <= task'[t].batches
  BY TaskConstants DEF Batched, TypeOK, Task
<1>2. ASSUME NEW x \in assignment'
      PROVE  x \in assignment \/ x.batch = task[x.task].batches
  BY BatchRows DEF Batched
<1>3. QED
  BY <1>1, <1>2 DEF FormsAreNew

LEMMA FormsInserted ==
  ASSUME TypeOK, TypeOK', UNCHANGED <<task, assignment>>,
         NEW a \in Assessments, NEW p, NEW u, NEW form, InsertAssessment(a, p, u, form)
  PROVE  FormsAreNew /\ assessment'[a].form = form
BY TaskConstants DEF FormsAreNew, InsertAssessment, TypeOK, Task

\* A request that ends is none of startTask's any more.
LEMMA EndedIsCarried ==
  ASSUME TypeOK, NEW r \in Requests, NEW q, req' = [req EXCEPT ![r] = q],
         q.pc \notin Starts, NEW s \in Requests
  PROVE  Carried(s)
BY DEF TypeOK, Carried

LEMMA DoneIsCarried ==
  ASSUME TypeOK, NEW r \in Requests, Done(r), NEW s \in Requests
  PROVE  Carried(s)
BY EndedIsCarried DEF Done, Idle, Starts

LEMMA SparesProceed ==
  ASSUME IInv, TypeOK', StartSparesForms, NEW r \in Requests, Proceed(r),
         NEW s \in Requests
  PROVE  FormsAreNew /\ Carried(s)
<1> DEFINE q == req[r]
           Goal == FormsAreNew /\ Carried(s)
<1> USE DEF IInv
<1>1. ASSUME NEW a \in Assessments, CreateInsert(r, a)  PROVE Goal
  <2>1. q \in Pending
    BY <1>1, InFlight DEF CreateInsert
  <2>2. [q EXCEPT !.pc = "create.task", !.a = a].pc \notin Starts
    BY <2>1 DEF Pending, Starts
  <2>3. req' = [req EXCEPT ![r] = [q EXCEPT !.pc = "create.task", !.a = a]]
    BY <1>1 DEF CreateInsert, TypeOK
  <2>4. Carried(s)
    BY <2>2, <2>3, EndedIsCarried
  <2>5. QED
    BY <1>1, <2>4, FormsInserted DEF CreateInsert
<1>2. ASSUME NEW b \in Tasks, CreateTask(r, b)  PROVE Goal
  <2>1. q.u \in Users
    BY <1>2, InFlight DEF CreateTask, ByUser
  <2>2. Batched(b, {q.u}, q.a)
    BY <1>2 DEF CreateTask, InsertTask, Batched, RowsAreNumbered, TypeOK, Task, TaskStatus
  <2>3. QED
    BY <1>2, <2>1, <2>2, FormsBatched, DoneIsCarried DEF CreateTask
<1>3. ASSUME NEW a \in Assessments, NEW p \in Periods, StartInsert(r, a, p)  PROVE Goal
  <2>1. q \in Pending
    BY <1>3, InFlight DEF StartInsert
  <2>2. FormsAreNew /\ assessment'[a].form = FALSE
    BY <1>3, FormsInserted DEF StartInsert
  <2>3. CASE s = r
    BY <1>3, <2>1, <2>2, <2>3 DEF StartInsert, Carried, Starts, TypeOK, Pending
  <2>4. CASE s # r
    <3>1. req'[s] = req[s]
      BY <1>3, <2>4 DEF StartInsert, TypeOK
    <3>2. QED
      BY <2>2, <3>1 DEF Carried
  <2>5. QED
    BY <2>2, <2>3, <2>4
<1>4. ASSUME StartLink(r)  PROVE Goal
  <2>1. q \in Pending
    BY <1>4, InFlight DEF StartLink
  <2>2. [q EXCEPT !.pc = "start.status"].pc \notin Starts
    BY <2>1 DEF Pending, Starts
  <2>3. ~ assessment[q.a].form
    BY <1>4 DEF StartLink, StartSparesForms
  <2>4. ASSUME NEW x \in assignment'
        PROVE  x \in assignment \/ (x.link # None => ~ assessment'[x.link].form)
    <3>1. CASE x \notin assignment
      <4>1. PICK y \in Found(r) : x = [y EXCEPT !.link = q.a]
        BY <1>4, <3>1 DEF StartLink
      <4>2. x.link = q.a
        BY <4>1 DEF Found, TypeOK, Assignment
      <4>3. QED
        BY <1>4, <2>3, <4>2 DEF StartLink
    <3>2. QED
      BY <3>1
  <2>5. FormsAreNew
    BY <1>4, <2>4, TaskConstants DEF StartLink, FormsAreNew, TypeOK, Task
  <2>6. QED
    BY <1>4, <2>2, <2>5, EndedIsCarried DEF StartLink
<1>5. ASSUME StartStatus(r) \/ DropComments(r) \/ DropTask(r)  PROVE Goal
  <2>1. q.t \in Tasks /\ q \in Pending
    BY <1>5, InFlight DEF StartStatus, DropComments, DropTask, OnTask
  <2>2. /\ assessment' = assessment /\ assignment' = assignment
        /\ \A t \in Tasks : task'[t].batches = task[t].batches
    BY <1>5, <2>1 DEF StartStatus, DropComments, DropTask, TypeOK, Task
  <2>3. [q EXCEPT !.pc = "drop.assignments"].pc \notin Starts
    BY <2>1 DEF Pending, Starts
  <2>4. Carried(s)
    BY <1>5, <2>3, EndedIsCarried, DoneIsCarried DEF StartStatus, DropComments, DropTask
  <2>5. QED
    BY <2>2, <2>4, FormsKept
<1>6. ASSUME ReplaceDelete(r) \/ DropAssignments(r)  PROVE Goal
  <2>1. q \in Pending
    BY <1>6, InFlight DEF ReplaceDelete, DropAssignments
  <2>2. FormsAreNew
    BY <1>6, FormsKept DEF ReplaceDelete, DropAssignments, DeleteRows
  <2>3. /\ [q EXCEPT !.pc = "replace.create"].pc \notin Starts
        /\ [q EXCEPT !.pc = "drop.task"].pc \notin Starts
    BY <2>1 DEF Pending, Starts
  <2>4. QED
    BY <1>6, <2>2, <2>3, EndedIsCarried DEF ReplaceDelete, DropAssignments
<1>7. ASSUME ReplaceCreate(r)  PROVE Goal
  <2>1. q.t \in Tasks /\ q.to \in SUBSET Users
    BY <1>7, InFlight DEF ReplaceCreate, OnTask, Pending
  <2>2. Batched(q.t, q.to, None)
    BY <1>7, <2>1 DEF ReplaceCreate, Batched, TaskLive, TypeOK, Task, TaskStatus
  <2>3. QED
    BY <1>7, <2>1, <2>2, FormsBatched, DoneIsCarried DEF ReplaceCreate
<1>8. ASSUME RemoveCommit(r)  PROVE Goal
  <2>1. q.a \in Assessments
    BY <1>8, InFlight DEF RemoveCommit, OnAssessment, Removal
  <2>2. ASSUME NEW t \in Tasks  PROVE task'[t].batches = task[t].batches
    <3>1. task'[t] = IF t \in q.tasks
                       THEN [task[t] EXCEPT !.status = "deleted", !.commented = FALSE]
                       ELSE task[t]
      BY <1>8 DEF RemoveCommit
    <3>2. QED
      BY <3>1 DEF TypeOK, Task
  <2>3. ASSUME NEW a \in Assessments, assessment'[a].form  PROVE assessment[a].form
    BY <1>8, <2>1, <2>3 DEF RemoveCommit, NoAssessment, TypeOK
  <2>4. ASSUME NEW x \in assignment'  PROVE x \in assignment \/ x.link = None
    <3>1. PICK y \in assignment :
            x = IF y.link = q.a THEN [y EXCEPT !.link = None] ELSE y
      BY <1>8 DEF RemoveCommit, Remaining
    <3>2. QED
      BY <3>1 DEF TypeOK, Assignment
  <2>5. FormsAreNew
    BY <2>2, <2>3, <2>4, FormsKept
  <2>6. QED
    BY <1>8, <2>5, DoneIsCarried DEF RemoveCommit
<1>9. ASSUME RowGone(r) \/ RemoveRefused(r)  PROVE Goal
  BY <1>9, FormsKept, DoneIsCarried DEF RowGone, RemoveRefused
<1>10. ASSUME RemoveFind(r) \/ RemoveRows(r) \/ RemoveGroup(r)  PROVE Goal
  <2>1. UNCHANGED <<task, assignment, assessment>>
    BY <1>10 DEF RemoveFind, RemoveRows, RemoveGroup
  <2>2. \E new : req' = [req EXCEPT ![r] = new] /\ new.pc \notin Starts
    BY <1>10, Removes DEF Removal, Starts
  <2>3. QED
    BY <2>1, <2>2, FormsKept, EndedIsCarried
<1>11. QED
  BY <1>1, <1>2, <1>3, <1>4, <1>5, <1>6, <1>7, <1>8, <1>9, <1>10 DEF Proceed

\* startTask's read: a row without a link, the only one with its numbers.
LEMMA SparesStart ==
  ASSUME IInv, NEW r \in Requests, NEW x \in assignment, StartRead(r, x)
  PROVE  Spares(r)'
<1> USE DEF IInv
<1>1. /\ req'[r].pc = "start.insert" /\ req'[r].t = x.task /\ req'[r].u = x.user
      /\ req'[r].on = x.batch /\ x.link = None
      /\ UNCHANGED <<task, assignment, assessment>>
  BY DEF StartRead, TypeOK, Idle
<1>2. x.batch < task[x.task].batches
  BY DEF RowsAreNumbered
<1>3. ASSUME NEW y \in assignment, y.task = x.task, y.user = x.user, y.batch = x.batch
      PROVE  y = x
  BY <1>3 DEF RowsAreNumbered
<1>4. QED
  BY <1>1, <1>2, <1>3 DEF Spares

LEMMA SparesNext ==
  ASSUME IInv, TypeOK', StartSparesForms, [Next]_vars
  PROVE  StartSparesForms'
<1> SUFFICES ASSUME NEW s \in Requests  PROVE Spares(s)'
  BY DEF StartSparesForms, Spares, Starts, Found
<1>0. Spares(s)
  BY SparesForms
<1> DEFINE Goal == FormsAreNew /\ Carried(s)
<1> USE DEF IInv
<1>1. ASSUME NEW b \in Tasks, NEW U \in SUBSET Users, AssignTask(b, U)  PROVE Goal
  <2>1. Batched(b, U, None)
    BY <1>1 DEF AssignTask, InsertTask, Batched, RowsAreNumbered, TypeOK, Task, TaskStatus
  <2>2. QED
    BY <1>1, <2>1, FormsBatched DEF AssignTask, Carried
<1>2. ASSUME NEW b \in Tasks, NEW verdict \in {"approved", "declined"},
             DecideTask(b, verdict) \/ AddComment(b)
      PROVE  Goal
  <2>1. \A t \in Tasks : task'[t].batches = task[t].batches
    BY <1>2 DEF DecideTask, AddComment, TypeOK, Task
  <2>2. QED
    BY <1>2, <2>1, FormsKept DEF DecideTask, AddComment, Carried
<1>3. ASSUME NEW b \in Tasks, AddComment(b)  PROVE Goal
  BY <1>2, <1>3
<1>4. ASSUME NEW a \in Assessments, Review(a)  PROVE Goal
  <2>1. \A b \in Assessments : assessment'[b].form = assessment[b].form
    BY <1>4 DEF Review, TypeOK, Assessment
  <2>2. QED
    BY <1>4, <2>1, TaskConstants DEF Review, FormsAreNew, Carried, TypeOK, Task
<1>5. ASSUME NEW r \in Requests, Arrive(r), ~ \E x \in assignment : StartRead(r, x)
      PROVE  Goal
  <2>1. UNCHANGED <<task, assignment, assessment>>
    BY <1>5 DEF Arrive, CreateRead, ReplaceRead, DropRead, RemoveRead
  <2>2. Carried(s)
    BY <1>5, EndedIsCarried
    DEF Arrive, CreateRead, ReplaceRead, DropRead, RemoveRead, Idle, Starts
  <2>3. QED
    BY <2>1, <2>2, FormsKept
<1>6. ASSUME NEW r \in Requests, NEW x \in assignment, StartRead(r, x)  PROVE Spares(s)'
  <2>1. CASE s = r
    BY <1>6, <2>1, SparesStart
  <2>2. CASE s # r
    BY <1>0, <1>6, <2>2 DEF StartRead, Spares, TypeOK
  <2>3. QED
    BY <2>1, <2>2
<1>7. ASSUME NEW r \in Requests, Fail(r) \/ Proceed(r)  PROVE Goal
  BY <1>7, SparesProceed, FormsKept, DoneIsCarried DEF Fail
<1>8. ASSUME UNCHANGED vars  PROVE Goal
  BY <1>8, FormsKept DEF vars, Carried
<1>9. Goal => Spares(s)'
  BY <1>0, CarriedSpares
<1> HIDE DEF Goal
<1>10. QED
  BY <1>1, <1>2, <1>3, <1>4, <1>5, <1>6, <1>7, <1>8, <1>9 DEF Next

\* What FormsStayOnBoard says of one assessment.
OnBoard(a) ==
  (AssessmentLive(a) /\ assessment[a].form) =>
    \/ LinksTo(a) # {}
    \/ failed \/ a \in unlinked
    \/ \E r \in Requests : req[r].pc = "create.task" /\ req[r].a = a

\* A step that takes nothing from assessment a which keeps it on the board.
StaysOn(a) ==
  /\ AssessmentLive(a)' => AssessmentLive(a) /\ assessment'[a].form = assessment[a].form
  /\ LinksTo(a) # {} => LinksTo(a)' # {} \/ a \in unlinked' \/ ~ assessment[a].form
  /\ failed => failed'
  /\ unlinked \subseteq unlinked'
  /\ \A r \in Requests : (req[r].pc = "create.task" /\ req[r].a = a) => req'[r] = req[r]

LEMMA StaysOnBoard ==
  ASSUME NEW a \in Assessments, OnBoard(a), StaysOn(a)  PROVE OnBoard(a)'
BY DEF OnBoard, StaysOn

\* A step of a handler takes an assessment off the board only to delete it or
\* to record it as unlinked; a startTask overwrites no link of it.
LEMMA OnBoardProceed ==
  ASSUME IInv, RemovalsAreSerial, StartSparesForms, NEW r \in Requests, Proceed(r),
         NEW a \in Assessments, OnBoard(a)
  PROVE  OnBoard(a)'
<1> DEFINE q == req[r]
           Elsewhere == \A s \in Requests : s # r => req'[s] = req[s]
<1> USE DEF IInv
<1>1. ASSUME NEW b \in Assessments, CreateInsert(r, b)  PROVE OnBoard(a)'
  <2>1. q \in Pending
    BY <1>1, InFlight DEF CreateInsert
  <2>2. /\ Elsewhere /\ q.pc # "create.task"
        /\ req'[r].pc = "create.task" /\ req'[r].a = b
    BY <1>1, <2>1 DEF CreateInsert, TypeOK, Pending
  <2>3. CASE a = b
    BY <2>2, <2>3 DEF OnBoard
  <2>4. CASE a # b
    <3>1. assessment'[a] = assessment[a]
      BY <1>1, <2>4 DEF CreateInsert, InsertAssessment, TypeOK
    <3>2. QED
      BY <1>1, <2>2, <3>1, StaysOnBoard DEF CreateInsert, StaysOn, AssessmentLive, LinksTo
  <2>5. QED
    BY <2>3, <2>4
<1>2. ASSUME NEW b \in Tasks, CreateTask(r, b)  PROVE OnBoard(a)'
  <2>1. Elsewhere /\ q.u \in Users /\ q.a \in Assessments
    BY <1>2, InFlight DEF CreateTask, Done, TypeOK, ByUser, OnAssessment
  <2>2. CASE a = q.a
    <3>1. PICK x : x = [task |-> b, user |-> q.u, batch |-> task[b].batches, link |-> a]
      OBVIOUS
    <3>2. x \in assignment' /\ x.link = a
      BY <1>2, <2>2, <3>1 DEF CreateTask, InsertTask, Batch
    <3>3. QED
      BY <3>2 DEF OnBoard, LinksTo
  <2>3. CASE a # q.a
    <3>1. assignment \subseteq assignment'
      BY <1>2 DEF CreateTask, InsertTask
    <3>2. QED
      BY <1>2, <2>1, <2>3, <3>1, StaysOnBoard DEF CreateTask, StaysOn, AssessmentLive, LinksTo
  <2>4. QED
    BY <2>2, <2>3
<1>3. ASSUME NEW b \in Assessments, NEW p \in Periods, StartInsert(r, b, p)
      PROVE  OnBoard(a)'
  <2>1. Elsewhere /\ q.pc # "create.task"
    BY <1>3 DEF StartInsert, TypeOK
  <2>2. CASE a = b
    BY <1>3, <2>2 DEF StartInsert, InsertAssessment, TypeOK, OnBoard
  <2>3. CASE a # b
    <3>1. assessment'[a] = assessment[a]
      BY <1>3, <2>3 DEF StartInsert, InsertAssessment, TypeOK
    <3>2. QED
      BY <1>3, <2>1, <3>1, StaysOnBoard DEF StartInsert, StaysOn, AssessmentLive, LinksTo
  <2>4. QED
    BY <2>2, <2>3
<1>4. ASSUME StartLink(r)  PROVE OnBoard(a)'
  <2>1. Elsewhere /\ q.pc = "start.link"
    BY <1>4 DEF StartLink, TypeOK
  <2>2. ASSUME assessment[a].form, NEW x \in assignment, x.link = a
        PROVE  x \in assignment'
    <3>1. a # None
      BY TaskConstants
    <3>2. x \notin Found(r)
      BY <2>1, <2>2, <3>1 DEF StartSparesForms
    <3>3. QED
      BY <1>4, <3>2 DEF StartLink
  <2>3. QED
    BY <1>4, <2>1, <2>2, StaysOnBoard DEF StartLink, StaysOn, AssessmentLive, LinksTo
<1>5. ASSUME StartStatus(r) \/ DropComments(r) \/ DropTask(r) \/ ReplaceCreate(r)
      PROVE  OnBoard(a)'
  <2>1. Elsewhere /\ q.pc # "create.task"
    BY <1>5 DEF StartStatus, DropComments, DropTask, ReplaceCreate, Done, TypeOK
  <2>2. /\ UNCHANGED <<assessment, failed, unlinked>>
        /\ assignment \subseteq assignment'
    BY <1>5 DEF StartStatus, DropComments, DropTask, ReplaceCreate
  <2>3. QED
    BY <2>1, <2>2, StaysOnBoard DEF StaysOn, AssessmentLive, LinksTo
<1>6. ASSUME ReplaceDelete(r) \/ DropAssignments(r)  PROVE OnBoard(a)'
  <2>1. Elsewhere /\ q.pc # "create.task"
    BY <1>6 DEF ReplaceDelete, DropAssignments, TypeOK
  <2>2. ASSUME NEW x \in assignment, x.link = a, x \notin assignment'  PROVE a \in unlinked'
    <3>1. a # None /\ x \in RowsOf(q.t)
      BY <1>6, <2>2, TaskConstants DEF ReplaceDelete, DropAssignments, DeleteRows
    <3>2. a \in {y.link : y \in RowsOf(q.t)} \ {None}
      BY <2>2, <3>1
    <3>3. QED
      BY <1>6, <3>2 DEF ReplaceDelete, DropAssignments, DeleteRows
  <2>3. UNCHANGED <<assessment, failed>> /\ unlinked \subseteq unlinked'
    BY <1>6 DEF ReplaceDelete, DropAssignments, DeleteRows
  <2>4. QED
    BY <2>1, <2>2, <2>3, StaysOnBoard DEF StaysOn, AssessmentLive, LinksTo
<1>7. ASSUME RemoveCommit(r)  PROVE OnBoard(a)'
  <2>1. Elsewhere /\ q.pc # "create.task" /\ q.a \in Assessments
    BY <1>7, InFlight DEF RemoveCommit, Done, TypeOK, OnAssessment, Removal
  <2>2. /\ UNCHANGED <<failed, unlinked>>
        /\ assessment' = [assessment EXCEPT ![q.a] = NoAssessment("deleted")]
        /\ assignment' = Remaining(r)
    BY <1>7 DEF RemoveCommit
  <2>3. CASE a = q.a
    BY <2>1, <2>2, <2>3 DEF OnBoard, AssessmentLive, NoAssessment, TypeOK
  <2>4. CASE a # q.a
    <3>1. assessment'[a] = assessment[a]
      BY <2>2, <2>4 DEF TypeOK
    <3>2. LinksTo(a) \subseteq LinksTo(a)'
      BY <2>2, <2>4 DEF LinksTo, Remaining, RemovalsAreSerial
    <3>3. QED
      BY <2>1, <2>2, <3>1, <3>2, StaysOnBoard DEF StaysOn, AssessmentLive
  <2>5. QED
    BY <2>3, <2>4
<1>8. ASSUME \/ RowGone(r) \/ RemoveRefused(r)
             \/ RemoveFind(r) \/ RemoveRows(r) \/ RemoveGroup(r)
      PROVE  OnBoard(a)'
  <2>1. Elsewhere /\ (q.pc = "create.task" => ~ AssessmentLive(q.a))
    BY <1>8 DEF RowGone, RemoveRefused, RemoveFind, RemoveRows, RemoveGroup, Done, TypeOK
  <2>2. UNCHANGED <<assignment, assessment, failed, unlinked>>
    BY <1>8 DEF RowGone, RemoveRefused, RemoveFind, RemoveRows, RemoveGroup
  <2>3. CASE AssessmentLive(a)
    BY <2>1, <2>2, <2>3, StaysOnBoard DEF StaysOn, AssessmentLive, LinksTo
  <2>4. CASE ~ AssessmentLive(a)
    BY <2>2, <2>4 DEF OnBoard, AssessmentLive
  <2>5. QED
    BY <2>3, <2>4
<1>9. QED
  BY <1>1, <1>2, <1>3, <1>4, <1>5, <1>6, <1>7, <1>8 DEF Proceed

LEMMA OnBoardNext ==
  ASSUME IInv, RemovalsAreSerial, StartSparesForms, [Next]_vars, NEW a \in Assessments, OnBoard(a)
  PROVE  OnBoard(a)'
<1> USE DEF IInv
<1>1. ASSUME \/ \E t \in Tasks, U \in SUBSET Users : AssignTask(t, U)
             \/ \E t \in Tasks, verdict \in {"approved", "declined"} : DecideTask(t, verdict)
             \/ \E t \in Tasks : AddComment(t)
             \/ UNCHANGED vars
      PROVE  OnBoard(a)'
  <2>1. UNCHANGED <<assessment, failed, unlinked, req>> /\ assignment \subseteq assignment'
    BY <1>1 DEF AssignTask, InsertTask, DecideTask, AddComment, vars
  <2>2. QED
    BY <2>1, StaysOnBoard DEF StaysOn, AssessmentLive, LinksTo
<1>2. ASSUME NEW b \in Assessments, Review(b)  PROVE OnBoard(a)'
  <2>1. AssessmentLive(a)' => AssessmentLive(a) /\ assessment'[a].form = assessment[a].form
    BY <1>2 DEF Review, AssessmentLive, TypeOK, Assessment
  <2>2. QED
    BY <1>2, <2>1, StaysOnBoard DEF Review, StaysOn, LinksTo
<1>3. ASSUME NEW r \in Requests, Arrive(r)  PROVE OnBoard(a)'
  <2>1. /\ UNCHANGED <<assignment, assessment, failed, unlinked>> /\ req[r] = Idle
        /\ \A s \in Requests : s # r => req'[s] = req[s]
    BY <1>3 DEF Arrive, CreateRead, StartRead, ReplaceRead, DropRead, RemoveRead, TypeOK
  <2>2. QED
    BY <2>1, StaysOnBoard DEF StaysOn, AssessmentLive, LinksTo, Idle
<1>4. ASSUME NEW r \in Requests, Fail(r)  PROVE OnBoard(a)'
  BY <1>4 DEF Fail, OnBoard
<1>5. ASSUME NEW r \in Requests, Proceed(r)  PROVE OnBoard(a)'
  BY <1>5, OnBoardProceed
<1>6. QED
  BY <1>1, <1>2, <1>3, <1>4, <1>5 DEF Next

-----------------------------------------------------------------------------
(* The theorems                                                            *)

\* The inductive invariant holds in every reachable state, however many
\* requests overlap and wherever they are cut short.
THEOREM Invariance == Spec => []IInv
<1>1. Init => IInv
  <2> SUFFICES ASSUME Init PROVE IInv
    OBVIOUS
  <2>1. TypeOK
    BY TypeInit
  <2>2. /\ \A t \in Tasks : /\ task[t].status = "unborn" /\ task[t].batches = 0
                            /\ task[t].commented = FALSE
        /\ assignment = {}
        /\ \A r \in Requests : req[r].pc = "idle"
    BY DEF Init, Idle
  <2>3. NothingDangles /\ RowsAreNumbered /\ HeldIsFresh /\ LinksArePrivate
    BY <2>2 DEF NothingDangles, RowsAreNumbered, HeldIsFresh, Holds, LinksArePrivate
  <2>4. QED
    BY <2>1, <2>3 DEF IInv
<1>2. IInv /\ [Next]_vars => IInv'
  BY TypeNext, ConsistentNext DEF IInv, Consistent
<1>3. QED
  BY <1>1, <1>2, PTL DEF Spec

\* Every reachable state is well typed, and every request in flight has what
\* its next database call needs.
THEOREM TypeCorrect == Spec => []TypeOK
<1>1. IInv => TypeOK
  BY DEF IInv
<1>2. QED
  BY <1>1, Invariance, PTL

\* No assignment or comment without its task, no link without its assessment.
THEOREM ReferencesHold == Spec => []NothingDangles
<1>1. IInv => NothingDangles
  BY DEF IInv
<1>2. QED
  BY <1>1, Invariance, PTL

\* An assessment that startTask or createAssessment inserted is its user's
\* alone until it is linked.
THEOREM InsertedIsFresh == Spec => []HeldIsFresh
<1>1. IInv => HeldIsFresh
  BY DEF IInv
<1>2. QED
  BY <1>1, Invariance, PTL

\* No two assignments, of one user or of two, ever share an assessment.
THEOREM LinksStayPrivate == Spec => []LinksArePrivate
<1>1. IInv => LinksArePrivate
  BY DEF IInv
<1>2. QED
  BY <1>1, Invariance, PTL

\* What explains the dashboard is inductive too, given IInv.
THEOREM BoardInvariance == Spec => []BoardInv
<1>1. Init => BoardInv
  <2> SUFFICES ASSUME Init PROVE BoardInv
    OBVIOUS
  <2>1. /\ \A t \in Tasks : task[t].status = "unborn"
        /\ \A a \in Assessments : assessment[a].status = "unborn"
        /\ \A r \in Requests : req[r].pc = "idle"
    BY DEF Init, NoAssessment, Idle
  <2>2. \A r \in Requests : req[r].rows = {}
    BY DEF Init, Idle
  <2>3. QED
    BY <2>1, <2>2 DEF BoardInv, UnassignedIsExplained, StartSparesForms, FormsStayOnBoard,
                      RemovalsAreSerial, TaskLive, TaskStatus, AssessmentLive
<1>2. IInv /\ BoardInv /\ [Next]_vars => BoardInv'
  <2> SUFFICES ASSUME IInv, BoardInv, [Next]_vars PROVE BoardInv'
    OBVIOUS
  <2>1. UnassignedIsExplained'
    <3>1. \A t \in Tasks : Explained(t)
      BY DEF BoardInv, UnassignedIsExplained, Explained, Between
    <3>2. \A t \in Tasks : Explained(t)'
      BY <3>1, ExplainedNext DEF BoardInv
    <3>3. QED
      BY <3>2 DEF UnassignedIsExplained, Explained, Between
  <2>2. StartSparesForms'
    BY TypeNext, SparesNext DEF BoardInv, IInv
  <2>3. FormsStayOnBoard'
    <3>1. \A a \in Assessments : OnBoard(a)
      BY DEF BoardInv, FormsStayOnBoard, OnBoard
    <3>2. \A a \in Assessments : OnBoard(a)'
      BY <3>1, OnBoardNext DEF BoardInv
    <3>3. QED
      BY <3>2 DEF FormsStayOnBoard, OnBoard
  <2>4. RemovalsAreSerial'
    BY SerialNext DEF BoardInv
  <2>5. QED
    BY <2>1, <2>2, <2>3, <2>4 DEF BoardInv
<1>3. QED
  BY <1>1, <1>2, Invariance, PTL DEF Spec

\* No step of any handler, deleteAssessment's clean-up of parent tasks among
\* them, leaves a task without assignees unexplained.
THEOREM UnassignedAreExplained == Spec => []UnassignedIsExplained
<1>1. BoardInv => UnassignedIsExplained
  BY DEF BoardInv
<1>2. QED
  BY <1>1, BoardInvariance, PTL

\* createAssessment's assessment stays on the dashboard, whatever startTask,
\* deleteAssessment and the reviews do next to it.
THEOREM FormsAreOnBoard == Spec => []FormsStayOnBoard
<1>1. BoardInv => FormsStayOnBoard
  BY DEF BoardInv
<1>2. QED
  BY <1>1, BoardInvariance, PTL

=============================================================================
