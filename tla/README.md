# ESG Horizon backend: a TLA+ model

Specifications of the NestJS / Prisma / PostgreSQL backend in this repository: TLA+ modules, TLC
configurations that check them on small instances, and TLAPS proofs for every size. Paths below are
relative to the repository; `src/` is the application, `prisma/schema/` the database.

## 1. How the program runs, and what is hard about it

Every HTTP endpoint is an `async` method that reads rows, computes, and writes rows, each with an
awaited Prisma call. Between two awaits any other request runs, in this process or in another
instance. There are no row locks and no `WHERE status = ...` in an `UPDATE`: a status is checked on
a row read earlier. A few handlers wrap their writes in `$transaction` (READ COMMITTED); most write
several tables in separate calls, so an error or a restart leaves the first ones done. Foreign keys
(mostly `ON DELETE RESTRICT`, `SET NULL` for optional ones) are the only checks the database makes
itself. There are no background jobs, queues or caches: all the concurrency is between requests.

So the hard parts are: decisions taken on stale reads, whole-blob and whole-row writes that undo
each other, several-step writes cut short, references that dangle or keep a row from being deleted,
and long sequences of legal calls (decline, save, submit, auto-approve, submit a group ...).
`PROJECT.json` lists each such place at its line under "hazards".

## 2. Inventory

| Component (source under `src/`) | State | Operations | Must hold |
|---|---|---|---|
| Assessments (`company/assessments/assessments.service.ts`) | `assessments`: status, review columns, `assessmentData` blob | create, saveProgress, submitGroup, submitForReview, approve, decline, delete; a reviewer's deletion through a foreign key | approvals logged and, while the reviewer is not deleted, attributed; review columns agree with the status; locked data frozen; only drafts deleted |
| Reports (`company/report/`) | `report`, one row per assessment | saveReportingData (after submit, group, approve, or on demand), comparisons (read only) | no orphan; a submission gets one; the final one is current |
| Task board (`company/tasks/`) | `Task`, `task_assignments`, `task_comments` | start, assign, reassign, edit, approve, reject, remind, delete, comment | an assessment on one assignment; nothing dangles; no task without assignees |
| Calculator (`company/assessments/assessment-calculator.service.ts`) | the computed keys of `assessmentData` | recalculateAllEmissions: normalise, compute, total, progress, top five | a full form shows 100%; filling in more lowers nothing; rounded figures add up |
| Emission computations (`assessment/computation/`) | none | general, upstream, downstream, location- and market-based | part of the calculator's sums |
| Scoring and grading (`assessment/scoring/`) | none | calculateESGScore, aggregate, calculateGrade | a worse figure never scores better; a veto is felt in the grade |
| Targets (`company/target/`) | `Target`, `GeneralTarget`, `ScopeTarget` | create, update, delete; figures read from assessments | no two overlapping targets of a type; years ordered; figures do not jump back |
| Registration, activation (`auth/esg-auth/`, `company/company.service.ts`) | `User.status`, `Company.status` | signup, completeSignup, updateStatus, update | an activation reaches the administrator of the company |
| Invitations, company users (`company/sub-users/`) | `Invitation`, users' roles and departments | create, delete, accept; update, delete a user | one usable token per address; settled once |
| Departments, subsidiaries, setup (`company/departments/`, `company/subsidiary/`, `company/company-setup.service.ts`) | `Department`, `Subsidiary`, pending lead users | create, update, delete, bulkCreate | leads and members are of the company, or were until the platform moved them |
| Authentication (`auth/`) | `RefreshToken`, `User.status`, `User.password` | register, login, socialLogin, refresh, status, logout, resets | a code that set a password is of no use to a later request; a status changes only by whoever was entitled to |
| One-time passwords (`otp/`) | `User.otpHash`, `otpExpiresAt` | store, send, resend, verify | what was used is not accepted again |
| Platform administrators (`admin/auth/`, `admin/users/`, `admin/settings/`) | admin users | invite, complete, verify, suspend, reactivate, give a role, department or company, changePassword | a status changes only by whoever was entitled to |
| Roles and permissions (`admin/roles-permissions/`) | `Role`, `Permission`, `RolePermission`, groups | CRUD, matrix | the super administrator holds every permission; a role in use is not deleted |
| Billing, sectors, platform settings, platform view of companies | single rows | CRUD, queries | not modelled but for `updateStatus` and `changePassword` |
| Audit, activities, e-mail, uploads, contact, scope 1/2 endpoints, infrastructure, seed | log rows, legacy rows | best effort | out of scope |

Interactions: `createAssessment`, `deleteAssessment` and `startTask` write assessments and tasks in one handler;
the three review handlers end with a report; every save runs the calculator, whose figures the report and the
targets read; a target reads whichever assessments are approved when it is looked at; departments, subsidiaries,
setup and invitations all create users, and all expire or cancel one another's invitations by address;
`company.update` sets `requireAssessmentReview`, which `submitForReview` reads; every handler ends with a
best-effort `logActivity`, a row nothing reads back except the two activity rows written inside the approve and
decline transactions. `PROJECT.json` "components" states for each part whether it is modelled.

## 3. Modules

| Module | Role |
|---|---|
| `ReviewLifecycle` | abstract specification: the life cycle with atomic operations |
| `AssessmentReview` | the handlers of the assessment and report services, one action per database call |
| `MCAssessmentReview` | instances for TLC |
| `AssessmentReview_proofs` | theorems, however requests interleave |
| `ReviewSerial_proofs` | theorems, and the refinement of `ReviewLifecycle`, for one request at a time |
| `AssessmentTasks` | the task board and the task side of creating and deleting assessments |
| `MCAssessmentTasks` | instances for TLC, with symmetry |
| `AssessmentTasks_proofs` | theorems |
| `AssessmentData` | the document of an assessment: its forms, their normalised copies, submitted groups, progress |
| `Emissions` | the calculator's emission figures and their rounding, as operators |
| `Reporting` | the stored report and the figures derived when it is read, as operators |
| `Scoring` | indicators, vetoes, pillars, overall score and grade, as operators |
| `Disclosure` | EXTENDS `AssessmentData` and `Scoring`, INSTANCEs `Reporting`: one document saved, scored and reported |
| `MCDisclosure` | instances for TLC |
| `Disclosure_proofs` | theorems about all five modules of operators and their composition |
| `Targets`, `MCTargets`, `Targets_proofs` | targets against overlapping requests and moving assessments; instances; theorems |
| `Onboarding`, `MCOnboarding`, `Onboarding_proofs` | companies, people, invitations, departments, subsidiaries; instances; theorems |
| `Accounts`, `Accounts_proofs` | accounts, one-time codes, passwords, sessions; theorems |
| `Permissions`, `Permissions_proofs` | EXTENDS `Accounts`: roles, permissions and the matrix; theorems |
| `MCPlatform` | instances of `Accounts` and `Permissions` for TLC |

### AssessmentReview

`row`, `report`, `log` and `requireReview` are the tables; `req` holds, per request slot, what the
handler keeps in local variables between two awaits, and `pc`, the database call it makes next.
`Arrive(r)` is a call of a client: the handler up to the answer of its first query, with its guards
(`SaveRead`, `GroupRead`, `SubmitRead`, `ApproveRead`, `DeclineRead`, `DeleteRead`, `GenerateRead`).
A call the guards refuse changes nothing and is no action. `Proceed(r)` is the rest, a call at a
time: `SaveReset` and `SaveWrite`, `GroupWrite`, `SubmitWrite`, `ApproveCommit`, `DeclineCommit`,
`DeleteCommit`, `ReportRead`, `ReportUpsert`, and `RowGone` where the row was deleted meanwhile.
`Fail(r)` cuts a request short between two calls: a database error, a failed recalculation, a
restart. `failed` is a history variable that remembers it happened. `account` is what `reviewed_by`
sees of a user: invited, a member after the first login (`LogIn`), or deleted. `DeleteUser` is
`deleteCompanyUser`: the foreign key of `assessments.reviewed_by` is `ON DELETE SET NULL` (migration
`20251016202246`, line 30), so the row of every assessment the user was to review loses its reviewer, and
`unsigned` remembers which; that of `refresh_tokens.user_id` restricts, so nobody who ever logged in can
be deleted, and the handler refuses company administrators and leads (`Permanent`). `ReviewerGone` is
a submission whose reviewer was deleted between its two calls, which the same foreign key refuses.
`SerialSpec` is the same behaviours
with `OneAtATime`: any number of slots, of which at most one works on an assessment at any time.

Abstractions, each chosen because no property tells the difference: one company; `assessmentData` is
the set of sections saved and the set of groups submitted (the recalculated numbers are a function of
them); a report is the data it was computed from; times and the rejection text are null or not;
roles and the creator do not change, and every creator has an e-mail address (declining needs
it); best-effort activity rows and e-mails at the end of a handler are left out, so is
`updated_by`. An interactive transaction is one step: `approve` and `decline` write one row and
insert another, and `delete` is taken apart under AssessmentTasks.

### AssessmentTasks

`task`, `assignment` and `assessment` are the tables; an assignment is identified by task, user and
the batch that created it, which stands for its id. `createAssessment` is `CreateRead`,
`CreateInsert`, `CreateTask`; `startTask` is `StartRead`, `StartInsert`, `StartLink`, `StartStatus`;
`reassignTask` and the `userIds` part of `editTask` are `ReplaceRead`, `ReplaceDelete`,
`ReplaceCreate`; `deleteTask` is `DropRead`, `DropComments`, `DropAssignments`, `DropTask`;
`deleteAssessment` is `RemoveRead` and the statements of its transaction, `RemoveFind`, `RemoveRows`,
`RemoveGroup`, `RemoveCommit` or `RemoveRefused`. `assignTask`, `approveTask`, `rejectTask` and
`addComment` write once, after a read that only asks whether the task exists. Their guard is the
foreign key or the `UPDATE`'s own `WHERE`, so each is one action. `Review` stands for everything
AssessmentReview does to a status: a draft leaves the drafts, or comes back. The foreign keys are
guards of `CreateTask`, `StartLink`, `ReplaceCreate` and `DropTask`, and `RowGone` is their refusal.
The names and due dates that `editTask` writes, topics and start times are left out.

The transaction of `deleteAssessment` runs at READ COMMITTED (`assessments.service.ts:551`). `rows` of a
request are the assignments it has deleted and not committed: everybody else still reads them, and a
write to one of them waits (`Free`). So two deletions of drafts that share a task can each find the
other's assignment at the `groupBy` (:563) and both leave the task; `crossed` is the history of that. The
last deletes and the commit are one step, `RemoveCommit`, whose guards are the foreign keys;
`RemoveRefused` is their refusal, which rolls everything back.

### Disclosure, AssessmentData, Emissions, Reporting, Scoring

Arithmetic with little control: what can go wrong is that figures computed separately, rounded
separately, and read under several names do not agree. `saved` is the number of filled fields of each
form, all that `countFilledFields` keeps of it; `kept` are the copies the calculator makes of forms the
client saves under another name. They are state because a copy is made once and outlives later changes
of the original. `SaveForm` and `SubmitGroup` are `saveProgress` and `submitGroup` with the
recalculation at their end; `Expected` is the table of the calculator's groups, forms and field counts.
`SaveGroup` is a save with the path of a topic, which replaces several forms at once. Percentages are in
tenths, with `toFixed`'s rounding.

`Emissions` gives each source its formula over one amount and a factor, in units of 10^-7 t so that `toFixed(4)` is
a rounding to a multiple of `Tick`; the lists the totals add up, those that count a source twice included, are the
code's. `Reporting` is `saveReportingData`'s columns and what `getReportingData` shows of them: the first positive
of the live, the grouped and the stored figure, shares, trends and incident rates. `Scoring` is each indicator's
interpolation with its bounds, the vetoes, the averages and the weights; water and production are in millions of
the client's units. `Disclosure` saves quantities (`SaveQuantities`), safety figures (`SaveSafety`) and scored
figures (`SaveFigure`), and stores the report (`StoreReport`), in any order, so that a report is read against a
document that moved on. Its handlers are steps: what overlapping saves do to a document is AssessmentReview's
subject. `DocumentSpec` is every order of these handlers (`Edit`) from a new document (`Opened`), with any lists of
entries of `Amounts` and `Factors`, any `Counts` and `Levels`; TLC's `MCSpec` takes a part of them at a time.
`TypeOK` contains the inductive invariants `DataInv` (what the copies have to do with the forms) and `NumbersInv`,
so that the run checks what the proofs rest on, and says that every progress figure is missing or a percentage.

### Targets

`target` and `assessment` are the tables; the calculator's figures are reduced to which assessment they
come from, since that is what changes. `CreateRead` and `CreateWrite` are `createTarget`: the rules on a read
list, then the insertion with the years of the scopes in place of those that were checked. `UpdateRead`,
`UpdateScopes`, `UpdateWrite` are `updateTarget`, `DeleteTarget` is `deleteTarget`. `FirstOf` and
`LatestBetween` are `findBaselineAssessment` and `findCurrentAssessment`. `CreateAssessment`, `Settle`,
`Unsettle` and `Discard` stand for what AssessmentReview lets happen to an assessment: `Unsettle` is the
`submitGroup` that writes an older status back. The body of a creation is a union of two classes
(`target.controller.ts:110`), which the global validation passes over: `Asked` has a type, `Unknown`,
besides the two the code names; it matches no row in `SameType` and is stored as `SCOPE` (`Stored`).
`whole` is whether the months and the last year of an assessment are filled in: the figures and the
look-up of a baseline pass over those that are not (`Whole`), the check of an assessment a request
picked does not (`Approved`). An update can send null for the years of a scope (`Cleared`). `asked`,
`checked`, `picked`, `approved`, `seen`, `edited` and `widened` are history: what the creation asked for
and looked at, and what happened to the years since.

### Onboarding

`company`, `user`, `invitation` and `unit` are the tables (departments and subsidiaries are one,
distinguished by `kind`), `last` their sequences. `SignUp` is `signup`; `StatusRead`, `StatusWrite`,
`StatusActivate` are `CompanyService.updateStatus`, `PlatformStatus` is its platform twin; `InviteRead`,
`ExpireEarlier`, `InviteIssue` create an invitation; `JoinRead`, `JoinCreate`, `JoinAccept` are
`completeSignup`; `UpdateUser`, `DeleteUser` and `DeleteInvitation` are one call each. A user has any of
the five statuses and one of three roles. `LogIn` gives a manager a token (`sessions`), which names his
company of that moment for as long as it is refreshed: departments and company setup go by the token,
subsidiaries and company users by the row (`ActsFor`, `Manages`). The platform invites users into any
department of any company (`PlatformInvite`), sets a status (`PlatformStanding`) and moves a user to
another company or to none, with his department and what he leads left as they are (`PlatformEdit`;
`admin-users.service.ts:255`). `updateStatus` of a company without an administrator changes the company
and nobody else: `admin` of the company is then null. Departments and
subsidiaries begin with one of `NameNobody`, `NameColleague`, `NameAddress`, `NameInvited`, the ways
the two services resolve a lead, go on with `CancelInvitations` and end with `UnitCreate` and `Enlist` or
with `UnitUpdate`. `SetupExisting`, `SetupNewcomer` and `SetupInvite` are the elements of the lists of
`CompanySetupService`. An update of a department with an address is `doomed`: the address stays in the data
and is no column, so that the write fails after the lead was resolved. Foreign and unique keys are guards of
the writes. `seen`, `open`, `by`, `short`, `placed`, `homes` (the companies a user was of), `held` and
`recast` (the platform set his status, or his role or company) are history. Tokens of deleted accounts, a
user's change of his own address and social sign-ups, whose company has a fixed name, are left out.

### Accounts and Permissions

`user` holds status, password, the stored one-time code and whether the role is `company_esg_admin`; codes are
numbered as they are drawn, and `bcrypt` tells a hash from the signed token `sendOtp` stores. Each handler is a
read with its comparisons (`CompleteRead`, `VerifyRead`, `ResetRead`, `ChangeRead`, `LoginRead`) and a write that
repeats none of them. Whoever sets a status reads the account first: `SuspendRead`, `ReactivateRead`,
`ActivateRead` (the administrator of a company made active) with `StandingWrite`, and `ManageRead` with
`ManageWrite`, which is `updateCompanyUser` writing any status and role a manager sends. `DeleteUser` is
`deleteCompanyUser`; `signed` are the users with a row among the refresh tokens, whom it cannot delete.
`ResendStore` and `ResendSign` are the two stores of `otp/resend`. `sessions` and `access` are who has a refresh
token in the table and a usable access token. `Permissions` has one action per operation of the service: each is
one transaction, or unique and foreign keys decide its races.

## 4. What is checked

| Run | Question | Result |
|---|---|---|
| `review_serial` | one request at a time, cut anywhere: do the handlers implement the life cycle? | `ReviewFieldsAgree`, `FinalReportIsCurrent`, `ImplementsLifecycle` hold |
| `review_concurrent` | what survives two overlapping requests and a deleted reviewer? | `TypeOK`, `ApprovalIsLogged`, `ApprovalIsAttributed`, `InFlightIsBacked`, `ReportHasAssessment`, `DeletedIsFinal`, `RequestEnds`, `SubmittedGetsReport` hold |
| `review_group_race` | does submitGroup preserve the status, as its comment says? | violated: it writes back a stale one |
| `review_locked` | is an approved assessment's data frozen? | violated: submitGroup does not look at the status |
| `review_delete` | are only drafts deleted? | violated: the check is outside the transaction |
| `task_board` | is the board consistent under two overlapping requests and failures? | `TypeOK`, `LinksArePrivate`, `HeldIsFresh`, `NothingDangles`, `UnassignedIsExplained`, `FormsStayOnBoard` hold |
| `task_duplicate` | one draft per period? | violated: look-up and insert race |
| `task_double_start` | does a started assignment keep its assessment? | violated: the second start overwrites it |
| `disclosure` | do progress, figures, report and score agree with one document, save after save? | `TypeOK`, `ShortfallIsExplained`, `PillarsMatchProgress`, `FiguresAddUp`, `ReportFollowsDocument`, `TotalRateIsBetween`, `VetoBoundsGrade`, `FillingNeverLowers`, `WorseNeverScoresBetter` hold |
| `targets` | which conflicts of targets can arise, and how do their figures move? | `TypeOK`, `ConflictIsExplained`, `InversionIsExplained`, `ScopesInsideSpan`, `BaselineIsExplained`, `FiguresMoveOneWay` hold |
| `onboarding` | do people and units stay within a company, and are invitations settled once? | `TypeOK`, `WithinOneCompany`, `OneTokenPerAddress`, `ActivationReachesAdmin`, `SettledOnce` hold |
| `platform` | do codes, standings and permissions survive overlapping requests? | `SpentIsFinal`, `StandingIsKept`, `SuperAdminHoldsAll` hold |

The abstract life cycle is checked as a refinement: `ImplementsLifecycle` maps a handler's last
status or data write to the abstract operation and its other steps to stuttering. It holds for one
request at a time (`SerialSpec`, which the run checks with two slots): the three review violations above are
exactly overlaps that break it, or, for `review_locked`, something the abstract specification permits
(`MarkGroup` in any status) because the code does it in every schedule.

Bounds. One assessment: handlers never touch two, and no property relates two. One validator and one
data officer are the two kinds of user the guards tell apart; one of the two can be deleted, the other is
`Permanent`, and in `review_concurrent` has logged in before (`OfficerSpec`), because until
then he does nothing; `review_serial` has two validators, two sections and two groups so that decisions and data of different origin are told apart. Two slots: every
race found is between two requests, a third only repeats one of them against a changed row. In
`review_concurrent` the groups are left out because none of its properties looks at them
(`submitGroup` itself is there, without a group). The task model has one task, two users, two
assessments and `MaxBatch` 2, so that a row found by `startTask` can have been replaced by a later
batch, and the two slots can hold two starts, a start and a replacement, two deletions that cross, or a
deletion and anything.
The row identifiers it permutes are interchangeable, and no property of these runs is a liveness
property, so the symmetry is sound.

In `disclosure` a behaviour explores one `focus` (one topic's forms, one group of sources, the safety
forms, or one pillar of the score): a save touches one form, and what the properties compare lies within a
focus or is summed over foci that do not move. It starts from an empty document and from a full one, because
the interesting figures are near both ends, with copies up to date or stale. `Counts` has empty, partly
filled, exactly filled for some forms and overfull; `Amounts` and `Factors` give sums that round up and
others that round down; `Levels` straddles every veto. `MaxSaves` is 2: a property of a step needs one save before
it, and `ReportFollowsDocument` a report stored between. In `targets`, four years around the present, three
targets and two requests give every overlap of a pair, and two more targets would only add pairs; the
`assessments` focus takes every placement of three assessments in three years, in every state of
approval, and adds a fourth; the `baseline` focus creates targets, with a picked assessment or without,
while the assessments of their baseline year, with and without gaps, come and go. `onboarding` has two
companies with an administrator each, one contested address in two spellings (`ADA` is `ada` before
`toLowerCase`), and three requests of which two overlap. It starts from an empty database (`registration`:
sign-ups, logins, statuses of companies and whatever the platform does to an account), from two companies
(`newcomers`), and from companies with a member and a department or subsidiary (`units`: there the platform
moves the first or the third user, the latter also out of every company). User and invitation numbers overlap,
so that a number that is one user's and another address's invitation occurs. `platform` has one account, because
no request involves two, whose address may be registered again after its deletion, and two codes, so that a code
is used and replaced while a reset is under way; and three roles, enough for the name `super_admin` to leave a
role and return to it.

The configurations of the last four runs say `CHECK_DEADLOCK FALSE`: the bounds on rows, saves and
requests are guards without a counterpart in the code, and no client has to call, so a behaviour may stop.
Slots are interchangeable in the three new concurrent runs and none of their properties is a liveness
property, so their symmetry is sound.

Fairness. `FairSpec` adds weak fairness of `Proceed(r)` for each slot: the event loop resumes a handler
once its query has been answered, and the database answers or the driver reports an error (`Fail`,
which needs no fairness). No client call is fair: nobody has to click. `RequestEnds` and
`SubmittedGetsReport` need no more. The newer runs claim no liveness: a request there ends by the same
argument, and nothing else in those services must eventually happen without a client.

## 5. What is proved

`AssessmentReview_proofs` proves, for any sets of assessments, users, sections, groups and request
slots, from the one assumption `UsersAssumption` (`Permanent` and `Validators` are users, null is no user
and no assessment):

* `Invariance`: `Spec => []IInv`, the inductive invariant;
* `TypeCorrect`, `ApprovalsAreLogged`, `ApprovalsAreAttributed`, `NoOrphanReports`: the invariants
  `review_concurrent` checks, for every size;
* `DeletionIsFinal`: the action property, from the same invariant.

That an approved row has an activity is not inductive: `submitGroup` writes back whatever status it
read, after the row may have become anything. The strengthening is `InFlightIsBacked`: what a request
read still backs what it is about to write. It does because the log only grows, no handler sets
`approvedAt` back to null, and the one operation that sets `reviewed_by` to null, `deleteCompanyUser`
through the foreign key, leaves the row in `unsigned` until somebody signs again (`Kept`, proved for every
step by `KeptByNext` and `UnsignedSteps`). That the log only grows is a property of its own, since the foreign
key of `activities` takes the rows of a deleted user with him: `AuthorsStay` says that nobody who decided can
be deleted, because who decides has logged in and left a refresh token, and `InFlightIsBacked` says so of who
is about to decide. A deletion that took the tokens along (the mutant `DeleteUserAndTokens`) breaks it.

What each handler's write does to a row is stated once, in `Writes`, what a deletion does in `ErasedRow`, and
`RowSteps` says that nothing else changes one. `BackedWhileWaiting` carries a waiting request over any step,
`BackedAfterStep` covers the request that moves. `LoggedNext`, `AuthorsNext`, `AttributedNext` and `ReportNext`
are then one case per action.

`AssessmentTasks_proofs` does the same for the task board, from `TaskConstants` (null is no id, a task
gets at least one batch): `Invariance`, `TypeCorrect`, `ReferencesHold` (`NothingDangles`),
`InsertedIsFresh` (`HeldIsFresh`) and `LinksStayPrivate` (`LinksArePrivate`). The last is not inductive:
`startTask` updates whatever row has the id it read, with whatever assessment it inserted two calls
before. The strengthening has two parts. `HeldIsFresh`: an assessment inserted and not linked yet
belongs to the request's user, no row links it, no other request holds it. `RowsAreNumbered`: the
identity of a row is never handed out twice, so that the `UPDATE` finds one row or none; `IInv` with
this conjunct was checked with TLC before it was proved. `TypeOK` includes that a request has what its
next call needs (`ByUser`, `OnTask`, `OnAssessment`). The induction step groups the actions by what
they do to the tables: `Removing` (no new row), `Adding` (a batch), `Linking`, `Creating`, and
`ConsistentProceed`, `ConsistentArrive` and `ConsistentNext` put every action into one of them.

`Targets_proofs`, for any years, scopes, names, assessments and slots, from `YearsAssumption`, `ScopesAssumption`,
`NamesAssumption`, `UnknownAssumption` and `MaximaAssumption`: `TargetsInvHolds`, `TargetsAreTyped`,
`ConflictsHaveReasons`, `InversionsHaveReasons`, `ScopesStayInside`, `BaselinesHaveReasons` (`BaselineIsExplained`)
and, the one about steps, `FiguresOnlyMoveOneWay`. The invariant `TargetsInv` adds to the properties `RequestsOK`
(a creation in flight passed the rules on the list it remembers, which is the part of the present list that was
there then), `YearIsChecked` (the assessment a target was checked against, as long as it exists, is of its baseline
year) and `FirstIsChecked` (it has figures, and unless the request named it, its period has no gap and no whole one
approved at the time was created before it). The lemmas `LeastNatural` and `GreatestNatural` replace an induction
over years: a nonempty set of assessments has a first and a last one.

`Accounts_proofs`, from `AccountsAssumption`: `IInvHolds`, `SpentCodesAreFinal` (`SpentIsFinal`) and
`AccountsKeepStanding` (`StandingIsKept`). Resets that compared one code before the first of them wrote all write,
each its password; what is proved is that nothing begun later can: a code that set a password is stored nowhere.
That is not inductive, since another account, or a request, could still have it: `IInv` adds that every
stored or compared code was drawn (`CodesAreDrawn`), for this account alone (`CodesArePrivate`). `StandingIsKept`
rests on what a request found when it looked (`Decided`), which it carries to its write.
`Permissions_proofs`, from `PermissionsAssumption`: `SuperAdminKeepsAll`, from `RolesInv` (`TablesOK`,
`Numbered`, `Held`): a permission numbered while a role was the super administrator is held by it unless
the matrix disabled it, whatever was renamed since.

`Onboarding_proofs`, for any companies, people, units, invitations and slots, from `LowerAssumption`,
`MaximaAssumption` and `NoneAssumption`: `Invariance`, `TypeCorrect`, `PeopleStayWithin` (`WithinOneCompany`),
`OneTokenIsLeft` (`OneTokenPerAddress`), `AdministratorsAreActivated` (`ActivationReachesAdmin`) and, about
steps, `InvitationsSettleOnce` (`SettledOnce`). The properties are not inductive: a write uses what its request
read calls earlier. `IInv` therefore adds `RequestsOK`, whose `Good` says, for each kind of request, what still
holds of the rows it remembers; `InvitationsOK` and `CompaniesOK`, the same of the department an invitation
names and of the administrator `updateStatus` read; `HomesOK` (a user is of his company, and his tokens name
companies he is or was of); and `AddressesDiffer`. `GoodKept` shows that no other request disturbs it, from
facts no call changes: a user's address, the companies he was of (`homes`), what the administrator of a company is
unless the platform changes him (`recast`), a unit's kind, a department's company, an invitation's address
(`UsersKept`, `UnitsKept`, `InvitationsKept`); and from numbers that are never given twice. `Members` and
`Leaders` then show the two halves of `WithinOneCompany`. A user's company is none of these facts, because the
platform moves people: the theorem is that a lead and a member are or were of the unit's company.
`ActivationReachesAdmin` is about the administrator whom `updateStatus` read, if there was one: his account is
active, as `validateUser` requires, unless the platform changed it since.

`ReviewSerial_proofs` is about `SerialSpec`, for any number of slots: `SerialInvariance`, `FieldsStayInStep`
(`ReviewFieldsAgree`), `FinalReportsAreCurrent` (`FinalReportIsCurrent`) and `HandlersImplementLifecycle`, the
refinement. Its invariant says what overlapping requests break: the row still is what its request read, and the
data about to be written are the row's with what the client sent (`Expects`). `OthersKept` uses `OneAtATime` to
carry this over a step of another request; `SignedInv`, preserved by `SignedNext`, says who the reviewer of a row
is as far as a deletion leaves one, and that whoever decided on it is a member for good. `SerialProceed` and
`SerialArrive` then have one case per database call for the invariant, `HandlerRefines` one per call for the
abstract operation, or the stutter, it maps to.

`AssessmentReview_proofs` also has `RequestsAreBacked` (`InFlightIsBacked`), and `AssessmentTasks_proofs`
`BoardInvariance`, `UnassignedAreExplained` (`UnassignedIsExplained`) and `FormsAreOnBoard` (`FormsStayOnBoard`): a
form made by `createAssessment` keeps its task, because a start only ever links a row that had no link when it was
read, so the link it may overwrite is another start's. `BoardInv` adds `StartSparesForms`, which says so of the
starts in flight, and `RemovalsAreSerial`, which follows the transactions of `deleteAssessment` statement by
statement: what two of them have deleted differs, and a task both have deleted from is in `crossed`, so that a task
still in use at one's `groupBy` is so at its commit or was crossed. It rests on `IInv`.

`Disclosure_proofs` proves each property of `disclosure` of `DocumentSpec`, for any quantities, factors, field
counts, figures and previous assessment, from `CountsAssumption`, `KeysAssumption`, `AmountsAssumption` and
`FactorsAssumption`; the tables of forms, sources, weights and bounds are those of the code.

* Sums. The calculator's sums are folds of the community modules, whose recursion has no induction theorem that
  can be used here. `SubsetInduction` replaces it, from a smallest subset a law fails for; from it follow that a
  sum can be taken in any order (`SumFirst`), split (`SumPartition`, `SumImage`), compared (`SumMonotone`) and
  bounded (`SumNear`: terms that are each within a tick give a sum within as many ticks as there are terms).
* `DocumentInvariance`: `DataInv` and `NumbersInv` are inductive. A copy exists exactly when its form does, but for
  the legal forms, which are copied together when the first of them is saved.
* Progress: `OnlyCopiesFallShort` (`ShortfallIsExplained`), `PillarsMatch` (`PillarsMatchProgress`) and `FillingIsSafe`
  (`FillingNeverLowers`): while forms are only filled further, which topics are present does not change
  (`SteadyPresence`), no topic falls, and every mean over the same topics with the same weights is monotone.
* Report: `ReportsAreCurrent` (`ReportFollowsDocument`): the scopes shown are multiples of a tick, so that rounding
  their sum changes nothing (`UnitsAddUp`) and the shares, each rounded, lose at most 0.2% (`SharesAddUp`).
  `TotalRateBetween` (`TotalRateIsBetween`) is the mediant of two fractions (`MediantIsBetween`).
* Figures: `FiguresAgree` (`FiguresAddUp`): every source is in one form, every form in one group (`FormsSplitGroups`), so
  that the sums are of the same terms, and each rounding costs half a tick. `RankIsUnique` and `RankIsTaken` show
  that the ranking of the sources is total, so that the five largest are five different sources.
* Score: `VetoesFelt` (`VetoBoundsGrade`) and `ScoreIsFair` (`WorseNeverScoresBetter`): every indicator is the same
  interpolation, which rises or falls with its argument (`InterpolateRises`, `InterpolateFalls`); rounding, the
  averages, the caps of the vetoes and the weights keep the order.
* `TypeCorrect`: `TypeOK`, so no progress figure exceeds 100%, although the means divide by weights counted apart
  from the terms.

Only model-checked: the two liveness properties, `RequestEnds` and `SubmittedGetsReport`, since fairness and
ENABLED are out of the prover's reach. The five properties expected to fail have their counterexamples from TLC.

## 6. What the model shows about the code

Five statements of the repository's own comments and API descriptions do not hold (the runs above,
"findings" in `PROJECT.json`). What does hold is less obvious than it looks: although two handlers can
decide on one assessment and a third can write back an older status, no approval is ever without an
activity row and a time, none without a reviewer unless `deleteCompanyUser` removed the one selected, no report is
orphaned and nothing deleted comes back. Likewise: of all the ways a target can conflict with another, end
before it begins or leave its scopes' years, each has one of a few causes the properties name; a one-time code
that has set a password is of no use to any request begun later; leads and members are, or were until the platform
moved them, of the unit's company although users and invitations share numbers.

Behaviour met while modelling that is no run of its own, and is modelled as it is where a module covers it:

* `departments.update` with `leadEmail` always fails, after the lead was created and invitations were
  cancelled: the address stays in the data of the update (`departments.service.ts:243`; `doomed`).
* `bulkCreate` sends the invitations' mails inside its transaction (`company-setup.service.ts:267`): a
  later error leaves links to invitations that were never stored.
* Two `deleteAssessment` that overlap on a task both leave it, with no assignment, although the comment says
  "Delete parent tasks that now have no remaining assignments" (`assessments.service.ts:562`): each `groupBy` still
  sees what the other has deleted and not committed (`crossed`, which `UnassignedIsExplained` allows for).
* Two `resetPassword` with one code can both set a password: the comparison and the write are two calls
  (`auth.service.ts:312`).
* `deleteCompanyUser` of somebody who never logged in takes the reviewer off the assessments that wait for him
  (migration `20251016202246`, line 30); nothing tells the submitter (`unsigned`).
* A target created with a `type` that is neither `GENERAL` nor `SCOPE` is compared with no other and is stored as
  `SCOPE`: the body is a union, which `ValidationPipe` does not check (`target.controller.ts:110`,
  `target.service.ts:271`).
* A baseline assessment picked by hand may lack a month or the last year (`target.service.ts:178`); the look-up
  behind the figures skips it (`:64`), so that the target has another baseline or none.
* `updateCompanyUser` writes any status (`company-users.service.ts:57`); `AdminAuthService.verifyEmail` sets the
  account it is given, a suspended one too, to `approved`, with which `validateUser` lets nobody log in.
* The platform's `updateUser` moves a user to another company and leaves his department and the units he leads where they are
  (`admin-users.service.ts:255`), and `inviteUser` places him in any department (`:153`).
* `updateStatus` of a company without an administrator activates the company and nobody (`company.service.ts:71`).
* An invitation cannot be completed once a lead with its address was created as a pending user.
* `deleteIndustry` expects the database to refuse an industry with companies; the key is optional, so they
  are detached. Two first calls of `getSettings` create two rows.
* `reactivateUser` activates accounts that were never approved (`admin-users.service.ts:229`); `refresh`
  does not look at a suspension (`auth.controller.ts:201`); a code sent again is stored as a signed token
  that no comparison accepts (`otp.service.ts:83`); `socialLogin` creates a company of one fixed, unique
  name (`auth.service.ts:360`).
* Purchased steam is computed with the factor of cooling (`computation.service.ts:455`), and the stamp of a
  computed emission is not reset when its inputs go.
* The first positive of several candidates is shown in a report, so that a legitimate 0 is passed over
  (`report.service.ts:596`, whose comment means to avoid just that; `ReportFollowsDocument` states what is
  shown); the report of a baseline year shows the baseline as the current figure.
* The dashboard counts groups against 36 names, the calculator against 38.

## 7. Plan

Done: `ReviewLifecycle`, `AssessmentReview`, `AssessmentTasks`, `Disclosure` with its four modules of operators,
`Targets`, `Accounts`, `Permissions` and `Onboarding`, with proofs of every safety invariant and action property
their runs check, and of the refinement for one request at a time.

Left, in this order:

1. An abstract specification for overlapping requests, with `MarkGroup` writing an older status, that
   `Spec` implements without `OneAtATime`.
2. The lists of `CompanySetupService` as one transaction each, with the rollback and the mails that went
   out before it.
3. Billing: subscription and invoice states.

## 8. Not modelled, and why

Billing, sectors and industries, the platform's settings row: single-row CRUD whose guards are unique and
foreign keys. Audit log, activities and e-mail: append-only or best effort, read by nothing that decides.
Uploads, throttling, exception formatting, configuration: input and output. Legacy scope 1 and scope 2
endpoints and the single-formula computation endpoints (water, air, biodiversity, metrics): a formula and a
row, no later reader. Seed and maintenance scripts are run by hand.

Code no request reaches is left out too: `registerAdmin` connects company 0, which no database has;
`otp/send` and `otp/verify` look up a `userId` that no request's user carries; `AuthService.verifyEmail` and
`AuthService.refresh` have no caller.

Within modelled components: texts, averages by industry, trends and the export of reports; the texts of
suggestions and grades; the contents of `assessmentData` beyond the fields its figures use. Which company a
caller may touch is a guard on the first query of each handler; `AssessmentReview` and `AssessmentTasks`
have one company, `Onboarding` has several. In
`AssessmentReview` nobody deletes the creator of an assessment, whose e-mail address declining needs; in
`Onboarding` the refresh tokens of deleted accounts, a user's change of his own address (`user.service.ts:66`) and
sign-ups through another service, whose company has a fixed name until it is completed, are left out.
