------------------------------- MODULE Targets -------------------------------
(***************************************************************************)
(* The reduction targets of a company (TargetService) over its assessments *)
(* and the figures computeTargetEmissions reads for them.                  *)
(*                                                                         *)
(* A target is checked against the rows found by earlier queries and       *)
(* written by a later call, with whatever other requests did in between.   *)
(* Rows are numbered by their sequences, so a greater number was created   *)
(* later.  An emission is abstracted to the assessment it is read from,    *)
(* reduction percentages and descriptions are left out.                    *)
(***************************************************************************)
EXTENDS Integers, FiniteSets, FiniteSetsExt

CONSTANTS
    None,               \* null
    Cleared,            \* null sent for a per-scope year of an update
    Unknown,            \* any type in the body of a creation but the two the code names
    Years,
    ThisYear,
    Names,
    Scopes,
    ScopeYears,         \* the per-scope years a creation can give, None for none
    ScopeChanges,       \* those an update can give
    Slots,              \* requests in progress at once
    MaxAssessments,
    MaxTargets

ASSUME YearsAssumption ==
    /\ Years \subseteq Nat \ {0} /\ IsFiniteSet(Years) /\ Years # {} /\ ThisYear \in Nat
    /\ None \notin Nat /\ Cleared \notin Nat /\ Cleared # None
ASSUME ScopesAssumption ==
    /\ IsFiniteSet(Scopes)
    /\ ScopeYears \subseteq [Scopes -> [baseline : Years \cup {None}, until : Years \cup {None}]]
    /\ ScopeChanges \subseteq [Scopes -> [baseline : Years \cup {None, Cleared},
                                         until : Years \cup {None, Cleared}]]
ASSUME NamesAssumption  == None \notin Names
ASSUME UnknownAssumption == Unknown \notin {"GENERAL", "SCOPE"}
ASSUME MaximaAssumption == MaxAssessments \in Nat /\ MaxTargets \in Nat

VARIABLES
    assessment,         \* the table: 1..MaxAssessments -> row or None
    drafted,            \* its sequence
    target,             \* the table: 1..MaxTargets -> row or None
    numbered,           \* its sequence
    req                 \* slot -> request in progress or None

vars == <<assessment, drafted, target, numbered, req>>

Types       == {"GENERAL", "SCOPE"}
Asked       == Types \cup {Unknown}
Assessments == 1..MaxAssessments
Targets     == 1..MaxTargets
YearOrNone  == Years \cup {None}

\* whole: its months and its last year are not empty; measured: its data has a total.
AssessmentRow == [year : Years, eligible : BOOLEAN, measured : BOOLEAN, whole : BOOLEAN]

\* asked, checked, picked, approved, seen, widened and edited record how the row came to be:
\* the type its creation asked for, the baseline assessment it looked at and whether the
\* request named that one, the assessments approved and the targets there at that time,
\* whether its years were replaced by per-scope ones after the checks, and edited later.
TargetRow ==
    [type : Types, name : Names, baseline : Years, until : Years,
     scopes : [Scopes -> [baseline : YearOrNone, until : YearOrNone]],
     asked : Asked, checked : Assessments, picked : BOOLEAN, approved : SUBSET Assessments,
     seen : SUBSET Targets, widened : BOOLEAN, edited : BOOLEAN]

Live    == {t \in Targets : target[t] # None}
Drafts  == {a \in Assessments : assessment[a] # None /\ ~assessment[a].eligible}

\* BASELINE_ELIGIBLE_STATUSES: approved and submitted_approved.
Eligible == {a \in Assessments : assessment[a] # None /\ assessment[a].eligible}

Init ==
    /\ assessment = [a \in Assessments |-> None]
    /\ drafted = 0
    /\ target = [t \in Targets |-> None]
    /\ numbered = 0
    /\ req = [r \in Slots |-> None]

-----------------------------------------------------------------------------
(* Assessments, as far as targets look at them.                             *)

\* An assessment of year y; without figures if nothing was saved before its submission.  The
\* period of the body need not be whole, and nothing writes it again.
CreateAssessment(y, measured, whole) ==
    /\ drafted < MaxAssessments
    /\ drafted' = drafted + 1
    /\ assessment' = [assessment EXCEPT
            ![drafted + 1] = [year |-> y, eligible |-> FALSE,
                              measured |-> measured, whole |-> whole]]
    /\ UNCHANGED <<target, numbered, req>>

\* Approved, or submitted in a company that needs no review; not necessarily in order.
Settle(a) ==
    /\ a \in Drafts
    /\ assessment' = [assessment EXCEPT ![a].eligible = TRUE]
    /\ UNCHANGED <<drafted, target, numbered, req>>

\* submitGroup overlapping the decision writes back the status it read before it.
Unsettle(a) ==
    /\ a \in Eligible
    /\ assessment' = [assessment EXCEPT ![a].eligible = FALSE]
    /\ UNCHANGED <<drafted, target, numbered, req>>

Discard(a) ==
    /\ a \in Drafts
    /\ assessment' = [assessment EXCEPT ![a] = None]
    /\ UNCHANGED <<drafted, target, numbered, req>>

-----------------------------------------------------------------------------
(* Reading.                                                                 *)

\* fetchAssessmentsForCompute and resolveBaselineForYear pass over a period with a gap, ...
Whole           == {a \in Eligible : assessment[a].whole}
Of(y)           == {a \in Whole : assessment[a].year = y}
Between(b, u)   == {a \in Whole : assessment[a].year > b /\ assessment[a].year <= u}

\* Mutant of Approved: the year of the assessment is not compared.
AnyApproved(y)  == Eligible

\* ... validateExplicitBaselineAssessment does not.
Approved(y)     == {a \in Eligible : assessment[a].year = y}

\* findBaselineAssessment, resolveBaselineForYear: the first created of the year.
FirstOf(y) == IF Of(y) = {} THEN None ELSE CHOOSE a \in Of(y) : \A c \in Of(y) : a <= c

\* Mutant of LatestBetween: the latest by year, not by creation.
HighestBetween(b, u) ==
    IF Between(b, u) = {} THEN None
    ELSE CHOOSE a \in Between(b, u) :
            \A c \in Between(b, u) : assessment[c].year <= assessment[a].year

\* findCurrentAssessment: the last created of the years after the baseline up to the target.
LatestBetween(b, u) ==
    IF Between(b, u) = {} THEN None
    ELSE CHOOSE a \in Between(b, u) : \A c \in Between(b, u) : c <= a

\* The years of each figure a target shows: its own, or those of each of its scopes.
WhenNone(y, default) == IF y = None THEN default ELSE y
Spans(t) ==
    IF target[t].type = "GENERAL"
    THEN {[baseline |-> target[t].baseline, until |-> target[t].until]}
    ELSE {[baseline |-> WhenNone(target[t].scopes[s].baseline, target[t].baseline),
           until    |-> WhenNone(target[t].scopes[s].until, target[t].until)] : s \in Scopes}

-----------------------------------------------------------------------------
(* Creating.                                                                *)

\* Mutant of SameType: only the active targets of the type are looked at.
ActiveOfType(type) == {u \in Live : target[u].type = type /\ target[u].until >= ThisYear}

\* None, for a type no row is stored with.
SameType(type) == {u \in Live : target[u].type = type}

\* Mutant of Ordered: a target may end in its baseline year.
OrderedLoosely(b, u) == u >= b

Ordered(b, u) == u > b
Overlaps(b, u, other) == b <= target[other].until /\ u >= target[other].baseline
Active(t) == target[t].until >= ThisYear

(***************************************************************************)
(* createTarget up to its writes: the years, the baseline (the assessment  *)
(* the request picked, or the first of the year), the name and the targets *)
(* of the type.  The first two queries answer for rows the third one does  *)
(* not look at, and the name is checked again by the unique index, so the  *)
(* three are one step.  The body is a union of two classes, which nothing  *)
(* validates: its type is compared with those of the rows as it is.        *)
(***************************************************************************)
CreateRead(r, type, name, b, u, pick, years) ==
    LET base == IF pick # None THEN pick ELSE FirstOf(b)
    IN  /\ req[r] = None
        /\ Ordered(b, u)
        /\ base \in Approved(b) /\ assessment[base].measured
        /\ \A t \in Live : target[t].name # name
        /\ \A t \in SameType(type) : ~Overlaps(b, u, t) /\ ~Active(t)
        /\ req' = [req EXCEPT ![r] =
                [op |-> "create", type |-> type, name |-> name, baseline |-> b, until |-> u,
                 years |-> years, base |-> base, picked |-> pick # None,
                 approved |-> Eligible, seen |-> Live]]
        /\ UNCHANGED <<assessment, drafted, target, numbered>>

\* The years of a scope target: the least and the greatest the scopes give, if any.
Given(years, field) == {years[s][field] : s \in Scopes} \ {None}

\* Mutant of EarliestOf: the year of one scope, given or not.
YearOfAScope(q) ==
    IF q.type = "GENERAL" THEN q.baseline ELSE q.years[CHOOSE s \in Scopes : TRUE].baseline

EarliestOf(q) ==
    LET ys == Given(q.years, "baseline")
    IN  IF q.type = "GENERAL" \/ ys = {} THEN q.baseline ELSE Min(ys)
FurthestOf(q) ==
    LET ys == Given(q.years, "until")
    IN  IF q.type = "GENERAL" \/ ys = {} THEN q.until ELSE Max(ys)

\* createTarget calls createScopeTarget for every type but GENERAL.
Stored(type) == IF type = "GENERAL" THEN "GENERAL" ELSE "SCOPE"

\* Mutant of NewRow: a scope without years takes those of the request.
RowOfRequest(q) ==
    [type |-> Stored(q.type), name |-> q.name, baseline |-> EarliestOf(q), until |-> FurthestOf(q),
     scopes |-> [s \in Scopes |-> [baseline |-> WhenNone(q.years[s].baseline, q.baseline),
                                   until    |-> WhenNone(q.years[s].until, q.until)]],
     asked |-> q.type, checked |-> q.base, picked |-> q.picked, approved |-> q.approved,
     seen |-> q.seen, edited |-> FALSE,
     widened |-> EarliestOf(q) # q.baseline \/ FurthestOf(q) # q.until]

\* createGeneralTarget, createScopeTarget: a scope without years takes those of the target.
\* A general target has no scopes; nothing reads the field of its row.
NewRow(q) ==
    [type |-> Stored(q.type), name |-> q.name, baseline |-> EarliestOf(q), until |-> FurthestOf(q),
     scopes |-> [s \in Scopes |-> [baseline |-> WhenNone(q.years[s].baseline, EarliestOf(q)),
                                   until    |-> WhenNone(q.years[s].until, FurthestOf(q))]],
     asked |-> q.type, checked |-> q.base, picked |-> q.picked, approved |-> q.approved,
     seen |-> q.seen, edited |-> FALSE,
     widened |-> EarliestOf(q) # q.baseline \/ FurthestOf(q) # q.until]

NameFree(name, but) == \A t \in Live \ {but} : target[t].name # name

CreateWrite(r) ==
    /\ req[r] # None /\ req[r].op = "create"
    /\ NameFree(req[r].name, 0)
    /\ numbered < MaxTargets
    /\ numbered' = numbered + 1
    /\ target' = [target EXCEPT ![numbered + 1] = NewRow(req[r])]
    /\ req' = [req EXCEPT ![r] = None]
    /\ UNCHANGED <<assessment, drafted>>

-----------------------------------------------------------------------------
(* Updating and deleting.                                                   *)

\* updateTarget up to its writes: only the two years of the request are compared.
UpdateRead(r, t, name, b, u, years) ==
    /\ req[r] = None
    /\ t \in Live
    /\ b # None /\ u # None => Ordered(b, u)
    /\ name # None => NameFree(name, t)
    /\ req' = [req EXCEPT ![r] =
            [op |-> IF target[t].type = "SCOPE" /\ years # None THEN "scopes" ELSE "update",
             target |-> t, name |-> name, baseline |-> b, until |-> u, years |-> years]]
    /\ UNCHANGED <<assessment, drafted, target, numbered>>

\* A year that was sent replaces the one stored, null too.
Changed(given, stored) == IF given = Cleared THEN None ELSE WhenNone(given, stored)

\* updateScopeTarget, its transaction: the rows of the scopes, none if the target is gone.
UpdateScopes(r) ==
    /\ req[r] # None /\ req[r].op = "scopes"
    /\ LET t == req[r].target
           new(s) == [baseline |-> Changed(req[r].years[s].baseline, target[t].scopes[s].baseline),
                      until    |-> Changed(req[r].years[s].until, target[t].scopes[s].until)]
       IN  target' = IF t \in Live
                     THEN [target EXCEPT ![t].scopes = [s \in Scopes |-> new(s)],
                                         ![t].edited = TRUE]
                     ELSE target
    /\ req' = [req EXCEPT ![r].op = "update"]
    /\ UNCHANGED <<assessment, drafted, numbered>>

\* updateGeneralTarget, and the second call of updateScopeTarget.
UpdateWrite(r) ==
    /\ req[r] # None /\ req[r].op = "update"
    /\ LET t == req[r].target
       IN  /\ t \in Live
           /\ req[r].name # None => NameFree(req[r].name, t)
           /\ target' = [target EXCEPT
                ![t].name     = WhenNone(req[r].name, @),
                ![t].baseline = WhenNone(req[r].baseline, @),
                ![t].until    = WhenNone(req[r].until, @),
                ![t].edited   = @ \/ req[r].baseline # None \/ req[r].until # None]
    /\ req' = [req EXCEPT ![r] = None]
    /\ UNCHANGED <<assessment, drafted, numbered>>

DeleteTarget(t) ==
    /\ t \in Live
    /\ target' = [target EXCEPT ![t] = None]
    /\ UNCHANGED <<assessment, drafted, numbered, req>>

\* A request ends between two calls: a unique name taken meanwhile, a row gone, an error.
Fail(r) ==
    /\ req[r] # None
    /\ req' = [req EXCEPT ![r] = None]
    /\ UNCHANGED <<assessment, drafted, target, numbered>>

Next ==
    \/ \E y \in Years, m, w \in BOOLEAN : CreateAssessment(y, m, w)
    \/ \E a \in Assessments : Settle(a) \/ Unsettle(a) \/ Discard(a)
    \/ \E r \in Slots :
          \/ \E type \in Asked, name \in Names, b, u \in Years,
                pick \in Assessments \cup {None}, years \in ScopeYears :
                   CreateRead(r, type, name, b, u, pick, years)
          \/ \E t \in Targets, name \in Names \cup {None}, b, u \in YearOrNone,
                years \in ScopeChanges \cup {None} : UpdateRead(r, t, name, b, u, years)
          \/ CreateWrite(r) \/ UpdateScopes(r) \/ UpdateWrite(r) \/ Fail(r)
    \/ \E t \in Targets : DeleteTarget(t)

Spec == Init /\ [][Next]_vars

-----------------------------------------------------------------------------
(* Properties.                                                              *)

CreateRequest ==
    [op : {"create"}, type : Asked, name : Names, baseline : Years, until : Years,
     years : ScopeYears, base : Assessments, picked : BOOLEAN, approved : SUBSET Assessments,
     seen : SUBSET Targets]
UpdateRequest ==
    [op : {"scopes", "update"}, target : Targets, name : Names \cup {None},
     baseline : YearOrNone, until : YearOrNone, years : ScopeChanges \cup {None}]

\* The tables and the requests in progress hold what the code puts there, and a row never
\* has a number its sequence did not give yet.
TypeOK ==
    /\ assessment \in [Assessments -> AssessmentRow \cup {None}]
    /\ drafted \in 0..MaxAssessments
    /\ target \in [Targets -> TargetRow \cup {None}]
    /\ numbered \in 0..MaxTargets
    /\ req \in [Slots -> CreateRequest \cup UpdateRequest \cup {None}]
    /\ \A a \in Assessments : assessment[a] # None => a <= drafted
    /\ \A t \in Targets : target[t] # None => t <= numbered

Untouched(t) == ~target[t].edited /\ ~target[t].widened

(***************************************************************************)
(* Two targets of a type that cover a common year, or are both active, are *)
(* there for one of four reasons: the years of one were edited, or were    *)
(* replaced by per-scope years after they had been checked; the later one  *)
(* had looked at the targets before the earlier one was written; or it was *)
(* asked for with a type that is neither of the two, which matches no row  *)
(* in the comparison and is stored as SCOPE.  createTarget's overlap and   *)
(* active-target rules.                                                    *)
(***************************************************************************)
ConflictIsExplained ==
    \A t, u \in Live :
        /\ t < u
        /\ target[t].type = target[u].type
        /\ Untouched(t) /\ Untouched(u)
        /\ t \in target[u].seen
        /\ target[u].asked # Unknown
        => /\ ~Overlaps(target[u].baseline, target[u].until, t)
           /\ ~Active(t)

(***************************************************************************)
(* A target ends after it begins unless its years were edited (an update   *)
(* with one year is not compared with the stored other one) or replaced by *)
(* per-scope years.  createTarget, updateTarget.                           *)
(***************************************************************************)
InversionIsExplained ==
    \A t \in Live : Untouched(t) => target[t].baseline < target[t].until

(***************************************************************************)
(* The checks look at the years of the target, the figures at the years of *)
(* its scopes: until it is edited, the first contain the second, whichever *)
(* of the years a request gave.  createScopeTarget.                        *)
(***************************************************************************)
ScopesInsideSpan ==
    \A t \in Live : ~target[t].edited =>
        \A span \in Spans(t) :
            span.baseline >= target[t].baseline /\ span.until <= target[t].until

(***************************************************************************)
(* The check and the figures choose a baseline by queries of their own.    *)
(* As long as the assessment that was checked is approved, an untouched    *)
(* target shows that one, which has figures, but in three cases: one       *)
(* created before it was approved since the check; the request named it    *)
(* and passed over one created before it; the request named it and its     *)
(* period has a gap, which only the figures look at, so that the target    *)
(* may show another assessment of the year or none.                        *)
(* validateExplicitBaselineAssessment and resolveBaselineForYear against   *)
(* findBaselineAssessment.                                                 *)
(***************************************************************************)
BaselineIsExplained ==
    \A t \in Live :
        LET row   == target[t]
            first == FirstOf(row.baseline)
        IN  Untouched(t) /\ row.checked \in Eligible =>
              \/ first = row.checked /\ assessment[first].measured
              \/ first \in Whole /\ first < row.checked /\ first \notin row.approved
              \/ first \in Whole /\ first < row.checked /\ row.picked
              \/ row.picked /\ ~assessment[row.checked].whole

(***************************************************************************)
(* The figures of a target nobody touches move one way: its baseline to    *)
(* assessments created earlier, its current emission to later ones,        *)
(* whatever is drafted, approved in any order or discarded meanwhile, as   *)
(* long as no approval is written over by an overlapping submitGroup.      *)
(* findBaselineAssessment, findCurrentAssessment.                          *)
(***************************************************************************)
FiguresMoveOneWay ==
    [][ Eligible \subseteq Eligible' =>
        \A t \in Live : target'[t] = target[t] =>
          \A span \in Spans(t) :
             LET b == span.baseline
                 u == span.until
             IN  /\ FirstOf(b) # None => FirstOf(b)' # None /\ FirstOf(b)' <= FirstOf(b)
                 /\ LatestBetween(b, u) # None =>
                       /\ LatestBetween(b, u)' # None
                       /\ LatestBetween(b, u)' >= LatestBetween(b, u) ]_vars
=============================================================================
