---------------------------- MODULE Targets_proofs ----------------------------
(***************************************************************************)
(* Theorems about Targets for any number of years, scopes, assessments,    *)
(* targets and overlapping requests.                                       *)
(*                                                                         *)
(* A target obeys the rules because the request that wrote it did when it  *)
(* looked.  RequestsOK says so of the requests in progress: what they saw  *)
(* stays free of conflicts because rows only change by being edited, and   *)
(* what they did not see has a greater number.  YearIsChecked and          *)
(* FirstIsChecked do the same for the baseline: an assessment keeps its    *)
(* year, its number and its period, and the one the lookup chose was the   *)
(* first of those approved at the time.                                    *)
(***************************************************************************)
EXTENDS Targets, FiniteSetTheorems, WellFoundedInduction, TLAPS

Creating(r) == req[r] # None /\ req[r].op = "create"

RequestsOK ==
    /\ \A r \in Slots : req[r] # None /\ req[r].op = "scopes" => req[r].years # None
    /\ \A r \in Slots : Creating(r) =>
          /\ req[r].baseline < req[r].until
          /\ \A t \in req[r].seen : t <= numbered
          /\ \A t \in Live :
                /\ t \in req[r].seen /\ target[t].type = Stored(req[r].type) /\ Untouched(t)
                /\ req[r].type # Unknown
                => ~Overlaps(req[r].baseline, req[r].until, t) /\ ~Active(t)

YearIsChecked ==
    /\ \A r \in Slots : Creating(r) =>
          /\ req[r].base <= drafted
          /\ assessment[req[r].base] # None => assessment[req[r].base].year = req[r].baseline
    /\ \A t \in Live : Untouched(t) =>
          /\ target[t].checked <= drafted
          /\ assessment[target[t].checked] # None =>
                assessment[target[t].checked].year = target[t].baseline

\* The baseline assessment q found had figures, and, unless the request named it, a whole
\* period and no other before it of those approved then.
Chosen(base, picked, approved, b) ==
    /\ base <= drafted
    /\ assessment[base] # None => assessment[base].measured
    /\ \A a \in approved : a <= drafted
    /\ ~picked =>
          /\ assessment[base] # None => assessment[base].whole
          /\ \A a \in approved :
                assessment[a] # None /\ assessment[a].year = b /\ assessment[a].whole => base <= a

FirstIsChecked ==
    /\ \A r \in Slots : Creating(r) =>
          Chosen(req[r].base, req[r].picked, req[r].approved, req[r].baseline)
    /\ \A t \in Live : Untouched(t) =>
          Chosen(target[t].checked, target[t].picked, target[t].approved, target[t].baseline)

TargetsInv ==
    /\ TypeOK /\ RequestsOK /\ YearIsChecked /\ FirstIsChecked
    /\ InversionIsExplained /\ ConflictIsExplained /\ ScopesInsideSpan

-----------------------------------------------------------------------------
(* Least and greatest elements.                                             *)

\* A set of natural numbers that is not empty has a least element.
LEMMA LeastNatural ==
  ASSUME NEW S \in SUBSET Nat, S # {}
  PROVE  \E x \in S : \A y \in S : x <= y
<1>1. PICK x \in S : \A y \in S : <<y, x>> \notin OpToRel(<, Nat)
  BY WFMin, NatLessThanWellFounded
<1>2. \A y \in S : ~(y < x)
  BY <1>1 DEF OpToRel
<1>3. QED
  BY <1>2

\* A finite one has a greatest: take one without, of the least size.
LEMMA GreatestNatural ==
  ASSUME NEW S \in SUBSET Nat, IsFiniteSet(S), S # {}
  PROVE  \E x \in S : \A y \in S : y <= x
<1> DEFINE Unbounded(T) == IsFiniteSet(T) /\ T # {} /\ \A x \in T : \E y \in T : ~(y <= x)
           Sizes == {Cardinality(T) : T \in {T \in SUBSET Nat : Unbounded(T)}}
<1> SUFFICES ASSUME Unbounded(S) PROVE FALSE
  OBVIOUS
<1>1. Sizes \in SUBSET Nat /\ Sizes # {}
  BY FS_CardinalityType
<1>2. PICK n \in Sizes : \A m \in Sizes : n <= m
  BY <1>1, LeastNatural
<1>3. PICK T \in SUBSET Nat : Unbounded(T) /\ Cardinality(T) = n
  BY <1>2
<1>4. PICK x \in T : TRUE
  BY <1>3
<1> DEFINE U == T \ {x}
<1>5. U \in SUBSET Nat /\ IsFiniteSet(U) /\ Cardinality(U) = n - 1 /\ n \in Nat
  BY <1>1, <1>3, <1>4, FS_RemoveElement
<1>6. ~Unbounded(U)
  <2>1. SUFFICES ASSUME Unbounded(U) PROVE FALSE
    OBVIOUS
  <2>2. Cardinality(U) \in Sizes
    BY <1>5, <2>1
  <2>3. n <= n - 1
    BY <1>2, <1>5, <2>2
  <2>4. QED
    BY <1>5, <2>3
<1>7. CASE U = {}
  BY <1>3, <1>4, <1>7
<1>8. CASE U # {}
  <2>1. PICK z \in U : \A y \in U : y <= z
    BY <1>5, <1>6, <1>8
  <2>2. CASE x <= z
    BY <1>3, <1>4, <2>1, <2>2
  <2>3. CASE ~(x <= z)
    BY <1>3, <1>4, <2>1, <2>3
  <2>4. QED
    BY <2>2, <2>3
<1>9. QED
  BY <1>7, <1>8

LEMMA YearsAreNat == /\ Years \subseteq Nat /\ IsFiniteSet(Years)
                     /\ None \notin Years /\ None \notin Assessments
                     /\ Assessments \subseteq Nat /\ Targets \subseteq Nat
<1>1. Assessments \subseteq Nat /\ Targets \subseteq Nat
  BY MaximaAssumption DEF Assessments, Targets
<1>2. QED
  BY YearsAssumption, <1>1

\* The years of a row contain those its scopes give.
LEMMA YearsGiven ==
  ASSUME NEW q \in CreateRequest
  PROVE  /\ EarliestOf(q) \in Years /\ FurthestOf(q) \in Years
         /\ q.type # "GENERAL" => \A s \in Scopes :
               /\ q.years[s].baseline # None => EarliestOf(q) <= q.years[s].baseline
               /\ q.years[s].until # None => FurthestOf(q) >= q.years[s].until
<1> USE YearsAreNat
<1>1. q.years \in [Scopes -> [baseline : Years \cup {None}, until : Years \cup {None}]]
      /\ q.baseline \in Years /\ q.until \in Years
  BY ScopesAssumption DEF CreateRequest
<1>2. ASSUME NEW ys \in SUBSET Years, ys # {}
      PROVE  /\ Min(ys) \in ys /\ \A y \in ys : Min(ys) <= y
             /\ Max(ys) \in ys /\ \A y \in ys : Max(ys) >= y
  <2>1. ys \in SUBSET Nat /\ IsFiniteSet(ys)
    BY FS_Subset
  <2>2. PICK least \in ys : \A y \in ys : least <= y
    BY <1>2, <2>1, LeastNatural
  <2>3. PICK greatest \in ys : \A y \in ys : y <= greatest
    BY <1>2, <2>1, GreatestNatural
  <2>4. Min(ys) \in ys /\ \A y \in ys : Min(ys) <= y
    BY <2>2 DEF Min
  <2>5. greatest \in ys /\ \A y \in ys : greatest >= y
    BY <2>1, <2>3
  <2>6. Max(ys) \in ys /\ \A y \in ys : Max(ys) >= y
    BY <2>5 DEF Max
  <2>7. QED
    BY <2>4, <2>6
<1>3. /\ Given(q.years, "baseline") \in SUBSET Years
      /\ \A s \in Scopes : q.years[s].baseline # None => q.years[s].baseline \in Given(q.years, "baseline")
  BY <1>1 DEF Given
<1>4. /\ Given(q.years, "until") \in SUBSET Years
      /\ \A s \in Scopes : q.years[s].until # None => q.years[s].until \in Given(q.years, "until")
  BY <1>1 DEF Given
<1>5. EarliestOf(q) \in Years /\ (q.type # "GENERAL" =>
        \A s \in Scopes : q.years[s].baseline # None => EarliestOf(q) <= q.years[s].baseline)
  BY <1>1, <1>2, <1>3 DEF EarliestOf
<1>6. FurthestOf(q) \in Years /\ (q.type # "GENERAL" =>
        \A s \in Scopes : q.years[s].until # None => FurthestOf(q) >= q.years[s].until)
  BY <1>1, <1>2, <1>4 DEF FurthestOf
<1>7. QED
  BY <1>5, <1>6

LEMMA NewRowType ==
  ASSUME NEW q \in CreateRequest
  PROVE  NewRow(q) \in TargetRow
<1>1. EarliestOf(q) \in Years /\ FurthestOf(q) \in Years
  BY YearsGiven
<1>2. \A s \in Scopes : /\ WhenNone(q.years[s].baseline, EarliestOf(q)) \in YearOrNone
                        /\ WhenNone(q.years[s].until, FurthestOf(q)) \in YearOrNone
  BY <1>1, ScopesAssumption DEF CreateRequest, WhenNone, YearOrNone
<1>3. [s \in Scopes |-> [baseline |-> WhenNone(q.years[s].baseline, EarliestOf(q)),
                         until    |-> WhenNone(q.years[s].until, FurthestOf(q))]]
      \in [Scopes -> [baseline : YearOrNone, until : YearOrNone]]
  BY <1>2
<1>4. (EarliestOf(q) # q.baseline \/ FurthestOf(q) # q.until) \in BOOLEAN
  OBVIOUS
<1>5. /\ Stored(q.type) \in Types /\ q.type \in Asked /\ q.name \in Names
      /\ q.base \in Assessments /\ q.picked \in BOOLEAN /\ q.approved \in SUBSET Assessments
      /\ q.seen \in SUBSET Targets
  BY DEF CreateRequest, Stored, Types
<1>6. QED
  BY <1>1, <1>3, <1>4, <1>5 DEF NewRow, TargetRow
-----------------------------------------------------------------------------
(* Type correctness.                                                        *)

\* A request to create is typed by its operation, and so is one to update.
LEMMA RequestKinds ==
  ASSUME TypeOK, NEW r \in Slots, req[r] # None
  PROVE  /\ req[r].op = "create" => req[r] \in CreateRequest
         /\ req[r].op \in {"scopes", "update"} => req[r] \in UpdateRequest
BY DEF TypeOK, CreateRequest, UpdateRequest

LEMMA LiveRow ==
  ASSUME TypeOK, NEW t \in Live
  PROVE  t \in Targets /\ target[t] \in TargetRow /\ t <= numbered
BY DEF TypeOK, Live

\* A step that writes one row that was there, or none.
LEMMA RowWritten ==
  ASSUME TypeOK, NEW t \in Live, NEW row \in TargetRow \cup {None},
         target' = [target EXCEPT ![t] = row], UNCHANGED <<assessment, drafted, numbered>>,
         req' \in [Slots -> CreateRequest \cup UpdateRequest \cup {None}]
  PROVE  TypeOK'
<1>1. t \in Targets /\ t <= numbered
  BY LiveRow
<1>2. target' \in [Targets -> TargetRow \cup {None}]
  BY <1>1 DEF TypeOK
<1>3. \A u \in Targets : target'[u] # None => u <= numbered
  BY <1>1 DEF TypeOK
<1>4. QED
  BY <1>2, <1>3 DEF TypeOK

LEMMA AssessmentTypes ==
  ASSUME TypeOK, UNCHANGED <<target, numbered, req>>,
         \/ \E y \in Years, m, w \in BOOLEAN : CreateAssessment(y, m, w)
         \/ \E a \in Assessments : Settle(a) \/ Unsettle(a) \/ Discard(a)
  PROVE  TypeOK'
<1>1. ASSUME NEW y \in Years, NEW m \in BOOLEAN, NEW w \in BOOLEAN, CreateAssessment(y, m, w)
      PROVE  TypeOK'
  <2> DEFINE row == [year |-> y, eligible |-> FALSE, measured |-> m, whole |-> w]
  <2>1. drafted + 1 \in Assessments /\ drafted' = drafted + 1 /\ drafted' \in 0..MaxAssessments
    BY <1>1, MaximaAssumption DEF CreateAssessment, TypeOK, Assessments
  <2>2. assessment' = [assessment EXCEPT ![drafted + 1] = row] /\ row \in AssessmentRow
    BY <1>1 DEF CreateAssessment, AssessmentRow
  <2> HIDE DEF row
  <2>3. assessment' \in [Assessments -> AssessmentRow \cup {None}]
    BY <2>1, <2>2 DEF TypeOK
  <2>4. \A a \in Assessments : assessment'[a] # None => a <= drafted'
    BY <2>1, <2>2 DEF TypeOK, Assessments
  <2>5. QED
    BY <2>1, <2>3, <2>4 DEF TypeOK
<1>2. ASSUME NEW a \in Assessments, Settle(a) \/ Unsettle(a) PROVE TypeOK'
  <2>1. assessment[a] # None /\ assessment[a] \in AssessmentRow
    BY <1>2 DEF Settle, Unsettle, Drafts, Eligible, TypeOK
  <2>2. PICK e \in BOOLEAN : assessment' = [assessment EXCEPT ![a].eligible = e]
    BY <1>2 DEF Settle, Unsettle
  <2> DEFINE row == [assessment[a] EXCEPT !.eligible = e]
  <2>3. row \in AssessmentRow
    BY <2>1 DEF AssessmentRow
  <2>4. assessment' = [assessment EXCEPT ![a] = row]
    BY <2>2 DEF TypeOK
  <2> HIDE DEF row
  <2>5. assessment' \in [Assessments -> AssessmentRow \cup {None}]
        /\ \A b \in Assessments : assessment'[b] # None => b <= drafted
    BY <2>1, <2>3, <2>4 DEF TypeOK
  <2>6. QED
    BY <1>2, <2>5 DEF TypeOK, Settle, Unsettle
<1>3. ASSUME NEW a \in Assessments, Discard(a) PROVE TypeOK'
  BY <1>3 DEF Discard, TypeOK
<1>4. QED
  BY <1>1, <1>2, <1>3

\* The lookup of a baseline finds the first of the year, if there is one.
LEMMA FirstIsLeast ==
  ASSUME NEW y
  PROVE  /\ Of(y) = {} => FirstOf(y) = None
         /\ Of(y) # {} => FirstOf(y) \in Of(y) /\ \A c \in Of(y) : FirstOf(y) <= c
<1>1. Of(y) \in SUBSET Nat
  BY YearsAreNat DEF Of, Whole, Eligible
<1>2. Of(y) # {} => \E a \in Of(y) : \A c \in Of(y) : a <= c
  BY <1>1, LeastNatural
<1>3. QED
  BY <1>2 DEF FirstOf

\* What createTarget looked at.
Wanted(type, name, b, u, years, base, picked) ==
    [op |-> "create", type |-> type, name |-> name, baseline |-> b, until |-> u,
     years |-> years, base |-> base, picked |-> picked, approved |-> Eligible, seen |-> Live]

LEMMA CreateReadRequest ==
  ASSUME TypeOK, NEW r \in Slots, NEW type \in Asked, NEW name \in Names, NEW b \in Years, NEW u \in Years,
         NEW pick \in Assessments \cup {None}, NEW years \in ScopeYears,
         CreateRead(r, type, name, b, u, pick, years)
  PROVE  \E base \in Approved(b), picked \in BOOLEAN :
            /\ Wanted(type, name, b, u, years, base, picked) \in CreateRequest
            /\ req' = [req EXCEPT ![r] = Wanted(type, name, b, u, years, base, picked)]
            /\ assessment[base].measured
            /\ ~picked => base \in Of(b) /\ \A a \in Of(b) : base <= a
<1> DEFINE base   == IF pick # None THEN pick ELSE FirstOf(b)
           picked == pick # None
           q      == Wanted(type, name, b, u, years, base, picked)
<1>1. base \in Approved(b) /\ assessment[base].measured /\ req' = [req EXCEPT ![r] = q]
  BY DEF CreateRead, Wanted
<1>2. base \in Assessments /\ Live \in SUBSET Targets /\ Eligible \in SUBSET Assessments
  BY <1>1 DEF Approved, Eligible, Live
<1>3. ~picked => base \in Of(b) /\ \A a \in Of(b) : base <= a
  BY <1>2, FirstIsLeast, YearsAreNat
<1>4. picked \in BOOLEAN
  OBVIOUS
<1> HIDE DEF base, picked
<1>5. q \in CreateRequest
  BY <1>2, <1>4 DEF CreateRequest, Wanted
<1>6. QED
  BY <1>1, <1>3, <1>4, <1>5

\* What updateTarget looked at.
LEMMA UpdateReadRequest ==
  ASSUME TypeOK, NEW r \in Slots, NEW t \in Targets, NEW name \in Names \cup {None},
         NEW b \in YearOrNone, NEW u \in YearOrNone, NEW years \in ScopeChanges \cup {None},
         UpdateRead(r, t, name, b, u, years)
  PROVE  \E q \in UpdateRequest : /\ req' = [req EXCEPT ![r] = q]
                                  /\ q.op = "scopes" => q.years # None
<1> DEFINE op == IF target[t].type = "SCOPE" /\ years # None THEN "scopes" ELSE "update"
           q  == [op |-> op, target |-> t, name |-> name, baseline |-> b, until |-> u,
                  years |-> years]
<1>1. req' = [req EXCEPT ![r] = q]
  BY DEF UpdateRead
<1>2. op \in {"scopes", "update"} /\ (op = "scopes" => years # None)
  OBVIOUS
<1> HIDE DEF op
<1>3. q \in UpdateRequest /\ q.op = op /\ q.years = years
  BY <1>2 DEF UpdateRequest
<1>4. QED
  BY <1>1, <1>2, <1>3

(***************************************************************************)
(* What the two calls of an update write: a row that is edited, or has the *)
(* years it had.                                                           *)
(***************************************************************************)
SameYears(row, old) ==
    /\ row.type = old.type /\ row.baseline = old.baseline /\ row.until = old.until
    /\ row.scopes = old.scopes /\ row.checked = old.checked /\ row.seen = old.seen
    /\ row.asked = old.asked /\ row.picked = old.picked /\ row.approved = old.approved
    /\ row.widened = old.widened /\ row.edited = old.edited

LEMMA UpdateScopesRow ==
  ASSUME TypeOK, RequestsOK, NEW r \in Slots, UpdateScopes(r), req[r].target \in Live
  PROVE  \E row \in TargetRow : target' = [target EXCEPT ![req[r].target] = row] /\ row.edited
<1> DEFINE t == req[r].target
           new(s) == [baseline |-> Changed(req[r].years[s].baseline, target[t].scopes[s].baseline),
                      until    |-> Changed(req[r].years[s].until, target[t].scopes[s].until)]
           scopes == [s \in Scopes |-> new(s)]
           row == [target[t] EXCEPT !.scopes = scopes, !.edited = TRUE]
<1>1. target[t] \in TargetRow /\ t \in Targets
  BY LiveRow
<1>2. req[r] # None /\ req[r].op = "scopes" /\ req[r] \in UpdateRequest
  BY RequestKinds DEF UpdateScopes
<1>3. req[r].years \in ScopeChanges
  BY <1>2 DEF RequestsOK, UpdateRequest
<1>4. \A s \in Scopes : new(s) \in [baseline : YearOrNone, until : YearOrNone]
  BY <1>1, <1>3, ScopesAssumption DEF TargetRow, Changed, WhenNone, YearOrNone
<1>5. scopes \in [Scopes -> [baseline : YearOrNone, until : YearOrNone]]
  BY <1>4
<1>6. target' = [target EXCEPT ![t].scopes = scopes, ![t].edited = TRUE]
  BY DEF UpdateScopes
<1> HIDE DEF scopes
<1>7. row \in TargetRow /\ row.edited
  BY <1>1, <1>5 DEF TargetRow
<1>8. target' = [target EXCEPT ![t] = row]
  BY <1>1, <1>6 DEF TypeOK
<1>9. QED
  BY <1>7, <1>8

LEMMA UpdateWriteRow ==
  ASSUME TypeOK, NEW r \in Slots, UpdateWrite(r)
  PROVE  /\ req[r].target \in Live
         /\ \E row \in TargetRow :
               /\ target' = [target EXCEPT ![req[r].target] = row]
               /\ row.edited \/ SameYears(row, target[req[r].target])
<1> DEFINE t == req[r].target
           old == target[t]
           row == [old EXCEPT !.name     = WhenNone(req[r].name, @),
                              !.baseline = WhenNone(req[r].baseline, @),
                              !.until    = WhenNone(req[r].until, @),
                              !.edited   = @ \/ req[r].baseline # None \/ req[r].until # None]
<1>1. t \in Live /\ old \in TargetRow /\ t \in Targets
  BY LiveRow DEF UpdateWrite
<1>2. req[r] \in UpdateRequest
  BY RequestKinds DEF UpdateWrite
<1>3. target' = [target EXCEPT ![t] = row]
  BY <1>1 DEF UpdateWrite, TypeOK
<1>4. /\ WhenNone(req[r].name, old.name) \in Names
      /\ WhenNone(req[r].baseline, old.baseline) \in Years
      /\ WhenNone(req[r].until, old.until) \in Years
  BY <1>1, <1>2 DEF TargetRow, UpdateRequest, WhenNone, YearOrNone
<1>5. old.edited \in BOOLEAN
  BY <1>1 DEF TargetRow
<1>6. (old.edited \/ req[r].baseline # None \/ req[r].until # None) \in BOOLEAN
  BY <1>5
<1>7. row \in TargetRow
  BY <1>1, <1>4, <1>6 DEF TargetRow
<1>8. CASE req[r].baseline = None /\ req[r].until = None
  <2>1. row.edited = old.edited
    BY <1>1, <1>5, <1>8 DEF TargetRow
  <2>2. SameYears(row, old)
    BY <1>1, <1>8, <2>1 DEF SameYears, TargetRow, WhenNone
  <2>3. QED
    BY <1>1, <1>3, <1>7, <2>2
<1>9. CASE req[r].baseline # None \/ req[r].until # None
  <2>1. row.edited
    BY <1>1, <1>9 DEF TargetRow
  <2>2. QED
    BY <1>1, <1>3, <1>7, <2>1
<1>10. QED
  BY <1>8, <1>9
-----------------------------------------------------------------------------
(* The invariant.                                                           *)

\* The rows keep their years or are edited, requests that look begin with nothing to create,
\* and assessments keep their years and their numbers.
KeepsRows ==
    \A t \in Live' : t \in Live /\ (target'[t].edited \/ SameYears(target'[t], target[t]))

CreatesNothing ==
    \A r \in Slots :
       \/ req'[r] = req[r]
       \/ req'[r] # None => /\ req'[r].op # "create"
                            /\ req'[r].op = "scopes" => req'[r].years # None

KeepsAssessments ==
    /\ drafted <= drafted'
    /\ \A a \in Assessments :
          a <= drafted /\ assessment'[a] # None =>
             /\ assessment[a] # None /\ assessment'[a].year = assessment[a].year
             /\ assessment'[a].measured = assessment[a].measured
             /\ assessment'[a].whole = assessment[a].whole

\* What a request chose stays the first of those that were approved when it looked.
StillChosen(base, picked, approved, b) ==
    /\ base <= drafted'
    /\ assessment'[base] # None => assessment'[base].measured
    /\ \A a \in approved : a <= drafted'
    /\ ~picked =>
          /\ assessment'[base] # None => assessment'[base].whole
          /\ \A a \in approved :
                assessment'[a] # None /\ assessment'[a].year = b /\ assessment'[a].whole => base <= a

LEMMA ChosenStays ==
  ASSUME TypeOK, KeepsAssessments, drafted' \in Nat,
         NEW base \in Assessments, NEW picked, NEW approved \in SUBSET Assessments, NEW b,
         Chosen(base, picked, approved, b)
  PROVE  StillChosen(base, picked, approved, b)
<1>1. base \in Nat /\ drafted \in Nat /\ approved \subseteq Nat
  BY YearsAreNat, MaximaAssumption DEF TypeOK
<1>2. \A a \in approved \cup {base} : a <= drafted /\ a <= drafted' /\ a \in Assessments
  BY <1>1 DEF Chosen, KeepsAssessments
<1>3. QED
  BY <1>1, <1>2 DEF Chosen, StillChosen, KeepsAssessments

LEMMA QuietStep ==
  ASSUME TargetsInv, TypeOK', KeepsRows, CreatesNothing, KeepsAssessments, numbered' = numbered
  PROVE  TargetsInv'
<1> USE DEF TargetsInv
<1>1. \A t \in Live' : ~target'[t].edited =>
        /\ t \in Live /\ ~target[t].edited
        /\ target'[t].type = target[t].type /\ target'[t].baseline = target[t].baseline
        /\ target'[t].until = target[t].until /\ target'[t].scopes = target[t].scopes
        /\ target'[t].checked = target[t].checked /\ target'[t].seen = target[t].seen
        /\ target'[t].widened = target[t].widened /\ target'[t].asked = target[t].asked
        /\ target'[t].picked = target[t].picked /\ target'[t].approved = target[t].approved
  BY DEF KeepsRows, SameYears
<1>2. \A t \in Live' : Untouched(t)' => t \in Live /\ Untouched(t)
  BY <1>1 DEF Untouched
<1>3. \A r \in Slots : Creating(r)' => Creating(r) /\ req'[r] = req[r]
  BY DEF CreatesNothing, Creating
<1>4. drafted \in Nat /\ drafted' \in Nat
  BY MaximaAssumption DEF TypeOK
<1>5. RequestsOK'
  <2>1. \A r \in Slots : req'[r] # None /\ req'[r].op = "scopes" => req'[r].years # None
    BY DEF RequestsOK, CreatesNothing
  <2>2. ASSUME NEW r \in Slots, Creating(r)'
        PROVE  /\ req'[r].baseline < req'[r].until
               /\ \A t \in req'[r].seen : t <= numbered'
    BY <1>3, <2>2 DEF RequestsOK
  <2>3. ASSUME NEW r \in Slots, Creating(r)', NEW t \in Live',
               t \in req'[r].seen, target'[t].type = Stored(req'[r].type), Untouched(t)',
               req'[r].type # Unknown
        PROVE  /\ ~(req'[r].baseline <= target'[t].until /\ req'[r].until >= target'[t].baseline)
               /\ ~(target'[t].until >= ThisYear)
    <3>1. Creating(r) /\ req'[r] = req[r] /\ t \in Live /\ Untouched(t) /\ ~target'[t].edited
      BY <1>2, <1>3, <2>3 DEF Untouched
    <3>2. ~Overlaps(req[r].baseline, req[r].until, t) /\ ~Active(t)
      BY <1>1, <2>3, <3>1 DEF RequestsOK
    <3>3. QED
      BY <1>1, <3>1, <3>2 DEF Overlaps, Active
  <2>4. QED
    BY <2>1, <2>2, <2>3 DEF RequestsOK, Overlaps, Active
<1>6. YearIsChecked'
  <2>1. ASSUME NEW r \in Slots, Creating(r)'
        PROVE  /\ req'[r].base <= drafted'
               /\ assessment'[req'[r].base] # None => assessment'[req'[r].base].year = req'[r].baseline
    <3>1. Creating(r) /\ req'[r] = req[r] /\ req[r] \in CreateRequest
      BY <1>3, <2>1, RequestKinds DEF Creating
    <3>2. req[r].base \in Assessments /\ req[r].base \in Nat
      BY <3>1, YearsAreNat DEF CreateRequest
    <3>3. QED
      BY <1>4, <3>1, <3>2 DEF YearIsChecked, KeepsAssessments
  <2>2. ASSUME NEW t \in Live', Untouched(t)'
        PROVE  /\ target'[t].checked <= drafted'
               /\ assessment'[target'[t].checked] # None =>
                     assessment'[target'[t].checked].year = target'[t].baseline
    <3>1. t \in Live /\ Untouched(t) /\ target'[t].checked = target[t].checked
          /\ target'[t].baseline = target[t].baseline
      BY <1>1, <1>2, <2>2 DEF Untouched
    <3>2. target[t].checked \in Assessments /\ target[t].checked \in Nat
      BY <3>1, LiveRow, YearsAreNat DEF TargetRow
    <3>3. QED
      BY <1>4, <3>1, <3>2 DEF YearIsChecked, KeepsAssessments
  <2>3. QED
    BY <2>1, <2>2 DEF YearIsChecked
<1>7. InversionIsExplained'
  BY <1>1, <1>2 DEF InversionIsExplained, Untouched
<1>8. ConflictIsExplained'
  <2> SUFFICES ASSUME NEW t \in Live', NEW u \in Live', t < u, target'[t].type = target'[u].type,
                      Untouched(t)', Untouched(u)', t \in target'[u].seen,
                      target'[u].asked # Unknown
               PROVE  /\ ~(target'[u].baseline <= target'[t].until /\ target'[u].until >= target'[t].baseline)
                      /\ ~(target'[t].until >= ThisYear)
    BY DEF ConflictIsExplained, Overlaps, Active
  <2>1. ~target'[t].edited /\ ~target'[u].edited
    BY DEF Untouched
  <2>2. ~Overlaps(target[u].baseline, target[u].until, t) /\ ~Active(t)
    BY <1>1, <1>2, <2>1 DEF ConflictIsExplained
  <2>3. QED
    BY <1>1, <2>1, <2>2 DEF Overlaps, Active
<1>9. ScopesInsideSpan'
  <2> SUFFICES ASSUME NEW t \in Live', ~target'[t].edited, NEW span \in Spans(t)'
               PROVE  span.baseline >= target'[t].baseline /\ span.until <= target'[t].until
    BY DEF ScopesInsideSpan
  <2>1. /\ target'[t].type = target[t].type /\ target'[t].baseline = target[t].baseline
        /\ target'[t].until = target[t].until /\ target'[t].scopes = target[t].scopes
    BY <1>1
  <2>2. Spans(t)' = Spans(t)
    BY <2>1, Zenon DEF Spans
  <2>3. QED
    BY <1>1, <2>2 DEF ScopesInsideSpan
<1>10. FirstIsChecked'
  <2>1. ASSUME NEW r \in Slots, Creating(r)'
        PROVE  Chosen(req[r].base, req[r].picked, req[r].approved, req[r].baseline)'
    <3>1. Creating(r) /\ req'[r] = req[r] /\ req[r] \in CreateRequest
      BY <1>3, <2>1, RequestKinds DEF Creating
    <3>2. req[r].base \in Assessments /\ req[r].approved \subseteq Assessments
      BY <3>1 DEF CreateRequest
    <3>3. Chosen(req[r].base, req[r].picked, req[r].approved, req[r].baseline)
      BY <3>1 DEF FirstIsChecked
    <3>4. StillChosen(req[r].base, req[r].picked, req[r].approved, req[r].baseline)
      BY <1>4, <3>2, <3>3, ChosenStays
    <3>5. QED
      BY <3>1, <3>4 DEF Chosen, StillChosen
  <2>2. ASSUME NEW t \in Live', Untouched(t)'
        PROVE  Chosen(target[t].checked, target[t].picked, target[t].approved, target[t].baseline)'
    <3>1. /\ t \in Live /\ Untouched(t) /\ target'[t].checked = target[t].checked
          /\ target'[t].picked = target[t].picked /\ target'[t].approved = target[t].approved
          /\ target'[t].baseline = target[t].baseline
      BY <1>1, <1>2, <2>2 DEF Untouched
    <3>2. target[t].checked \in Assessments /\ target[t].approved \subseteq Assessments
      BY <3>1, LiveRow DEF TargetRow
    <3>3. Chosen(target[t].checked, target[t].picked, target[t].approved, target[t].baseline)
      BY <3>1 DEF FirstIsChecked
    <3>4. StillChosen(target[t].checked, target[t].picked, target[t].approved, target[t].baseline)
      BY <1>4, <3>2, <3>3, ChosenStays
    <3>5. QED
      BY <3>1, <3>4 DEF Chosen, StillChosen
  <2>3. QED
    BY <2>1, <2>2 DEF FirstIsChecked
<1>11. QED
  BY <1>5, <1>6, <1>7, <1>8, <1>9, <1>10

\* A request that begins to create has just looked at the targets and the assessment.
LEMMA CreateReadStep ==
  ASSUME TargetsInv, NEW r \in Slots, NEW type \in Asked, NEW name \in Names, NEW b \in Years, NEW u \in Years,
         NEW pick \in Assessments \cup {None}, NEW years \in ScopeYears,
         CreateRead(r, type, name, b, u, pick, years)
  PROVE  TargetsInv'
<1> USE DEF TargetsInv
<1>1. PICK base \in Approved(b), picked \in BOOLEAN :
            /\ Wanted(type, name, b, u, years, base, picked) \in CreateRequest
            /\ req' = [req EXCEPT ![r] = Wanted(type, name, b, u, years, base, picked)]
            /\ assessment[base].measured
            /\ ~picked => base \in Of(b) /\ \A a \in Of(b) : base <= a
  BY CreateReadRequest
<1> DEFINE q == Wanted(type, name, b, u, years, base, picked)
<1>2. q \in CreateRequest /\ req' = [req EXCEPT ![r] = q]
  BY <1>1
<1>3. q.op = "create" /\ q.type = type /\ q.baseline = b /\ q.until = u /\ q.base = base
      /\ q.picked = picked /\ q.approved = Eligible /\ q.seen = Live
  BY DEF Wanted
<1> HIDE DEF q
<1>4. UNCHANGED <<assessment, drafted, target, numbered>> /\ b < u
      /\ \A t \in SameType(type) : ~Overlaps(b, u, t) /\ ~Active(t)
  BY YearsAreNat DEF CreateRead, Ordered
<1>5. \A s \in Slots : req'[s] = IF s = r THEN q ELSE req[s]
  BY <1>2 DEF TypeOK
<1>6. TypeOK'
  <2>1. req' \in [Slots -> CreateRequest \cup UpdateRequest \cup {None}]
    BY <1>2 DEF TypeOK
  <2>2. QED
    BY <1>4, <2>1 DEF TypeOK
<1>7. RequestsOK'
  <2>1. \A s \in Slots : req'[s] # None /\ req'[s].op = "scopes" => req'[s].years # None
    BY <1>3, <1>5 DEF RequestsOK
  <2>2. ASSUME NEW s \in Slots, Creating(s)'
        PROVE  /\ req'[s].baseline < req'[s].until
               /\ \A t \in req'[s].seen : t <= numbered
    <3>1. CASE s = r
      BY <1>3, <1>4, <1>5, <3>1, LiveRow
    <3>2. CASE s # r
      BY <1>5, <2>2, <3>2 DEF RequestsOK, Creating
    <3>3. QED
      BY <3>1, <3>2
  <2>3. ASSUME NEW s \in Slots, Creating(s)', NEW t \in Live,
               t \in req'[s].seen, target[t].type = Stored(req'[s].type), Untouched(t),
               req'[s].type # Unknown
        PROVE  /\ ~(req'[s].baseline <= target[t].until /\ req'[s].until >= target[t].baseline)
               /\ ~Active(t)
    <3>1. CASE s = r
      <4>1. Stored(type) = type
        BY <1>3, <1>5, <2>3, <3>1 DEF Stored, Asked, Types
      <4>2. QED
        BY <1>3, <1>4, <1>5, <2>3, <3>1, <4>1 DEF SameType, Overlaps
    <3>2. CASE s # r
      BY <1>5, <2>3, <3>2 DEF RequestsOK, Creating, Overlaps
    <3>3. QED
      BY <3>1, <3>2
  <2>4. QED
    BY <1>4, <2>1, <2>2, <2>3 DEF RequestsOK, Overlaps, Active, Live, Untouched
<1>8. YearIsChecked'
  <2>1. base <= drafted /\ assessment[base].year = b
    BY DEF Approved, Eligible, TypeOK
  <2>2. ASSUME NEW s \in Slots, Creating(s)'
        PROVE  /\ req'[s].base <= drafted
               /\ assessment[req'[s].base] # None => assessment[req'[s].base].year = req'[s].baseline
    <3>1. CASE s = r
      BY <1>3, <1>5, <2>1, <3>1
    <3>2. CASE s # r
      BY <1>5, <2>2, <3>2 DEF YearIsChecked, Creating
    <3>3. QED
      BY <3>1, <3>2
  <2>3. QED
    BY <1>4, <2>2 DEF YearIsChecked, Live, Untouched
<1>9. (InversionIsExplained /\ ConflictIsExplained /\ ScopesInsideSpan)'
  BY <1>4 DEF InversionIsExplained, ConflictIsExplained, ScopesInsideSpan, Live, Untouched, Overlaps,
              Active, Spans, WhenNone
<1>10. FirstIsChecked'
  <2>1. Chosen(base, picked, Eligible, b)
    <3>1. base <= drafted /\ assessment[base].measured /\ \A a \in Eligible : a <= drafted
      BY <1>1 DEF Approved, Eligible, TypeOK
    <3>2. \A a \in Eligible : a \in Of(b) \/ ~(assessment[a].year = b /\ assessment[a].whole)
      BY DEF Of, Whole
    <3>3. ~picked => assessment[base].whole
      BY <1>1 DEF Of, Whole
    <3>4. QED
      BY <1>1, <3>1, <3>2, <3>3 DEF Chosen
  <2>2. ASSUME NEW s \in Slots, Creating(s)'
        PROVE  Chosen(req'[s].base, req'[s].picked, req'[s].approved, req'[s].baseline)
    <3>1. CASE s = r
      BY <1>3, <1>5, <2>1, <3>1
    <3>2. CASE s # r
      BY <1>5, <2>2, <3>2 DEF FirstIsChecked, Creating
    <3>3. QED
      BY <3>1, <3>2
  <2>3. QED
    BY <1>4, <2>2 DEF FirstIsChecked, Chosen, Live, Untouched
<1>11. QED
  BY <1>6, <1>7, <1>8, <1>9, <1>10

\* A new target is what its request checked, unless its years were replaced.
LEMMA CreateWriteStep ==
  ASSUME TargetsInv, NEW r \in Slots, CreateWrite(r)
  PROVE  TargetsInv'
<1> USE DEF TargetsInv
<1> DEFINE q == req[r]
           t == numbered + 1
           row == NewRow(q)
<1>1. q \in CreateRequest /\ Creating(r)
  BY RequestKinds DEF CreateWrite, Creating
<1>2. row \in TargetRow
  BY <1>1, NewRowType
<1>3. numbered \in Nat /\ t \in Targets /\ numbered' = t
  BY MaximaAssumption DEF CreateWrite, TypeOK, Targets
<1>4. target' = [target EXCEPT ![t] = row] /\ req' = [req EXCEPT ![r] = None]
      /\ UNCHANGED <<assessment, drafted>>
  BY DEF CreateWrite
<1>5. /\ row.type = Stored(q.type) /\ row.asked = q.type /\ row.seen = q.seen
      /\ row.checked = q.base /\ row.picked = q.picked /\ row.approved = q.approved
      /\ row.edited = FALSE
      /\ ~row.widened => row.baseline = q.baseline /\ row.until = q.until
  BY DEF NewRow
<1>6. \A s \in Scopes : q.type # "GENERAL" =>
         /\ WhenNone(row.scopes[s].baseline, row.baseline) >= row.baseline
         /\ WhenNone(row.scopes[s].until, row.until) <= row.until
  <2>1. row.baseline = EarliestOf(q) /\ row.until = FurthestOf(q)
    BY DEF NewRow
  <2>2. \A s \in Scopes : /\ row.scopes[s].baseline = WhenNone(q.years[s].baseline, row.baseline)
                          /\ row.scopes[s].until = WhenNone(q.years[s].until, row.until)
    BY <2>1 DEF NewRow
  <2>3. \A s \in Scopes : /\ q.years[s].baseline \in Years \cup {None}
                          /\ q.years[s].until \in Years \cup {None}
    BY <1>1, ScopesAssumption DEF CreateRequest
  <2>4. row.baseline \in Nat /\ row.until \in Nat
    BY <1>2, YearsAreNat DEF TargetRow
  <2>5. QED
    BY <1>1, <2>1, <2>2, <2>3, <2>4, YearsGiven, YearsAreNat DEF WhenNone
<1> HIDE DEF row
<1>7. target'[t] = row
  BY <1>3, <1>4 DEF TypeOK
<1>8. \A v \in Live' : v = t \/ (v \in Live /\ target'[v] = target[v])
  BY <1>4 DEF Live, TypeOK
<1>9. \A v \in Live : v <= numbered /\ v # t /\ target'[v] = target[v] /\ v \in Nat
  BY <1>3, <1>4, LiveRow, YearsAreNat DEF Live, TypeOK
<1>10. \A s \in Slots : Creating(s)' => Creating(s) /\ req'[s] = req[s]
  BY <1>4 DEF Creating, TypeOK
<1>11. TypeOK'
  <2>1. target' \in [Targets -> TargetRow \cup {None}] /\ numbered' \in 0..MaxTargets
    BY <1>2, <1>3, <1>4 DEF TypeOK, Targets
  <2>2. req' \in [Slots -> CreateRequest \cup UpdateRequest \cup {None}]
    BY <1>4 DEF TypeOK
  <2>3. \A v \in Targets : target'[v] # None => v <= numbered'
    BY <1>3, <1>8, <1>9 DEF Live
  <2>4. QED
    BY <1>4, <2>1, <2>2, <2>3 DEF TypeOK
<1>12. RequestsOK'
  <2>1. \A s \in Slots : req'[s] # None /\ req'[s].op = "scopes" => req'[s].years # None
    BY <1>4 DEF RequestsOK, TypeOK
  <2>2. ASSUME NEW s \in Slots, Creating(s)'
        PROVE  /\ req'[s].baseline < req'[s].until
               /\ \A v \in req'[s].seen : v <= numbered' /\ v # t
    <3>1. req[s] \in CreateRequest /\ Creating(s) /\ req'[s] = req[s]
      BY <1>10, <2>2, RequestKinds DEF Creating
    <3>2. req[s].seen \subseteq Nat
      BY <3>1, YearsAreNat DEF CreateRequest
    <3>3. QED
      BY <1>3, <3>1, <3>2 DEF RequestsOK
  <2>3. ASSUME NEW s \in Slots, Creating(s)', NEW v \in Live',
               v \in req'[s].seen, target'[v].type = Stored(req'[s].type), Untouched(v)',
               req'[s].type # Unknown
        PROVE  /\ ~(req'[s].baseline <= target'[v].until /\ req'[s].until >= target'[v].baseline)
               /\ ~(target'[v].until >= ThisYear)
    BY <1>8, <1>10, <2>2, <2>3 DEF RequestsOK, Overlaps, Active, Untouched
  <2>4. QED
    BY <2>1, <2>2, <2>3 DEF RequestsOK, Overlaps, Active
<1>13. YearIsChecked'
  <2>1. ASSUME NEW v \in Live', Untouched(v)'
        PROVE  /\ target'[v].checked <= drafted
               /\ assessment[target'[v].checked] # None =>
                     assessment[target'[v].checked].year = target'[v].baseline
    <3>1. CASE v = t
      <4>1. row.checked = q.base /\ row.baseline = q.baseline
        BY <1>5, <1>7, <2>1, <3>1 DEF Untouched
      <4>2. QED
        BY <1>1, <1>7, <3>1, <4>1 DEF YearIsChecked
    <3>2. CASE v # t
      BY <1>8, <2>1, <3>2 DEF YearIsChecked, Untouched
    <3>3. QED
      BY <3>1, <3>2
  <2>2. QED
    BY <1>4, <1>10, <2>1 DEF YearIsChecked
<1>14. InversionIsExplained'
  <2>1. ASSUME NEW v \in Live', Untouched(v)' PROVE target'[v].baseline < target'[v].until
    <3>1. CASE v = t
      BY <1>1, <1>5, <1>7, <2>1, <3>1 DEF RequestsOK, Untouched
    <3>2. CASE v # t
      BY <1>8, <2>1, <3>2 DEF InversionIsExplained, Untouched
    <3>3. QED
      BY <3>1, <3>2
  <2>2. QED
    BY <2>1 DEF InversionIsExplained
<1>15. ConflictIsExplained'
  <2> SUFFICES ASSUME NEW v \in Live', NEW w \in Live', v < w, target'[v].type = target'[w].type,
                      Untouched(v)', Untouched(w)', v \in target'[w].seen,
                      target'[w].asked # Unknown
               PROVE  /\ ~(target'[w].baseline <= target'[v].until /\ target'[w].until >= target'[v].baseline)
                      /\ ~(target'[v].until >= ThisYear)
    BY DEF ConflictIsExplained, Overlaps, Active
  <2>1. v \in Live /\ target'[v] = target[v] /\ Untouched(v)
    <3>1. v # t
      BY <1>3, <1>8, <1>9
    <3>2. QED
      BY <1>8, <3>1 DEF Untouched
  <2>2. CASE w = t
    <3>1. /\ row.baseline = q.baseline /\ row.until = q.until /\ row.seen = q.seen
          /\ row.type = Stored(q.type) /\ row.asked = q.type
      BY <1>5, <1>7, <2>2 DEF Untouched
    <3>2. QED
      BY <1>1, <1>7, <2>1, <2>2, <3>1 DEF RequestsOK, Overlaps, Active
  <2>3. CASE w # t
    BY <1>8, <2>1, <2>3 DEF ConflictIsExplained, Overlaps, Active, Untouched
  <2>4. QED
    BY <2>2, <2>3
<1>16. ScopesInsideSpan'
  <2> SUFFICES ASSUME NEW v \in Live', ~target'[v].edited, NEW span \in Spans(v)'
               PROVE  span.baseline >= target'[v].baseline /\ span.until <= target'[v].until
    BY DEF ScopesInsideSpan
  <2>1. CASE v = t
    <3>1. row.baseline \in Nat /\ row.until \in Nat /\ row.type \in Types
      BY <1>2, YearsAreNat DEF TargetRow
    <3>2. CASE row.type = "GENERAL"
      BY <1>7, <2>1, <3>1, <3>2 DEF Spans
    <3>3. CASE row.type # "GENERAL"
      <4>1. q.type # "GENERAL"
        BY <1>5, <3>3 DEF Stored
      <4>2. PICK s \in Scopes :
              span = [baseline |-> WhenNone(row.scopes[s].baseline, row.baseline),
                      until    |-> WhenNone(row.scopes[s].until, row.until)]
        BY <1>7, <2>1, <3>3 DEF Spans, WhenNone
      <4>3. QED
        BY <1>6, <1>7, <2>1, <4>1, <4>2
    <3>4. QED
      BY <3>2, <3>3
  <2>2. CASE v # t
    <3>1. v \in Live /\ target'[v] = target[v]
      BY <1>8, <2>2
    <3>2. Spans(v)' = Spans(v)
      BY <3>1, Zenon DEF Spans
    <3>3. QED
      BY <3>1, <3>2 DEF ScopesInsideSpan
  <2>3. QED
    BY <2>1, <2>2
<1>17. FirstIsChecked'
  <2>1. ASSUME NEW v \in Live', Untouched(v)'
        PROVE  Chosen(target'[v].checked, target'[v].picked, target'[v].approved, target'[v].baseline)
    <3>1. CASE v = t
      <4>1. /\ row.checked = q.base /\ row.baseline = q.baseline
            /\ row.picked = q.picked /\ row.approved = q.approved
        BY <1>5, <1>7, <2>1, <3>1 DEF Untouched
      <4>2. QED
        BY <1>1, <1>7, <3>1, <4>1 DEF FirstIsChecked
    <3>2. CASE v # t
      BY <1>8, <2>1, <3>2 DEF FirstIsChecked, Untouched
    <3>3. QED
      BY <3>1, <3>2
  <2>2. QED
    BY <1>4, <1>10, <2>1 DEF FirstIsChecked, Chosen
<1>18. QED
  BY <1>11, <1>12, <1>13, <1>14, <1>15, <1>16, <1>17

LEMMA AssessmentStep ==
  ASSUME TargetsInv, UNCHANGED <<target, numbered, req>>,
         \/ \E y \in Years, m, w \in BOOLEAN : CreateAssessment(y, m, w)
         \/ \E a \in Assessments : Settle(a) \/ Unsettle(a) \/ Discard(a)
  PROVE  TargetsInv' /\ KeepsAssessments
<1>1. TypeOK /\ TypeOK'
  BY AssessmentTypes DEF TargetsInv
<1>2. KeepsRows /\ CreatesNothing
  BY DEF KeepsRows, CreatesNothing, SameYears, Live
<1>3. KeepsAssessments
  <2>1. drafted \in Nat
    BY <1>1, MaximaAssumption DEF TypeOK
  <2>2. CASE \E y \in Years, m, w \in BOOLEAN : CreateAssessment(y, m, w)
    <3>1. drafted' = drafted + 1 /\ \A a \in Assessments : a # drafted + 1 => assessment'[a] = assessment[a]
      BY <1>1, <2>2 DEF CreateAssessment, TypeOK
    <3>2. QED
      BY <2>1, <3>1 DEF KeepsAssessments
  <2>3. ASSUME NEW a \in Assessments, Settle(a) \/ Unsettle(a)
        PROVE  KeepsAssessments
    <3>1. assessment[a] \in AssessmentRow /\ assessment[a] # None
      BY <1>1, <2>3 DEF Settle, Unsettle, Drafts, Eligible, TypeOK
    <3>2. /\ assessment'[a].year = assessment[a].year
          /\ assessment'[a].measured = assessment[a].measured
          /\ assessment'[a].whole = assessment[a].whole
      BY <1>1, <2>3, <3>1 DEF Settle, Unsettle, TypeOK, AssessmentRow
    <3>3. drafted' = drafted /\ \A b \in Assessments : b # a => assessment'[b] = assessment[b]
      BY <1>1, <2>3 DEF Settle, Unsettle, TypeOK
    <3>4. QED
      BY <2>1, <3>1, <3>2, <3>3 DEF KeepsAssessments
  <2>4. ASSUME NEW a \in Assessments, Discard(a)
        PROVE  KeepsAssessments
    BY <1>1, <2>1, <2>4 DEF Discard, TypeOK, KeepsAssessments
  <2>5. QED
    BY <2>2, <2>3, <2>4
<1>4. QED
  BY <1>1, <1>2, <1>3, QuietStep

\* A step on a row that was there, by a request or by deleteTarget.
LEMMA RowStep ==
  ASSUME TargetsInv, NEW t \in Live, NEW row \in TargetRow \cup {None},
         target' = [target EXCEPT ![t] = row], UNCHANGED <<assessment, drafted, numbered>>,
         row = None \/ row.edited \/ SameYears(row, target[t]),
         req' \in [Slots -> CreateRequest \cup UpdateRequest \cup {None}], CreatesNothing
  PROVE  TargetsInv'
<1>1. TypeOK /\ TypeOK' /\ t \in Targets
  BY RowWritten, LiveRow DEF TargetsInv
<1>2. \A v \in Live' : v \in Live /\ target'[v] = IF v = t THEN row ELSE target[v]
  BY <1>1 DEF TypeOK, Live
<1>3. KeepsRows
  BY <1>2 DEF KeepsRows, SameYears, Live
<1>4. KeepsAssessments
  <2>1. drafted \in Nat
    BY <1>1, MaximaAssumption DEF TypeOK
  <2>2. QED
    BY <2>1 DEF KeepsAssessments
<1>5. QED
  BY <1>1, <1>3, <1>4, QuietStep

\* A request that begins, fails or is unchanged, while the tables are.
LEMMA RequestStep ==
  ASSUME TargetsInv, UNCHANGED <<assessment, drafted, target, numbered>>,
         req' \in [Slots -> CreateRequest \cup UpdateRequest \cup {None}], CreatesNothing
  PROVE  TargetsInv'
<1>1. TypeOK /\ TypeOK'
  BY DEF TargetsInv, TypeOK
<1>2. KeepsRows
  BY DEF KeepsRows, SameYears, Live
<1>3. KeepsAssessments
  <2>1. drafted \in Nat
    BY <1>1, MaximaAssumption DEF TypeOK
  <2>2. QED
    BY <2>1 DEF KeepsAssessments
<1>4. QED
  BY <1>1, <1>2, <1>3, QuietStep

LEMMA InitTargetsInv == Init => TargetsInv
<1> SUFFICES ASSUME Init PROVE TargetsInv
  OBVIOUS
<1>1. TypeOK
  BY MaximaAssumption DEF Init, TypeOK
<1>2. Live = {} /\ \A r \in Slots : req[r] = None
  BY DEF Init, Live
<1>3. QED
  BY <1>1, <1>2 DEF TargetsInv, RequestsOK, Creating, YearIsChecked, InversionIsExplained,
                    ConflictIsExplained, ScopesInsideSpan, FirstIsChecked

LEMMA StepTargetsInv == TargetsInv /\ [Next]_vars => TargetsInv'
<1> SUFFICES ASSUME TargetsInv, [Next]_vars PROVE TargetsInv'
  OBVIOUS
<1> USE DEF TargetsInv
<1>1. CASE \/ \E y \in Years, m, w \in BOOLEAN : CreateAssessment(y, m, w)
           \/ \E a \in Assessments : Settle(a) \/ Unsettle(a) \/ Discard(a)
  <2>1. UNCHANGED <<target, numbered, req>>
    BY <1>1 DEF CreateAssessment, Settle, Unsettle, Discard
  <2>2. QED
    BY <1>1, <2>1, AssessmentStep
<1>2. ASSUME NEW r \in Slots, NEW type \in Asked, NEW name \in Names, NEW b \in Years, NEW u \in Years,
             NEW pick \in Assessments \cup {None}, NEW years \in ScopeYears,
             CreateRead(r, type, name, b, u, pick, years)
      PROVE  TargetsInv'
  BY <1>2, CreateReadStep
<1>3. ASSUME NEW r \in Slots, NEW t \in Targets, NEW name \in Names \cup {None}, NEW b \in YearOrNone,
             NEW u \in YearOrNone, NEW years \in ScopeChanges \cup {None},
             UpdateRead(r, t, name, b, u, years)
      PROVE  TargetsInv'
  <2>1. PICK q \in UpdateRequest : req' = [req EXCEPT ![r] = q] /\ (q.op = "scopes" => q.years # None)
    BY <1>3, UpdateReadRequest
  <2>2. req' \in [Slots -> CreateRequest \cup UpdateRequest \cup {None}]
    BY <2>1 DEF TypeOK
  <2>3. q.op # "create"
    BY DEF UpdateRequest
  <2>4. CreatesNothing
    BY <2>1, <2>3 DEF TypeOK, CreatesNothing
  <2>5. QED
    BY <1>3, <2>2, <2>4, RequestStep DEF UpdateRead
<1>4. ASSUME NEW r \in Slots, CreateWrite(r) PROVE TargetsInv'
  BY <1>4, CreateWriteStep
<1>5. ASSUME NEW r \in Slots, UpdateScopes(r) PROVE TargetsInv'
  <2>1. req[r] \in UpdateRequest
    BY <1>5, RequestKinds DEF UpdateScopes
  <2> DEFINE q == [req[r] EXCEPT !.op = "update"]
  <2>2. q \in UpdateRequest /\ q.op = "update" /\ req' = [req EXCEPT ![r] = q]
    BY <1>5, <2>1 DEF UpdateScopes, UpdateRequest, TypeOK
  <2> HIDE DEF q
  <2>3. req' \in [Slots -> CreateRequest \cup UpdateRequest \cup {None}] /\ CreatesNothing
    BY <2>2 DEF TypeOK, CreatesNothing
  <2>4. CASE req[r].target \in Live
    <3>1. PICK row \in TargetRow : target' = [target EXCEPT ![req[r].target] = row] /\ row.edited
      BY <1>5, <2>4, UpdateScopesRow
    <3>2. QED
      BY <1>5, <2>3, <2>4, <3>1, RowStep DEF UpdateScopes
  <2>5. CASE req[r].target \notin Live
    BY <1>5, <2>3, <2>5, RequestStep DEF UpdateScopes
  <2>6. QED
    BY <2>4, <2>5
<1>6. ASSUME NEW r \in Slots, UpdateWrite(r) PROVE TargetsInv'
  <2>1. req[r].target \in Live
    BY <1>6, UpdateWriteRow
  <2>2. PICK row \in TargetRow :
          /\ target' = [target EXCEPT ![req[r].target] = row]
          /\ row.edited \/ SameYears(row, target[req[r].target])
    BY <1>6, UpdateWriteRow
  <2>3. req' \in [Slots -> CreateRequest \cup UpdateRequest \cup {None}] /\ CreatesNothing
    BY <1>6 DEF UpdateWrite, TypeOK, CreatesNothing
  <2>4. QED
    BY <1>6, <2>1, <2>2, <2>3, RowStep DEF UpdateWrite
<1>7. ASSUME NEW r \in Slots, Fail(r) PROVE TargetsInv'
  <2>1. req' \in [Slots -> CreateRequest \cup UpdateRequest \cup {None}] /\ CreatesNothing
    BY <1>7 DEF Fail, TypeOK, CreatesNothing
  <2>2. QED
    BY <1>7, <2>1, RequestStep DEF Fail
<1>8. ASSUME NEW t \in Targets, DeleteTarget(t) PROVE TargetsInv'
  <2>1. CreatesNothing /\ req' \in [Slots -> CreateRequest \cup UpdateRequest \cup {None}]
    BY <1>8 DEF DeleteTarget, TypeOK, CreatesNothing
  <2>2. QED
    BY <1>8, <2>1, RowStep DEF DeleteTarget
<1>9. CASE UNCHANGED vars
  BY <1>9, RequestStep DEF vars, TypeOK, CreatesNothing
<1>10. QED
  BY <1>1, <1>2, <1>3, <1>4, <1>5, <1>6, <1>7, <1>8, <1>9 DEF Next
-----------------------------------------------------------------------------
(* The figures.                                                             *)

LEMMA LatestIsGreatest ==
  ASSUME NEW b, NEW u
  PROVE  /\ Between(b, u) = {} => LatestBetween(b, u) = None
         /\ Between(b, u) # {} => /\ LatestBetween(b, u) \in Between(b, u)
                                 /\ \A c \in Between(b, u) : c <= LatestBetween(b, u)
<1>1. Between(b, u) \in SUBSET Assessments
  BY DEF Between, Whole, Eligible
<1>2. IsFiniteSet(Assessments)
  BY MaximaAssumption, FS_Interval DEF Assessments
<1>3. IsFiniteSet(Between(b, u)) /\ Between(b, u) \in SUBSET Nat
  BY <1>1, <1>2, FS_Subset, YearsAreNat
<1>4. Between(b, u) # {} => \E a \in Between(b, u) : \A c \in Between(b, u) : c <= a
  BY <1>3, GreatestNatural
<1>5. QED
  BY <1>4 DEF LatestBetween

\* As long as no approval is written over, assessments are only added to what is read.
LEMMA FiguresStep ==
  ASSUME TypeOK, KeepsAssessments, Eligible \subseteq Eligible', NEW b, NEW u
  PROVE  /\ FirstOf(b) # None => FirstOf(b)' # None /\ FirstOf(b)' <= FirstOf(b)
         /\ LatestBetween(b, u) # None =>
               LatestBetween(b, u)' # None /\ LatestBetween(b, u)' >= LatestBetween(b, u)
<1>1. \A a \in Eligible : /\ assessment'[a].year = assessment[a].year
                         /\ assessment'[a].whole = assessment[a].whole
  BY DEF Eligible, TypeOK, KeepsAssessments
<1>2. Of(b) \subseteq Of(b)' /\ Between(b, u) \subseteq Between(b, u)'
  BY <1>1 DEF Of, Between, Whole
<1>3. /\ Of(b) # {} => FirstOf(b) \in Of(b)
      /\ Of(b)' # {} => FirstOf(b)' \in Of(b)' /\ \A c \in Of(b)' : FirstOf(b)' <= c
  <2>1. Of(b) # {} => FirstOf(b) \in Of(b) /\ \A c \in Of(b) : FirstOf(b) <= c
    BY FirstIsLeast
  <2>2. Of(b)' \in SUBSET Nat
    BY YearsAreNat DEF Of, Whole, Eligible
  <2>3. Of(b)' # {} => \E a \in Of(b)' : \A c \in Of(b)' : a <= c
    BY <2>2, LeastNatural
  <2>4. Of(b)' # {} => FirstOf(b)' \in Of(b)' /\ \A c \in Of(b)' : FirstOf(b)' <= c
    BY <2>3 DEF FirstOf
  <2>5. QED
    BY <2>1, <2>4
<1>4. /\ Between(b, u) # {} => LatestBetween(b, u) \in Between(b, u)
      /\ Between(b, u)' # {} => /\ LatestBetween(b, u)' \in Between(b, u)'
                                /\ \A c \in Between(b, u)' : c <= LatestBetween(b, u)'
  <2>1. Between(b, u) # {} => LatestBetween(b, u) \in Between(b, u)
    BY LatestIsGreatest
  <2>2. Between(b, u)' \in SUBSET Assessments /\ IsFiniteSet(Assessments)
    BY MaximaAssumption, FS_Interval DEF Between, Whole, Eligible, Assessments
  <2>3. IsFiniteSet(Between(b, u)') /\ Between(b, u)' \in SUBSET Nat
    BY <2>2, FS_Subset, YearsAreNat
  <2>4. Between(b, u)' # {} => \E a \in Between(b, u)' : \A c \in Between(b, u)' : c <= a
    BY <2>3, GreatestNatural
  <2>5. Between(b, u)' # {} => /\ LatestBetween(b, u)' \in Between(b, u)'
                              /\ \A c \in Between(b, u)' : c <= LatestBetween(b, u)'
    BY <2>4 DEF LatestBetween
  <2>6. QED
    BY <2>1, <2>5
<1>5. Of(b)' \subseteq Nat /\ Between(b, u)' \subseteq Nat
  BY YearsAreNat DEF Of, Between, Whole, Eligible
<1>6. /\ FirstOf(b) # None => Of(b) # {}
      /\ LatestBetween(b, u) # None => Between(b, u) # {}
  BY FirstIsLeast, LatestIsGreatest
<1>7. ASSUME FirstOf(b) # None PROVE FirstOf(b)' # None /\ FirstOf(b)' <= FirstOf(b)
  <2>1. FirstOf(b) \in Of(b)' /\ FirstOf(b)' \in Nat
    BY <1>2, <1>3, <1>5, <1>6, <1>7
  <2>2. QED
    BY <1>3, <2>1, YearsAssumption
<1>8. ASSUME LatestBetween(b, u) # None
      PROVE  LatestBetween(b, u)' # None /\ LatestBetween(b, u)' >= LatestBetween(b, u)
  <2>1. /\ LatestBetween(b, u) \in Between(b, u)' /\ LatestBetween(b, u) \in Nat
        /\ LatestBetween(b, u)' \in Nat
    BY <1>2, <1>4, <1>5, <1>6, <1>8
  <2>2. LatestBetween(b, u) <= LatestBetween(b, u)'
    BY <1>4, <2>1
  <2>3. QED
    BY <2>1, <2>2, YearsAssumption
<1>9. QED
  BY <1>7, <1>8

LEMMA StepKeepsAssessments == TargetsInv /\ [Next]_vars => KeepsAssessments
<1> SUFFICES ASSUME TargetsInv, [Next]_vars PROVE KeepsAssessments
  OBVIOUS
<1>1. CASE \/ \E y \in Years, m, w \in BOOLEAN : CreateAssessment(y, m, w)
           \/ \E a \in Assessments : Settle(a) \/ Unsettle(a) \/ Discard(a)
  <2>1. UNCHANGED <<target, numbered, req>>
    BY <1>1 DEF CreateAssessment, Settle, Unsettle, Discard
  <2>2. QED
    BY <1>1, <2>1, AssessmentStep
<1>2. CASE UNCHANGED <<assessment, drafted>>
  <2>1. drafted \in Nat
    BY MaximaAssumption DEF TargetsInv, TypeOK
  <2>2. QED
    BY <1>2, <2>1 DEF KeepsAssessments
<1>3. CASE \E r \in Slots : CreateWrite(r) \/ UpdateScopes(r) \/ UpdateWrite(r) \/ Fail(r)
  BY <1>2, <1>3 DEF CreateWrite, UpdateScopes, UpdateWrite, Fail
<1>4. CASE \E r \in Slots :
             \/ \E type \in Asked, name \in Names, b, u \in Years,
                   pick \in Assessments \cup {None}, years \in ScopeYears :
                      CreateRead(r, type, name, b, u, pick, years)
             \/ \E t \in Targets, name \in Names \cup {None}, b, u \in YearOrNone,
                   years \in ScopeChanges \cup {None} : UpdateRead(r, t, name, b, u, years)
  <2>1. ASSUME NEW r, NEW type, NEW name, NEW b, NEW u, NEW pick, NEW years,
               CreateRead(r, type, name, b, u, pick, years)
        PROVE  UNCHANGED <<assessment, drafted>>
    BY <2>1 DEF CreateRead
  <2>2. ASSUME NEW r, NEW t, NEW name, NEW b, NEW u, NEW years, UpdateRead(r, t, name, b, u, years)
        PROVE  UNCHANGED <<assessment, drafted>>
    BY <2>2 DEF UpdateRead
  <2>3. UNCHANGED <<assessment, drafted>>
    BY <1>4, <2>1, <2>2, Zenon
  <2>4. QED
    BY <1>2, <2>3
<1>5. CASE (\E t \in Targets : DeleteTarget(t)) \/ UNCHANGED vars
  BY <1>2, <1>5 DEF DeleteTarget, vars
<1>6. QED
  BY <1>1, <1>3, <1>4, <1>5 DEF Next

-----------------------------------------------------------------------------
(* The theorems.                                                            *)

\* The invariant of Targets, from which the others follow.
THEOREM TargetsInvHolds == Spec => []TargetsInv
<1>1. Init => TargetsInv
  BY InitTargetsInv
<1>2. TargetsInv /\ [Next]_vars => TargetsInv'
  BY StepTargetsInv
<1>3. QED
  BY <1>1, <1>2, PTL DEF Spec

\* The rows and the requests of TargetService hold what its code puts there: the years of a
\* scope target come from its scopes or from the request, never from nowhere.
THEOREM TargetsAreTyped == Spec => []TypeOK
<1>1. TargetsInv => TypeOK
  BY DEF TargetsInv
<1>2. QED
  BY <1>1, TargetsInvHolds, PTL

(***************************************************************************)
(* The overlap and active-target rules of createTarget hold between any    *)
(* two targets, but for the four reasons ConflictIsExplained names.        *)
(***************************************************************************)
THEOREM ConflictsHaveReasons == Spec => []ConflictIsExplained
<1>1. TargetsInv => ConflictIsExplained
  BY DEF TargetsInv
<1>2. QED
  BY <1>1, TargetsInvHolds, PTL

\* A target nobody edited or widened ends after it begins: createTarget, updateTarget.
THEOREM InversionsHaveReasons == Spec => []InversionIsExplained
<1>1. TargetsInv => InversionIsExplained
  BY DEF TargetsInv
<1>2. QED
  BY <1>1, TargetsInvHolds, PTL

\* The years of the scopes stay inside those of their target until it is edited, for any
\* number of scopes and whichever years a request leaves out: createScopeTarget.
THEOREM ScopesStayInside == Spec => []ScopesInsideSpan
<1>1. TargetsInv => ScopesInsideSpan
  BY DEF TargetsInv
<1>2. QED
  BY <1>1, TargetsInvHolds, PTL

(***************************************************************************)
(* The baseline an untouched target shows is the assessment that was       *)
(* checked, with figures, or one of the three cases BaselineIsExplained    *)
(* names: the queries of the check against findBaselineAssessment.         *)
(***************************************************************************)
THEOREM BaselinesHaveReasons == Spec => []BaselineIsExplained
<1>1. TargetsInv => BaselineIsExplained
  <2> DEFINE row(t) == target[t]
             first(t) == FirstOf(target[t].baseline)
  <2> SUFFICES ASSUME TargetsInv, NEW t \in Live, Untouched(t), row(t).checked \in Eligible,
                      ~(row(t).picked /\ ~assessment[row(t).checked].whole)
               PROVE  \/ first(t) = row(t).checked /\ assessment[first(t)].measured
                      \/ /\ first(t) \in Whole /\ first(t) < row(t).checked
                         /\ first(t) \notin row(t).approved \/ row(t).picked
    BY DEF BaselineIsExplained
  <2>1. Chosen(row(t).checked, row(t).picked, row(t).approved, row(t).baseline)
    BY DEF TargetsInv, FirstIsChecked
  <2>2. row(t).checked \in Of(row(t).baseline) /\ assessment[row(t).checked].measured
    BY <2>1 DEF TargetsInv, YearIsChecked, Chosen, Of, Whole, Eligible
  <2>3. first(t) \in Of(row(t).baseline) /\ first(t) <= row(t).checked
    BY <2>2, FirstIsLeast
  <2>4. first(t) \in Whole /\ first(t) \in Nat /\ row(t).checked \in Nat
    BY <2>2, <2>3, YearsAreNat DEF Of, Whole, Eligible
  <2>5. CASE first(t) = row(t).checked
    BY <2>2, <2>5
  <2>6. CASE first(t) < row(t).checked
    <3>1. assessment[first(t)] # None /\ assessment[first(t)].year = row(t).baseline
          /\ assessment[first(t)].whole
      BY <2>3 DEF Of, Whole, Eligible
    <3>2. first(t) \notin row(t).approved \/ row(t).picked
      BY <2>1, <2>4, <2>6, <3>1 DEF Chosen
    <3>3. QED
      BY <2>4, <2>6, <3>2
  <2>7. QED
    BY <2>3, <2>4, <2>5, <2>6
<1>2. QED
  BY <1>1, TargetsInvHolds, PTL

(***************************************************************************)
(* Without an approval written over, the baseline of a target moves to     *)
(* earlier assessments only and its current figure to later ones only:     *)
(* findBaselineAssessment, findCurrentAssessment.                          *)
(***************************************************************************)
THEOREM FiguresOnlyMoveOneWay == Spec => FiguresMoveOneWay
<1> DEFINE OneWay ==
      Eligible \subseteq Eligible' =>
        \A t \in Live : target'[t] = target[t] =>
          \A span \in Spans(t) :
             LET b == span.baseline
                 u == span.until
             IN  /\ FirstOf(b) # None => FirstOf(b)' # None /\ FirstOf(b)' <= FirstOf(b)
                 /\ LatestBetween(b, u) # None =>
                       /\ LatestBetween(b, u)' # None
                       /\ LatestBetween(b, u)' >= LatestBetween(b, u)
<1>1. TargetsInv /\ [Next]_vars => [OneWay]_vars
  <2> SUFFICES ASSUME TargetsInv, [Next]_vars, Eligible \subseteq Eligible' PROVE OneWay
    OBVIOUS
  <2>1. KeepsAssessments /\ TypeOK
    BY StepKeepsAssessments DEF TargetsInv
  <2>2. QED
    BY <2>1, FiguresStep
<1>2. QED
  BY <1>1, TargetsInvHolds, PTL DEF Spec, FiguresMoveOneWay
=============================================================================
