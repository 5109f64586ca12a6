------------------------------ MODULE Disclosure ------------------------------
(***************************************************************************)
(* The numbers of one assessment together: the document's progress         *)
(* (AssessmentData), the quantities and safety figures entered in it, the  *)
(* figures the ESG score reads (Scoring) and the report stored beside it   *)
(* (Reporting).  A save touches one form, so one of the three aspects; the *)
(* report is computed from whatever the document holds at that time, and   *)
(* is read against whatever it holds later.                                *)
(***************************************************************************)
EXTENDS AssessmentData, Scoring

CONSTANTS
    NoReport,       \* the report row before the first one is stored
    Amounts,        \* quantities a save can leave in a form
    Factors,        \* factors a form can give, None if it gives none
    Levels          \* values a save can leave in a figure the score reads

R == INSTANCE Reporting

ASSUME AmountsAssumption == Amounts \subseteq Nat /\ Levels \subseteq Nat
ASSUME FactorsAssumption == None \in Factors /\ Factors \ {None} \subseteq Nat

VARIABLES
    quantities,     \* source -> the entries of its form
    safety,         \* the safety figures of employees, contractors, and the flat ones
    figures,        \* the figures calculateESGScore reads
    columns,        \* the stored report
    previous        \* the quantities of the previous assessment, which nobody edits

numbers == <<quantities, safety, figures, columns, previous>>
allVars == <<vars, numbers>>

Entries  == [amount : Amounts, factor : Factors]
AnyEntry == [amount : Nat, factor : Nat \cup {None}]    \* an entry some save could leave
NoQuantities == [s \in R!Sources |-> << >>]
Nobody   == [hours |-> 0, incidents |-> 0]
Unharmed == [direct |-> Nobody, contract |-> Nobody, flat |-> Nobody]

NewDocument ==
    /\ Init
    /\ quantities = NoQuantities
    /\ columns = NoReport

\* saveProgress on an emission form: the client sends the list, which replaces the old one.
SaveQuantities(s, entries) ==
    /\ s \notin R!Listed => Len(entries) = 1
    /\ quantities' = [quantities EXCEPT ![s] = entries]
    /\ UNCHANGED <<vars, safety, figures, columns, previous>>

\* saveProgress on the safety form of employees or of contractors.
SaveSafety(group, field, n) ==
    /\ safety' = [safety EXCEPT ![group][field] = n]
    /\ UNCHANGED <<vars, quantities, figures, columns, previous>>

\* saveProgress on a form with a figure the score reads.
SaveFigure(field, n) ==
    /\ figures' = [figures EXCEPT ![field] = n]
    /\ UNCHANGED <<vars, quantities, safety, columns, previous>>

\* saveReportingData, after a submission, an approval or a click.
StoreReport ==
    /\ columns' = R!Columns(quantities)
    /\ UNCHANGED <<vars, quantities, safety, figures, previous>>

(***************************************************************************)
(* Every order of saves and reports, from a new document beside figures    *)
(* and a previous assessment of any content.                               *)
(***************************************************************************)
Opened ==
    /\ NewDocument
    /\ safety \in [DOMAIN Unharmed -> [hours : Nat, incidents : Nat]]
    /\ IsInput(figures)
    /\ previous \in [R!Sources -> Seq(AnyEntry)]

Edit ==
    \/ Next /\ UNCHANGED numbers
    \/ \E s \in R!Sources, entries \in Seq(Entries) : SaveQuantities(s, entries)
    \/ \E group \in {"direct", "contract"}, field \in DOMAIN Nobody, n \in Levels :
          SaveSafety(group, field, n)
    \/ \E field \in Measures, n \in Levels : SaveFigure(field, n)
    \/ \E field \in Switches, b \in BOOLEAN : SaveFigure(field, b)
    \/ StoreReport

DocumentSpec == Opened /\ [][Edit]_allVars

\* A stored report holds rounded figures, a document one entry at most where there is no list.
NumbersInv ==
    /\ quantities \in [R!Sources -> Seq(AnyEntry)]
    /\ \A s \in R!Sources \ R!Listed : Len(quantities[s]) <= 1
    /\ safety \in [DOMAIN Unharmed -> [hours : Nat, incidents : Nat]]
    /\ IsInput(figures)
    /\ columns # NoReport => \A sc \in R!Scopes : columns[sc] \in Nat /\ columns[sc] % R!Tick = 0
    /\ previous \in [R!Sources -> Seq(AnyEntry)]

(***************************************************************************)
(* The document has the shape the code gives it, the copies follow the     *)
(* forms, and every progress figure is a percentage or missing: a topic's  *)
(* is capped, and no mean, weighted or plain, exceeds what it is taken of. *)
(***************************************************************************)
TypeOK ==
    /\ DataInv
    /\ NumbersInv
    /\ \A name \in FigureNames : Figure(name) = None \/ Figure(name) \in 0..1000

-----------------------------------------------------------------------------
(* Progress.                                                                *)

(***************************************************************************)
(* A topic all of whose forms are filled shows 100%, unless one of its     *)
(* forms is a copy: the client renamed the form, the calculator copied it  *)
(* when it was first saved and never looks at the original again.          *)
(* calculateGroupProgress, calculateFormProgress.                          *)
(***************************************************************************)
Filled(g) == \A f \in DOMAIN Expected[g] : saved[f] # None /\ saved[f] >= Expected[g][f]

ShortfallIsExplained ==
    \A g \in Groups : Filled(g) =>
        \/ GroupProgress(g) = 1000
        \/ \E f \in DOMAIN Expected[g] \cap Renamed : kept[f] # saved[f]

(***************************************************************************)
(* Filling in more of a form that is already in the document never lowers  *)
(* a progress figure, of a topic, a scope, a pillar or the whole.  (A form *)
(* that is new may: it joins the forms of which everything is expected.)   *)
(* recalculate and its progress helpers.                                   *)
(***************************************************************************)
NotLower(a, b) == a = None \/ (b # None /\ a <= b)

Filling ==
    /\ saved' # saved
    /\ \A f \in Forms : saved'[f] # saved[f] => saved[f] # None /\ saved'[f] >= saved[f]

FillingNeverLowers ==
    [][ (Filling \/ submitted' # submitted) =>
          /\ \A name \in FigureNames : NotLower(Figure(name), Figure(name)')
          /\ OverallProgress <= OverallProgress' ]_vars

(***************************************************************************)
(* The pillars the list of assessments shows as begun are those the        *)
(* details give a progress to: summarizeAssessment looks for the client's  *)
(* names, the calculator for its own.                                      *)
(***************************************************************************)
PillarsMatchProgress ==
    \A letter \in DOMAIN PillarTopics :
        letter \in Pillars <=> \/ \E g \in PillarTopics[letter] : Started(g)
                               \/ letter = "E" /\ HasScope2Data

-----------------------------------------------------------------------------
(* Emissions and the report.                                                *)

Near(a, b, ticks) == a - b <= ticks * R!Tick /\ b - a <= ticks * R!Tick

(***************************************************************************)
(* Each figure is rounded by itself, yet they add up: the scopes to the    *)
(* total within 2 units of the last digit, the forms of a group to the     *)
(* group within one per form, the entries of a fuel list to the list       *)
(* within one per entry, and the percentages of the five largest sources   *)
(* to no more than 100.  A source larger than one of the five is one of    *)
(* them, unless it is of a kind whose result deriveTop5 cannot read.       *)
(* recalculate, stampPerSourceEmissions, deriveTop5.                       *)
(***************************************************************************)
FiguresAddUp ==
    /\ Near(SumFunction([sc \in R!Scopes |-> R!ScopeEmission(quantities, sc)]),
            R!TotalEmission(quantities), 2)
    /\ \A g \in DOMAIN R!FormsOf :
          Near(SumFunction([form \in R!FormsOf[g] |-> R!FormEmission(quantities, form)]),
               R!GroupEmission(quantities, g), Cardinality(R!FormsOf[g]))
    /\ \A s \in R!Fuels :
          Near(SumFunction([i \in DOMAIN quantities[s] |->
                               R!EntryStamp(quantities, s, quantities[s][i])]),
               R!Emission(quantities, s), Len(quantities[s]) + 1)
    /\ LET top   == R!TopEmissionSources(quantities)
           total == R!RawTotal(quantities)
           least == R!Emission(quantities, top[Len(top)])
       IN  top # << >> =>
             /\ SumFunction([i \in DOMAIN top |->
                    R!Percentage(R!Emission(quantities, top[i]), total)]) <= 1000 + Len(top)
             /\ \A s \in R!Ranked \ ToSet(top) : R!Emission(quantities, s) <= least

(***************************************************************************)
(* A report read after the document changed shows the document: a scope    *)
(* with emissions shows its own figure whatever was stored, the total is   *)
(* the sum of what is shown, the shares add up to the whole and no trend   *)
(* is shown against a previous assessment without emissions.  getReport.   *)
(***************************************************************************)
ReportFollowsDocument ==
    LET shown == [sc \in R!Scopes |-> R!ShownScope(quantities, columns, sc)]
        sum   == SumFunction(shown)
        total == R!ShownTotal(quantities, columns)
        part  == SumFunction([sc \in R!Scopes |-> R!Share(shown[sc], total)])
        trend == R!Change(total, R!PreviousTotal(previous))
    IN  /\ \A sc \in R!Scopes :
              R!ScopeEmission(quantities, sc) > 0 => shown[sc] = R!ScopeEmission(quantities, sc)
        /\ sum > 0 => total = sum /\ part \in 998..1000
        /\ previous = NoQuantities => trend = None

(***************************************************************************)
(* With no flat figure in the document the total incident rate lies        *)
(* between the rate of the employees and that of the contractors, those of *)
(* the two that have hours.  A group without hours that had incidents is   *)
(* shown with rate 0 but still counts in the total.  getReport.            *)
(***************************************************************************)
TotalRateIsBetween ==
    LET groups == {g \in {"direct", "contract"} : safety[g].hours > 0}
        silent == \A g \in {"direct", "contract"} \ groups : safety[g].incidents = 0
    IN  (safety.flat = Nobody /\ groups # {} /\ silent) =>
            /\ \E g \in groups : R!NotMore(R!RateOf(safety[g]), R!TotalRate(safety))
            /\ \E g \in groups : R!NotMore(R!TotalRate(safety), R!RateOf(safety[g]))

-----------------------------------------------------------------------------
(* The score.                                                               *)

\* Figures whose growth is bad news, and whose growth is good news.  In neither are what others
\* are divided by (boe, offshore, onshore, proved, probable, referred, hours, pseHours, and the
\* volume spilled, which divides the part on shorelines), the three switches, and climate: above
\* 100 a decrease of the reserves is taken for a volume instead of a percentage.
Harms == {"ghg", "flared", "vented", "withdrawn", "consumed", "spills", "sensitive",
          "conflict", "indigenous", "incidents", "nearMisses", "disruptions", "tier1",
          "embedded", "fatalities", "daysLost", "opex"}
Gains == {"scope3Forms", "stations", "resolved", "capex", "carbonPrice", "hcdt"}

(***************************************************************************)
(* A change of Harms and Gains for the worse never raises the overall      *)
(* score, nor one for the better lowers it, through twenty-six indicators, *)
(* three averages, five vetoes and the weights.  calculateESGScore,        *)
(* aggregate.                                                              *)
(***************************************************************************)
Worse(a, b) ==
    /\ \A x \in DOMAIN a : a[x] # b[x] => x \in Harms \cup Gains
    /\ \A x \in Harms : a[x] <= b[x]
    /\ \A x \in Gains : a[x] >= b[x]

WorseNeverScoresBetter ==
    [][ /\ Worse(figures, figures') => Overall(figures') <= Overall(figures)
        /\ Worse(figures', figures) => Overall(figures) <= Overall(figures') ]_allVars

(***************************************************************************)
(* A veto is felt in the grade, however good the rest: a major spill, no   *)
(* community contribution or two process safety events leave the company   *)
(* at B+ at best, a fatality or a month of protest at A.  aggregate.       *)
(***************************************************************************)
Grades == <<"D", "C", "B", "B+", "A", "A+">>
RankOf(grade) == CHOOSE i \in DOMAIN Grades : Grades[i] = grade
AtMostGrade(grade) == RankOf(OverallGrade(figures)) <= RankOf(grade)

VetoBoundsGrade ==
    /\ figures.spilled > 250 \/ figures.hcdt = 0 \/ figures.tier1 >= 2 => AtMostGrade("B+")
    /\ figures.fatalities >= 1 \/ figures.daysLost > 30 => AtMostGrade("A")
=============================================================================
