------------------------------ MODULE Reporting ------------------------------
(***************************************************************************)
(* What a company reads in a report: the columns saveReportingData stores  *)
(* beside an assessment and the figures getReport derives, on each         *)
(* reading, from the assessment's document, the columns and the previous   *)
(* assessment.                                                             *)
(*                                                                         *)
(* A column set is a record of the stored emission totals; NoReport is the *)
(* row that was not written yet.  Ratios are in tenths of a percent.       *)
(***************************************************************************)
EXTENDS Emissions

CONSTANT NoReport

\* The emission columns of a report of document doc.
Columns(doc) ==
    [column \in Scopes \cup {"total"} |->
        IF column = "total" THEN TotalEmission(doc) ELSE ScopeEmission(doc, column)]

(***************************************************************************)
(* firstDefined: the first positive value, or else the first.  A scope is  *)
(* read from the document, then from its groups, then from the column.     *)
(***************************************************************************)
FirstPositive(vals) ==
    LET found == {i \in DOMAIN vals : vals[i] > 0}
    IN  IF found = {} THEN vals[1] ELSE vals[Min(found)]

OfGroups(doc, sc) == RawScope(doc, sc)

\* Mutant of ShownScope: the stored column before the document.
StoredScope(doc, columns, sc) ==
    FirstPositive(<<IF columns = NoReport THEN 0 ELSE columns[sc],
                    ScopeEmission(doc, sc), OfGroups(doc, sc)>>)

ShownScope(doc, columns, sc) ==
    FirstPositive(<<ScopeEmission(doc, sc), OfGroups(doc, sc),
                    IF columns = NoReport THEN 0 ELSE columns[sc]>>)

ShownTotal(doc, columns) ==
    LET sum == SumFunction([sc \in Scopes |-> ShownScope(doc, columns, sc)])
    IN  IF sum > 0 THEN sum
        ELSE IF columns # NoReport THEN columns.total ELSE TotalEmission(doc)

\* Two figures are compared in whole ticks, or to the unit when the second is small.
UnitFor(base) == IF base <= 100 * Tick THEN 1 ELSE Tick

\* getPercentage of two emissions, rounded down.
Share(part, whole) ==
    LET unit == UnitFor(whole)
    IN  IF whole = 0 THEN 0 ELSE ((part \div unit) * 1000) \div (whole \div unit)

\* The previous assessment is read without its columns.
PreviousScope(doc, sc) == FirstPositive(<<ScopeEmission(doc, sc), OfGroups(doc, sc)>>)
PreviousTotal(doc) ==
    LET sum == SumFunction([sc \in Scopes |-> PreviousScope(doc, sc)])
    IN  IF sum > 0 THEN sum ELSE TotalEmission(doc)

\* getChange: no badge without a previous figure, nor beyond 500%.
Change(current, previous) ==
    LET unit == UnitFor(previous)
        then == previous \div unit
        rise == current \div unit - then
    IN  IF then = 0 \/ rise > 5 * then THEN None
        ELSE (2000 * rise + then) \div (2 * then)

(***************************************************************************)
(* The recordable incident rate.  Figures come from employees (direct) and *)
(* contractors; a document of an older form has one flat figure instead of *)
(* the employees'.  Hours are in units of 200 000.                         *)
(***************************************************************************)
OrFlat(direct, flat) == IF direct > 0 THEN direct ELSE flat

\* Mutant of Hours: the hours of contractors left out.
EmployeeHours(s) == OrFlat(s.direct.hours, s.flat.hours)

Hours(s)     == OrFlat(s.direct.hours, s.flat.hours) + s.contract.hours
Incidents(s) == OrFlat(s.direct.incidents, s.flat.incidents) + s.contract.incidents

\* A rate is <<numerator, denominator>>; without hours it is shown as 0.
Rate(incidents, hours) == IF hours > 0 THEN <<incidents, hours>> ELSE <<0, 1>>
TotalRate(s) == Rate(Incidents(s), Hours(s))
RateOf(group) == Rate(group.incidents, group.hours)
NotMore(q, r) == q[1] * r[2] <= r[1] * q[2]
=============================================================================
