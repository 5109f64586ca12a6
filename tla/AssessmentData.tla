---------------------------- MODULE AssessmentData ----------------------------
(***************************************************************************)
(* The document of an assessment: what saveProgress merges into it, how    *)
(* AssessmentCalculatorService.recalculate brings it to its canonical      *)
(* places, and the progress figures computed from it.                      *)
(*                                                                         *)
(* A form is abstracted to the number of its filled fields, which is all   *)
(* that countFilledFields keeps of it; None is a form that is not in the   *)
(* document.  A save may raise or lower the number: the merge overwrites   *)
(* fields, also with empty values, and removes none.  Percentages are in   *)
(* tenths, the precision toFixed(1) leaves.                                *)
(***************************************************************************)
EXTENDS Integers, FiniteSets, FiniteSetsExt, Sequences, SequencesExt

CONSTANTS
    None,           \* a form, or a figure, that is not in the document
    Counts,         \* the numbers of filled fields a save can leave in a form
    GroupKeys,      \* ALL_GROUP_KEYS
    StrayPaths      \* the other paths getGroupPath can return

ASSUME CountsAssumption == Counts \subseteq Nat /\ None \notin Nat
ASSUME KeysAssumption   == IsFiniteSet(GroupKeys) /\ GroupKeys # {}

VARIABLES
    saved,          \* form -> filled fields, under the name the client saves it
    kept,           \* the copies of renamed forms under the names the calculator reads
    submitted       \* submittedGroups

vars == <<saved, kept, submitted>>

(***************************************************************************)
(* The groups with their forms and the number of fields expected of each.  *)
(* A topic of a single form is a group of one.                             *)
(***************************************************************************)
Expected ==
    [stationarySources |-> [electricityHeat |-> 2, industrialProcess |-> 1,
                            oilGasOperations |-> 1],
     mobileSources     |-> [roadTransport |-> 4, vehicleEquipment |-> 6, marineAviation |-> 4],
     processEmissions  |-> [cementManufacturing |-> 2, gasFlaring |-> 2],
     fugitiveEmissions |-> [ventingNaturalGas |-> 1, hfcLeaks |-> 3],
     upstream          |-> [purchasedGoodsAndServices |-> 1, capitalGoods |-> 1,
                            fuelEnergyRelatedActivities |-> 1,
                            upstreamTransportationDistribution |-> 1,
                            wasteGeneratedInOperations |-> 1, businessTravel |-> 1,
                            employeeCommuting |-> 1, upstreamLeasedAssets |-> 1],
     downstream        |-> [downstreamTransportationDistribution |-> 1,
                            processingSoldProducts |-> 1, useOfSoldProducts |-> 1,
                            endOfLifeTreatment |-> 1, downstreamLeasedAssets |-> 1,
                            franchises |-> 1, investments |-> 1],
     airPollutantEmissions   |-> [airPollutants |-> 1],
     freshwaterWithdrawals   |-> [freshwater |-> 4],
     producedWaterManagement |-> [producedWater |-> 1],
     environmentalManagementPolicies |-> [policies |-> 1],
     hydrocarbonSpills       |-> [spills |-> 1],
     reservesInSensitiveAreas |-> [sensitiveReserves |-> 1],
     productionVolume  |-> [production |-> 4],
     offshoreSites     |-> [offshore |-> 3],
     terrestrialSites  |-> [terrestrial |-> 3],
     securityHumanRights |-> [operationsInConflictZones |-> 2,
                              reservesInNearIndigenousLand |-> 2,
                              humanRightsEngagementProcesses |-> 4],
     communityRelations  |-> [communityRisk |-> 4, hcdtContribution |-> 3,
                              disputeResolution |-> 3, operationalDelays |-> 2],
     workforceHealthSafety |-> [safetyManagementSystems |-> 2],
     healthAndSafetyPerformance |-> [direct |-> 6, contract |-> 6],
     reservesValuationAndCapitalExpenditures |->
                             [reservesSensitivityToCarbonPricing |-> 1,
                              embeddedCarbonInReserves |-> 1,
                              renewableEnergyInvestment |-> 1,
                              capitalExpenditureStrategy |-> 1],
     businessEthicsAndTransparency |->
                             [reservesInCountriesWithHighCorruptionRisk |-> 1,
                              antiCorruptionManagementSystem |-> 1],
     criticalIncidentRiskManagement |-> [processSafetyEvents |-> 5,
                                         catastrophicRiskManagementSystems |-> 4],
     legalRegulatoryEnvironment |-> [boardAndManagementOversight |-> 4,
                                     publicPolicyEngagement |-> 4]]

\* The forms of scope 2 are counted, present or not, whatever is in them.
ScopeTwo ==
    [locationBased |-> {"electricity", "cooling", "steam", "heating"},
     marketBased   |-> {"ipps", "eac", "residual", "coolingSteam"}]

Groups == DOMAIN Expected
Forms  == (UNION {DOMAIN Expected[g] : g \in Groups}) \cup (UNION {ScopeTwo[g] : g \in DOMAIN ScopeTwo})

\* calculateScope2Progress looks for purchasedElectricity; the form saves electricity.
LocationFields == (ScopeTwo.locationBased \ {"electricity"}) \cup {"purchasedElectricity"}

(***************************************************************************)
(* Forms the client saves under another name than the calculator reads.    *)
(***************************************************************************)
RenamedAlone == {"communityRisk", "disputeResolution"}
LegalForms   == DOMAIN Expected.legalRegulatoryEnvironment
Renamed      == RenamedAlone \cup LegalForms

Init ==
    /\ saved = [f \in Forms |-> None]
    /\ kept = [f \in Renamed |-> None]
    /\ submitted = {}

\* Mutant of Normalised: the legal and regulatory group is not copied.
NormalisedAlone(s) ==
    [f \in Renamed |-> IF kept[f] # None \/ f \in LegalForms THEN kept[f] ELSE s[f]]

(***************************************************************************)
(* The normalisations of one recalculation, for a document now holding s.  *)
(* A copy is made when the canonical name is not there yet; the legal and  *)
(* regulatory group is copied as a whole.                                  *)
(***************************************************************************)
Normalised(s) ==
    LET legalKept == \E f \in LegalForms : kept[f] # None
    IN  [f \in Renamed |->
            IF kept[f] # None \/ (f \in LegalForms /\ legalKept) THEN kept[f] ELSE s[f]]

\* saveProgress: merge the form into the document, recalculate, write it back.
WriteBack(s) ==
    /\ saved' = s
    /\ kept' = Normalised(s)
    /\ UNCHANGED submitted

SaveForm(f, n) == WriteBack([saved EXCEPT ![f] = n])

\* saveProgress with the path of a topic: the forms the client sends replace their old ones.
SaveGroup(g, counts) ==
    /\ DOMAIN counts \subseteq DOMAIN Expected[g]
    /\ WriteBack([f \in Forms |-> IF f \in DOMAIN counts THEN counts[f] ELSE saved[f]])

\* submitGroup: the path of the form, added once, and a recalculation.
SubmitGroup(p) ==
    /\ submitted' = submitted \cup {p}
    /\ kept' = Normalised(saved)
    /\ UNCHANGED saved

Next ==
    \/ \E f \in Forms, n \in Counts : SaveForm(f, n)
    \/ \E g \in Groups : \E sent \in SUBSET DOMAIN Expected[g] :
          \E counts \in [sent -> Counts] : SaveGroup(g, counts)
    \/ \E p \in GroupKeys \cup StrayPaths : SubmitGroup(p)

Spec == Init /\ [][Next]_vars

-----------------------------------------------------------------------------
(* Progress.                                                                *)

\* What the calculator finds of form f.
Count(f) == IF f \in Renamed THEN kept[f] ELSE saved[f]
Present(f) == Count(f) # None

\* Number(x.toFixed(1)) of the quotient a / b.
Rounded(a, b) == (2 * a + b) \div (2 * b)
\* Mutant of AtMost1000: a progress without its cap.
Uncapped(x) == x

AtMost1000(x) == IF x < 1000 THEN x ELSE 1000

FormProgress(f, expected) == AtMost1000(Rounded(1000 * Count(f), expected))

\* calculateGroupProgress: only the forms that are there are expected.
PresentForms(g)  == {f \in DOMAIN Expected[g] : Present(f)}
TotalCount(g)    == SumFunction([f \in PresentForms(g) |-> Count(f)])
\* Mutant of TotalExpected: nothing is expected of a form with nothing filled in.
ExpectedOfFilled(g) ==
    LET filled == {f \in PresentForms(g) : Count(f) > 0}
    IN  IF filled = {} THEN 1 ELSE SumFunction([f \in filled |-> Expected[g][f]])

TotalExpected(g) == SumFunction([f \in PresentForms(g) |-> Expected[g][f]])

\* hasData(group): a group without a form in it is not calculated.
Started(g) == PresentForms(g) # {}

GroupProgress(g) ==
    IF Started(g) THEN AtMost1000(Rounded(1000 * TotalCount(g), TotalExpected(g))) ELSE None

ScopeOneWeight == [stationarySources |-> 4, mobileSources |-> 14, processEmissions |-> 4,
                   fugitiveEmissions |-> 4]

\* Mutant of Scope1Progress: the total of the weights forgets the mobile sources.
Scope1OfTwelve ==
    LET started == {g \in DOMAIN ScopeOneWeight : Started(g)}
    IN  Rounded(SumFunction([g \in started |-> GroupProgress(g) * ScopeOneWeight[g]]), 12)

Scope1Progress ==
    LET started == {g \in DOMAIN ScopeOneWeight : Started(g)}
    IN  Rounded(SumFunction([g \in started |-> GroupProgress(g) * ScopeOneWeight[g]]), 26)

LocationProgress == 250 * Cardinality({f \in LocationFields \cap Forms : Present(f)})
MarketProgress   == 250 * Cardinality({f \in ScopeTwo.marketBased : Present(f)})
Scope2Progress   == Rounded(4 * LocationProgress + 4 * MarketProgress, 8)

\* The average of the groups of a list that have a progress, 0 if none has.
AverageOf(groups, others) ==
    LET started == {g \in groups : Started(g)}
        n == Cardinality(started) + Len(others)
        sum == SumFunction([g \in started |-> GroupProgress(g)]) + SumFunction(others)
    IN  IF n = 0 THEN 0 ELSE AtMost1000(Rounded(sum, n))

Scope3Progress == AverageOf({"upstream", "downstream"}, << >>)

EnvironmentTopics ==
    {"airPollutantEmissions", "freshwaterWithdrawals", "producedWaterManagement",
     "environmentalManagementPolicies", "hydrocarbonSpills", "reservesInSensitiveAreas"}

EnvironmentalProgress ==
    AverageOf(EnvironmentTopics, <<Scope1Progress, Scope2Progress, Scope3Progress>>)
FoundationalProgress ==
    AverageOf({"productionVolume", "offshoreSites", "terrestrialSites"}, << >>)
SocialProgress     == AverageOf({"securityHumanRights", "communityRelations"}, << >>)
LeadershipProgress ==
    AverageOf({"criticalIncidentRiskManagement", "legalRegulatoryEnvironment"}, << >>)
BusinessProgress   ==
    AverageOf({"reservesValuationAndCapitalExpenditures", "businessEthicsAndTransparency"}, << >>)

\* Safety management weighs 0.4 and health and safety performance 0.6.
HumanWeight == [workforceHealthSafety |-> 4, healthAndSafetyPerformance |-> 6]

HumanProgress ==
    LET started == {g \in DOMAIN HumanWeight : Started(g)}
    IN  IF started = {} THEN 0
        ELSE Rounded(SumFunction([g \in started |-> GroupProgress(g) * HumanWeight[g]]),
                     SumFunction([g \in started |-> HumanWeight[g]]))

\* Every progress figure of the document, by name.
FigureNames == Groups \cup {"scope1", "scope2", "scope3", "environment", "foundational",
                            "social", "human", "business", "leadership"}

Figure(name) ==
    CASE name = "scope1"       -> Scope1Progress
      [] name = "scope2"       -> Scope2Progress
      [] name = "scope3"       -> Scope3Progress
      [] name = "environment"  -> EnvironmentalProgress
      [] name = "foundational" -> FoundationalProgress
      [] name = "social"       -> SocialProgress
      [] name = "human"        -> HumanProgress
      [] name = "business"     -> BusinessProgress
      [] name = "leadership"   -> LeadershipProgress
      [] OTHER                 -> GroupProgress(name)

\* calculateOverallProgress, in hundredths of a percent, and calculateTotalSectionCounts.
OverallProgress ==
    LET p == Rounded(10000 * Cardinality(submitted), Cardinality(GroupKeys))
    IN  IF p < 10000 THEN p ELSE 10000

-----------------------------------------------------------------------------
(* The list of assessments.                                                 *)

\* The topics behind each letter summarizeAssessment shows; all are looked up under the
\* names the client saves, without the computed keys.
PillarTopics ==
    [A |-> {"productionVolume", "offshoreSites", "terrestrialSites"},
     E |-> EnvironmentTopics \cup DOMAIN ScopeOneWeight \cup {"upstream", "downstream"},
     S |-> {"securityHumanRights", "communityRelations"},
     H |-> DOMAIN HumanWeight,
     B |-> {"reservesValuationAndCapitalExpenditures", "businessEthicsAndTransparency"},
     L |-> {"criticalIncidentRiskManagement"},
     G |-> {"legalRegulatoryEnvironment"}]

HasUserData(g) == \E f \in DOMAIN Expected[g] : saved[f] # None
HasScope2Data  == \E g \in DOMAIN ScopeTwo, f \in Forms : f \in ScopeTwo[g] /\ saved[f] # None

Pillars ==
    {letter \in DOMAIN PillarTopics :
        \/ \E g \in PillarTopics[letter] : HasUserData(g)
        \/ letter = "E" /\ HasScope2Data}

(***************************************************************************)
(* Between two requests every copy the calculator would make is made: a    *)
(* form renamed alone has a copy when it is in the document, and the legal *)
(* group when one of its forms is.                                         *)
(***************************************************************************)
CopiesFollow ==
    /\ \A f \in RenamedAlone : kept[f] # None <=> saved[f] # None
    /\ \A f \in LegalForms : kept[f] # None => saved[f] # None
    /\ (\E f \in LegalForms : saved[f] # None) => \E f \in LegalForms : kept[f] # None

DataInv ==
    /\ saved \in [Forms -> Nat \cup {None}]
    /\ kept \in [Renamed -> Nat \cup {None}]
    /\ IsFiniteSet(submitted)
    /\ CopiesFollow

\* The list's own percentage, against its own number of groups.
ListProgress(total) == IF Cardinality(submitted) >= total THEN 10000 ELSE OverallProgress
=============================================================================
