------------------------------ MODULE Emissions ------------------------------
(***************************************************************************)
(* The emission side of AssessmentCalculatorService.recalculate and of the *)
(* computation services it calls: from the quantities entered in the       *)
(* forms of an assessment to the emission of each source, the totals       *)
(* stamped on forms, groups and scopes, and the five largest sources.      *)
(*                                                                         *)
(* A quantity is a natural number, the product of the fields a formula     *)
(* multiplies (mass and distance, units and lifetime); a field known under *)
(* several names is one field.  Emission factors are in units of 10^-4 and *)
(* most formulas divide by 1000, so an emission is a whole number of units *)
(* of 10^-7 tCO2e and toFixed(4) rounds to a multiple of Tick.             *)
(***************************************************************************)
EXTENDS Integers, Sequences, FiniteSets, FiniteSetsExt, SequencesExt

CONSTANT None           \* a factor the form does not give

Tick == 1000            \* units of emission in the last digit of toFixed(4)

\* Number(x.toFixed(4)), half a tick rounding up.
ToFixed4(x) == ((x + Tick \div 2) \div Tick) * Tick

\* The sources of each group, in the order the computation services return them, as the
\* DTOs of the services list their quantities.
StationarySources == <<"dieselGenerators", "gasTurbines", "boilerFurnaces", "onShoreProduction">>
MobileSources     == <<"vehicleFleet", "carsBuses", "forkliftFuelType", "heavyDutyFuelType",
                       "tractorFuelType", "air", "marine">>
ProcessSources    == <<"cement", "flaring">>
FugitiveSources   == <<"venting", "hfc">>
LocationSources   == <<"electricity", "cooling", "steam", "heating">>
MarketSources     == <<"ipps", "eac", "residual", "coolingSteam">>
UpstreamSources   == <<"goods", "capitalGoods", "fuelEnergy", "transport", "waste", "ground",
                       "air_travel", "commuting", "leasedPower", "leasedFuel", "hotel">>
DownstreamSources == <<"distribution", "use", "endOfLife", "tenantFuel", "tenantPower",
                       "franchiseFuel", "franchisePower", "investments", "processing">>

SourcesOf ==
    [stationarySources |-> StationarySources, mobileSources     |-> MobileSources,
     processEmissions  |-> ProcessSources,    fugitiveEmissions |-> FugitiveSources,
     locationBased     |-> LocationSources,   marketBased       |-> MarketSources,
     upstream          |-> UpstreamSources,   downstream        |-> DownstreamSources]

GroupsOf ==
    [scope1 |-> {"stationarySources", "mobileSources", "processEmissions",
                 "fugitiveEmissions"},
     scope2 |-> {"locationBased", "marketBased"},
     scope3 |-> {"upstream", "downstream"}]

Groups  == DOMAIN SourcesOf
Scopes  == DOMAIN GroupsOf
Sources == UNION {ToSet(SourcesOf[g]) : g \in Groups}
GroupOf == [s \in Sources |-> CHOOSE g \in Groups : s \in ToSet(SourcesOf[g])]

\* Fuel lists: each entry brings its own factor, a list is rounded as a whole.
Fuels == ToSet(StationarySources) \cup ToSet(MobileSources)

\* Sources that are lists of entries; every other source has one entry or none.
Listed == Fuels \cup {"endOfLife"}

\* The default factor of the sources that have one.
DefaultFactor ==
    [cement |-> 4985, flaring |-> 26000, venting |-> 6560, hfc |-> 13000000,
     electricity |-> 4500, cooling |-> 4500, steam |-> 4500, heating |-> 4500,
     ipps |-> 4500, eac |-> 4500, residual |-> 4500, coolingSteam |-> 4500,
     goods |-> 4500, capitalGoods |-> 5500, fuelEnergy |-> 5500, transport |-> 1000,
     waste |-> 5000, ground |-> 1100, air_travel |-> 3500, commuting |-> 2000,
     leasedPower |-> 5260, leasedFuel |-> 26800, hotel |-> 300000,
     distribution |-> 1000, use |-> 5260, endOfLife |-> 10000, tenantFuel |-> 26800,
     tenantPower |-> 5260, franchiseFuel |-> 26800, franchisePower |-> 5260,
     investments |-> 100, processing |-> 500]

\* a || b and a ?? b of the source, for a factor that may be missing or zero.
OrElse(f, d)   == IF f \in {None, 0} THEN d ELSE f
WhenNone(f, d) == IF f = None THEN d ELSE f

\* Factors kept at zero when the form says zero.
ZeroKept == {"venting", "ipps", "eac", "residual", "coolingSteam"}
\* Factors the form may change; those of scope 3 are constants, except a material's.
Editable == {"cement", "flaring", "hfc", "cooling", "heating", "endOfLife"}

(***************************************************************************)
(* The factor applied to entry e of source s.  Steam has a factor of its   *)
(* own in the form and in the DTO, which locationBasedEmission does not    *)
(* read: it multiplies by the factor of cooling.                           *)
(***************************************************************************)
CoolingFactor(doc) ==
    IF doc.cooling = << >> THEN DefaultFactor.cooling
    ELSE OrElse(doc.cooling[1].factor, DefaultFactor.cooling)

Factor(doc, s, e) ==
    CASE s \in Fuels         -> OrElse(e.factor, 0)
      [] s \in Editable      -> OrElse(e.factor, DefaultFactor[s])
      [] s \in ZeroKept      -> WhenNone(e.factor, DefaultFactor[s])
      [] s = "electricity"   -> OrElse(WhenNone(e.factor, DefaultFactor[s]), 5260)
      [] s = "steam"         -> CoolingFactor(doc)
      [] OTHER               -> DefaultFactor[s]

\* What a formula multiplies besides quantity and factor: factors per tonne are not
\* divided by 1000, methane is weighed by its GWP, commuters travel 250 days.
Multiplier(s) ==
    CASE s \in {"cement", "processing", "investments"} -> Tick
      [] s = "venting"   -> 28
      [] s = "commuting" -> 250
      [] OTHER           -> 1

EntryEmission(doc, s, e) == e.amount * Factor(doc, s, e) * Multiplier(s)

\* The emission of a source, as its computation service returns it.
Emission(doc, s) ==
    LET sum == SumFunction([i \in DOMAIN doc[s] |-> EntryEmission(doc, s, doc[s][i])])
    IN  IF s \in Fuels THEN ToFixed4(sum) ELSE sum

GroupEmission(doc, g) ==
    SumFunction([i \in DOMAIN SourcesOf[g] |-> Emission(doc, SourcesOf[g][i])])

RawScope(doc, sc)      == SumFunction([g \in GroupsOf[sc] |-> GroupEmission(doc, g)])
\* Mutant of ScopeEmission: only the location-based method counts as scope 2.
LocationScopeEmission(doc, sc) ==
    ToFixed4(IF sc = "scope2" THEN GroupEmission(doc, "locationBased") ELSE RawScope(doc, sc))
ScopeEmission(doc, sc) == ToFixed4(RawScope(doc, sc))
RawTotal(doc)          == SumFunction([sc \in Scopes |-> RawScope(doc, sc)])
TotalEmission(doc)     == ToFixed4(RawTotal(doc))

(***************************************************************************)
(* What the assessment's details show: a figure on each form, computed     *)
(* from the same result.  The forms of mobileSources carry none, only      *)
(* their entries do.                                                       *)
(***************************************************************************)
FormsOf ==
    [stationarySources |-> {{"dieselGenerators", "gasTurbines"}, {"boilerFurnaces"},
                            {"onShoreProduction"}},
     processEmissions  |-> {{"cement"}, {"flaring"}},
     fugitiveEmissions |-> {{"venting"}, {"hfc"}},
     locationBased     |-> {{"electricity"}, {"cooling"}, {"steam"}, {"heating"}},
     marketBased       |-> {{"ipps"}, {"eac"}, {"residual"}, {"coolingSteam"}},
     upstream          |-> {{"goods"}, {"capitalGoods"}, {"fuelEnergy"}, {"transport"},
                            {"waste"}, {"ground", "air_travel"}, {"hotel"},
                            {"commuting"}, {"leasedPower", "leasedFuel"}},
     downstream        |-> {{"distribution"}, {"use"}, {"endOfLife"},
                            {"tenantFuel", "tenantPower"},
                            {"franchiseFuel", "franchisePower"}, {"investments"},
                            {"processing"}}]

FormEmission(doc, form) == ToFixed4(SumFunction([s \in form |-> Emission(doc, s)]))

\* computedEmission, stamped on every entry of a fuel list that has both numbers.
EntryStamp(doc, s, e) == ToFixed4(EntryEmission(doc, s, e))

(***************************************************************************)
(* deriveTop5 collects the results that carry a value: the fuel lists and  *)
(* scope 2.  Process, fugitive and scope 3 results are plain numbers, and  *)
(* .value of a number is undefined.                                        *)
(***************************************************************************)
Ranked == Fuels \cup ToSet(LocationSources) \cup ToSet(MarketSources)

RankOrder == StationarySources \o MobileSources \o LocationSources \o MarketSources

\* sort is stable: of two equal emissions the one found first stays first.
TopEmissionSources(doc) ==
    LET emission == [i \in DOMAIN RankOrder |-> Emission(doc, RankOrder[i])]
        found    == {i \in DOMAIN RankOrder : emission[i] > 0}
        before(i) == {j \in found : \/ emission[j] > emission[i]
                                    \/ emission[j] = emission[i] /\ j < i}
        place(k) == CHOOSE i \in found : Cardinality(before(i)) = k - 1
        size     == IF Cardinality(found) > 5 THEN 5 ELSE Cardinality(found)
    IN  [k \in 1..size |-> RankOrder[place(k)]]

\* The share of a source's emission in the total, in tenths of a percent.
Percentage(emission, total) == (emission * 1000 + total \div 2) \div total
=============================================================================
