------------------------------- MODULE Scoring -------------------------------
(***************************************************************************)
(* ScoringService.calculateESGScore and GradingService.aggregate: from the *)
(* figures of an assessment to indicator scores, pillar scores with their  *)
(* vetoes, the overall score and its grade.                                *)
(*                                                                         *)
(* A score is in hundredths of a point, the precision of the report, and   *)
(* every quotient is rounded down to it.  An input is a record of natural  *)
(* numbers and BOOLEANs, one per figure the service reads: production and  *)
(* water in millions, volumes in the unit that makes the intensity a       *)
(* quotient of the two, hours in units of 200 000.                         *)
(***************************************************************************)
EXTENDS Integers, Sequences, FiniteSetsExt, SequencesExt

Point == 100
Full  == 100 * Point
Huge  == 100000         \* a quotient by the 1 that stands for a missing divisor

\* The figures the service reads.
Measures ==
    {"boe", "ghg", "flared", "vented", "scope3Forms", "withdrawn", "stations", "consumed",
     "spilled", "spills", "sensitive", "offshore", "onshore", "proved", "probable", "conflict",
     "indigenous", "hcdt", "opex", "resolved", "referred", "incidents", "nearMisses", "hours",
     "disruptions", "tier1", "pseHours", "capex", "climate", "embedded", "carbonPrice",
     "fatalities", "daysLost"}
Switches == {"certified", "remuneration", "aligned"}
IsInput(in) ==
    /\ DOMAIN in = Measures \cup Switches
    /\ \A x \in Measures : in[x] \in Nat
    /\ \A x \in Switches : in[x] \in BOOLEAN

\* The quotient x / (y || 1), as <<numerator, denominator>>.
Per(x, y) == IF y > 0 THEN <<x, y>> ELSE IF x = 0 THEN <<0, 1>> ELSE <<Huge, 1>>

(***************************************************************************)
(* interpolate(value, target, worst) for value q[1]/q[2], target t/d and   *)
(* worst w/d: full marks at the target, none at the worst value, clamped   *)
(* outside, linear between.  The target may lie on either side.            *)
(***************************************************************************)
Interpolate(q, t, w, d) ==
    LET v == d * q[1]
        beyond(a, b) == IF t < w THEN a >= b ELSE a <= b
    IN  IF beyond(v, w * q[2]) THEN 0
        ELSE IF beyond(t * q[2], v) THEN Full
        ELSE IF t < w THEN (Full * (w * q[2] - v)) \div ((w - t) * q[2])
        ELSE (Full * (v - w * q[2])) \div ((t - w) * q[2])

AllOrNone(b) == IF b THEN Full ELSE 0

Assets(in)   == in.offshore + in.onshore
Reserves(in) == (IF in.proved = 0 THEN 1 ELSE in.proved) + in.probable

EnvScores(in) ==
    <<Interpolate(Per(in.ghg, in.boe), 10, 40, 1000),
      Interpolate(Per(in.flared, in.boe), 5, 50, 10),
      Interpolate(Per(in.vented, in.boe), 5, 50, 100),
      Interpolate(<<0, 1>>, 0, 15, 10),
      Interpolate(<<in.scope3Forms, 15>>, 1, 0, 1),
      Interpolate(Per(in.withdrawn, in.boe), 5, 30, 100),
      Interpolate(<<in.withdrawn, IF in.stations = 0 THEN 1 ELSE in.stations>>, 0, 15, 100),
      Interpolate(Per(in.consumed, in.boe), 0, 5, 100),
      Interpolate(Per(in.spilled, in.boe), 2, 50, 1),
      Interpolate(Per(in.spills, Assets(in)), 0, 1, 1),
      Interpolate(IF in.spilled = 0 THEN <<0, 1>> ELSE <<in.sensitive, in.spilled>>, 0, 1, 1)>>

SocScores(in) ==
    <<Interpolate(<<in.conflict, Reserves(in)>>, 0, 25, 100),
      Interpolate(<<in.indigenous, Reserves(in)>>, 0, 25, 100),
      AllOrNone(100 * in.hcdt >= 3 * (IF in.opex = 0 THEN 1 ELSE in.opex)),
      Interpolate(<<in.resolved, IF in.referred = 0 THEN 1 ELSE in.referred>>, 1, 0, 1),
      Interpolate(Per(in.incidents, in.hours), 7, 30, 100),
      Interpolate(Per(in.nearMisses, in.hours), 5, 25, 10),
      Interpolate(Per(in.disruptions, Assets(in)), 0, 1, 1)>>

GovScores(in) ==
    <<Interpolate(Per(in.tier1, IF in.pseHours = 0 THEN in.hours ELSE in.pseHours), 1, 10, 100),
      Interpolate(<<in.capex, 1>>, 50, 10, 1),
      Interpolate(IF in.climate > 100 THEN <<100 * in.climate, Reserves(in)>>
                                      ELSE <<in.climate, 1>>, 0, 25, 1),
      Interpolate(<<in.embedded, Reserves(in)>>, 25, 50, 100),
      AllOrNone(in.certified),
      AllOrNone(in.remuneration),
      AllOrNone(in.carbonPrice >= 50),
      AllOrNone(in.aligned)>>

Average(seq) == SumFunction(seq) \div Len(seq)

\* Each veto that applies caps the score; the lowest cap wins.
\* Mutant of Capped: the last veto wins instead of the lowest cap.
LastCap(score, caps) ==
    FoldSeq(LAMBDA veto, acc : IF veto[1] THEN veto[2] * Point ELSE acc, score, caps)

Capped(score, caps) ==
    LET applied == {i \in DOMAIN caps : caps[i][1]}
    IN  Min({score} \cup {caps[i][2] * Point : i \in applied})

EnvVetoes(in) == <<<<in.spilled > 250, 40>>>>
\* Mutant of SocVetoes: no veto for a missing community contribution.
SocVetoesWithoutHcdt(in) == <<<<in.fatalities >= 1, 50>>, <<in.daysLost > 30, 60>>>>
SocVetoes(in) == <<<<in.fatalities >= 1, 50>>, <<in.daysLost > 30, 60>>, <<in.hcdt = 0, 40>>>>
GovVetoes(in) == <<<<in.tier1 >= 2, 50>>>>

Environment(in) == Capped(Average(EnvScores(in)), EnvVetoes(in))
Social(in)      == Capped(Average(SocScores(in)), SocVetoes(in))
Governance(in)  == Capped(Average(GovScores(in)), GovVetoes(in))

IsCapped(vetoes) == \E i \in DOMAIN vetoes : vetoes[i][1]

\* The four finer pillars average the same indicators and know no veto.
SocialCapital(in) ==
    LET s == SocScores(in) IN Average(SubSeq(s, 1, 4) \o <<s[7]>>)
HumanCapital(in)  ==
    LET s == SocScores(in) IN Average(SubSeq(s, 5, 6))
BusinessModel(in) == Average(SubSeq(GovScores(in), 2, 4))
Leadership(in)    ==
    LET g == GovScores(in) IN Average(<<g[1]>> \o SubSeq(g, 5, 8))

\* The overall score, in ten-thousandths of a point.
Overall(in) == 41 * Environment(in) + 26 * Social(in) + 33 * Governance(in)

\* calculateGrade, of a score in units of 1/scale point.
Grade(score, scale) ==
    CASE score >= 95 * scale -> "A+"
      [] score >= 85 * scale -> "A"
      [] score >= 75 * scale -> "B+"
      [] score >= 65 * scale -> "B"
      [] score >= 50 * scale -> "C"
      [] OTHER               -> "D"

OverallGrade(in) == Grade(Overall(in), 100 * Point)
=============================================================================
