------------------------------ MODULE MCTargets ------------------------------
(***************************************************************************)
(* Instances of Targets for TLC: a company with settled assessments whose  *)
(* users send MaxRequests requests about targets, a company with a target  *)
(* whose assessments are drafted, settled and discarded, or one where      *)
(* targets are created while the assessments of their baseline year are.   *)
(***************************************************************************)
EXTENDS Targets, TLC

CONSTANTS MaxRequests, s1, s2, n1, n2

VARIABLES focus, begun

mcVars == <<vars, focus, begun>>

MCScopes == {s1, s2}

NoYears == [s \in MCScopes |-> [baseline |-> None, until |-> None]]

\* No per-scope year, a late beginning, an early end, a longer span, and one of each.
MCScopeYears ==
    {NoYears,
     [NoYears EXCEPT ![s1].baseline = 3],
     [NoYears EXCEPT ![s2].until = 2],
     [NoYears EXCEPT ![s1].baseline = 1, ![s2].until = 4]}

\* What an update sends for the scopes: an early end for one, and no year for the other.
MCScopeChanges == {[NoYears EXCEPT ![s1].baseline = Cleared, ![s2].until = 2]}

Row(y, settled, whole) ==
    [year |-> y, eligible |-> settled, measured |-> TRUE, whole |-> whole]

Existing(type, b, u, a, picked, approved) ==
    [type |-> type, name |-> n1, baseline |-> b, until |-> u,
     scopes |-> [s \in Scopes |-> [baseline |-> b, until |-> u]],
     asked |-> type, checked |-> a, picked |-> picked, approved |-> approved, seen |-> {},
     widened |-> FALSE, edited |-> FALSE]

NoTargets == [t \in Targets |-> None]

\* Assessments 1 and 3 are of year 1, 2 is of year 3 and has a gap in its period.
MCInit ==
    /\ begun = 0
    /\ req = [r \in Slots |-> None]
    /\ \/ /\ focus = "requests"
          /\ drafted = 3
          /\ assessment = [a \in Assessments |->
                CASE a = 1 -> Row(1, TRUE, TRUE) [] a = 2 -> Row(3, TRUE, FALSE)
                  [] a = 3 -> Row(1, TRUE, TRUE) [] OTHER -> None]
          /\ \/ target = NoTargets /\ numbered = 0
             \/ \E type \in Types :
                   /\ target = [NoTargets EXCEPT ![1] = Existing(type, 1, 2, 3, TRUE, 1..3)]
                   /\ numbered = 1
       \/ /\ focus = "assessments"
          /\ drafted = 3
          /\ \E years \in [1..3 -> 1..3], settled \in SUBSET (1..3), checked \in 1..3 :
                /\ checked \in settled /\ years[checked] = 1
                /\ assessment = [a \in Assessments |->
                        IF a <= 3 THEN Row(years[a], a \in settled, TRUE) ELSE None]
                /\ target = [NoTargets EXCEPT
                        ![1] = Existing("GENERAL", 1, 3, checked, FALSE, settled)]
                /\ \A a \in settled : years[a] = 1 => a = checked
          /\ numbered = 1
       \/ /\ focus = "baseline"
          /\ drafted = 2
          /\ \E settled \in SUBSET (1..2) :
                assessment = [a \in Assessments |->
                        IF a <= 2 THEN Row(1, a \in settled, a = 1) ELSE None]
          /\ target = NoTargets /\ numbered = 0

Request(r) ==
    \/ \E type \in Asked, name \in Names, b, u \in Years, pick \in Assessments \cup {None},
          years \in ScopeYears : CreateRead(r, type, name, b, u, pick, years)
    \/ \E t \in Targets, name \in {None, n2}, b, u \in {None, 1, 4},
          years \in ScopeChanges \cup {None} : UpdateRead(r, t, name, b, u, years)

\* Targets of year 1, with the assessments of that year changing around them.
BaselineRequest(r) ==
    \E type \in Types, pick \in Assessments \cup {None} : CreateRead(r, type, n1, 1, 2, pick, NoYears)

MCNext ==
    /\ UNCHANGED focus
    /\ \/ /\ focus \in {"requests", "baseline"}
          /\ \/ /\ begun < MaxRequests
                /\ begun' = begun + 1
                /\ \E r \in Slots : IF focus = "baseline" THEN BaselineRequest(r) ELSE Request(r)
             \/ /\ UNCHANGED begun
                /\ \/ \E r \in Slots : CreateWrite(r) \/ UpdateScopes(r) \/ UpdateWrite(r) \/ Fail(r)
                   \/ \E t \in Targets : DeleteTarget(t)
       \/ /\ focus \in {"assessments", "baseline"}
          /\ UNCHANGED begun
          /\ \/ /\ focus = "baseline" => drafted < 3
                /\ \E y \in (IF focus = "baseline" THEN {1} ELSE 1..3), m, w \in BOOLEAN :
                      CreateAssessment(y, m, w)
             \/ \E a \in Assessments : Settle(a) \/ Unsettle(a) \/ Discard(a)

MCSpec == MCInit /\ [][MCNext]_mcVars

Interchangeable == Permutations(Slots)
=============================================================================
