-------------------------- MODULE MCAssessmentTasks --------------------------
(* Instances of AssessmentTasks for TLC.  The ids of a table, the users    *)
(* and the request slots are interchangeable, and no property is a         *)
(* liveness property, so their permutations are a symmetry.                *)
EXTENDS AssessmentTasks, TLC

CONSTANTS t1, t2, a1, a2, u1, u2, p1, r1, r2

TwoTasks == {t1, t2}
OneTask == {t1}
OneAssessment == {a1}
TwoAssessments == {a1, a2}
TwoUsers == {u1, u2}
OneUser == {u1}
OnePeriod == {p1}
TwoRequests == {r1, r2}

Symmetry == Permutations(Tasks) \cup Permutations(Assessments)
              \cup Permutations(Users) \cup Permutations(Requests)

=============================================================================
