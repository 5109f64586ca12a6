------------------------- MODULE MCAssessmentReview -------------------------
(* Instances of AssessmentReview for TLC.                                  *)
EXTENDS AssessmentReview

CONSTANTS a1, officer, admin, subadmin, r1, r2, s1, s2, g1, g2, null

OneOfficer == {officer}
OneAdmin == {admin}
OneAssessment == {a1}
OneValidator == {admin}
TwoValidators == {admin, subadmin}
OfficerAndOne == {officer, admin}
OfficerAndTwo == {officer, admin, subadmin}
OneRequest == {r1}
TwoRequests == {r1, r2}
OneSection == {s1}
TwoSections == {s1, s2}
NoGroups == {}
OneGroup == {g1}
TwoGroups == {g1, g2}

(* The officer logs in before there is any assessment; the administrator   *)
(* does at any time, or is deleted.                                        *)
OfficerInit == Init /\ account[officer] = "member"

OfficerSpec == OfficerInit /\ [][Next]_vars /\ \A r \in Requests : WF_vars(Proceed(r))

=============================================================================
