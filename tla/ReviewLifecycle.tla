--------------------------- MODULE ReviewLifecycle ---------------------------
(***************************************************************************)
(* What the review of an assessment promises, with every operation atomic: *)
(* the statuses an assessment goes through, what may change in it in each  *)
(* of them, and the decisions recorded about it.  AssessmentReview         *)
(* implements it as long as requests on an assessment do not overlap.      *)
(***************************************************************************)
CONSTANTS Assessments, Validators, Sections, Groups

VARIABLES
  status,     \* of each assessment
  saved,      \* the sections its form data holds
  groups,     \* the groups marked as submitted
  decisions   \* the approvals and rejections on record, with who took them

vars == <<status, saved, groups, decisions>>

Live(a) == status[a] \notin {"unborn", "deleted"}

Init ==
  /\ status = [a \in Assessments |-> "unborn"]
  /\ saved = [a \in Assessments |-> {}]
  /\ groups = [a \in Assessments |-> {}]
  /\ decisions = {}

Move(a, from, to) ==
  /\ status[a] \in from
  /\ status' = [status EXCEPT ![a] = to]

Create(a) ==
  /\ Move(a, {"unborn"}, "in_progress")
  /\ UNCHANGED <<saved, groups, decisions>>

\* Form data is never lost, and frozen once the assessment is approved.
Save(a, s) ==
  /\ status[a] \in {"in_progress", "awaiting_review"}
  /\ saved' = [saved EXCEPT ![a] = @ \cup {s}]
  /\ UNCHANGED <<status, groups, decisions>>

\* The only change to a declined assessment other than submitting it again.
Reopen(a) ==
  /\ Move(a, {"declined"}, "in_progress")
  /\ UNCHANGED <<saved, groups, decisions>>

MarkGroup(a, g) ==
  /\ Live(a)
  /\ groups' = [groups EXCEPT ![a] = @ \cup {g}]
  /\ UNCHANGED <<status, saved, decisions>>

Submit(a) ==
  /\ \/ Move(a, {"in_progress", "declined"}, "awaiting_review")
     \/ Move(a, {"in_progress", "declined"}, "submitted_approved")
  /\ UNCHANGED <<saved, groups, decisions>>

Decide(a, verdict, u) ==
  /\ Move(a, {"awaiting_review"}, verdict)
  /\ decisions' = decisions \cup {<<a, verdict, u>>}
  /\ UNCHANGED <<saved, groups>>

Delete(a) ==
  /\ Move(a, {"in_progress"}, "deleted")
  /\ saved' = [saved EXCEPT ![a] = {}]
  /\ groups' = [groups EXCEPT ![a] = {}]
  /\ UNCHANGED decisions

Next ==
  \E a \in Assessments :
    \/ Create(a) \/ Reopen(a) \/ Submit(a) \/ Delete(a)
    \/ \E s \in Sections : Save(a, s)
    \/ \E g \in Groups : MarkGroup(a, g)
    \/ \E verdict \in {"approved", "declined"}, u \in Validators :
         Decide(a, verdict, u)

Spec == Init /\ [][Next]_vars

=============================================================================
