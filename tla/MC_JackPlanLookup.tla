-------------------------- MODULE MC_JackPlanLookup --------------------------
(***************************************************************************)
(* One goal with two plans and two tactics that allow one plan each; two   *)
(* services of one template and one of another; an action the agent       *)
(* handles and one only services handle.                                   *)
(***************************************************************************)
EXTENDS JackPlanLookup

CONSTANTS g, p1, p2, t1, t2, d1, a1, a2, s1, s2, s3

MC_PlanGoal == [p \in {p1, p2} |-> g]
MC_AgentPlans == <<p1, p2>>
\* p1 acts with a1 then a2; p2 with a2 only.
MC_PlanActions == [p \in {p1, p2} |-> IF p = p1 THEN <<a1, a2>> ELSE <<a2>>]
MC_TacticGoal == [t \in {t1, t2} |-> g]
MC_TacticAllows == [t \in {t1, t2} |-> IF t = t1 THEN {p1} ELSE {p2}]
MC_DesireGoal == [d \in {d1} |-> g]
\* s1 and s2 are two instances of one template; s3 is of another.
MC_Template == [s \in {s1, s2, s3} |-> IF s = s3 THEN "Other" ELSE "Shared"]
MC_ServiceActions == [s \in {s1, s2, s3} |-> IF s = s3 THEN {a1} ELSE {a2}]
MC_ServiceList == <<s1, s2, s3>>
\* The scheduler asks with HandlesActionSearch_ALL.
MC_Searches == {{"AGENT", "SERVICE"}}
=============================================================================
