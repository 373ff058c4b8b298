--------------------------- MODULE MC_JackAgentMsgs ---------------------------
(***************************************************************************)
(* Model for JackAgent with parameter messages: goal P takes a message of  *)
(* schema "sP" and is dropped when the belief flag is set; goal X has no   *)
(* plan. Every message carries the same field values, so two messages are  *)
(* equal as values while being different shared_ptr instances.            *)
(***************************************************************************)
EXTENDS JackAgent

CONSTANTS P, X, m1, m2, mbad

MC_Goals == {P, X}
MC_PlanGoals == {P}
MC_SubGoal == [g \in MC_Goals |-> NoGoal]
MC_GoalSchema == [g \in MC_Goals |-> IF g = P THEN "sP" ELSE NoSchema]
MC_MsgSchema == [m \in Msgs |-> "sP"]
MC_MsgValue == [m \in Msgs |-> 0]
\* No plan body sleeps.
MC_SleepMs == [g \in MC_Goals |-> NoSleep]
=============================================================================
