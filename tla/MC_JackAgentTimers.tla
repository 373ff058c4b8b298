-------------------------- MODULE MC_JackAgentTimers --------------------------
(***************************************************************************)
(* Model for the timer heap of JackAgent: goals A and B, both planned, no  *)
(* sub-goals, no messages, no belief flag. Their plan bodies sleep for     *)
(* different lengths, so two timers with different end times can be in     *)
(* m_timerEvents at once, pushed in either order.                          *)
(***************************************************************************)
EXTENDS JackAgent

CONSTANTS A, B

MC_Goals == {A, B}
MC_SubGoal == [g \in MC_Goals |-> NoGoal]
MC_GoalSchema == [g \in MC_Goals |-> NoSchema]
MC_MsgSchema == [m \in {} |-> NoSchema]
MC_MsgValue == [m \in {} |-> 0]
\* A sleeps 0 ms (due at the next timer step), B sleeps 1 ms.
MC_SleepMsAB == [g \in MC_Goals |-> IF g = A THEN 0 ELSE 1]
=============================================================================
