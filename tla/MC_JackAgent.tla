----------------------------- MODULE MC_JackAgent -----------------------------
(***************************************************************************)
(* Model for JackAgent: goal G whose plan pursues sub-goal S, goal X the   *)
(* agent has no plan for (rejected at activation), S's precondition reads  *)
(* the belief flag. Goals take no parameter message.                       *)
(***************************************************************************)
EXTENDS JackAgent

CONSTANTS G, S, X

MC_Goals == {G, S, X}
MC_PlanGoals == {G, S}
MC_SubGoal == [g \in MC_Goals |-> IF g = G THEN S ELSE NoGoal]
MC_GoalSchema == [g \in MC_Goals |-> NoSchema]
MC_MsgSchema == [m \in {} |-> NoSchema]
MC_MsgValue == [m \in {} |-> 0]
MC_NeedsFlag == {S}
\* No plan body sleeps.
MC_SleepMs == [g \in MC_Goals |-> NoSleep]
\* G's plan body sleeps 0 ms before it pursues S: the timer is due at once and
\* wakes the intention at the next timer step of the run loop.
MC_SleepMsG == [g \in MC_Goals |-> IF g = G THEN 0 ELSE NoSleep]
=============================================================================
