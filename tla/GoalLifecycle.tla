---------------------------- MODULE GoalLifecycle ----------------------------
(***************************************************************************)
(* What an agent promises the caller of Agent::pursue about the goal       *)
(* handle it returns (spec 4.2, 4.5, 5 and 9): the handle is PENDING until *)
(* the agent runs an intention for it (ACTIVE); a running goal is stopped  *)
(* through its intention (DROPPING) before its promise fires DROPPED; only *)
(* a running goal fires SUCCESS or FAIL; a persistent goal that concludes  *)
(* goes back to PENDING. The promise fires at most once. A pursue that is  *)
(* rejected, or whose desire adopts a later promise (merge), is ABANDONED: *)
(* its promise never fires (the documented hazard of spec 4.5 and 9).      *)
(*                                                                         *)
(* One engine step may move many handles at once (a schedule hand-over    *)
(* activates several goals, a stop drops them all), so a step is any       *)
(* change of the handle map in which every handle takes an allowed move.   *)
(***************************************************************************)
CONSTANTS Calls   \* the pursue calls, one handle each

VARIABLE handle   \* handle[k]: the state of call k's goal handle

Fired == {"SUCCESS", "FAIL", "DROPPED"}
States == {"UNUSED", "PENDING", "ACTIVE", "DROPPING", "ABANDONED"} \cup Fired

\* The moves one handle may take in a step.
Move ==
  { <<"UNUSED", "PENDING">>,      \* pursue: the event is queued
    <<"PENDING", "ACTIVE">>,      \* the goal is scheduled into an intention
    <<"PENDING", "DROPPING">>,    \* merged into a desire that is being dropped
    <<"PENDING", "DROPPED">>,     \* dropped before it ran
    <<"ACTIVE", "PENDING">>,      \* a persistent goal concluded and waits again
    <<"ACTIVE", "DROPPING">>,     \* drop or stop: the intention is told to stop
    <<"ACTIVE", "SUCCESS">>, <<"ACTIVE", "FAIL">>,
    <<"DROPPING", "DROPPED">>,
    <<"PENDING", "ABANDONED">>, <<"ACTIVE", "ABANDONED">>,
    <<"DROPPING", "ABANDONED">> }

Init == handle = [k \in Calls |-> "UNUSED"]

Step ==
  /\ handle' \in [Calls -> States]
  /\ handle' # handle
  /\ \A k \in Calls : handle'[k] = handle[k] \/ <<handle[k], handle'[k]>> \in Move

\* A handle being dropped settles: the executor finishes the dropped intention.
Settle(k) ==
  /\ handle[k] = "DROPPING"
  /\ Step
  /\ handle'[k] \in {"DROPPED", "ABANDONED"}

SafetySpec == Init /\ [][Step]_handle

Spec == SafetySpec /\ \A k \in Calls : WF_handle(Settle(k))

TypeOK == handle \in [Calls -> States]
====
