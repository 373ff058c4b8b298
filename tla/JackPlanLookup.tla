--------------------------- MODULE JackPlanLookup ---------------------------
(***************************************************************************)
(* The lookups an agent's scheduler makes into its plan library, and the   *)
(* state they cache (src/jack_core/src/jack/agent.cpp):                    *)
(*   - getGoalPlans and its cache m_goalPlans;                             *)
(*   - the tactic of each goal, m_currentTactics, set by selectTactic and  *)
(*     the TACTIC handler (setTactic), and getGoalTacticPlans with its     *)
(*     cache m_goalTacticPlans;                                            *)
(*   - the services attached to the agent, m_attachedServices, changed by  *)
(*     attachService and detachService;                                    *)
(*   - handlesAction and handlesPlan, whose results are cached in          *)
(*     m_handlesPlanCache for one engine poll.                             *)
(* Plans, tactics, services and the actions they handle are engine data    *)
(* fixed before the agent runs, so they are constants.                     *)
(***************************************************************************)
EXTENDS Naturals, Sequences, SequencesExt

CONSTANTS
  Goals,          \* goal names
  Plans,          \* plan names
  PlanGoal,       \* PlanGoal[p]: the goal plan p achieves
  AgentPlans,     \* m_plans: the agent's plan names, in template order
  PlanActions,    \* PlanActions[p]: the actions of p's action tasks, in body order
  Tactics,        \* tactic names
  TacticGoal,     \* TacticGoal[t]: the goal tactic t is for
  TacticAllows,   \* TacticAllows[t]: the plans Tactic::planAllowed accepts
  Desires,        \* the agent's desires
  DesireGoal,     \* DesireGoal[d]: the goal desire d pursues
  Actions,        \* action names
  AgentActions,   \* the actions of m_actionHandlers
  Services,       \* service handles
  Template,       \* Template[s]: the service's m_templateName
  ServiceActions, \* ServiceActions[s]: the actions Service::handlesAction accepts
  ServiceList,    \* Engine::serviceList(), in order
  Forward,        \* settings.unhandledActionsForwardedToFirstApplicableService
  Searches,       \* the HandlesActionSearch masks the scheduler passes
  QueueBound,     \* bound on queued TACTIC events
  NoTactic, NoService, NoAction, Miss, NoCall

ASSUME
  /\ AgentPlans \in Seq(Plans)
  /\ Searches \subseteq SUBSET {"AGENT", "SERVICE"}
  /\ Forward \in BOOLEAN

VARIABLES
  goalPlans,       \* m_goalPlans: goal -> cached plan list, or Miss
  currentTactics,  \* m_currentTactics: goal -> tactic, or NoTactic
  goalTacticPlans, \* m_goalTacticPlans: goal -> cached plan list, or Miss
  planTactic,      \* desire -> m_planSelection.m_tactic
  tacticsChanged,  \* ScheduleDirty_TACTICS_CHANGED in m_scheduleDirty
  tacticQ,         \* queued TACTIC events
  attached,        \* m_attachedServices
  available,       \* service -> Service::isAvailable()
  planCache,       \* m_handlesPlanCache: plan -> result, or Miss
  cachedThisPoll,  \* m_handlesPlanCachedOnTick = m_engine.pollCount()
  changedThisPoll, \* history: attached or available changed since the poll began
  returned         \* history: the last handlesPlan call and the result it returned

vars == <<goalPlans, currentTactics, goalTacticPlans, planTactic, tacticsChanged,
          tacticQ, attached, available, planCache, cachedThisPoll, changedThisPoll,
          returned>>

-----------------------------------------------------------------------------
(* Plan lists                                                              *)

\* Step 2 of getGoalPlans: the agent's plans for goal g, in m_plans order.
GoalPlans(g) == SelectSeq(AgentPlans, LAMBDA p : PlanGoal[p] = g)

\* The plans of goal g that tactic t allows, in the same order.
TacticPlans(g, t) == SelectSeq(GoalPlans(g), LAMBDA p : p \in TacticAllows[t])

\* getGoalPlans: fill the cache on a miss; the list never changes after.
GetGoalPlans(g) ==
  /\ goalPlans[g] = Miss
  /\ goalPlans' = [goalPlans EXCEPT ![g] = GoalPlans(g)]
  /\ UNCHANGED <<currentTactics, goalTacticPlans, planTactic, tacticsChanged,
                 tacticQ, attached, available, planCache, cachedThisPoll, changedThisPoll, returned>>

\* The caches after getGoalTacticPlans(g): it calls getGoalPlans first, and
\* with a tactic set fills m_goalTacticPlans on a miss from the plan list.
\* Without a tactic it returns the goal's plans and caches nothing more.
TacticLookup(g, gp, gtp, cur) ==
  LET plans == IF gp[g] = Miss THEN GoalPlans(g) ELSE gp[g]
  IN  [goalPlans |-> [gp EXCEPT ![g] = plans],
       goalTacticPlans |->
         IF cur[g] = NoTactic \/ gtp[g] # Miss THEN gtp
         ELSE [gtp EXCEPT ![g] = SelectSeq(plans, LAMBDA p : p \in TacticAllows[cur[g]])]]

GetGoalTacticPlans(g) ==
  LET r == TacticLookup(g, goalPlans, goalTacticPlans, currentTactics)
  IN  /\ <<r.goalPlans, r.goalTacticPlans>> # <<goalPlans, goalTacticPlans>>
      /\ goalPlans' = r.goalPlans
      /\ goalTacticPlans' = r.goalTacticPlans
      /\ UNCHANGED <<currentTactics, planTactic, tacticsChanged, tacticQ,
                     attached, available, planCache, cachedThisPoll, changedThisPoll, returned>>

-----------------------------------------------------------------------------
(* Tactics                                                                 *)

\* selectTactic: the tactic exists, so a TACTIC event is routed to the agent.
SelectTactic(t) ==
  /\ Len(tacticQ) < QueueBound
  /\ tacticQ' = Append(tacticQ, t)
  /\ UNCHANGED <<goalPlans, currentTactics, goalTacticPlans, planTactic,
                 tacticsChanged, attached, available, planCache, cachedThisPoll, changedThisPoll, returned>>

\* Mutant: setTactic keeps the goal's cached tactic plan list.
SetTacticKeepCache(t, gtp) == gtp

\* setTactic: make t current for its goal, erase and recompute the goal's
\* tactic plan list, and reset the plan selection of the goal's desires.
SetTacticCache(t, gtp) == [gtp EXCEPT ![TacticGoal[t]] = Miss]

\* The TACTIC handler: setTactic succeeds (the tactic exists), so the
\* schedule is marked TACTICS_CHANGED.
DispatchTactic ==
  /\ tacticQ # <<>>
  /\ LET t   == Head(tacticQ)
         g   == TacticGoal[t]
         cur == [currentTactics EXCEPT ![g] = t]
         r   == TacticLookup(g, goalPlans, SetTacticCache(t, goalTacticPlans), cur)
     IN  /\ currentTactics' = cur
         /\ goalPlans' = r.goalPlans
         /\ goalTacticPlans' = r.goalTacticPlans
         /\ planTactic' = [d \in Desires |-> IF DesireGoal[d] = g THEN t ELSE planTactic[d]]
  /\ tacticsChanged' = TRUE
  /\ tacticQ' = Tail(tacticQ)
  /\ UNCHANGED <<attached, available, planCache, cachedThisPoll, changedThisPoll, returned>>

\* Agent::run hands the dirty flags to a new schedule and clears them.
Replan ==
  /\ tacticsChanged
  /\ tacticsChanged' = FALSE
  /\ UNCHANGED <<goalPlans, currentTactics, goalTacticPlans, planTactic, tacticQ,
                 attached, available, planCache, cachedThisPoll, changedThisPoll, returned>>

-----------------------------------------------------------------------------
(* Services                                                                *)

\* The attached services of s's template other than s.
Conflicts(s) == {h \in ToSet(attached) : Template[h] = Template[s] /\ h # s}

\* Mutant: a forced attach keeps the conflicting instance.
AttachKeptForce(s, force) == attached

\* The loop of attachService: with force, every other instance of s's
\* template is erased; nothing else is.
AttachKept(s, force) ==
  IF force THEN SelectSeq(attached, LAMBDA h : Template[h] # Template[s] \/ h = s)
  ELSE attached

\* attachService: s exists (no service is ever destroyed). The result is
\* false when s is already attached, or another instance of its template is
\* and force is not set; s is appended only on success.
AttachService(s, force) ==
  LET kept   == AttachKept(s, force)
      result == s \notin ToSet(attached) /\ (force \/ Conflicts(s) = {})
  IN  /\ attached' = IF result THEN Append(kept, s) ELSE kept
      /\ attached' # attached
      /\ changedThisPoll' = TRUE
      /\ UNCHANGED <<goalPlans, currentTactics, goalTacticPlans, planTactic,
                     tacticsChanged, tacticQ, available, planCache, cachedThisPoll, returned>>

\* detachService: erase the first entry equal to s.
DetachService(s) ==
  /\ s \in ToSet(attached)
  /\ attached' = RemoveFirst(attached, s)
  /\ changedThisPoll' = TRUE
  /\ UNCHANGED <<goalPlans, currentTactics, goalTacticPlans, planTactic,
                 tacticsChanged, tacticQ, available, planCache, cachedThisPoll, returned>>

\* A service is started or stopped (Service::start/stop), which changes
\* isAvailable().
ServiceControl(s) ==
  /\ available' = [available EXCEPT ![s] = ~@]
  /\ changedThisPoll' = TRUE
  /\ UNCHANGED <<goalPlans, currentTactics, goalTacticPlans, planTactic,
                 tacticsChanged, tacticQ, attached, planCache, cachedThisPoll, returned>>

-----------------------------------------------------------------------------
(* handlesAction and handlesPlan                                           *)

\* handlesAction: whether the agent has a handler for a, and the first
\* available service handling a, among all the engine's services when
\* forwarding is on and among the attached ones otherwise.
HandlesAction(a, search) ==
  LET pool  == IF Forward THEN ServiceList ELSE attached
      first == SelectInSeq(pool, LAMBDA s : available[s] /\ a \in ServiceActions[s])
  IN  [agent   |-> "AGENT" \in search /\ a \in AgentActions,
       service |-> IF "SERVICE" \in search /\ first # 0 THEN pool[first] ELSE NoService]

Handled(a, search) ==
  LET h == HandlesAction(a, search) IN h.agent \/ h.service # NoService

\* The loop of handlesPlan on a miss: success unless some action task has no
\* handler, and then the first such action.
PlanResult(p, search) ==
  LET k == SelectInSeq(PlanActions[p], LAMBDA a : ~Handled(a, search))
  IN  IF k = 0 THEN [success |-> TRUE, action |-> NoAction]
      ELSE [success |-> FALSE, action |-> PlanActions[p][k]]

\* Mutant: the cache is never cleared when the poll count moves on.
PlanCacheBaseNoClear(c, current) == c

\* The cache as handlesPlan sees it: cleared when filled in an earlier poll.
PlanCacheBase(c, current) == IF current THEN c ELSE [p \in Plans |-> Miss]

\* handlesPlan(p, search): look p up in the cache of this poll, computing and
\* storing the result on a miss.
HandlesPlan(p, search) ==
  LET c == PlanCacheBase(planCache, cachedThisPoll)
  IN  /\ planCache' = IF c[p] = Miss THEN [c EXCEPT ![p] = PlanResult(p, search)] ELSE c
      /\ cachedThisPoll' = TRUE
      /\ returned' = [plan |-> p, search |-> search, result |-> planCache'[p]]
      /\ UNCHANGED <<goalPlans, currentTactics, goalTacticPlans, planTactic,
                     tacticsChanged, tacticQ, attached, available, changedThisPoll>>

\* Engine::poll increments the poll count, so the cache is now of an
\* earlier poll.
Poll ==
  /\ cachedThisPoll' = FALSE
  /\ changedThisPoll' = FALSE
  /\ <<cachedThisPoll', changedThisPoll'>> # <<cachedThisPoll, changedThisPoll>>
  /\ UNCHANGED <<goalPlans, currentTactics, goalTacticPlans, planTactic,
                 tacticsChanged, tacticQ, attached, available, planCache, returned>>

-----------------------------------------------------------------------------
(* Specification                                                           *)

Init ==
  /\ goalPlans = [g \in Goals |-> Miss]
  /\ currentTactics = [g \in Goals |-> NoTactic]
  /\ goalTacticPlans = [g \in Goals |-> Miss]
  /\ planTactic = [d \in Desires |-> NoTactic]
  /\ tacticsChanged = FALSE
  /\ tacticQ = <<>>
  /\ attached = <<>>
  /\ available = [s \in Services |-> FALSE]
  /\ planCache = [p \in Plans |-> Miss]
  /\ cachedThisPoll = FALSE
  /\ changedThisPoll = FALSE
  /\ returned = NoCall

\* The API calls, the scheduler's lookups and the engine's poll come from
\* any thread in any order.
Next ==
  \/ \E g \in Goals : GetGoalPlans(g) \/ GetGoalTacticPlans(g)
  \/ \E t \in Tactics : SelectTactic(t)
  \/ DispatchTactic
  \/ Replan
  \/ \E s \in Services, force \in BOOLEAN : AttachService(s, force)
  \/ \E s \in Services : DetachService(s) \/ ServiceControl(s)
  \/ \E p \in Plans, search \in Searches : HandlesPlan(p, search)
  \/ Poll

Spec == Init /\ [][Next]_vars

-----------------------------------------------------------------------------
(* Properties                                                              *)

PlanList == Seq(Plans)
Result == [success : BOOLEAN, action : Actions \cup {NoAction}]

TypeOK ==
  /\ goalPlans \in [Goals -> PlanList \cup {Miss}]
  /\ currentTactics \in [Goals -> Tactics \cup {NoTactic}]
  /\ goalTacticPlans \in [Goals -> PlanList \cup {Miss}]
  /\ planTactic \in [Desires -> Tactics \cup {NoTactic}]
  /\ tacticsChanged \in BOOLEAN
  /\ tacticQ \in Seq(Tactics)
  /\ attached \in Seq(Services)
  /\ available \in [Services -> BOOLEAN]
  /\ planCache \in [Plans -> Result \cup {Miss}]
  /\ cachedThisPoll \in BOOLEAN
  /\ changedThisPoll \in BOOLEAN
  /\ returned \in [plan : Plans, search : Searches, result : Result] \cup {NoCall}

\* The plan caches agree with the plan library and the current tactics: a
\* cached goal plan list is the goal's plans, and a cached tactic plan list
\* is the goal's plans its current tactic allows, however many times
\* setTactic has switched the goal's tactic since the list was filled.
PlanListsCurrent ==
  \A g \in Goals :
    /\ goalPlans[g] \in {Miss, GoalPlans(g)}
    /\ goalTacticPlans[g] # Miss =>
         /\ currentTactics[g] # NoTactic
         /\ goalTacticPlans[g] = TacticPlans(g, currentTactics[g])

\* An agent has at most one service of each template attached (spec 6: one
\* service per template type per agent; a forced attach replaces), whatever
\* sequence of attachService and detachService calls was made.
OneServicePerTemplate ==
  \A i, j \in DOMAIN attached :
    i # j => Template[attached[i]] # Template[attached[j]]

\* A handlesPlan result is never carried over from an earlier poll: when no
\* service was attached, detached, started or stopped since the poll
\* began, the result handlesPlan returns is what the plan's action tasks
\* need from the agent and those services now.
HandlesPlanCurrent ==
  [][\A p \in Plans, search \in Searches :
       HandlesPlan(p, search) /\ ~changedThisPoll
         => returned'.result = PlanResult(p, search)]_vars

=============================================================================
