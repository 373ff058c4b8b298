# TLA+ models of the JACK agent engine

These modules model the BDI agent of `src/jack_core/src/jack/agent.cpp`. That file holds all of the
engine's implementation that is in this repository. The engine, schedule, executor, service and goal
classes it calls are not under `src/`. Their behaviour is taken from `spec.md`, and every definition
that models them is marked `spec_modelled` in `PROJECT.json`.

## 1. Inventory of the system

| Part | State it keeps (agent.cpp) | Operations | Interacts with |
|---|---|---|---|
| Event dispatcher (`Agent::eventDispatch`, 568-1490) | `m_state`, `m_desires`, `m_scheduleDirty` | one handler per event: TIMER, CONTROL, MESSAGE, TACTIC, ACTIONCOMPLETE, ACTION, PERCEPT, PURSUE, DROP, SCHEDULE, AUCTION, DELEGATION, SHAREBELIEFSET, REGISTER | API calls post events; the run loop and executor read what it writes |
| Pursue / drop API (`pursue`, `pursueSub`, `drop`, `dropWithMode`, 1910-2042) | — (posts events) | user pursue, sub-goal pursue, drop | any thread through `m_guardAPI`; the executor's sub-goal tasks |
| Desire store (`getDesire`, `eraseDesire`, 262-294, 2044-2060) | `m_desires` | lookup, erase (sets `GOAL_REMOVED`) | dispatcher, activation |
| Run loop (`Agent::run`, 1698-1822) | `m_schedule`, `m_scheduleDirty`, `m_timerEvents` | step 1: delegations, auctions, actions, shared beliefs; step 2: replan decision; step 3: schedule search; step 4: timers; step 5: execute; STOPPING -> STOPPED | everything |
| Activation and planning (`activateGoals`, `generateSchedule`, `plan`, `processSchedule`, 520-566, 1531-1683) | desire validity, force-drop marks, the schedule | NORMAL drops of invalid or plan-less desires; building the goal set of a schedule; 64-iteration search slices | dispatcher via DROP events; executor via `setSchedule` |
| Intention executor (not in src) | intentions: goal, state, sub-goals | start, run plan tasks, pursue sub-goals, conclude, drop | desires (finish/erase), PURSUE events |
| Delegation and auctions (1179-1450, 2254-2333) | `m_currentAuctions`, `m_delegationEventBackLog` | AUCTION and DELEGATION handlers, auction completion | team members by DELEGATION events |
| Shared beliefs (1452-1490, 2146-2252) | `m_lastTimeBeliefSetsDirtied/Shared`, `m_prevLastUpdated` | rate-limited share to the team, team relay | team members by SHAREBELIEFSET events |
| Tactics (339-439, 725-732) | `m_goalPlans`, `m_currentTactics`, `m_goalTacticPlans` | `selectTactic`, TACTIC handler (`setTactic`), `getGoalPlans`, `getGoalTacticPlans` | planning; the desires' plan selection |
| Services (440-505, 1824-1908) | `m_attachedServices`, `m_handlesPlanCache` | attach, detach, `handlesAction`, `handlesPlan` | planning; ACTION events |
| Timers (46-51, 631-650, 1779-1810, 2105-2110) | `m_timerEvents`, a min-heap on end time | TIMER handler pushes, run step 4 pops every due timer and wakes its owner | the executor's sleep tasks; the engine's clock |

The hard behaviours are the following:
- Events from API threads interleave with the engine's tick.
- Schedule search can span several ticks, so it can be invalidated while in flight.
- A DROP must walk a tree of intentions and sub-goals. Sub-goal pursues travel through the event queue and can arrive after the drop.
- Persistent goals merge when pursued again.
- Auctions and belief sharing depend on clocks and counts.

## 2. Plan

The modules are listed in build order. The most important behaviour, the desire, intention and re-plan
life-cycle, is first.

1. **`JackAgent`** (built): the dispatcher's CONTROL, PERCEPT, PURSUE and DROP handlers, the API calls that post them, activation, planning and the replan decision of `run`, and the executor, abstracted to intention states with at most one pending sub-goal.
2. **`JackAuction`** (built): one team and its members. It covers the AUCTION and returned DELEGATION handlers, `processCurrentAuctions`, `CurrentAuction::finished`, the replan decision the auction waits on, a member's DELEGATION handler and `processCurrentDelegationEvents`.
3. **`JackBeliefShare`** (built): `processSharedBeliefs` for a member, a team and a second member, with the MESSAGE, PERCEPT and SHAREBELIEFSET handlers.
4. **Timers** (built, inside `JackAgent`, because a timer wakes an intention of that module's executor): the TIMER handler, the `CompareTimerEvent` heap order and run step 4, with a plan body's sleep task and the engine clock.
5. **`GoalLifecycle`** (built): an abstract spec of a goal handle. `JackAgent` is shown to implement it by `INSTANCE ... WITH` a refinement mapping (section 3).
6. **`JackPlanLookup`** (built): tactics and service attachment, with the plan lookups the scheduler makes and their caches (section 6). It is a module of its own because these lookups share no state with the desire life-cycle except the `TACTICS_CHANGED` flag.

## 3. Module `JackAgent`

**State.** The module's variables correspond to the code as follows:
- `state` is `Service::m_state`.
- `queue` is the agent's event queue, a sequence of PURSUE, DROP, CONTROL, PERCEPT and TIMER records. A DROP carries the goal handle's name and id, and its mode (NORMAL from `activateGoals`, FORCE from `Agent::drop`).
- `desires` is `m_desires`, a function from id to a record with these fields:
  - `goal`, `msg`, `persistent`
  - `parent`, the id of the parent desire
  - `promise`, an index into `promises`
  - `dropping`, the force-drop mark
- `dirty` is `m_scheduleDirty`, a set of flags.
- `schedule` is `m_schedule`, abstracted to the goal ids it plans and `left`, the number of `processSchedule` calls still needed.
- `intentions` is the executor's intentions: desire, state, pending sub-goal, and `timer`: `NotSlept`, the call id of the TIMER event it waits on, or `Woken`.
- `timers` is `m_timerEvents`. A TIMER record keeps its desire, the call that posted it and `left`, the milliseconds until its end (`internalClock + duration`), floored at -1: only its order and whether it is due are ever compared.
- `promises` holds PENDING, SUCCESS, FAIL or DROPPED for each call.
- `tick` alternates between dispatching the queue and running the rest of `run`.
- `calls` is the sequence of goal handles the API's pursues have returned (goal name and id). Call k owns promise k. `ApiDrop` drops one of these handles. There are at most `MaxCalls`.
- `controls` counts CONTROL calls, up to `MaxControls`.

**Actions.** The actions map to the code as follows:
- `ApiPursue`, `ApiDrop`, `ApiControl` and `EnvPercept` are the public calls.
- `Dispatch` takes the queue head. It is a CASE over `DispatchControl`, `DispatchPercept`, `DispatchPursue`, `DispatchDrop` and `DispatchTimer`, each of which models the whole handler, early returns included.
- `RunPlan` is `run` from `activateGoals` through the schedule hand-over and step 4, as one step, because the engine runs it on one thread. Step 4 is `Expired`: a recursive operator that takes the heap top (`TimerTop`, ordered by `CompareTimerEvent`) while it is due (`TimerDue`, `getNextEventTimePoint() <= internalClock`); `Wake` resolves the intentions those timers belong to.
- `ExecSleep(i)` is a plan body's sleep task (spec 4.5): it posts a TIMER event and the intention waits until woken.
- `Poll` is `Engine::poll` advancing the clock by 1 ms between ticks; it ages queued and heap timers alike.
- `RunFinish` is the STOPPING -> STOPPED check.
- `Execute(k)` is the executor working on intention `k`.

**Abstractions.**
- Goal preconditions and drop conditions are constant sets (`NeedsFlag`, `DropOnFlag`) over a single belief flag, which `EnvPercept` toggles.
- `IntentionExecutor::internalDrop` succeeds exactly when the desire has an intention, as spec 4.5 says. With this choice the sub-goal branch `eraseDesire(dropHandle)` at agent.cpp:1133 cannot be reached. It is listed as a hazard.
- Stopping the executor force-drops every intention.
- A plan body sleeps at most once, for `SleepMs[g]` ms, before its sub-goal and conclusion.

**Refinement to `GoalLifecycle`.**
- `GoalLifecycle` is the abstract spec. It says what the caller of `pursue` may expect of its handle (spec 4.2, 4.5 and 9):
  - A handle is `PENDING`, then `ACTIVE` while an intention runs it, then `DROPPING` while that intention stops.
  - Its promise fires `SUCCESS`, `FAIL` or `DROPPED` at most once.
  - `SUCCESS` and `FAIL` come only from `ACTIVE`. `DROPPED` comes only from `DROPPING`, or from `PENDING` for a goal that never ran.
  - A persistent goal that concludes goes back to `PENDING`.
  - A rejected pursue, or one whose desire later adopts another promise, is `ABANDONED`: its promise never fires.
- One step may move many handles, since a hand-over activates several goals and a stop drops them all. So a step is any change in which every handle takes an allowed move.
- `Settle(k)` is weakly fair: a dropping handle eventually settles.
- The mapping `HandleOf(k)` in `JackAgent` reads off, in order:
  - call k's promise, if it has fired;
  - whether a queued PURSUE event carries promise k (`PENDING`);
  - otherwise, whether some desire holds promise k (`ABANDONED` if none);
  - if one does, that desire's intention (`PENDING` without one, `ACTIVE` when live, `DROPPING` when dropping).
- `ImplementsGoalLifecycleSafety` (`GL!SafetySpec`, in `agent_liveness`) and `ImplementsGoalLifecycle` (`GL!Spec`, in `goal_lifecycle_settle`) are checked as `PROPERTY`s.

## 4. Module `JackAuction`

**Parts.** A team delegates one goal to its members. The pieces and their roles are:
- The team's schedule (not in `src/`, spec 4.3 and 4.6) reaches its bind step. It opens a `CurrentAuction` and sends an analyse DELEGATION to every candidate.
- Each member puts the request on its `m_delegationEventBackLog`. If the goal's id is already among its desires, the entry is marked and answered with score 0. Otherwise the member prices the goal in a sandbox schedule that takes a few `processSchedule` calls.
- Each member returns the delegation with its score.
- The team collates the bids into the auction. When the auction is finished, `processCurrentAuctions` raises an AUCTION event that applies them to the schedule.
- The finished schedule is handed to the executor, which sends the execute DELEGATION to the winner.

**State.**
- `sched` is `m_schedule`: its id and whether its auction node is open (`pending`), has a winner (`bound`) or had no finite bid (`nobids`).
- `lastSid` is `m_scheduleIdCounter`.
- `dirty` is `m_scheduleDirty` as a set of flags.
- `auctions` is `m_currentAuctions`. Each auction keeps its delegates' count, its bids and the time `left` until `expiryTimePoint`. Only that difference of the clock is kept.
- `intention` is the team executor's intention for the goal.
- `teamQ` and `memberQ` are the event queues.
- `backlog` is each member's back log, and `executing` says whether the goal is among a member's desires.
- `alive` says whether a member is still running.
- `answered` is a history variable of the analyse replies members have sent.

**Actions.**
- `TeamDispatch` is the AUCTION and returned DELEGATION handlers (1179-1308).
- `TeamRun` is `Agent::run` for the team: step 1 closes auctions, then the replan decision (1749-1777), then the bind step or the hand-over.
- `MemberDispatch` is a member's DELEGATION handler (1313-1450).
- `MemberRun` is `processCurrentDelegationEvents` (2260-2308).
- `MemberComplete` is the delegated goal's promise resolving.
- `MemberStop`, `TeamDirty` and `Tick` are the environment: a member leaving, the team's other goals, and the clock.

**Abstractions.**
- `Schedule::processAuction` is spec-modelled: the lowest finite bid wins.
- Routing of AUCTION events through a team-of-teams back log is not modelled.

**Fairness.** `WF` on the team's dispatch and run, each member's dispatch and run, and the clock. The engine ticks every running agent on every poll. Leaving and the team's other goals get none.

## 5. Module `JackBeliefShare`

**Parts.**
- A member A receives belief writes. A MESSAGE replaces A's beliefset object through `BeliefContext::addMessage` (686-723). A PERCEPT writes a field of the object in place (822-859). Both stamp `m_lastTimeBeliefSetsDirtied` in milliseconds.
- `processSharedBeliefs` (2146-2200) shares the `shared_ptr` object itself with the team. It shares when 500 ms separate the dirty and shared stamps, or when the executor is done and the difference is not 0.
- The team's SHAREBELIEFSET handler (1452-1490) stores the object and stamps `m_lastUpdated` with the microsecond clock.
- The team's relay (2202-2250) sends an entry whose `m_lastUpdated` differs from `m_prevLastUpdated` to every member except the owner. Here that member is B.

**State.**
- `obj` numbers message objects by the write that created them. `obj[o]` is the last write applied to object `o`. `cur` is A's object, `entry.obj` the team's and `bObj` B's. This models the aliasing: a PERCEPT on A's object is seen by the team and B through the shared pointer.
- `sinceDirty` and `sinceShare` are `clock - dirtied` and `dirtied - shared` in milliseconds, capped at `RateMs`. Above the cap every comparison decides alike.
- `phase` is the position inside the current millisecond.
- `entry.lastNow` and `entry.prevNow` say whether the team's stamps equal the current clock. `entry.updated` says whether `m_lastUpdated != m_prevLastUpdated`.
- `busy` is `!m_executor.done()`.

**Actions.**
- `Poll` is `Engine::poll`: the clock advances by one of `ClockSteps`.
- `TickA`, `TickT` and `TickB` each tick an agent once per poll, in any order. A tick dispatches the agent's queued events and then runs it.
- `EnvWrite` and `EnvBusy` are the environment.

**Fairness.** `WF` on `Poll` and the three ticks, since the engine polls forever. Writes and A's load get none. The liveness properties assume A eventually stays quiet (`<>[]Quiet => ...`).

## 6. Module `JackPlanLookup`

**Parts.** The lookups the scheduler makes into an agent's plan library, and the state they cache. Plans, tactics, services and the actions each handles are engine data fixed before the agent runs, so they are constants.

**State.**
- `goalPlans` is `m_goalPlans`, and `goalTacticPlans` is `m_goalTacticPlans`. Each maps a goal to a plan list, or `Miss`.
- `currentTactics` is `m_currentTactics`.
- `planTactic` is each desire's `m_planSelection.m_tactic`.
- `tacticsChanged` is the `TACTICS_CHANGED` dirty flag.
- `tacticQ` holds the queued TACTIC events.
- `attached` is `m_attachedServices`, a sequence, as in the code.
- `available` is each service's `isAvailable()`.
- `planCache` is `m_handlesPlanCache`, and `cachedThisPoll` says whether `m_handlesPlanCachedOnTick` equals the poll count.
- `changedThisPoll` and `returned` are history variables for `HandlesPlanCurrent`. The first says whether any service was attached, detached, started or stopped in this poll. The second holds the last `handlesPlan` call and its result, so that a cache hit, which changes no state of the code, is still seen.

**Actions.**
- `GetGoalPlans` and `GetGoalTacticPlans` are the scheduler's lookups (also made by the PURSUE handler and `activateGoals`).
- `SelectTactic` is `selectTactic`.
- `DispatchTactic` is the TACTIC handler with the whole of `setTactic`.
- `Replan` is `run` clearing the dirty flags when it plans a new schedule.
- `AttachService(s, force)` is `attachService`, including its loop that erases the conflicting instances when `force` is set.
- `DetachService` is `detachService`.
- `HandlesPlan(p, search)` is `handlesPlan`. It clears the cache on the first call of a poll, and otherwise returns the cached result or computes it with `handlesAction`.
- `ServiceControl` and `Poll` are the environment.

No fairness is assumed; the properties are safety properties.

## 7. Runs

| Run | Module / cfg | Expect | Checks | Shows |
|---|---|---|---|---|
| `agent_safety` | `MC_JackAgent` / `MC_JackAgent.cfg` | pass | `TypeOK`, `IntentionsHaveDesires` | A schedule searched over several ticks never hands the executor an intention for an erased desire. Only the `GOAL_REMOVED`, `MEMBER_REMOVED` and `FORCE` preemption of `run` (1749-1777) prevents that. |
| `agent_liveness` | `MC_JackAgentMsgs` / `MC_JackAgent_live.cfg` | pass | `DesiresEventuallyServed`, `ImplementsGoalLifecycleSafety` | Percepts dirty the schedule but do not preempt it, so a plannable desire of a running agent is eventually planned. Every step moves each goal handle only as the abstract life-cycle allows, through merges by id and persistent merges, rejections, drops and persistent conclusion (the agent is started once; stop is explored by the settle run): a promise never fires twice or before its intention stops. |
| `orphan_subgoal` | `MC_JackAgent` / `MC_JackAgent_orphan.cfg` | violation | `NoOrphanSubGoals` | Dropping a goal can leave its sub-goal desire alive. |
| `persistent_merge` | `MC_JackAgentMsgs` / `MC_JackAgent_merge.cfg` | violation | `PersistentPursueMerged` | Equal-parameter persistent pursues are not merged. |
| `goal_lifecycle_settle` | `MC_JackAgent` / `MC_JackAgent_settle.cfg` | pass | `ImplementsGoalLifecycle`, `StopEventuallyStops` | G's plan sleeps through the timer queue. Under the engine's fairness the agent implements the full abstract spec: a dropped or stopped goal's handle settles. A stopping agent reaches STOPPED although steps 2-4 are skipped while STOPPING (1720), because the CONTROL handler stops the executor's intentions (681), sleeping ones included. |
| `timer_order` | `MC_JackAgentTimers` / `MC_JackAgentTimers.cfg` | pass | `TimersFireWhenDue` | Two plan bodies sleep 0 and 1 ms, so timers with different ends share the heap, pushed in either order. After every timer step of a running agent no ended timer is left in it: the loop at 1783 looks only at the top, so this holds only because `CompareTimerEvent` keeps the earliest end on top and the test is `<=`. The reversed comparator is caught. |
| `stop_leaves_desires` | `MC_JackAgent` / `MC_JackAgent_stop.cfg` | violation | `StopClearsDesires` | An agent that stops while a desire has no intention reaches STOPPED with that desire still in `m_desires`. |
| `auction_liveness` | `JackAuction` / `JackAuction_live.cfg` | pass | `AuctionsClose`, `PendingResolved`, `DelegationAnswered`, `TypeOK`, `WinnerBidForThisSchedule` | Every auction closes, even if candidates leave. A schedule waiting on its auction is resolved or replaced. A running member answers every analyse delegation, including one for a goal it already executes. A bound winner always bid a finite score for the current schedule, even when schedules are replaced with auctions in flight. |
| `plan_lookup` | `MC_JackPlanLookup` / `MC_JackPlanLookup.cfg` | pass | `PlanListsCurrent`, `OneServicePerTemplate`, `HandlesPlanCurrent` | Under any interleaving of tactic switches, plan lookups, attach/detach (with and without force), service start/stop, `handlesPlan` calls and polls: the cached plan lists follow the current tactic, at most one service per template is attached, and `handlesPlan` never returns a result filled in an earlier poll. |
| `belief_share` | `JackBeliefShare` / `JackBeliefShare.cfg` | pass | `TypeOK`, `TeamEventuallyCurrent`, `MemberFollowsTeam` | When the clock advances at least 1 ms per poll, a quiet member's last change reaches the team and then the other member. |
| `share_lost_submillis` | `JackBeliefShare` / `JackBeliefShare_submillis.cfg` | violation | `TeamEventuallyCurrent` | With polls less than 1 ms apart, a final change is never flushed. |
| `relay_lost_same_time` | `JackBeliefShare` / `JackBeliefShare_sametime.cfg` | violation | `MemberFollowsTeam` | A share stamped at the same microsecond as the previous relay is never relayed. |

**Bounds.**
- `agent_safety` uses three goals. Goal G's plan pursues sub-goal S, S needs the belief flag, and X has no plan.
  - The user pursues only G.
  - `MaxCalls = 3` allows a pursue, a drop and a re-pursue with a reused id.
  - `MaxControls = 1`: the agent is started once. Stop and restart are explored by the settle run; with both, the run takes more than five minutes.
  - `QueueBound = 2`.
  - `SearchTicks = 3`, so a schedule's search survives at least one tick, which is the case the preemption exists for.
  - The run reaches about 2.5 million states.
- `goal_lifecycle_settle` and `stop_leaves_desires` use the `agent_safety` goals with `MaxCalls = 2`, enough for a goal and its sub-goal to be dropped or stopped, and `SearchTicks = 1`. G's plan sleeps 0 ms, so its timer is due at once. A 1 ms sleep takes the settle run past four minutes; the heap order is checked on its own instance instead. The settle run reaches about 0.3 million states. With 3 calls the liveness check does not finish within the time limit.
- The checking of the refinement on the `agent_safety` instance takes over seven minutes; its safety part is checked on the liveness instance instead.
- `timer_order` (`MC_JackAgentTimers`) uses goals A and B with no sub-goals, messages or flag. A sleeps 0 ms and B 1 ms, so the boundary `left = 0` occurs and two timers with different ends can be in the heap at once, in either push order. That is the smallest case where a heap top that has not ended hides one that has. `MaxCalls = 2` and `MaxControls = 1`. It reaches about 0.5 million states.
- The `JackAgent` liveness run uses goal P with a message schema, one well-formed and one malformed message, and a drop condition. `MaxControls = 1` (the agent is started once) keeps its temporal check, which also checks the refinement, within the time limit. It reaches about 0.3 million states.
- `JackAuction` uses two members, both candidates, and `MaxSchedules = 2`. That is enough for a schedule to be replaced while its auction is in flight and for a late reply to meet the next schedule's auction. Sandbox schedules take 1 or 2 ticks. `Window = 1` keeps the run, which checks safety and liveness together, under four minutes. Winners are still bound in it: the mutant of `WinnerBidForThisSchedule` is caught on this instance. Only the dirty flags `GOAL_ADDED` and `GOAL_REMOVED` occur. In the model `MEMBER_REMOVED` and `FORCE` act exactly as `GOAL_REMOVED`, both in the preemption and in the auction block (1203). One finite score plus `FAILED_COST` covers both the winner and the no-bid paths.
- `JackPlanLookup` uses one goal with plans p1 (actions a1, a2) and p2 (a2), tactics t1 and t2 that allow one plan each, and one desire. The agent handles a1. Services s1 and s2 share a template and handle a2; s3 is of another template and handles a1. `QueueBound = 2` lets two tactic switches queue. Two tactics are enough for a cached list to outlive a switch. Two same-template services are enough for a forced attach to replace one. One plan that needs a service is enough for a cached result to go stale. The run reaches about 0.1 million states.
- `JackBeliefShare` uses two clock units per millisecond, `RateMs = 2` and three writes. That is enough for a MESSAGE and a PERCEPT to interleave with shares.
  - In the passing run, polls advance the clock by 1 or 2 ms.
  - The violation runs use half-millisecond steps (`submillis`) and steps of 0 (`sametime`).

**Deadlock.** The `JackAgent` passing cfgs other than `timer_order` set `CHECK_DEADLOCK FALSE`, because a stopped agent with no further calls is quiescent. It really stops there (the engine's `exitWhenDone`). The `timer_order`, `JackAuction`, `JackBeliefShare` and `JackPlanLookup` runs check deadlock. In `timer_order` the agent is never stopped, and a running agent's tick is always enabled. In `JackPlanLookup`, a service can always be started or stopped. A team's run and the engine's poll are always enabled.

**Fairness (JackAgent).** The fairness conditions and their justification are:
- `WF` on `Dispatch`, `RunPlan` and `RunFinish`: the engine calls `run` on every tick and drains the queue.
- `SF` on each `Execute(k)`: the executor ticks every intention on every `run`, but an intention's step can be disabled and re-enabled by other steps.
- `SF` on `Poll`: the engine polls forever and its internal clock advances between ticks, but the poll is only enabled between a run and the next dispatch, so it is disabled infinitely often.

API calls and percepts get no fairness, since the environment may stay silent.

## 8. Findings

- **orphan_subgoal**. The DROP handler skips sub-goal desires without an intention (`if (!child) continue;`, agent.cpp:1102). The PURSUE handler attaches a late sub-goal to a parent intention that is already being dropped (997). Either way the sub-goal desire survives its parent's drop and is later planned on its own. Spec 4.5 and 8 say it is dropped.
- **persistent_merge**. Persistent merge compares parameter messages as `shared_ptr` (914), so equal parameters pursued twice make two desires. Spec 4.2 says they merge.
- **share_lost_submillis**. The idle flush tests `msSinceLastShare != 0` (2166), where `msSinceLastShare` is the difference of two millisecond stamps. Suppose a change is dispatched in the same millisecond as the last share, or at clock 0 when both stamps are 0. Once the agent is quiet, the difference stays 0 and the change never reaches the team. The comment at 2150-2158 and spec 4.7 say a quiet agent's final changes are flushed.
- **relay_lost_same_time**. The team detects an update by `m_lastUpdated != m_prevLastUpdated` (2208) on microsecond stamps. A share handled at the same clock value as the previous relay is never relayed. This happens with two polls and no clock advance between them. The spec does not say the clock must advance between polls.
- **stop_leaves_desires**. On ->STOPPING the CONTROL handler only calls `m_executor.stop()` (680-681), and `run` moves STOPPING to STOPPED once the executor is idle (1819-1820). A desire without an intention at that moment (pursued before start, still being searched, or a persistent desire between conclusion and replan) is never erased. It survives STOPPED and is planned again on the next start. Spec 8 and the AgentStartStop test (agents.cpp:149-159) say a stopped agent has no desires.

## 9. Not modelled

These parts are not modelled:
- The generated message metadata under `tests/meta`, which is serialisation only.
- The gtest scenarios.
- Logging and the bus.
- The A* search's cost and tie-break details (the schedule is not in `src/`).
- Agent construction and read-only queries.
- Routing of AUCTION events through a team-of-teams delegation back log.
- Role checks in belief sharing: A may write and B may read the shared beliefset.

- The destructor's flush of the timer heap (197-201), part of agent construction. Timers are not flushed on stop (the TODO at 1799); this is listed as a hazard without a property, because what firing a timer of a dropped intention does happens in code outside `src/`.
- Heap order between timers of different ends (see Bounds).
- The ACTION and ACTIONCOMPLETE handlers (734-820). In `src/` they only choose between the agent's own handler and routing to the engine, and pass completions to the executor. Resource locking, action completion, the engine's routing to a service and the executor's task completion are all outside `src/`, so a model would restate the spec, not this code. Which actions the agent or its services can handle is modelled by `handlesAction` in `JackPlanLookup`.
- The REGISTER handler and `currentTactic`'s builtin fallback (read-only).
- The data race between `attachService`/`detachService` on an API thread and `handlesAction` iterating the same vector on the engine thread. Each call is one atomic step in the model. The race's outcomes are undefined behaviour of `std::vector`, so they are listed as a hazard and not enumerated.
- `handlesPlan` called with different search masks in one poll. Its callers are in the schedule, outside `src/`, so `plan_lookup` uses the ALL mask only. Its cache is keyed by plan alone. With both the AGENT and the ALL mask in `MC_Searches`, TLC finds `HandlesPlanCurrent` violated in 7 states: a result computed for AGENT is returned for ALL. This is listed as a hazard.

`PROJECT.json` lists the hazards, with the properties that cover them or the reason none does.
