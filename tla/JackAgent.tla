------------------------------- MODULE JackAgent -------------------------------
(***************************************************************************)
(* One JACK agent (src/jack_core/src/jack/agent.cpp): the event dispatcher *)
(* (Agent::eventDispatch) for CONTROL, PERCEPT, PURSUE and DROP events,    *)
(* the desire list m_desires, the re-planning decision of Agent::run with  *)
(* its ScheduleDirty bitset, goal activation (activateGoals) and the       *)
(* hand-over of a finished schedule to the intention executor.             *)
(*                                                                         *)
(* The A* search (Schedule) and the intention executor are not in src/:    *)
(* they are modelled from spec.md sections 4.3 and 4.5 (marked as such).   *)
(* The search is a number of processSchedule calls still needed before the *)
(* schedule is finished; an intention runs its plan, which may pursue one  *)
(* sub-goal, and concludes or is dropped.                                  *)
(*                                                                         *)
(* Other threads (the user API) only append events to the agent's queue;   *)
(* the engine alternates between dispatching queued events and ticking the *)
(* agent (Agent::run), which plans and then runs the executor.             *)
(***************************************************************************)
EXTENDS Naturals, Sequences, FiniteSets, SequencesExt

CONSTANTS
  Goals,        \* goal templates registered with the engine
  ApiGoals,     \* goals the user pursues through the API
  PlanGoals,    \* goals for which this agent has at least one plan
  SubGoal,      \* SubGoal[g]: the sub-goal the plan body of g pursues, or NoGoal
  NoGoal,
  GoalSchema,   \* GoalSchema[g]: schema of g's parameter message, or NoSchema
  NoSchema,
  Msgs,         \* parameter messages (distinct shared_ptr instances)
  NoMsg,
  MsgSchema,    \* MsgSchema[m]: schema name of message m
  MsgValue,     \* MsgValue[m]: field values of message m
  WellFormed,   \* messages that pass MessageSchema::verifyMessage
  DropOnFlag,   \* goals whose drop predicate holds when the belief flag is set
  NeedsFlag,    \* goals whose precondition requires the belief flag
  MaxCalls,     \* bound on pursue calls (user and sub-goal)
  MaxControls,  \* bound on start/stop requests
  QueueBound,   \* bound on the length of the event queue
  SearchTicks,  \* most processSchedule calls one schedule can need
  SleepMs,      \* SleepMs[g]: ms the plan body of g sleeps before the rest, or NoSleep
  NoSleep

ASSUME /\ PlanGoals \subseteq Goals /\ ApiGoals \subseteq Goals
       /\ SubGoal \in [Goals -> Goals \cup {NoGoal}]
       /\ MsgSchema \in [Msgs -> {GoalSchema[g] : g \in Goals} \ {NoSchema}]
       /\ WellFormed \subseteq Msgs
       /\ MaxCalls \in Nat \ {0} /\ QueueBound \in Nat \ {0}
       /\ SearchTicks \in Nat \ {0}
       /\ \A g \in Goals : SleepMs[g] = NoSleep \/ SleepMs[g] \in Nat

VARIABLES
  state,       \* Service state: STOPPED, RUNNING, STOPPING
  queue,       \* the agent's inbound event FIFO
  desires,     \* m_desires, in insertion order
  intentions,  \* the executor's intentions, one per desire id
  dirty,       \* m_scheduleDirty as a set of flags
  schedule,    \* m_schedule: NoSchedule or the schedule being planned
  flag,        \* the belief the goals' predicates read
  promise,     \* promise[k]: state of the promise of pursue call k
  calls,       \* the handles (goal, id) pursue calls returned; call k has promise k
  controls,    \* start/stop requests made so far
  tick,        \* "dispatch" between ticks, "execute" inside run()
  timers       \* m_timerEvents: the TIMER events pushed and not yet fired

vars == <<state, queue, desires, intentions, dirty, schedule, flag, promise,
          calls, controls, tick, timers>>

Ids == 1..MaxCalls
NoId == 0
\* A stored schedule always needs more processSchedule calls (left > 0): a
\* finished one is handed to the executor in the tick it finishes.
NoSchedule == [left |-> 0, goals |-> {}]

Flags == {"AGENT_STARTED", "MESSAGE", "PERCEPT", "GOAL_ADDED", "GOAL_REMOVED",
          "MEMBER_REMOVED", "TACTICS_CHANGED", "FORCE"}
\* Mutant: a removed goal no longer preempts an unfinished schedule.
PreemptWithoutGoalRemoved == {"MEMBER_REMOVED", "FORCE"}
\* Mutant: percepts and messages also preempt an unfinished schedule.
PreemptOnBeliefs == {"GOAL_REMOVED", "MEMBER_REMOVED", "FORCE", "PERCEPT", "MESSAGE"}
\* Dirty flags that allow an unfinished schedule to be replaced (Agent::run).
Preempt == {"GOAL_REMOVED", "MEMBER_REMOVED", "FORCE"}

Live == {"WAITING", "EXECUTING"}
Dropping == {"DROPPING", "FORCE_DROPPING"}
DropState(mode) == IF mode = "FORCE" THEN "FORCE_DROPPING" ELSE "DROPPING"

PursueEvent(g, m, p, id, parent, k) ==
  [type |-> "PURSUE", goal |-> g, msg |-> m, persistent |-> p, id |-> id,
   parent |-> parent, promise |-> k]
DropEvent(id, g, mode) == [type |-> "DROP", id |-> id, goal |-> g, mode |-> mode]

\* The TimerEvent of a plan's sleep task. Its end (internalClock + duration)
\* is kept as the ms left until it; -1 stands for any end already passed.
\* desire and call name the sleeping intention (the event carries its id).
TimerEvent(d, c, ms) == [type |-> "TIMER", desire |-> d, call |-> c, left |-> ms]
NotSlept == 0
Woken == -1

-----------------------------------------------------------------------------
(* Lookups.                                                                *)

DesireIds == {desires[k].id : k \in DOMAIN desires}
Desire(id) == desires[SelectInSeq(desires, LAMBDA d : d.id = id)]
HasIntention(id) == \E i \in intentions : i.desire = id
Intention(id) == CHOOSE i \in intentions : i.desire = id

\* Agent::eraseDesire: remove the desire with this id, dirty GOAL_REMOVED.
EraseDesire(id) ==
  /\ desires' = SelectSeq(desires, LAMBDA d : d.id # id)
  /\ dirty' = IF id \in DesireIds THEN dirty \cup {"GOAL_REMOVED"} ELSE dirty

-----------------------------------------------------------------------------
(* API calls made from any thread: they only append to the event queue.   *)

\* Agent::pursueSub (through Agent::pursue): a PursueEvent whose id is a fresh
\* id or the id the caller supplies; the returned promise is call k's.
Pursue(g, m, p, id, parent) ==
  LET k == Len(calls) + 1 IN
  /\ Len(calls) < MaxCalls
  /\ Len(queue) < QueueBound
  /\ queue' = Append(queue, PursueEvent(g, m, p, id, parent, k))
  /\ promise' = [promise EXCEPT ![k] = "PENDING"]
  /\ calls' = Append(calls, [goal |-> g, id |-> id])

ApiPursue ==
  \E g \in ApiGoals, m \in Msgs \cup {NoMsg}, p \in BOOLEAN,
    id \in {Len(calls) + 1} \cup {e \in Ids : e <= Len(calls)} :
      /\ Pursue(g, m, p, id, NoId)
      /\ UNCHANGED <<state, desires, intentions, dirty, schedule, flag,
                     controls, tick, timers>>

\* Agent::drop -> Agent::dropWithMode(handle, DropMode_FORCE): a DROP event.
ApiDrop ==
  \E k \in 1..Len(calls) :
    /\ Len(queue) < QueueBound
    /\ queue' = Append(queue, DropEvent(calls[k].id, calls[k].goal, "FORCE"))
    /\ UNCHANGED <<state, desires, intentions, dirty, schedule, flag, promise,
                   calls, controls, tick, timers>>

\* Agent::start / Agent::stop: a CONTROL event.
ApiControl ==
  \E to \in {"RUNNING", "STOPPED"} :
    /\ controls < MaxControls
    /\ Len(queue) < QueueBound
    /\ queue' = Append(queue, [type |-> "CONTROL", to |-> to])
    /\ controls' = controls + 1
    /\ UNCHANGED <<state, desires, intentions, dirty, schedule, flag, promise,
                   calls, tick, timers>>

\* A percept from the environment setting the belief the predicates read.
EnvPercept ==
  \E v \in BOOLEAN :
    /\ Len(queue) < QueueBound
    /\ queue' = Append(queue, [type |-> "PERCEPT", val |-> v])
    /\ UNCHANGED <<state, desires, intentions, dirty, schedule, flag, promise,
                   calls, controls, tick, timers>>
-----------------------------------------------------------------------------
(* Agent::eventDispatch, one handler per event type.                       *)

\* A promise fires at most once; later finish() calls leave it as it is.
Resolve(k, r) == [promise EXCEPT ![k] = IF @ = "PENDING" THEN r ELSE @]

\* Service::eventDispatch moves the service state machine (spec 6: start,
\* stop); Agent then reacts to the transition.
ServiceNext(s, to) ==
  CASE to = "RUNNING" /\ s = "STOPPED" -> "RUNNING"
    [] to = "STOPPED" /\ s = "RUNNING" -> "STOPPING"
    [] OTHER                           -> s

\* Mutant: the CONTROL handler does not stop the executor on ->STOPPING.
DispatchControlKeepIntentions(ev) ==
  LET next == ServiceNext(state, ev.to) IN
  /\ state' = next
  /\ dirty' = IF next # state /\ next = "RUNNING"
                THEN dirty \cup {"AGENT_STARTED"} ELSE dirty
  /\ UNCHANGED <<desires, intentions, schedule, flag, promise, timers>>

\* CONTROL: on ->RUNNING dirty AGENT_STARTED; on ->STOPPING stop the executor,
\* which force-drops every intention (spec 4.5, 8).
DispatchControl(ev) ==
  LET next == ServiceNext(state, ev.to) IN
  /\ state' = next
  /\ dirty' = IF next # state /\ next = "RUNNING"
                THEN dirty \cup {"AGENT_STARTED"} ELSE dirty
  /\ intentions' = IF next # state /\ next = "STOPPING"
                     THEN {[i EXCEPT !.state = "FORCE_DROPPING"] : i \in intentions}
                     ELSE intentions
  /\ UNCHANGED <<desires, schedule, flag, promise, timers>>

\* PERCEPT: apply the value to the belief, dirty PERCEPT.
DispatchPercept(ev) ==
  /\ flag' = ev.val
  /\ dirty' = dirty \cup {"PERCEPT"}
  /\ UNCHANGED <<state, desires, intentions, schedule, promise, timers>>

\* PURSUE step 4: the parameter message does not fit the goal's schema.
Rejected(ev) ==
  \/ GoalSchema[ev.goal] # NoSchema /\ ev.msg = NoMsg
  \/ GoalSchema[ev.goal] = NoSchema /\ ev.msg # NoMsg
  \/ ev.msg # NoMsg /\ MsgSchema[ev.msg] # GoalSchema[ev.goal]
  \/ ev.msg # NoMsg /\ ev.msg \notin WellFormed

\* PURSUE step 2: first desire of the same goal whose goal context is empty or
\* is the very same message (std::shared_ptr comparison).
PersistentMatch(ev) ==
  SelectInSeq(desires, LAMBDA d : d.goal = ev.goal /\ (d.msg = NoMsg \/ d.msg = ev.msg))

\* PURSUE: merge by id, merge a persistent duplicate, reject, or create.
DispatchPursue(ev) ==
  LET byId == SelectInSeq(desires, LAMBDA d : d.id = ev.id)
      same == PersistentMatch(ev)
      hasParent == HasIntention(ev.parent)
      new == [id |-> ev.id, goal |-> ev.goal, msg |-> ev.msg,
              persistent |-> ev.persistent, delegated |-> ev.goal \notin PlanGoals,
              promise |-> ev.promise, parent |-> IF hasParent THEN ev.parent ELSE NoId]
  IN
  /\ \/ /\ byId # 0
        /\ desires' = [desires EXCEPT ![byId].promise = ev.promise,
                                      ![byId].msg = ev.msg]
        /\ UNCHANGED <<intentions, dirty>>
     \/ /\ byId = 0 /\ ev.persistent /\ same # 0
        /\ desires' = [desires EXCEPT ![same].promise = ev.promise]
        /\ UNCHANGED <<intentions, dirty>>
     \/ /\ byId = 0 /\ ~(ev.persistent /\ same # 0) /\ Rejected(ev)
        /\ UNCHANGED <<desires, intentions, dirty>>
     \/ /\ byId = 0 /\ ~(ev.persistent /\ same # 0) /\ ~Rejected(ev)
        /\ desires' = Append(desires, new)
        /\ intentions' =
             IF hasParent
               THEN {IF i.desire = ev.parent THEN [i EXCEPT !.subs = @ \cup {ev.id}] ELSE i :
                       i \in intentions}
               ELSE intentions
        /\ dirty' = dirty \cup {"GOAL_ADDED"}
  /\ UNCHANGED <<state, schedule, flag, promise, timers>>

\* Intentions of the sub-goal desires an intention recorded.
ChildIntentions(k) == {c \in Intention(k).subs : HasIntention(c)}

\* The DROP handler's stack walk: every intention reachable from the set.
RECURSIVE Descendants(_, _)
Descendants(front, seen) ==
  IF front = {} THEN seen
  ELSE LET nxt == UNION {ChildIntentions(k) : k \in front} \ seen
       IN Descendants(nxt, seen \cup nxt)

\* Mutant: the dropped goal's promise fires DROPPED at once, before its
\* intention has stopped.
DispatchDropFinishFirst(ev) ==
  LET top == IF HasIntention(ev.id) THEN {ev.id} ELSE {}
      subs == {c \in Descendants(top, top) \ top : c \in DesireIds}
      goalLive == ev.id \in DesireIds
      dropped == subs \cup (IF goalLive THEN top ELSE {})
  IN
  /\ intentions' = {IF i.desire \in dropped THEN [i EXCEPT !.state = DropState(ev.mode)] ELSE i :
                      i \in intentions}
  /\ IF goalLive
       THEN /\ promise' = Resolve(Desire(ev.id).promise, "DROPPED")
            /\ EraseDesire(ev.id)
       ELSE UNCHANGED <<promise, desires, dirty>>
  /\ UNCHANGED <<state, schedule, flag, timers>>

\* DROP: walk the sub-goal intentions of the dropped goal's intention and
\* drop each through the executor (internalDrop succeeds when the desire has
\* an intention, spec 4.5); sub-goal desires with no intention are skipped.
\* Then drop the goal itself: through the executor when it has an intention,
\* otherwise finish it DROPPED and erase it.
DispatchDrop(ev) ==
  LET top == IF HasIntention(ev.id) THEN {ev.id} ELSE {}
      subs == {c \in Descendants(top, top) \ top : c \in DesireIds}
      goalLive == ev.id \in DesireIds
      dropped == subs \cup (IF goalLive THEN top ELSE {})
  IN
  /\ intentions' = {IF i.desire \in dropped THEN [i EXCEPT !.state = DropState(ev.mode)] ELSE i :
                      i \in intentions}
  /\ IF goalLive /\ top = {}
       THEN /\ promise' = Resolve(Desire(ev.id).promise, "DROPPED")
            /\ EraseDesire(ev.id)
       ELSE UNCHANGED <<promise, desires, dirty>>
  /\ UNCHANGED <<state, schedule, flag, timers>>

\* TIMER: push the event onto m_timerEvents; it lives until it fires.
DispatchTimer(ev) ==
  /\ timers' = timers \cup {ev}
  /\ UNCHANGED <<state, desires, intentions, dirty, schedule, flag, promise>>

Dispatch ==
  /\ tick = "dispatch"
  /\ queue # <<>>
  /\ queue' = Tail(queue)
  /\ LET ev == Head(queue) IN
       CASE ev.type = "CONTROL" -> DispatchControl(ev)
         [] ev.type = "PERCEPT" -> DispatchPercept(ev)
         [] ev.type = "PURSUE"  -> DispatchPursue(ev)
         [] ev.type = "DROP"    -> DispatchDrop(ev)
         [] ev.type = "TIMER"   -> DispatchTimer(ev)
  /\ UNCHANGED <<calls, controls, tick>>
-----------------------------------------------------------------------------
(* Agent::run, the tick: plan (steps 1-3), then the executor, then the     *)
(* STOPPING -> STOPPED check.                                              *)

\* Goal::isValid and Goal::shouldDrop, reading the belief flag.
IsValid(d) == d.goal \notin NeedsFlag \/ flag
ShouldDrop(d) == d.goal \in DropOnFlag /\ flag

\* activateGoals: desires to drop (drop predicate, invalid non-persistent
\* non-delegated goal, or no plans and, for an agent, no delegates).
ToDrop(d) ==
  \/ ShouldDrop(d)
  \/ ~(d.persistent \/ d.delegated) /\ ~IsValid(d)
  \/ d.goal \notin PlanGoals

ForceDropped(d) == \E i \in intentions : i.desire = d.id /\ i.state = "FORCE_DROPPING"

\* activateGoals: the desires handed to the planner.
ActiveGoals ==
  {[id |-> d.id, goal |-> d.goal] :
     d \in {d \in Range(desires) : ~ToDrop(d) /\ ~ForceDropped(d)}}

\* activateGoals: dropWithMode(DropMode_NORMAL) routes a DROP event to the
\* agent itself for every desire it rejects, in desire order.
ActivationDrops ==
  LET s == SelectSeq(desires, ToDrop) IN
  [k \in 1..Len(s) |-> DropEvent(s[k].id, s[k].goal, "NORMAL")]

\* Schedule (spec 4.3): goals whose precondition holds get a plan; the search
\* needs w processSchedule calls. generateSchedule makes the first call when
\* there are goals to plan.
GenerateSchedule(active, w) ==
  [goals |-> {a \in active : IsValid(Desire(a.id))},
   left  |-> IF active = {} THEN 0 ELSE w - 1]

\* Mutant: the schedule is advanced past finished.
ProcessScheduleUnclamped(s) == [s EXCEPT !.left = @ - 1]

\* processSchedule: up to MAX_ITERATIONS of expand/cost/deconflict/bind.
ProcessSchedule(s) == [s EXCEPT !.left = IF @ > 0 THEN @ - 1 ELSE 0]

\* AgentExecutor::setSchedule (spec 4.5): an intention for every scheduled
\* goal that does not have one yet. The schedule names its goals as they
\* were when it was planned.
SetSchedule(s) ==
  intentions \cup
    {[desire |-> a.id, goal |-> a.goal, state |-> "WAITING", subs |-> {}, sub |-> 0,
     timer |-> NotSlept] :
       a \in {a \in s.goals : ~HasIntention(a.id)}}

\* Mutant: the comparator written the other way round, a max-heap on end time.
CompareTimerEventReversed(a, b) == a.left < b.left

\* CompareTimerEvent: a ranks below b when it ends later; the top of the
\* std::priority_queue is a timer no other ranks above.
CompareTimerEvent(a, b) == a.left > b.left

TimerTop(H) == CHOOSE t \in H : \A u \in H : ~CompareTimerEvent(t, u)

\* getNextEventTimePoint() <= internalClock.
TimerDue(t) == t.left <= 0

\* Run step 4: pop the top of the heap while it has ended.
RECURSIVE Expired(_)
Expired(H) ==
  IF H # {} /\ TimerDue(TimerTop(H))
    THEN {TimerTop(H)} \cup Expired(H \ {TimerTop(H)})
    ELSE {}

\* TimerEvent::success() completes the sleep task of the intention that set
\* the timer (spec 4.5); a timer whose intention is gone wakes nothing.
Wake(I, fired) ==
  {IF \E t \in fired : t.desire = i.desire /\ t.call = i.timer
     THEN [i EXCEPT !.timer = Woken] ELSE i : i \in I}

\* Agent::run steps 2 and 3: re-plan when the schedule is dirty or there is
\* nothing to do; an unfinished schedule is only replaced for the Preempt
\* flags. Then advance the schedule and hand it over when it is finished.
\* Step 4 fires the expired timers (it sets m_state to RUNNING, which it
\* already is). A stopping agent skips all of it.
RunPlan ==
  /\ tick = "dispatch"
  /\ state \in {"RUNNING", "STOPPING"}
  /\ Len(queue) <= QueueBound
  /\ tick' = "execute"
  /\ IF state = "STOPPING"
       THEN UNCHANGED <<queue, desires, intentions, dirty, schedule, timers>>
       ELSE
         LET planning == schedule.left > 0
             replan == /\ dirty # {} \/ (~planning /\ intentions = {})
                       /\ ~planning \/ dirty \cap Preempt # {}
         IN \E w \in 1..SearchTicks :
              LET s1 == IF replan THEN GenerateSchedule(ActiveGoals, w) ELSE schedule
                  s2 == ProcessSchedule(s1)
                  handOver == (replan \/ planning) /\ s2.left = 0
                  fired == Expired(timers)
              IN
              /\ queue' = IF replan THEN queue \o ActivationDrops ELSE queue
              /\ dirty' = IF replan THEN {} ELSE dirty
              /\ schedule' = CASE handOver          -> NoSchedule
                                [] replan \/ planning -> s2
                                [] OTHER             -> schedule
              /\ intentions' = Wake(IF handOver THEN SetSchedule(s2) ELSE intentions, fired)
              /\ timers' = timers \ fired
              /\ ~replan => w = 1
  /\ UNCHANGED <<state, desires, flag, promise, calls, controls>>

\* Agent::run end: a stopping agent whose executor is idle becomes STOPPED.
RunFinish ==
  /\ tick = "execute"
  /\ tick' = "dispatch"
  /\ state' = IF state = "STOPPING" /\ intentions = {} THEN "STOPPED" ELSE state
  /\ UNCHANGED <<queue, desires, intentions, dirty, schedule, flag, promise, timers,
                 calls, controls>>
-----------------------------------------------------------------------------
(* The intention executor (spec 4.5; not in src/). Inside a tick each      *)
(* intention advances: WAITING -> EXECUTING, the plan body pursues its     *)
(* sub-goal through Agent::pursueSub and waits for that goal's promise,    *)
(* then concludes; a dropping intention finishes its desire DROPPED.       *)

ExecStart(i) ==
  /\ i.state = "WAITING"
  /\ intentions' = (intentions \ {i}) \cup {[i EXCEPT !.state = "EXECUTING"]}
  /\ UNCHANGED <<queue, desires, dirty, promise, calls>>

\* The plan body's sleep task posts a TimerEvent for its duration to the
\* agent and waits for it to fire.
ExecSleep(i) ==
  /\ i.state = "EXECUTING"
  /\ SleepMs[i.goal] # NoSleep
  /\ i.timer = NotSlept
  /\ i.desire \in DesireIds
  /\ Len(queue) < QueueBound
  /\ LET c == Desire(i.desire).promise IN
       /\ queue' = Append(queue, TimerEvent(i.desire, c, SleepMs[i.goal]))
       /\ intentions' = (intentions \ {i}) \cup {[i EXCEPT !.timer = c]}
  /\ UNCHANGED <<desires, dirty, promise, calls>>

\* The tasks after the sleep run once it has fired.
Awake(i) == SleepMs[i.goal] = NoSleep \/ i.timer = Woken

ExecSubGoal(i) ==
  /\ i.state = "EXECUTING"
  /\ Awake(i)
  /\ SubGoal[i.goal] # NoGoal
  /\ i.sub = 0
  /\ Pursue(SubGoal[i.goal], NoMsg, FALSE, Len(calls) + 1, i.desire)
  /\ intentions' = (intentions \ {i}) \cup {[i EXCEPT !.sub = Len(calls) + 1]}
  /\ UNCHANGED <<desires, dirty>>

\* On SUCCESS or FAIL a non-persistent desire is finished and erased; a
\* persistent one is reset and stays to be planned again.
ExecConclude(i) ==
  /\ i.state = "EXECUTING"
  /\ Awake(i)
  /\ SubGoal[i.goal] = NoGoal \/ (i.sub # 0 /\ promise[i.sub] # "PENDING")
  /\ intentions' = intentions \ {i}
  /\ \E r \in {"SUCCESS", "FAIL"} :
       IF i.desire \in DesireIds /\ ~Desire(i.desire).persistent
         THEN /\ promise' = Resolve(Desire(i.desire).promise, r)
              /\ EraseDesire(i.desire)
         ELSE UNCHANGED <<promise, desires, dirty>>
  /\ UNCHANGED <<queue, calls>>

\* Mutant: the executor only finishes NORMAL drops; a FORCE-dropped
\* intention is never removed.
ExecDroppedNormalOnly(i) ==
  /\ i.state = "DROPPING"
  /\ intentions' = intentions \ {i}
  /\ IF i.desire \in DesireIds
       THEN /\ promise' = Resolve(Desire(i.desire).promise, "DROPPED")
            /\ EraseDesire(i.desire)
       ELSE UNCHANGED <<promise, desires, dirty>>
  /\ UNCHANGED <<queue, calls>>

ExecDropped(i) ==
  /\ i.state \in Dropping
  /\ intentions' = intentions \ {i}
  /\ IF i.desire \in DesireIds
       THEN /\ promise' = Resolve(Desire(i.desire).promise, "DROPPED")
            /\ EraseDesire(i.desire)
       ELSE UNCHANGED <<promise, desires, dirty>>
  /\ UNCHANGED <<queue, calls>>

\* One step of the intention of desire k inside AgentExecutor::execute.
Execute(k) ==
  /\ tick = "execute"
  /\ \E i \in intentions :
       /\ i.desire = k
       /\ \/ ExecStart(i) \/ ExecSleep(i) \/ ExecSubGoal(i) \/ ExecConclude(i)
          \/ ExecDropped(i)
  /\ UNCHANGED <<state, schedule, flag, controls, tick, timers>>

-----------------------------------------------------------------------------
(* Engine::poll advances the monotonic internal clock before it ticks the  *)
(* agents: the end of every timer, pushed or still queued, comes one ms    *)
(* closer.                                                                 *)

Age(t) == [t EXCEPT !.left = IF @ >= 0 THEN @ - 1 ELSE @]

QueuedTimers == {queue[k] : k \in {k \in DOMAIN queue : queue[k].type = "TIMER"}}

Poll ==
  /\ tick = "dispatch"
  /\ \E t \in timers \cup QueuedTimers : t.left >= 0
  /\ timers' = {Age(t) : t \in timers}
  /\ queue' = [k \in DOMAIN queue |-> IF queue[k].type = "TIMER" THEN Age(queue[k]) ELSE queue[k]]
  /\ UNCHANGED <<state, desires, intentions, dirty, schedule, flag, promise, calls,
                 controls, tick>>

-----------------------------------------------------------------------------

Init ==
  /\ state = "STOPPED"
  /\ queue = <<>>
  /\ desires = <<>>
  /\ intentions = {}
  /\ dirty = {}
  /\ schedule = NoSchedule
  /\ flag = FALSE
  /\ promise = [k \in Ids |-> "UNUSED"]
  /\ calls = <<>>
  /\ controls = 0
  /\ tick = "dispatch"
  /\ timers = {}

\* The user and the environment act from other threads at any time.
Environment == ApiPursue \/ ApiDrop \/ ApiControl \/ EnvPercept

Next ==
  \/ Environment
  \/ Dispatch
  \/ RunPlan
  \/ RunFinish
  \/ Poll
  \/ \E k \in Ids : Execute(k)

\* The engine keeps dispatching and ticking the agent; AgentExecutor::execute
\* advances every live intention on every tick, so an intention that can step
\* at infinitely many ticks does step. Engine::poll reads the clock on every
\* pass, and the clock advances between ticks whenever a timer is pending, so
\* a tick with a pending unexpired timer is eventually followed by one at a
\* later millisecond (strong fairness: the tick may be taken first each time).
\* The user and the environment are not obliged to act.
Fairness ==
  /\ WF_vars(Dispatch)
  /\ WF_vars(RunPlan)
  /\ WF_vars(RunFinish)
  /\ SF_vars(Poll)
  /\ \A k \in Ids : SF_vars(Execute(k))

Spec == Init /\ [][Next]_vars /\ Fairness

-----------------------------------------------------------------------------
(* Properties.                                                             *)

Status == {"UNUSED", "PENDING", "SUCCESS", "FAIL", "DROPPED"}
DesireRec == [id : Ids, goal : Goals, msg : Msgs \cup {NoMsg}, persistent : BOOLEAN,
              delegated : BOOLEAN, promise : Ids, parent : Ids \cup {NoId}]
IntentionRec == [desire : Ids, goal : Goals, state : Live \cup Dropping,
                 subs : SUBSET Ids, sub : Ids \cup {0}, timer : Ids \cup {NotSlept, Woken}]
SleepSet == {SleepMs[g] : g \in {g \in Goals : SleepMs[g] # NoSleep}}

TypeOK ==
  /\ state \in {"STOPPED", "RUNNING", "STOPPING"}
  /\ desires \in Seq(DesireRec)
  /\ intentions \in SUBSET IntentionRec
  /\ dirty \in SUBSET Flags
  /\ schedule.left \in 0..SearchTicks
  /\ schedule.goals \in SUBSET [id : Ids, goal : Goals]
  /\ flag \in BOOLEAN
  /\ promise \in [Ids -> Status]
  /\ calls \in Seq([goal : Goals, id : Ids]) /\ Len(calls) <= MaxCalls
  /\ controls \in 0..MaxControls
  /\ tick \in {"dispatch", "execute"}
  /\ timers \subseteq [type : {"TIMER"}, desire : Ids, call : Ids,
                       left : -1..Max(SleepSet \cup {0})]

\* An intention that is not being dropped runs a desire the agent still
\* holds: a schedule planned before a desire was erased (by a DROP event or a
\* concluded intention) must not be handed to the executor. Agent::run relies
\* on GOAL_REMOVED to replace such an unfinished schedule.
IntentionsHaveDesires ==
  \A i \in intentions : i.state \in Live => i.desire \in DesireIds

\* A desire the agent holds whose goal precondition holds.
Plannable(k) == k \in DesireIds /\ IsValid(Desire(k))

\* While the agent runs, every plannable desire is eventually planned into
\* an intention (or stops being plannable): a stream of percepts or messages
\* re-dirtying the schedule must not keep replacing an unfinished schedule
\* (Agent::run's guard against re-planning live-lock).
DesiresEventuallyServed ==
  \A k \in Ids :
    (Plannable(k) /\ state = "RUNNING") ~>
      (HasIntention(k) \/ ~Plannable(k) \/ state # "RUNNING")

\* A sub-goal desire never outlives its parent intention: when the parent is
\* dropped or gone, the sub-goal is itself being dropped (spec 4.5 step 2:
\* orphan sub-desires that never formed intentions are finished DROPPED).
NoOrphanSubGoals ==
  \A d \in Range(desires) :
    (d.parent # NoId /\ ~(HasIntention(d.parent) /\ Intention(d.parent).state \in Live))
      => (HasIntention(d.id) /\ Intention(d.id).state \in Dropping)

\* A persistent pursue never creates a second desire for a goal that already
\* has a desire with no parameters or with equal parameters (spec 4.2 step 2).
PersistentPursueMerged ==
  \A a, b \in DOMAIN desires :
    (a < b /\ desires[b].persistent /\ desires[a].goal = desires[b].goal)
      => ~(desires[a].msg = NoMsg \/
           (desires[b].msg # NoMsg /\ MsgValue[desires[a].msg] = MsgValue[desires[b].msg]))

\* A stopping agent eventually stops: the CONTROL handler stops the
\* executor, every intention is force-dropped and finishes, and the check at
\* the end of Agent::run moves STOPPING to STOPPED once the executor is idle;
\* a plan waiting on a sub-goal that is no longer planned must not hold it.
StopEventuallyStops == state = "STOPPING" ~> state = "STOPPED"

\* Run step 4 fires every timer that is due: after the tick of a running
\* agent, every timer left in m_timerEvents ends after the current time. The
\* loop only looks at the top of the heap, so this needs CompareTimerEvent
\* to keep the earliest end on top and the test to accept an end equal to
\* the clock; timers of intentions dropped by a stop stay in the heap.
TimersFireWhenDue ==
  [][RunPlan /\ state = "RUNNING" => \A t \in timers' : t.left > 0]_vars

\* Stopping clears the agent: when the end of Agent::run moves STOPPING to
\* STOPPED there are no desires and no intentions left (spec 8, and the
\* AgentStartStop test, agents.cpp:149). The CONTROL handler only stops the
\* executor, which drops the intentions it has; a desire without one at
\* that moment is not erased.
StopClearsDesires ==
  [][state = "STOPPING" /\ state' = "STOPPED" => desires' = <<>> /\ intentions' = {}]_vars

-----------------------------------------------------------------------------
(* Refinement: the agent implements the goal-handle life-cycle of          *)
(* GoalLifecycle. Call k's handle is read off the promise, the desire that *)
(* holds promise k, that desire's intention, and the PURSUE events still   *)
(* queued.                                                                 *)

QueuedPromises == {queue[i].promise : i \in {i \in DOMAIN queue : queue[i].type = "PURSUE"}}
HeldBy(k) == {d \in Range(desires) : d.promise = k}

HandleOf(k) ==
  IF promise[k] # "PENDING" THEN promise[k]
  ELSE IF k \in QueuedPromises THEN "PENDING"
  ELSE IF HeldBy(k) = {} THEN "ABANDONED"
  ELSE LET d == CHOOSE d \in HeldBy(k) : TRUE IN
       IF ~HasIntention(d.id) THEN "PENDING"
       ELSE IF Intention(d.id).state \in Live THEN "ACTIVE" ELSE "DROPPING"

GL == INSTANCE GoalLifecycle WITH Calls <- Ids, handle <- [k \in Ids |-> HandleOf(k)]

\* The agent's promises move as spec 4.2, 4.5 and 9 say a goal handle
\* does: each fires at most once, SUCCESS or FAIL only for a goal whose
\* intention runs, DROPPED only once a running goal's intention has been
\* dropped (DROP handler, executor stop) or before the goal ran; a merged
\* or rejected pursue is abandoned and never fires.
ImplementsGoalLifecycleSafety == GL!SafetySpec

\* Moreover every handle being dropped settles: the executor finishes a
\* dropped intention's desire, under the engine's fairness.
ImplementsGoalLifecycle == GL!Spec
=============================================================================
