------------------------------ MODULE JackAuction ------------------------------
(***************************************************************************)
(* The delegation and auction protocol between a team and its members      *)
(* (src/jack_core/src/jack/agent.cpp): the team's AUCTION and returned     *)
(* DELEGATION handlers, processCurrentAuctions and CurrentAuction::finished,*)
(* the replan decision of Agent::run that an auction waits on; a member's  *)
(* DELEGATION handler (analyse and execute) and                            *)
(* processCurrentDelegationEvents.                                         *)
(*                                                                         *)
(* The team plans one delegated goal. Its schedule (not in src/, spec 4.3  *)
(* and 4.6) reaches the bind step, emits an analyse delegation to every    *)
(* candidate and waits for the AUCTION event; the bids pick a winner, the  *)
(* finished schedule is handed to the executor, which delegates the goal   *)
(* to the winner. Members analyse in a sandbox schedule that needs a few   *)
(* ticks. Agents interleave freely; each handler and each run is a step.   *)
(* The engine clock advances in milliseconds. Members may stop at any time *)
(* (departure); other goals of the team dirty its schedule.                *)
(***************************************************************************)
EXTENDS Naturals, Sequences, FiniteSets, SequencesExt

CONSTANTS
  Members,       \* team members (model values)
  Candidates,    \* the delegates the schedule auctions the goal to
  NoMember,
  Scores,        \* finite costs a sandbox schedule can find
  FailedCost,    \* Schedule::FAILED_COST
  Window,        \* the auction window in ms
  MaxSchedules,  \* bound on m_scheduleIdCounter
  AnalyseTicks,  \* most processSchedule calls a sandbox schedule needs
  EnvFlags       \* the ScheduleDirty flags the team's other activity raises

ASSUME /\ Candidates \subseteq Members /\ Candidates # {}
       /\ Scores \subseteq Nat /\ FailedCost \in Nat \ Scores /\ 0 \notin Scores
       /\ Window \in Nat \ {0}
       /\ MaxSchedules \in Nat \ {0} /\ AnalyseTicks \in Nat \ {0}
       /\ EnvFlags \subseteq {"GOAL_ADDED", "GOAL_REMOVED", "MEMBER_REMOVED", "FORCE"}

VARIABLES
  sched,     \* the team's m_schedule: [sid, node, winner]
  lastSid,   \* m_scheduleIdCounter
  dirty,     \* the team's m_scheduleDirty as a set of flags
  auctions,  \* the team's m_currentAuctions
  intention, \* the team executor's intention for the goal
  teamQ,     \* the team's event queue
  memberQ,   \* each member's event queue
  backlog,   \* each member's m_delegationEventBackLog
  executing, \* executing[m]: m has the delegated goal's id among its desires
  alive,     \* alive[m]: member m is running
  answered   \* history: the analyse replies members have returned

vars == <<sched, lastSid, dirty, auctions, intention, teamQ, memberQ,
          backlog, executing, alive, answered>>

Flags == {"GOAL_ADDED", "GOAL_REMOVED", "MEMBER_REMOVED", "FORCE"}
Preempt == {"GOAL_REMOVED", "MEMBER_REMOVED", "FORCE"}
Sids == 1..MaxSchedules
AllScores == Scores \cup {0, FailedCost}
Bid == [bidder : Members, score : AllScores]

\* The events of the protocol: analyse and execute delegations to members,
\* replies routed back to the team, and the team's own AUCTION event.
Delegation(sid, analyse) == [type |-> "DELEGATION", sid |-> sid, analyse |-> analyse]
Reply(m, sid, analyse, score, status) ==
  [type |-> "REPLY", sid |-> sid, analyse |-> analyse, member |-> m,
   score |-> score, status |-> status]
\* Mutant: the missing-bid count subtracts the wrong way round.
AuctionEventSwapped(a) ==
  [type |-> "AUCTION", sid |-> a.sid, bids |-> a.bids,
   missing |-> Cardinality(a.bids) - a.total]

\* processCurrentAuctions: the AUCTION event takes the bids and the count of
\* delegates that did not bid.
AuctionEvent(a) ==
  [type |-> "AUCTION", sid |-> a.sid, bids |-> a.bids,
   missing |-> a.total - Cardinality(a.bids)]

-----------------------------------------------------------------------------
(* Team side.                                                              *)

\* Mutant: an auction only closes when every candidate has bid.
FinishedCountOnly(a) == Cardinality(a.bids) = a.total

\* CurrentAuction::finished: clock >= expiryTimePoint, or every delegate bid.
Finished(a) == a.left = 0 \/ Cardinality(a.bids) = a.total

Bidders(a) == {b.bidder : b \in a.bids}

\* DELEGATION handler, a returned analyse delegation (status not PENDING):
\* the first matching auction takes the bid unless the bidder already bid
\* or the auction has finished; the bidder is not checked against the
\* auction's delegates.
CollateBid(r) ==
  {IF a.sid = r.sid /\ r.member \notin Bidders(a) /\ ~Finished(a)
     THEN [a EXCEPT !.bids = @ \cup {[bidder |-> r.member, score |-> r.score]}]
     ELSE a : a \in auctions}

\* Schedule::processAuction (spec 4.3, 4.6): the lowest finite bid wins; with
\* no finite bid the pending node closes and the search fails.
ProcessAuction(ev) ==
  LET valid == {b \in ev.bids : b.score # FailedCost}
  IN IF valid = {}
       THEN [sched EXCEPT !.node = "nobids"]
       ELSE LET w == CHOOSE b \in valid : \A c \in valid : b.score <= c.score
            IN [sched EXCEPT !.node = "bound", !.winner = w.bidder]

\* Mutant: auctions are blocked by any dirty flag, GOAL_ADDED included.
BlockAuctionFlagsAll == Flags

\* The flags that block applying an auction to the current schedule.
BlockAuctionFlags == {"GOAL_REMOVED", "MEMBER_REMOVED", "FORCE"}

\* Mutant: the AUCTION handler does not compare schedule ids.
AuctionForScheduleAnyId(ev) == sched.node # "none"

\* AUCTION handler: the event is for the current schedule.
AuctionForSchedule(ev) == sched.node # "none" /\ sched.sid = ev.sid

\* Agent::eventDispatch AUCTION: apply the bids to the schedule unless
\* blocked; an event for another schedule matches no delegation back-log
\* entry of the team and is dropped.
DispatchAuction(ev) ==
  /\ sched' = IF AuctionForSchedule(ev) /\ dirty \cap BlockAuctionFlags = {}
                THEN ProcessAuction(ev) ELSE sched
  /\ UNCHANGED <<auctions, intention>>

\* Agent::eventDispatch DELEGATION, status not PENDING: an analyse reply is
\* collated as a bid, an execute reply is handed to the executor
\* (AgentExecutor::handleDelegationEvent, spec 4.6) as the intention's result.
DispatchReply(r) ==
  /\ IF r.analyse
       THEN /\ auctions' = CollateBid(r)
            /\ UNCHANGED intention
       ELSE /\ intention' = [intention EXCEPT !.state = r.status]
            /\ UNCHANGED auctions
  /\ UNCHANGED sched

\* The team dispatches the head of its queue.
TeamDispatch ==
  /\ teamQ # <<>>
  /\ LET ev == Head(teamQ) IN
       /\ teamQ' = Tail(teamQ)
       /\ IF ev.type = "AUCTION" THEN DispatchAuction(ev) ELSE DispatchReply(ev)
  /\ UNCHANGED <<lastSid, dirty, memberQ, backlog, executing, alive, answered>>

\* processCurrentAuctions: every finished auction raises an AUCTION event
\* to the team itself, carrying its bids and missing-bid count, and is erased.
ClosedAuctions == {a \in auctions : Finished(a)}
AuctionEvents == SetToSortSeq({AuctionEvent(a) : a \in ClosedAuctions},
                              LAMBDA x, y : x.sid < y.sid)

\* The goal is still desired while no result has come back for it.
Desired == intention.state \in {"NONE", "DELEGATED"}

\* Schedule bind step (spec 4.3, 4.6): the auction the schedule records, and
\* the analyse delegation it emits to every candidate.
NewAuction(s) ==
  [sid |-> s, total |-> Cardinality(Candidates), bids |-> {}, left |-> Window]
SendAnalyse(s) ==
  [m \in Members |-> IF m \in Candidates THEN Append(memberQ[m], Delegation(s, TRUE))
                     ELSE memberQ[m]]

\* Agent::run for the team: step 1 closes finished auctions; step 2 replans
\* when dirty or idle, replacing an unfinished schedule only for the Preempt
\* flags; step 3 advances the schedule: a new one reaches the bind step and
\* starts its auction, a bound or failed one is finished and handed to the
\* executor, which delegates the goal to the winner unless it already has
\* an intention for it (AgentExecutor::setSchedule, spec 4.5).
TeamRun ==
  LET replan == /\ dirty # {} \/ (sched.node = "none" /\ intention.state # "DELEGATED")
                /\ sched.node = "none" \/ dirty \cap Preempt # {}
                /\ Desired /\ lastSid < MaxSchedules
      s1 == IF replan THEN [sid |-> lastSid + 1, node |-> "search", winner |-> NoMember]
            ELSE sched
      open == auctions \ ClosedAuctions
  IN
  /\ teamQ' = teamQ \o AuctionEvents
  /\ lastSid' = IF replan THEN lastSid + 1 ELSE lastSid
  /\ dirty' = IF replan THEN {} ELSE dirty
  /\ CASE s1.node = "search" ->
            /\ auctions' = open \cup {NewAuction(s1.sid)}
            /\ memberQ' = SendAnalyse(s1.sid)
            /\ sched' = [s1 EXCEPT !.node = "pending"]
            /\ UNCHANGED intention
       [] s1.node \in {"bound", "nobids"} ->
            /\ auctions' = open
            /\ sched' = [sid |-> 0, node |-> "none", winner |-> NoMember]
            /\ IF s1.node = "bound" /\ intention.state = "NONE"
                 THEN /\ intention' = [state |-> "DELEGATED", delegate |-> s1.winner]
                      /\ memberQ' = [memberQ EXCEPT ![s1.winner] =
                                       Append(@, Delegation(s1.sid, FALSE))]
                 ELSE UNCHANGED <<intention, memberQ>>
       [] OTHER ->
            /\ auctions' = open
            /\ UNCHANGED <<sched, intention, memberQ>>
  /\ UNCHANGED <<backlog, executing, alive, answered>>

\* Another goal of the team is pursued or dropped, or a member leaves, or a
\* replan is forced: the team's schedule is dirtied.
TeamDirty ==
  /\ lastSid < MaxSchedules
  /\ \E f \in EnvFlags : dirty' = dirty \cup {f}
  /\ UNCHANGED <<sched, lastSid, auctions, intention, teamQ, memberQ,
                 backlog, executing, alive, answered>>

-----------------------------------------------------------------------------
(* Member side.                                                            *)

\* DELEGATION handler, an analyse request: an entry goes on the back log,
\* marked when the goal id is already among the member's desires; otherwise
\* it holds a sandbox schedule of the desires plus the delegated goal.
DispatchAnalyse(m, ev) ==
  \E t \in 1..AnalyseTicks :
    /\ backlog' = [backlog EXCEPT ![m] = @ \cup
                     {[sid |-> ev.sid, already |-> executing[m],
                       left |-> IF executing[m] THEN 0 ELSE t]}]
    /\ UNCHANGED executing

\* DELEGATION handler, an execute request: pursue the goal under the team's
\* goal id; its promise returns the delegation to the team when it resolves.
DispatchExecute(m, ev) ==
  /\ executing' = [executing EXCEPT ![m] = TRUE]
  /\ UNCHANGED backlog

\* A running member dispatches the head of its queue.
MemberDispatch(m) ==
  /\ alive[m] /\ memberQ[m] # <<>>
  /\ LET ev == Head(memberQ[m]) IN
       /\ memberQ' = [memberQ EXCEPT ![m] = Tail(@)]
       /\ IF ev.analyse THEN DispatchAnalyse(m, ev) ELSE DispatchExecute(m, ev)
  /\ UNCHANGED <<sched, lastSid, dirty, auctions, intention, teamQ, alive, answered>>

\* Mutant: an entry for a goal already being executed is never finished.
AnalysisDoneSandboxOnly(e) == ~e.already /\ e.left <= 1

\* processCurrentDelegationEvents: an entry is finished when its goal was
\* already being executed, or when this processSchedule call finishes its
\* sandbox schedule.
AnalysisDone(e) == e.already \/ e.left <= 1

\* processCurrentDelegationEvents: advance every sandbox schedule; a finished
\* entry returns its delegation with the score (0 when already executing)
\* and FAIL for FAILED_COST, and leaves the back log.
MemberRun(m) ==
  /\ alive[m]
  /\ LET done == {e \in backlog[m] : AnalysisDone(e)}
     IN \E score \in [done -> Scores \cup {FailedCost}] :
          LET Score(e) == IF e.already THEN 0 ELSE score[e]
              replies == {Reply(m, e.sid, TRUE, Score(e),
                                IF Score(e) = FailedCost THEN "FAIL" ELSE "SUCCESS")
                            : e \in done}
          IN /\ backlog' = [backlog EXCEPT ![m] =
                              {IF e.already THEN e ELSE [e EXCEPT !.left = e.left - 1]
                                 : e \in @ \ done}]
             /\ teamQ' = teamQ \o SetToSortSeq(replies, LAMBDA x, y : x.sid < y.sid)
             /\ answered' = answered \cup replies
  /\ UNCHANGED <<sched, lastSid, dirty, auctions, intention, memberQ,
                 executing, alive>>

\* The delegated goal's promise resolves: the delegation goes back to the
\* team with SUCCESS or FAIL and the desire is gone.
MemberComplete(m) ==
  /\ alive[m] /\ executing[m]
  /\ \E status \in {"SUCCESS", "FAIL"} :
       teamQ' = Append(teamQ, Reply(m, 0, FALSE, 0, status))
  /\ executing' = [executing EXCEPT ![m] = FALSE]
  /\ UNCHANGED <<sched, lastSid, dirty, auctions, intention, memberQ,
                 backlog, alive, answered>>

\* A member leaves or is stopped: it no longer dispatches or ticks.
MemberStop(m) ==
  /\ alive[m]
  /\ alive' = [alive EXCEPT ![m] = FALSE]
  /\ UNCHANGED <<sched, lastSid, dirty, auctions, intention, teamQ,
                 memberQ, backlog, executing, answered>>

\* The engine clock advances by a millisecond. Only the time left until
\* each open auction's expiry (expiryTimePoint - internalClock) is kept.
Tick ==
  /\ \E a \in auctions : a.left > 0
  /\ auctions' = {[a EXCEPT !.left = IF @ > 0 THEN @ - 1 ELSE 0] : a \in auctions}
  /\ UNCHANGED <<sched, lastSid, dirty, intention, teamQ, memberQ,
                 backlog, executing, alive, answered>>

-----------------------------------------------------------------------------

Init ==
  /\ sched = [sid |-> 0, node |-> "none", winner |-> NoMember]
  /\ lastSid = 0
  /\ dirty = {}
  /\ auctions = {}
  /\ intention = [state |-> "NONE", delegate |-> NoMember]
  /\ teamQ = <<>>
  /\ memberQ = [m \in Members |-> <<>>]
  /\ backlog = [m \in Members |-> {}]
  /\ executing = [m \in Members |-> FALSE]
  /\ alive = [m \in Members |-> TRUE]
  /\ answered = {}

Next ==
  \/ TeamDispatch \/ TeamRun \/ TeamDirty \/ Tick
  \/ \E m \in Members :
       MemberDispatch(m) \/ MemberRun(m) \/ MemberComplete(m) \/ MemberStop(m)

\* The engine ticks every running agent and drains its queue, and its clock
\* advances; members' goals, departures and the team's other goals are the
\* environment and get no fairness.
Fairness ==
  /\ WF_vars(TeamDispatch) /\ WF_vars(TeamRun) /\ WF_vars(Tick)
  /\ \A m \in Members : WF_vars(MemberDispatch(m)) /\ WF_vars(MemberRun(m))

Spec == Init /\ [][Next]_vars /\ Fairness
-----------------------------------------------------------------------------
(* Properties.                                                             *)

Event ==
  [type : {"AUCTION"}, sid : Sids, bids : SUBSET Bid, missing : 0..Cardinality(Candidates)]
  \cup [type : {"REPLY"}, sid : 0..MaxSchedules, analyse : BOOLEAN, member : Members,
        score : AllScores, status : {"SUCCESS", "FAIL"}]
  \cup [type : {"DELEGATION"}, sid : Sids, analyse : BOOLEAN]

TypeOK ==
  /\ sched \in [sid : 0..MaxSchedules, node : {"none", "pending", "bound", "nobids"},
                winner : Members \cup {NoMember}]
  /\ lastSid \in 0..MaxSchedules /\ dirty \subseteq Flags
  /\ auctions \subseteq [sid : Sids, total : Nat, bids : SUBSET Bid, left : 0..Window]
  /\ \A a \in auctions : Cardinality(a.bids) <= a.total
  /\ intention \in [state : {"NONE", "DELEGATED", "SUCCESS", "FAIL"},
                    delegate : Members \cup {NoMember}]
  /\ teamQ \in Seq(Event) /\ memberQ \in [Members -> Seq(Event)]
  /\ backlog \in [Members -> SUBSET [sid : Sids, already : BOOLEAN, left : 0..AnalyseTicks]]
  /\ executing \in [Members -> BOOLEAN] /\ alive \in [Members -> BOOLEAN]

\* Bids are matched to the schedule that asked for them: when the team's
\* current schedule has bound a winner, that winner returned an analyse
\* reply with a finite score for this very schedule, never one meant for an
\* earlier schedule that was replaced while its auction was in flight
\* (the schedule id checks of the AUCTION and DELEGATION handlers).
WinnerBidForThisSchedule ==
  sched.node = "bound" =>
    \E r \in answered : /\ r.member = sched.winner /\ r.sid = sched.sid
                        /\ r.score # FailedCost

\* Every auction the team opens is eventually closed and erased by
\* processCurrentAuctions, even when candidates leave without bidding
\* (CurrentAuction::finished falls back on the expiry time).
AuctionsClose ==
  \A s \in Sids : (\E a \in auctions : a.sid = s) ~> ~\E a \in auctions : a.sid = s

\* A schedule waiting on an auction does not wait forever: the AUCTION event
\* is applied, or the schedule is replaced. The AUCTION handler only
\* discards a result for the flags that also make Agent::run replace the
\* schedule.
PendingResolved ==
  \A s \in Sids : (sched.node = "pending" /\ sched.sid = s)
                    ~> ~(sched.node = "pending" /\ sched.sid = s)

\* A running member answers every analyse delegation it received:
\* processCurrentDelegationEvents returns each back-log entry, the ones for
\* a goal it is already executing included.
DelegationAnswered ==
  \A m \in Members, s \in Sids :
    (\E e \in backlog[m] : e.sid = s) ~> (~alive[m] \/ ~\E e \in backlog[m] : e.sid = s)
====
