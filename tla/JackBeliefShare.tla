---------------------------- MODULE JackBeliefShare ----------------------------
(***************************************************************************)
(* Shared belief relay (src/jack_core/src/jack/agent.cpp): agent A's       *)
(* MESSAGE and PERCEPT handlers that change its beliefset and stamp        *)
(* m_lastTimeBeliefSetsDirtied, the rate-limited share of processShared-   *)
(* Beliefs to the team T, T's SHAREBELIEFSET handler that stamps the entry *)
(* with the clock in microseconds, and T's relay of an updated entry to    *)
(* the other member B.                                                     *)
(*                                                                         *)
(* A beliefset is a shared Message object: a MESSAGE replaces A's object   *)
(* (BeliefContext::addMessage), a PERCEPT writes a field of it in place,   *)
(* and a share hands the object itself to the team, which hands it on to   *)
(* B. Objects are numbered by the write that created them; obj[o] is the   *)
(* last write applied to object o.                                         *)
(*                                                                         *)
(* Engine::poll advances the clock and then ticks every agent once, in     *)
(* any order; a tick dispatches the agent's queued events and then runs    *)
(* it. Only what the code compares of the clock is kept: the millisecond   *)
(* differences A's rate limit reads (capped at RateMs, beyond which they   *)
(* all decide alike), the position inside the current millisecond, and     *)
(* whether T's microsecond stamps equal the current time.                  *)
(***************************************************************************)
EXTENDS Integers, Sequences, SequencesExt

CONSTANTS
  UsPerMs,     \* clock units per millisecond (the microsecond clock, scaled)
  RateMs,      \* the share rate limit (500 ms in the code), in ms
  ClockSteps,  \* how far the clock may advance between two polls, in units
  StartMs,     \* the clock in ms at the first poll (capped at RateMs)
  MaxWrites    \* bound on the belief writes A receives

ASSUME /\ UsPerMs \in Nat \ {0} /\ RateMs \in Nat \ {0}
       /\ ClockSteps \subseteq Nat /\ ClockSteps # {}
       /\ StartMs \in 0..RateMs /\ MaxWrites \in Nat \ {0}

Agents == {"A", "T", "B"}
Objects == 0..MaxWrites
None == -1

VARIABLES
  phase,      \* clock position inside the current millisecond, in units
  ran,        \* agents ticked since the last poll
  writes,     \* writes sent to A so far
  aQ,         \* A's event queue: MESSAGE and PERCEPT events
  obj,        \* obj[o]: the last write applied to message object o
  cur,        \* the object A's belief context holds
  sinceDirty, \* clock ms - m_lastTimeBeliefSetsDirtied, capped at RateMs
  sinceShare, \* m_lastTimeBeliefSetsDirtied - m_lastTimeBeliefSetsShared, capped
  busy,       \* A's executor is not done
  tQ,         \* T's event queue: SHAREBELIEFSET events carrying an object
  entry,      \* T's SharedBeliefSet for A: object and stamp comparisons
  bQ,         \* B's event queue: SHAREBELIEFSET events carrying an object
  bObj        \* the object B holds for A's beliefset, or None

vars == <<phase, ran, writes, aQ, obj, cur, sinceDirty, sinceShare, busy,
          tQ, entry, bQ, bObj>>

CapMs(n) == IF n > RateMs THEN RateMs ELSE n

-----------------------------------------------------------------------------
(* Agent A.                                                                *)

\* A client sends A a new beliefset (MESSAGE) or a field change (PERCEPT).
EnvWrite ==
  /\ writes < MaxWrites
  /\ \E kind \in {"MESSAGE", "PERCEPT"} :
       aQ' = Append(aQ, [kind |-> kind, w |-> writes + 1])
  /\ writes' = writes + 1
  /\ UNCHANGED <<phase, ran, obj, cur, sinceDirty, sinceShare, busy, tQ, entry, bQ, bObj>>

\* A's executor gains or loses intentions.
EnvBusy ==
  /\ busy' = ~busy
  /\ UNCHANGED <<phase, ran, writes, aQ, obj, cur, sinceDirty, sinceShare, tQ, entry, bQ, bObj>>

\* MESSAGE handler: BeliefContext::addMessage replaces the object.
ApplyMessage(st, w) == [obj |-> [st.obj EXCEPT ![w] = w], cur |-> w]

\* PERCEPT handler: Message::setField writes into the object in place.
ApplyPercept(st, w) == [st EXCEPT !.obj[st.cur] = w]

\* A's dispatch of one queued write.
ApplyWrite(st, ev) ==
  IF ev.kind = "MESSAGE" THEN ApplyMessage(st, ev.w) ELSE ApplyPercept(st, ev.w)

\* Mutant: the difference is taken the wrong way round (shared - dirtied).
MsSinceLastShareSwapped(sinceD, sinceS) == -(sinceD + sinceS)

\* Both handlers set m_lastTimeBeliefSetsDirtied to the current ms; then
\* dirtied - shared = (now - old dirtied) + (old dirtied - shared).
MsSinceLastShare(sinceD, sinceS) == CapMs(sinceD + sinceS)

\* Mutant: a quiet agent never flushes its last change.
ShareBeliefsRateOnly(since, idle) == since >= RateMs

\* processSharedBeliefs: share when RateMs have passed between the last
\* share and the last dirtying, or when the executor is done and anything
\* was dirtied since the last share.
ShareBeliefs(since, idle) == since >= RateMs \/ (idle /\ since # 0)

\* A's tick: dispatch the queued writes, then processSharedBeliefs shares
\* the current object with the team (the agent has a role that may write
\* the beliefset to the team) and records the dirty stamp as shared.
TickA ==
  /\ "A" \notin ran
  /\ LET st == FoldLeft(ApplyWrite, [obj |-> obj, cur |-> cur], aQ)
         since == IF aQ = <<>> THEN sinceShare
                  ELSE MsSinceLastShare(sinceDirty, sinceShare)
         share == ShareBeliefs(since, ~busy)
     IN /\ obj' = st.obj /\ cur' = st.cur
        /\ sinceDirty' = IF aQ = <<>> THEN sinceDirty ELSE 0
        /\ sinceShare' = IF share THEN 0 ELSE since
        /\ tQ' = IF share THEN Append(tQ, st.cur) ELSE tQ
  /\ aQ' = <<>>
  /\ ran' = ran \cup {"A"}
  /\ UNCHANGED <<phase, writes, busy, entry, bQ, bObj>>

-----------------------------------------------------------------------------
(* Team T and member B.                                                    *)

\* Mutant: an existing entry keeps its old stamp; only a new one is stamped.
StampEntryOnInsert(e, o) ==
  [e EXCEPT !.obj = o, !.lastNow = IF e.obj = None THEN TRUE ELSE @,
            !.updated = IF e.obj = None THEN ~e.prevNow ELSE @]

\* SHAREBELIEFSET handler: store the object and stamp m_lastUpdated with
\* the clock; the entry counts as updated unless m_prevLastUpdated was
\* taken at this same microsecond.
StampEntry(e, o) == [e EXCEPT !.obj = o, !.lastNow = TRUE, !.updated = ~e.prevNow]

\* T's tick: dispatch the queued shares, then relay an updated entry to
\* every member other than its owner that may read it (B), recording
\* m_prevLastUpdated.
TickT ==
  /\ "T" \notin ran
  /\ LET e == FoldLeft(StampEntry, entry, tQ) IN
       IF e.obj # None /\ e.updated
         THEN /\ entry' = [e EXCEPT !.updated = FALSE, !.prevNow = e.lastNow]
              /\ bQ' = Append(bQ, e.obj)
         ELSE /\ entry' = e
              /\ UNCHANGED bQ
  /\ tQ' = <<>>
  /\ ran' = ran \cup {"T"}
  /\ UNCHANGED <<phase, writes, aQ, obj, cur, sinceDirty, sinceShare, busy, bObj>>

\* B's tick: the SHAREBELIEFSET handler stores the relayed object.
TickB ==
  /\ "B" \notin ran
  /\ bObj' = IF bQ = <<>> THEN bObj ELSE Last(bQ)
  /\ bQ' = <<>>
  /\ ran' = ran \cup {"B"}
  /\ UNCHANGED <<phase, writes, aQ, obj, cur, sinceDirty, sinceShare, busy, tQ, entry>>

\* Engine::poll: the clock advances by dt units; stamps taken before a
\* non-zero advance no longer equal the current time.
Poll ==
  \E dt \in ClockSteps :
    /\ phase' = (phase + dt) % UsPerMs
    /\ sinceDirty' = CapMs(sinceDirty + (phase + dt) \div UsPerMs)
    /\ entry' = IF dt = 0 THEN entry ELSE [entry EXCEPT !.lastNow = FALSE, !.prevNow = FALSE]
    /\ ran' = {}
    /\ UNCHANGED <<writes, aQ, obj, cur, sinceShare, busy, tQ, bQ, bObj>>

-----------------------------------------------------------------------------

\* A holds its template beliefset (object 0); both of A's stamps are 0 and
\* the clock is StartMs; T has no entry for A yet, and a new entry's
\* m_prevLastUpdated is 0, which equals the clock only at time 0.
Init ==
  /\ phase = 0 /\ ran = {} /\ writes = 0 /\ aQ = <<>>
  /\ obj = [o \in Objects |-> 0] /\ cur = 0
  /\ sinceDirty = StartMs /\ sinceShare = 0
  /\ busy \in BOOLEAN
  /\ tQ = <<>>
  /\ entry = [obj |-> None, lastNow |-> FALSE, prevNow |-> StartMs = 0, updated |-> FALSE]
  /\ bQ = <<>> /\ bObj = None

Next == EnvWrite \/ EnvBusy \/ TickA \/ TickT \/ TickB \/ Poll

\* The engine polls forever and ticks every agent on each poll; writes and
\* A's executor load are the environment.
Fairness == WF_vars(Poll) /\ WF_vars(TickA) /\ WF_vars(TickT) /\ WF_vars(TickB)

Spec == Init /\ [][Next]_vars /\ Fairness

-----------------------------------------------------------------------------
(* Properties.                                                             *)

Write == [kind : {"MESSAGE", "PERCEPT"}, w : 1..MaxWrites]

TypeOK ==
  /\ phase \in 0..(UsPerMs - 1) /\ ran \subseteq Agents
  /\ writes \in 0..MaxWrites /\ aQ \in Seq(Write)
  /\ obj \in [Objects -> 0..MaxWrites] /\ cur \in Objects
  /\ sinceDirty \in 0..RateMs /\ sinceShare \in 0..RateMs
  /\ busy \in BOOLEAN
  /\ tQ \in Seq(Objects) /\ bQ \in Seq(Objects)
  /\ entry \in [obj : Objects \cup {None}, lastNow : BOOLEAN, prevNow : BOOLEAN,
                updated : BOOLEAN]
  /\ bObj \in Objects \cup {None}

\* A has received all its writes and its executor stays done.
Quiet == writes = MaxWrites /\ ~busy

\* Once A is quiet, the team's copy of A's beliefset eventually shows A's
\* last write: processSharedBeliefs flushes a quiet agent's final change.
TeamEventuallyCurrent ==
  <>[]Quiet => <>[](entry.obj # None /\ obj[entry.obj] = obj[cur])

\* Once A is quiet, B eventually holds what the team holds for A: the team
\* relays every entry a SHAREBELIEFSET event has updated.
MemberFollowsTeam ==
  <>[]Quiet => <>[](bObj # None /\ obj[bObj] = obj[entry.obj])
====
