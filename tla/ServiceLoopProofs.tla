-------------------------- MODULE ServiceLoopProofs --------------------------
(***************************************************************************)
(* Theorems about ServiceLoop, for any networks, sessions, number of       *)
(* lookups, queue and faults: what may not be lost on its way from one     *)
(* goroutine to the other, and the types.                                  *)
(***************************************************************************)
EXTENDS ServiceLoop, WellFoundedInduction, TLAPS

\* The flags and counters the goroutines pass on.
Signals ==
  /\ forced \in BOOLEAN /\ forceConfig \in BOOLEAN /\ owed \in BOOLEAN
  /\ wake \in BOOLEAN /\ wakeOwed \in BOOLEAN /\ timers \in Nat
  /\ armed \in BOOLEAN /\ touched \in BOOLEAN /\ blind \in BOOLEAN
  /\ queue \in Nat /\ scm \in Nat

\* A change still on its way to resolveSession.
Pending == scm > 0 \/ queue > 0 \/ armed

\* While the service runs, the user at the machine is the one reported, the
\* one about to be reported, or a change is still on its way; or WTS has not
\* named the users when it was asked last.
Watched ==
  touched /\ proc = "running" =>
    \/ Pending
    \/ watch = "resolving" /\ (got = AtMachine \/ blind)
    \/ watch = "select" /\ (prev = AtMachine \/ blind)

LoopInv == Signals /\ ForceOwed /\ WakeOwed /\ Watched

\* Every action but the ones of the session watch and of the signals.
RoundSteps ==
  \/ FetchOK \/ FetchFails \/ Host \/ Lookup \/ BeginCycle \/ CycleEnds \/ LoopStopped
  \/ StopPresence \/ LoopEnds \/ CyclePanics \/ PresenceEnds
StopSteps == Stop \/ IPCEnds \/ Stopped \/ GiveUp \/ UNCHANGED vars
OtherSteps == LoseNotify \/ Move \/ RefreshInterval \/ DCCacheTTL \/ NotifyWakeThrottle \/ Publish
-----------------------------------------------------------------------------
\* A process that has ended does not come back, and a stop is not taken back.
LEMMA OneLife ==
  ASSUME [Next]_vars
  PROVE  (Alive' => Alive) /\ (proc' = "running" => proc = "running")
<1> USE DEF Alive
<1>1. CASE RunLoop
  BY <1>1 DEF RunLoop, Swap, Refresh, FetchOK, FetchFails, Host, Lookup, BeginCycle, CycleEnds, PollTick,
     Woken, LoopStopped, StopPresence, LoopEnds, Step
<1>2. CASE CyclePanics \/ PresenceEnds \/ HandleNotify \/ TimerFires
  BY <1>2 DEF CyclePanics, PresenceEnds, HandleNotify, TimerFires
<1>3. CASE WatchSessions \/ QueueSessionChange
  BY <1>3 DEF WatchSessions, ReceiveChange, Settled, Resolved, WatchEnds, QueueSessionChange
<1>4. CASE Stop \/ IPCEnds \/ Stopped \/ GiveUp \/ Gone \/ UNCHANGED vars
  BY <1>4 DEF Stop, IPCEnds, Stopped, GiveUp, Gone, vars
<1>5. CASE Publish \/ LoseNotify \/ Move \/ SessionChange \/ RefreshInterval \/ DCCacheTTL \/ NotifyWakeThrottle
  BY <1>5 DEF Publish, LoseNotify, Move, SessionChange, RefreshInterval, DCCacheTTL, NotifyWakeThrottle
<1> QED BY <1>1, <1>2, <1>3, <1>4, <1>5 DEF Next

\* The three ways Next is read below: the steps that touch none of the
\* signals, and the others one by one.
LEMMA Steps ==
  ASSUME [Next]_vars
  PROVE  \/ RoundSteps \/ StopSteps \/ OtherSteps
         \/ Swap \/ Refresh \/ PollTick \/ Woken \/ HandleNotify \/ TimerFires
         \/ WatchSessions \/ QueueSessionChange \/ SessionChange
  BY DEF Next, RunLoop, RoundSteps, StopSteps, OtherSteps, Gone

\* A round, a stop and the environment leave the signals alone, and none of
\* them leaves "refresh".
LEMMA Quiet ==
  ASSUME RoundSteps \/ StopSteps \/ OtherSteps
  PROVE  /\ UNCHANGED <<forced, forceConfig, owed, wake, wakeOwed, timers, touched, scm>>
         /\ UNCHANGED <<armed, queue, watch, got, prev, sessions, console, blind>>
         /\ loop = "refresh" => loop' = loop
<1>1. CASE RoundSteps
  BY <1>1 DEF RoundSteps, FetchOK, FetchFails, Host, Lookup, BeginCycle, CycleEnds, LoopStopped, StopPresence,
     LoopEnds, CyclePanics, PresenceEnds, Step, loopVars, wakeVars, watchVars, world, history
<1>2. CASE StopSteps
  BY <1>2 DEF StopSteps, Stop, IPCEnds, Stopped, GiveUp, vars, loopVars, wakeVars, watchVars, world, history
<1>3. CASE OtherSteps
  BY <1>3 DEF OtherSteps, LoseNotify, Move, RefreshInterval, DCCacheTTL, NotifyWakeThrottle, Publish,
     loopVars, wakeVars, watchVars, world, history
<1> QED BY <1>1, <1>2, <1>3

\* The session watch leaves the loop and its signals alone.
LEMMA WatchQuiet ==
  ASSUME WatchSessions \/ QueueSessionChange \/ SessionChange
  PROVE  UNCHANGED <<loop, forced, forceConfig, owed, wake, wakeOwed, timers>>
  BY DEF WatchSessions, ReceiveChange, Settled, Resolved, WatchEnds, QueueSessionChange, SessionChange,
     loopVars, wakeVars, world, history

\* ... and the loop and the notifies leave the session watch alone.
LEMMA LoopQuiet ==
  ASSUME Swap \/ Refresh \/ PollTick \/ Woken \/ HandleNotify \/ TimerFires
  PROVE  UNCHANGED <<touched, scm, armed, queue, watch, got, prev, sessions, console, blind>>
  BY DEF Swap, Refresh, PollTick, Woken, HandleNotify, TimerFires, watchVars, world, history
-----------------------------------------------------------------------------
LEMMA LoopInit == Init => LoopInv
<1> SUFFICES ASSUME Init PROVE LoopInv OBVIOUS
<1>1. Signals BY DEF Init, Signals
<1>2. ForceOwed /\ WakeOwed BY DEF Init, ForceOwed, WakeOwed
<1>3. Watched BY DEF Init, Watched
<1> QED BY <1>1, <1>2, <1>3 DEF LoopInv

LEMMA SignalsKept == ASSUME Signals, [Next]_vars PROVE Signals'
<1>1. CASE RoundSteps \/ StopSteps \/ OtherSteps BY <1>1, Quiet DEF Signals
<1>2. CASE Swap BY <1>2, LoopQuiet DEF Signals, Swap, history
<1>3. CASE Refresh BY <1>3, LoopQuiet DEF Signals, Refresh, wakeVars
<1>4. CASE PollTick BY <1>4, LoopQuiet DEF Signals, PollTick, wakeVars
<1>5. CASE Woken BY <1>5, LoopQuiet DEF Signals, Woken
<1>6. CASE HandleNotify
  <2>1. /\ UNCHANGED <<forced, wake>> /\ forceConfig' \in BOOLEAN /\ owed' \in BOOLEAN
        /\ \/ timers' = timers + 1 /\ wakeOwed' = TRUE
           \/ UNCHANGED <<timers, wakeOwed>>
    BY <1>6 DEF HandleNotify, loopVars
  <2>2. timers' \in Nat BY <2>1 DEF Signals
  <2>3. wakeOwed' \in BOOLEAN BY <2>1 DEF Signals
  <2> QED BY <1>6, <2>1, <2>2, <2>3, LoopQuiet DEF Signals
<1>7. CASE TimerFires BY <1>7, LoopQuiet DEF Signals, TimerFires, loopVars, history
<1>8. CASE WatchSessions
  <2>1. UNCHANGED <<scm, touched>>
    BY <1>8 DEF WatchSessions, ReceiveChange, Settled, Resolved, WatchEnds, world, history
  <2>2. queue' \in Nat
    BY <1>8 DEF Signals, WatchSessions, ReceiveChange, Settled, Resolved, WatchEnds
  <2>3. armed' \in BOOLEAN
    BY <1>8 DEF Signals, WatchSessions, ReceiveChange, Settled, Resolved, WatchEnds
  <2>4. blind' \in BOOLEAN
    BY <1>8 DEF Signals, WatchSessions, ReceiveChange, Settled, Resolved, WatchEnds, history
  <2> QED BY <1>8, <2>1, <2>2, <2>3, <2>4, WatchQuiet DEF Signals
<1>9. CASE QueueSessionChange BY <1>9, WatchQuiet DEF Signals, QueueSessionChange, history
<1>10. CASE SessionChange
  <2>1. scm' = scm + 1 /\ touched' = TRUE /\ UNCHANGED <<armed, queue, blind>>
    BY <1>10 DEF SessionChange, watchVars
  <2> QED BY <1>10, <2>1, WatchQuiet DEF Signals
<1> QED BY <1>1, <1>2, <1>3, <1>4, <1>5, <1>6, <1>7, <1>8, <1>9, <1>10, Steps

\* The Swap moves the request from forceConfig into the round that is about to
\* fetch; only the beginning of that fetch settles it.
LEMMA ForceKept == ASSUME Signals, ForceOwed, [Next]_vars PROVE ForceOwed'
<1> USE DEF ForceOwed
<1>1. Alive' => Alive BY OneLife
<1>2. CASE RoundSteps \/ StopSteps \/ OtherSteps BY <1>1, <1>2, Quiet
<1>3. CASE WatchSessions \/ QueueSessionChange \/ SessionChange BY <1>1, <1>3, WatchQuiet
<1>4. CASE Swap BY <1>1, <1>4 DEF Swap, Step, history
<1>5. CASE Refresh BY <1>1, <1>5 DEF Refresh, Step, FetchDue, wakeVars
<1>6. CASE PollTick \/ Woken BY <1>1, <1>6 DEF PollTick, Woken, Step, wakeVars
<1>7. CASE HandleNotify BY <1>1, <1>7 DEF HandleNotify, Forces, loopVars
<1>8. CASE TimerFires BY <1>1, <1>8 DEF TimerFires, loopVars, history
<1> QED BY <1>2, <1>3, <1>4, <1>5, <1>6, <1>7, <1>8, Steps

\* A timer that fires leaves a token, and only the loop takes a token.
LEMMA WakeKept == ASSUME Signals, WakeOwed, [Next]_vars PROVE WakeOwed'
<1> USE DEF WakeOwed, Signals
<1>1. Alive' => Alive BY OneLife
<1>2. CASE RoundSteps \/ StopSteps \/ OtherSteps BY <1>1, <1>2, Quiet
<1>3. CASE WatchSessions \/ QueueSessionChange \/ SessionChange BY <1>1, <1>3, WatchQuiet
<1>4. CASE Swap \/ Refresh BY <1>1, <1>4 DEF Swap, Refresh, wakeVars, history
<1>5. CASE PollTick \/ Woken BY <1>5 DEF PollTick, Woken
<1>6. CASE HandleNotify
  <2>1. wake' = wake /\ (timers' = timers + 1 \/ UNCHANGED <<timers, wakeOwed>>)
    BY <1>6 DEF HandleNotify
  <2>2. CASE timers' = timers + 1
    <3>1. timers' > 0 BY <2>2
    <3> QED BY <3>1
  <2>3. CASE UNCHANGED <<timers, wakeOwed>> BY <1>1, <2>1, <2>3
  <2> QED BY <2>1, <2>2, <2>3
<1>7. CASE TimerFires BY <1>7 DEF TimerFires, WakeSent
<1> QED BY <1>2, <1>3, <1>4, <1>5, <1>6, <1>7, Steps

\* A change that finds the queue full is dropped behind others that are still
\* to be received; one that comes while WTS is asked stays in the queue.
LEMMA WatchedKept == ASSUME Signals, Watched, [Next]_vars PROVE Watched'
<1> USE LoopAssumption DEF Watched, Pending, Signals
<1>1. proc' = "running" => proc = "running" BY OneLife
<1>2. UNCHANGED <<sessions, console>> => AtMachine' = AtMachine BY DEF AtMachine, PickSession, With
<1>3. CASE RoundSteps \/ StopSteps \/ OtherSteps BY <1>1, <1>2, <1>3, Quiet
<1>4. CASE Swap \/ Refresh \/ PollTick \/ Woken \/ HandleNotify \/ TimerFires BY <1>1, <1>2, <1>4, LoopQuiet
<1>5. CASE ReceiveChange BY <1>5 DEF ReceiveChange
<1>6. CASE Settled
  <2>1. PICK read \in SUBSET Ids : got' = PickSession(read) /\ blind' = (read # Ids)
    BY <1>6 DEF Settled
  <2>2. got' = AtMachine \/ blind' BY <2>1 DEF AtMachine
  <2>3. watch' = "resolving" /\ UNCHANGED <<sessions, console>> BY <1>6 DEF Settled
  <2> QED BY <1>2, <2>2, <2>3
<1>7. CASE Resolved BY <1>1, <1>2, <1>7 DEF Resolved, world, history
<1>8. CASE WatchEnds BY <1>8 DEF WatchEnds
<1>9. CASE QueueSessionChange
  <2>1. queue' > 0 BY <1>9 DEF QueueSessionChange, QueueRoom
  <2> QED BY <2>1
<1>10. CASE SessionChange
  <2>1. scm' > 0 BY <1>10 DEF SessionChange
  <2> QED BY <2>1
<1> QED BY <1>3, <1>4, <1>5, <1>6, <1>7, <1>8, <1>9, <1>10, Steps DEF WatchSessions

\* The inductive invariant of the signals between the goroutines.
THEOREM SignalsInvariant == Spec => []LoopInv
<1>1. LoopInv /\ [Next]_vars => LoopInv'
  BY SignalsKept, ForceKept, WakeKept, WatchedKept DEF LoopInv
<1> QED BY <1>1, LoopInit, PTL DEF Spec

\* An announced revision is fetched for: no interleaving of handleNotify with
\* the Swap, the fetch and the throttle loses forceConfig.
THEOREM AnnouncedIsForced == Spec => []ForceOwed
  BY SignalsInvariant, PTL DEF LoopInv

\* An allowed wake-up is a timer or a token until the loop leaves its wait
\* (scheduleWake, RunLoop).
THEOREM WakeupsStay == Spec => []WakeOwed
  BY SignalsInvariant, PTL DEF LoopInv

\* For any queue with room for one change, any number of changes and any failures
\* of WTS, the user reported last is the one at the machine once the watch is at
\* rest, unless WTS failed at the last of its questions (queueSessionChange,
\* watchSessions, LoggedUser).
THEOREM LastUserReported == Spec => []SessionsSettle
<1>1. LoopInv => SessionsSettle BY DEF LoopInv, Signals, Watched, Pending, SessionsSettle
<1> QED BY <1>1, SignalsInvariant, PTL
-----------------------------------------------------------------------------
(* Types.  What is not plain to see is that pickSession names a session of *)
(* the machine: the first of several is the least of a set of numbers.     *)

\* The session ids that Windows hands out have a least one.
LEMMA FirstOfThem ==
  ASSUME NEW S \in SUBSET Ids, S # {}
  PROVE  FirstOf(S) \in S
<1>1. S \subseteq Nat BY LoopAssumption
<1> DEFINE R == OpToRel(<, Nat)
<1>2. PICK i \in S : \A j \in S : <<j, i>> \notin R
  <2>1. IsWellFoundedOn(R, Nat) BY NatLessThanWellFounded DEF OpToRel
  <2> HIDE DEF R
  <2> QED BY <1>1, <2>1, WFMin
<1>3. \A j \in S : i <= j
  <2>1. \A j \in S : ~(j < i) BY <1>1, <1>2 DEF OpToRel
  <2> QED BY <1>1, <2>1
<1> QED BY <1>3 DEF FirstOf

LEMMA PickSessionType == ASSUME TypeOK, NEW read \in SUBSET Ids PROVE PickSession(read) \in UserSessions
<1> DEFINE active == With(read, "active")
           left == With(read, "disconnected")
<1>1. active \in SUBSET Ids /\ left \in SUBSET Ids BY DEF With
<1> HIDE DEF active, left
<1>2. PickSession(read) =
        CASE console \in active -> [id |-> console, state |-> "active-console"]
          [] console \notin active /\ active # {} -> [id |-> FirstOf(active), state |-> "active-rdp"]
          [] active = {} /\ left # {} -> [id |-> FirstOf(left), state |-> "disconnected"]
          [] OTHER -> Nobody
  BY DEF PickSession, active, left
<1>3. CASE console \in active BY <1>1, <1>2, <1>3 DEF UserSessions
<1>4. CASE console \notin active /\ active # {} BY <1>1, <1>2, <1>4, FirstOfThem DEF UserSessions
<1>5. CASE active = {} /\ left # {} BY <1>1, <1>2, <1>5, FirstOfThem DEF UserSessions
<1>6. CASE active = {} /\ left = {} BY <1>2, <1>6 DEF UserSessions
<1> QED BY <1>3, <1>4, <1>5, <1>6

LEMMA SiteType ==
  ASSUME NEW a \in Places, NEW b \in Places, NEW c \in BOOLEAN
  PROVE  [ip |-> a, dc |-> b, old |-> c] \in [ip : Places, dc : Places, old : BOOLEAN]
  OBVIOUS

LEMMA TypeKept == ASSUME TypeOK, [Next]_vars PROVE TypeOK'
<1>p. \A read \in SUBSET Ids : PickSession(read) \in UserSessions BY PickSessionType
<1> USE LoopAssumption DEF TypeOK, Step, Spend, Spendings, loopVars, policyVars, siteVars, wakeVars, watchVars, world, history
<1>1. CASE Swap BY <1>1 DEF Swap
<1>2. CASE Refresh BY <1>2 DEF Refresh
<1>3. CASE FetchOK BY <1>3 DEF FetchOK
<1>4. CASE FetchFails BY <1>4 DEF FetchFails
<1>5. CASE Host BY <1>5 DEF Host
<1>6. CASE Lookup
  <2>1. Actual \in Places BY DEF Actual, NoDC
  <2>2. site' = site \/ site' = [ip |-> seen, dc |-> Actual, old |-> FALSE] BY <1>6 DEF Lookup
  <2>t. site' \in [ip : Places, dc : Places, old : BOOLEAN]
    <3>1. [ip |-> seen, dc |-> Actual, old |-> FALSE] \in [ip : Places, dc : Places, old : BOOLEAN]
      BY <2>1, SiteType
    <3> QED BY <2>2, <3>1
  <2>3. tries' \in 0 .. Attempts BY <1>6 DEF Lookup, Retry
  <2> QED BY <1>6, <2>3, <2>t DEF Lookup
<1>7. CASE BeginCycle BY <1>7 DEF BeginCycle
<1>8. CASE CycleEnds BY <1>8 DEF CycleEnds
<1>9. CASE PollTick BY <1>9 DEF PollTick
<1>10. CASE Woken BY <1>10 DEF Woken
<1>11. CASE LoopStopped BY <1>11 DEF LoopStopped
<1>12. CASE StopPresence BY <1>12 DEF StopPresence, Cancelled
<1>13. CASE LoopEnds BY <1>13 DEF LoopEnds
<1>14. CASE CyclePanics BY <1>14 DEF CyclePanics
<1>15. CASE PresenceEnds BY <1>15 DEF PresenceEnds
<1>16. CASE ReceiveChange BY <1>16 DEF ReceiveChange
<1>17. CASE Settled
  <2>1. got' \in UserSessions BY <1>17, <1>p DEF Settled
  <2>2. blind' \in BOOLEAN BY <1>17 DEF Settled
  <2>3. budget' \in [Spendings -> Nat] BY <1>17 DEF Settled
  <2>4. watch' \in {"select", "resolving", "off"} /\ armed' \in BOOLEAN BY <1>17 DEF Settled
  <2>5. UNCHANGED <<proc, loopVars, policyVars, siteVars, cur, wakeVars, presence, ipc, prev, queue, published,
                    mail, net, sessions, console, scm, owed, wakeOwed, touched>>
    BY <1>17 DEF Settled
  <2> QED BY <2>1, <2>2, <2>3, <2>4, <2>5
<1>18. CASE Resolved BY <1>18 DEF Resolved, UserSessions
<1>19. CASE WatchEnds BY <1>19 DEF WatchEnds
<1>20. CASE HandleNotify
  <2>1. mail' \subseteq mail BY <1>20 DEF HandleNotify
  <2>2. forceConfig' \in BOOLEAN /\ owed' \in BOOLEAN BY <1>20 DEF HandleNotify
  <2>3. \/ timers' = timers + 1 /\ throttled' = TRUE /\ wakeOwed' = TRUE
        \/ UNCHANGED <<timers, throttled, wakeOwed>>
    BY <1>20 DEF HandleNotify
  <2>4. timers' \in Nat BY <2>3
  <2>5. throttled' \in BOOLEAN /\ wakeOwed' \in BOOLEAN BY <2>3
  <2>6. mail' \subseteq Messages BY <2>1
  <2> QED BY <1>20, <2>2, <2>4, <2>5, <2>6 DEF HandleNotify
<1>21. CASE TimerFires BY <1>21 DEF TimerFires
<1>22. CASE QueueSessionChange BY <1>22 DEF QueueSessionChange, QueueRoom
<1>23. CASE Stop BY <1>23 DEF Stop
<1>24. CASE IPCEnds BY <1>24 DEF IPCEnds
<1>25. CASE Stopped BY <1>25 DEF Stopped
<1>26. CASE GiveUp BY <1>26 DEF GiveUp
<1>27. CASE Publish BY <1>27 DEF Publish, Mail, Messages
<1>28. CASE LoseNotify BY <1>28 DEF LoseNotify
<1>29. CASE Move BY <1>29 DEF Move
<1>30. CASE SessionChange BY <1>30 DEF SessionChange
<1>31. CASE RefreshInterval BY <1>31 DEF RefreshInterval
<1>32. CASE DCCacheTTL BY <1>32 DEF DCCacheTTL
<1>33. CASE NotifyWakeThrottle
  <2>1. throttled' \in BOOLEAN BY <1>33 DEF NotifyWakeThrottle
  <2> QED BY <1>33, <2>1 DEF NotifyWakeThrottle
<1>34. CASE UNCHANGED vars BY <1>34 DEF vars
<1> QED BY <1>1, <1>2, <1>3, <1>4, <1>5, <1>6, <1>7, <1>8, <1>9, <1>10, <1>11, <1>12, <1>13, <1>14, <1>15, <1>16, <1>17, <1>18, <1>19, <1>20, <1>21, <1>22, <1>23, <1>24, <1>25, <1>26, <1>27, <1>28, <1>29, <1>30, <1>31, <1>32, <1>33, <1>34 DEF Next, RunLoop, WatchSessions, Gone

\* Every goroutine of the service stays within its states, a lookup never runs
\* out of its attempts below zero, the queue never holds more than its capacity,
\* and the session that is reported is one of the machine's (resolveDC,
\* queueSessionChange, pickSession).
THEOREM LoopTypeCorrect == Spec => []TypeOK
<1>1. Init => TypeOK
  <2> SUFFICES ASSUME Init PROVE TypeOK OBVIOUS
  <2>1. site \in [ip : Places, dc : Places, old : BOOLEAN]
    BY LoopAssumption, SiteType DEF Init, NoDC
  <2>2. /\ cur \in [rev : Nat, ip : Places, dc : Places]
        /\ net \in [ip : Places, ready : BOOLEAN]
    BY LoopAssumption DEF Init, NoDC
  <2>3. {got, prev} \subseteq UserSessions BY DEF Init, UserSessions
  <2>4. budget \in [Spendings -> Nat] BY LoopAssumption DEF Init
  <2>5. tries \in 0 .. Attempts /\ queue \in 0 .. QueueCap BY LoopAssumption DEF Init
  <2>6. sessions \in [Ids -> {"empty", "active", "disconnected"}] BY DEF Init
  <2>7. {policy, published, timers, scm} \subseteq Nat /\ mail \subseteq Messages BY DEF Init
  <2> QED BY <2>1, <2>2, <2>3, <2>4, <2>5, <2>6, <2>7, LoopAssumption DEF Init, TypeOK
<1>2. TypeOK /\ [Next]_vars => TypeOK' BY TypeKept
<1> QED BY <1>1, <1>2, PTL DEF Spec
==============================================================================
