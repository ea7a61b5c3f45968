------------------------- MODULE ClientEventsProofs -------------------------
(***************************************************************************)
(* Theorems about ClientEvents, for any number of connections, events and  *)
(* emissions and any buffer size.                                          *)
(***************************************************************************)
EXTENDS ClientEvents, TLAPS, FiniteSetTheorems, FunctionTheorems, SequenceTheorems

\* Where a burst is once it has dealt with service.started.
Past == BurstPCs \ {"none", "swap", "started"}

Shape ==
  /\ wsGen \in Gens \cup {None}
  /\ wsSession \in Gens \cup {None}
  /\ live \in Gens \cup {None}
  /\ open \in BOOLEAN /\ welcomed \in BOOLEAN
  /\ startedSent \in BOOLEAN /\ lapped \in BOOLEAN /\ declined \in BOOLEAN
  /\ refused \in [Gens -> SUBSET (Events \cup {Started})]
  /\ burst \in [Gens -> BurstPCs]
  /\ emitter \in [Emitters -> [pc : {"idle", "send", "buffer"}, ev : Events \cup {None},
                               sess : Gens \cup {None}]]
  /\ starts \in {0, 1}

\* A generation is current exactly while Run is running, and a burst of the
\* current one means that it was welcomed.
Held ==
  /\ open <=> wsGen # None
  /\ \A g \in Gens : burst[g] # "none" /\ g = wsGen => welcomed

\* startedSent is set by the one burst that is writing service.started, by the
\* write that succeeded, or for good by a server that did not accept it.
OneWriter ==
  /\ \A g, h \in Gens : burst[g] = "started" /\ burst[h] = "started" => g = h
  /\ startedSent <=> (starts = 1 \/ declined \/ \E g \in Gens : burst[g] = "started")
  /\ starts = 1 \/ declined => \A g \in Gens : burst[g] # "started"

\* Whoever may still write an event on the live connection comes after
\* service.started, or after one of the cases that StartedFirst excepts.
Cleared == starts = 1 \/ lapped \/ declined \/ Started \in TooLarge
Behind ==
  /\ \A g \in Gens : g = live /\ burst[g] \in Past => Cleared
  /\ wsSession # None /\ wsSession = live => Cleared
  /\ \A e \in Emitters : emitter[e].sess # None /\ emitter[e].sess = live => Cleared

EventsInv == Shape /\ Held /\ SessionCurrent /\ OneWriter /\ Behind /\ StartedFirst
-----------------------------------------------------------------------------
\* The initial state: nothing is open, written or published.
LEMMA InvInit == Init => EventsInv
<1> SUFFICES ASSUME Init PROVE EventsInv OBVIOUS
<1> USE EventsAssumption DEF Init
<1>1. Shape BY DEF Shape, BurstPCs, Idle
<1>2. Held BY DEF Held
<1>3. SessionCurrent BY DEF SessionCurrent
<1>4. OneWriter BY DEF OneWriter
<1>5. Behind BY DEF Behind, Past, Idle
<1>6. StartedFirst BY DEF StartedFirst, Overtaken
<1> QED BY <1>1, <1>2, <1>3, <1>4, <1>5, <1>6 DEF EventsInv

\* An event is counted as delivered only behind service.started, so that
\* a step may count one whenever the invariant lets it.
LEMMA FirstKept ==
  ASSUME EventsInv, starts' \in {0, 1}, lapped => lapped', declined => declined', starts' >= starts,
         delivered' = delivered \/ Cleared'
  PROVE  StartedFirst'
  BY DEF EventsInv, StartedFirst, Overtaken, Cleared, Shape

LEMMA OpenInv == ASSUME EventsInv, Open PROVE EventsInv'
<1> USE EventsAssumption DEF Open, EventsInv, history, bursts, dedupe
<1>1. Shape' BY DEF Shape
<1>2. Held' BY DEF Shape, Held
<1>3. SessionCurrent' BY DEF SessionCurrent
<1>4. OneWriter' BY DEF OneWriter
<1>5. Behind' BY DEF Behind, Cleared, Past, Shape, SessionCurrent
<1>6. StartedFirst' BY DEF StartedFirst, Overtaken
<1> QED BY <1>1, <1>2, <1>3, <1>4, <1>5, <1>6

LEMMA WelcomeInv == ASSUME EventsInv, Welcome PROVE EventsInv'
<1> USE EventsAssumption DEF Welcome, EventsInv, history, dedupe
<1>0. wsGen \in Gens BY DEF Held, Shape
<1>1. Shape' BY <1>0 DEF Shape, BurstPCs
<1>2. Held' BY DEF Shape, Held
<1>3. SessionCurrent' BY DEF SessionCurrent
<1>4. OneWriter'
  <2>1. burst[wsGen] = "none" BY <1>0 DEF Held, Shape
  <2> QED BY <1>0, <2>1 DEF OneWriter, Shape
<1>5. Behind' BY <1>0 DEF Behind, Cleared, Past, Shape
<1>6. StartedFirst' BY DEF StartedFirst, Overtaken
<1> QED BY <1>1, <1>2, <1>3, <1>4, <1>5, <1>6

LEMMA DropInv == ASSUME EventsInv, Drop PROVE EventsInv'
<1> USE EventsAssumption DEF Drop, EventsInv, history, bursts, dedupe
<1>1. Shape' BY DEF Shape
<1>2. Held' BY DEF Held
<1>3. SessionCurrent' BY DEF SessionCurrent
<1>4. OneWriter' BY DEF OneWriter
<1>5. Behind' BY DEF Behind
<1>6. StartedFirst' BY DEF StartedFirst, Overtaken
<1> QED BY <1>1, <1>2, <1>3, <1>4, <1>5, <1>6

LEMMA ClearInv == ASSUME EventsInv, Clear PROVE EventsInv'
<1> USE EventsAssumption DEF Clear, RetiredGen, EventsInv, history, bursts, dedupe
<1>1. Shape' BY DEF Shape
<1>2. Held' BY DEF Held
<1>3. SessionCurrent' BY DEF SessionCurrent
<1>4. OneWriter' BY DEF OneWriter
<1>5. Behind' BY DEF Behind, Cleared
<1>6. StartedFirst' BY DEF StartedFirst, Overtaken
<1> QED BY <1>1, <1>2, <1>3, <1>4, <1>5, <1>6

\* emit takes the session it will write on from wsSession.
LEMMA EmitInv ==
  ASSUME EventsInv, NEW e \in Emitters, NEW k \in Events, Emit(e, k)
  PROVE  EventsInv'
<1> USE EventsAssumption DEF Emit, EventsInv, conn, bursts
<1>1. Shape' BY DEF Shape
<1>2. Held' BY DEF Held
<1>3. SessionCurrent' BY DEF SessionCurrent
<1>4. OneWriter' BY DEF OneWriter
<1>5. Behind' BY DEF Behind, Cleared, Shape
<1>6. StartedFirst' BY DEF StartedFirst, Overtaken
<1> QED BY <1>1, <1>2, <1>3, <1>4, <1>5, <1>6

LEMMA EmitSendInv ==
  ASSUME EventsInv, NEW e \in Emitters, EmitSend(e)
  PROVE  EventsInv'
<1> USE EventsAssumption DEF EmitSend, EventsInv, WriteOK, WriteFails, bursts, dedupe
<1>1. Shape' BY DEF Shape, Idle
<1>2. Held' BY DEF Held
<1>3. SessionCurrent' BY DEF SessionCurrent
<1>4. OneWriter' BY DEF OneWriter
<1>5. Behind' BY DEF Behind, Cleared, Shape, Idle
<1>6. delivered' = delivered \/ Cleared' BY DEF Behind, Cleared, Shape
<1>7. StartedFirst' BY <1>1, <1>6, FirstKept DEF Shape
<1> QED BY <1>1, <1>2, <1>3, <1>4, <1>5, <1>7

LEMMA EmitBufferInv ==
  ASSUME EventsInv, NEW e \in Emitters, EmitBuffer(e)
  PROVE  EventsInv'
<1> USE EventsAssumption DEF EmitBuffer, EventsInv, conn, bursts, dedupe
<1>1. Shape' BY DEF Shape, Idle
<1>2. Held' BY DEF Held
<1>3. SessionCurrent' BY DEF SessionCurrent
<1>4. OneWriter' BY DEF OneWriter
<1>5. Behind' BY DEF Behind, Cleared, Shape, Idle
<1>6. StartedFirst' BY DEF StartedFirst, Overtaken
<1> QED BY <1>1, <1>2, <1>3, <1>4, <1>5, <1>6

\* The compare-and-swap: a burst goes on to write service.started only when
\* nobody has written it or is writing it.
LEMMA SwapInv == ASSUME EventsInv, NEW g \in Gens, Swap(g) PROVE EventsInv'
<1> USE EventsAssumption DEF Swap, Step, Unsent, EventsInv, conn, dedupe
<1>1. Shape' BY DEF Shape, BurstPCs
<1>2. Held' BY DEF Held, Shape
<1>3. SessionCurrent' BY DEF SessionCurrent
<1>4. OneWriter' BY DEF OneWriter, Shape, BurstPCs
<1>5. Behind' BY DEF Behind, Cleared, Past, Shape, OneWriter, BurstPCs
<1>6. StartedFirst' BY DEF StartedFirst, Overtaken
<1> QED BY <1>1, <1>2, <1>3, <1>4, <1>5, <1>6

\* A write that fails takes startedSent back, and closes the connection: the
\* rest of the burst writes nothing.
LEMMA SendStartedInv == ASSUME EventsInv, NEW g \in Gens, SendStarted(g) PROVE EventsInv'
<1> USE EventsAssumption DEF EventsInv
<1>0. starts = 0 /\ startedSent /\ ~declined BY DEF SendStarted, Step, OneWriter, Shape
<1>1. /\ burst[g] = "started" /\ burst' = [burst EXCEPT ![g] = "take1"]
      /\ UNCHANGED <<wsGen, wsSession, open, welcomed, refused, emitter, delivered, lapped>>
  BY DEF SendStarted, Step
<1>2. \/ g = live /\ live' = live /\ starts' = 1 /\ startedSent' /\ ~declined'
      \/ live' # g /\ live' \in {live, None} /\ starts' = 0 /\ ~startedSent' /\ ~declined'
      \/ live' = live /\ starts' = 0 /\ startedSent' /\ declined'
      \/ live' = live /\ starts' = 0 /\ ~startedSent' /\ ~declined' /\ Started \in TooLarge
  <2>1. CASE WriteOK(g) /\ starts' = starts + 1 /\ UNCHANGED <<startedSent, declined>>
    BY <1>0, <2>1 DEF WriteOK
  <2>2. CASE WriteFails(g) /\ startedSent' = FALSE /\ UNCHANGED <<starts, declined>>
    BY <1>0, <2>2 DEF WriteFails
  <2>3. CASE declined' = TRUE /\ UNCHANGED <<live, startedSent, starts>>
    BY <1>0, <2>3
  <2>4. CASE Started \in TooLarge /\ startedSent' = FALSE /\ UNCHANGED <<live, starts, declined>>
    BY <1>0, <2>4
  <2> QED BY <2>1, <2>2, <2>3, <2>4 DEF SendStarted, StartedAfterFailure
<1>3. startedSent' \in BOOLEAN /\ declined' \in BOOLEAN
  BY <1>0 DEF SendStarted, StartedAfterFailure, Shape
<1>4. Shape' BY <1>1, <1>2, <1>3 DEF Shape, BurstPCs
<1>5. Held' BY <1>1 DEF Held, Shape
<1>6. SessionCurrent' BY <1>1 DEF SessionCurrent
<1>7. OneWriter'
  <2>1. \A h \in Gens : burst'[h] # "started" BY <1>1 DEF OneWriter, Shape
  <2> QED BY <1>2, <2>1 DEF OneWriter
<1>8. Behind'
  <2>1. CASE starts' = 1 \/ declined' \/ Started \in TooLarge BY <2>1 DEF Behind, Cleared
  <2>2. CASE live' # g /\ live' \in {live, None}
    <3>1. \A h \in Gens : h = live' => h = live /\ burst'[h] = burst[h] BY <1>1, <2>2 DEF Shape
    <3>2. Cleared => Cleared' BY <1>0, <1>1 DEF Cleared
    <3> QED BY <1>1, <2>2, <3>1, <3>2 DEF Behind
  <2> QED BY <1>2, <2>1, <2>2
<1>9. StartedFirst' BY <1>0, <1>1, <1>2 DEF StartedFirst, Overtaken
<1> QED BY <1>4, <1>5, <1>6, <1>7, <1>8, <1>9

\* The other steps of a burst leave service.started alone.
LEMMA TakeInv == ASSUME EventsInv, NEW g \in Gens, Take(g) PROVE EventsInv'
<1> USE EventsAssumption DEF Take, Step, EventsInv, conn, dedupe, history
<1>1. Shape' BY DEF Shape, BurstPCs
<1>2. Held' BY DEF Held, Shape
<1>3. SessionCurrent' BY DEF SessionCurrent
<1>4. OneWriter' BY DEF OneWriter, Shape, BurstPCs
<1>5. Behind' BY DEF Behind, Cleared, Past, Shape, BurstPCs
<1>6. StartedFirst' BY DEF StartedFirst, Overtaken
<1> QED BY <1>1, <1>2, <1>3, <1>4, <1>5, <1>6

LEMMA FlushOneInv == ASSUME EventsInv, NEW g \in Gens, FlushOne(g) PROVE EventsInv'
<1> USE EventsAssumption DEF FlushOne, Flushing, AfterFlush, EventsInv, WriteOK, WriteFails, dedupe
<1>1. Shape' BY DEF Shape, BurstPCs
<1>2. Held' BY DEF Held, Shape
<1>3. SessionCurrent' BY DEF SessionCurrent
<1>4. OneWriter' BY DEF OneWriter, Shape, BurstPCs
<1>5. Behind' BY DEF Behind, Cleared, Past, Shape, BurstPCs
<1>6. delivered' = delivered \/ Cleared' BY DEF Behind, Cleared, Past, Shape, BurstPCs
<1>7. StartedFirst' BY <1>1, <1>6, FirstKept DEF Shape
<1> QED BY <1>1, <1>2, <1>3, <1>4, <1>5, <1>7

LEMMA FlushDoneInv == ASSUME EventsInv, NEW g \in Gens, FlushDone(g) PROVE EventsInv'
<1> USE EventsAssumption DEF FlushDone, Flushing, AfterFlush, EventsInv, conn, dedupe, history
<1>1. Shape' BY DEF Shape, BurstPCs
<1>2. Held' BY DEF Held, Shape
<1>3. SessionCurrent' BY DEF SessionCurrent
<1>4. OneWriter' BY DEF OneWriter, Shape, BurstPCs
<1>5. Behind' BY DEF Behind, Cleared, Past, Shape, BurstPCs
<1>6. StartedFirst' BY DEF StartedFirst, Overtaken
<1> QED BY <1>1, <1>2, <1>3, <1>4, <1>5, <1>6

\* A session is published by the burst of the current connection only, and
\* that connection was welcomed.
LEMMA StoreInv == ASSUME EventsInv, NEW g \in Gens, Store(g) PROVE EventsInv'
<1> USE EventsAssumption DEF Store, Step, MayPublish, EventsInv, dedupe, history
<1>1. Shape' BY DEF Shape, BurstPCs
<1>2. Held' BY DEF Held, Shape
<1>3. SessionCurrent' BY DEF SessionCurrent, Held
<1>4. OneWriter' BY DEF OneWriter, Shape, BurstPCs
<1>5. Behind' BY DEF Behind, Cleared, Past, Shape, BurstPCs
<1>6. StartedFirst' BY DEF StartedFirst, Overtaken
<1> QED BY <1>1, <1>2, <1>3, <1>4, <1>5, <1>6

LEMMA InfoInv == ASSUME EventsInv, NEW g \in Gens, Info(g) PROVE EventsInv'
<1> USE EventsAssumption DEF Info, Step, EventsInv, WriteOK, WriteFails, dedupe, history
<1>1. Shape' BY DEF Shape, BurstPCs
<1>2. Held' BY DEF Held, Shape
<1>3. SessionCurrent' BY DEF SessionCurrent
<1>4. OneWriter' BY DEF OneWriter, Shape, BurstPCs
<1>5. Behind' BY DEF Behind, Cleared, Past, Shape, BurstPCs
<1>6. StartedFirst' BY DEF StartedFirst, Overtaken
<1> QED BY <1>1, <1>2, <1>3, <1>4, <1>5, <1>6

LEMMA StutterInv == ASSUME EventsInv, UNCHANGED vars PROVE EventsInv'
  BY DEF EventsInv, Shape, Held, SessionCurrent, OneWriter, Behind, Cleared, StartedFirst, Overtaken,
         vars, conn, bursts, dedupe, history

\* The inductive invariant holds in every behaviour of emit, the bursts and
\* the supervisor.
THEOREM EventsInvariant == Spec => []EventsInv
<1>1. EventsInv /\ [Next]_vars => EventsInv'
  <2> SUFFICES ASSUME EventsInv, [Next]_vars PROVE EventsInv' OBVIOUS
  <2>1. CASE Open BY <2>1, OpenInv
  <2>2. CASE Welcome BY <2>2, WelcomeInv
  <2>3. CASE Drop BY <2>3, DropInv
  <2>4. CASE Clear BY <2>4, ClearInv
  <2>5. CASE \E e \in Emitters, k \in Events : Emit(e, k) BY <2>5, EmitInv
  <2>6. CASE \E e \in Emitters : Emission(e) BY <2>6, EmitSendInv, EmitBufferInv DEF Emission
  <2>7. CASE \E g \in Gens : Burst(g)
    BY <2>7, SwapInv, SendStartedInv, TakeInv, FlushOneInv, FlushDoneInv, StoreInv, InfoInv DEF Burst
  <2>8. CASE UNCHANGED vars BY <2>8, StutterInv
  <2> QED BY <2>1, <2>2, <2>3, <2>4, <2>5, <2>6, <2>7, <2>8 DEF Next
<1> QED BY <1>1, InvInit, PTL DEF Spec

\* For any number of connections whose bursts overlap, the session emit finds
\* is that of the connection the supervisor holds (storeWSSession,
\* clearWSSession).
THEOREM PublishedIsCurrent == Spec => []SessionCurrent
  BY EventsInvariant, PTL DEF EventsInv

\* Of all the bursts of a process one at most writes service.started
\* (handleWelcomeBurst).
THEOREM StartedAtMostOnce == Spec => []StartedOnce
<1>1. EventsInv => StartedOnce BY DEF EventsInv, Shape, StartedOnce
<1> QED BY <1>1, EventsInvariant, PTL

\* Nothing is written ahead of service.started unless a burst was welcomed
\* while an earlier one was still writing it, or no server could be sent it
\* (handleWelcomeBurst, wsSend, emit).
THEOREM StartedGoesFirst == Spec => []StartedFirst
  BY EventsInvariant, PTL DEF EventsInv
-----------------------------------------------------------------------------
(* How often an event occurs in a sequence: what Append, Tail, the put-back *)
(* of a failed flush and the trimming of the buffer do to the count.        *)

LEMMA PlacesFinite ==
  ASSUME NEW s \in Seq(Events), NEW k
  PROVE  /\ Places(s, k) \subseteq Nat /\ Places(s, k) \subseteq 1..Len(s)
         /\ IsFiniteSet(Places(s, k)) /\ Occurrences(s, k) \in Nat
<1>1. Places(s, k) \in SUBSET (1..Len(s)) BY DEF Places
<1>2. IsFiniteSet(1..Len(s)) BY FS_Interval
<1>3. IsFiniteSet(Places(s, k)) BY <1>1, <1>2, FS_Subset
<1>4. Occurrences(s, k) \in Nat BY <1>3, FS_CardinalityType DEF Occurrences
<1>5. Places(s, k) \subseteq Nat BY <1>1
<1> QED BY <1>1, <1>3, <1>4, <1>5

\* A set of positions moved by m has as many elements.
LEMMA Shifted ==
  ASSUME NEW S, NEW T, IsFiniteSet(S), S \subseteq Nat, T \subseteq Nat, NEW m \in Nat,
         \A n \in S : n + m \in T,
         \A n \in T : n - m \in S
  PROVE  IsFiniteSet(T) /\ Cardinality(T) = Cardinality(S)
<1> DEFINE f == [n \in S |-> n + m]
<1>1. f \in [S -> T] OBVIOUS
<1>2. \A a, b \in S : f[a] = f[b] => a = b OBVIOUS
<1>3. \A t \in T : \E n \in S : f[n] = t
  <2> TAKE t \in T
  <2>1. t - m \in S /\ f[t - m] = t OBVIOUS
  <2> QED BY <2>1
<1>4. f \in Bijection(S, T) BY <1>1, <1>2, <1>3, Fun_IsBij
<1>5. ExistsBijection(S, T) BY <1>4, Fun_ExistsBij
<1> QED BY <1>5, FS_Bijection

LEMMA CountEmpty ==
  ASSUME NEW k PROVE Places(<<>>, k) = {} /\ Occurrences(<<>>, k) = 0
<1>1. Places(<<>>, k) = {} BY DEF Places
<1> QED BY <1>1, FS_EmptySet DEF Occurrences

LEMMA CountAppend ==
  ASSUME NEW s \in Seq(Events), NEW x \in Events, NEW k
  PROVE  Occurrences(Append(s, x), k) = Occurrences(s, k) + (IF x = k THEN 1 ELSE 0)
<1>1. IsFiniteSet(Places(s, k)) /\ Len(s) + 1 \notin Places(s, k) BY PlacesFinite
<1>2. CASE x = k
  <2>1. Places(Append(s, x), k) = Places(s, k) \cup {Len(s) + 1} BY <1>2, AppendProperties DEF Places
  <2> QED BY <1>1, <1>2, <2>1, FS_AddElement DEF Occurrences
<1>3. CASE x # k
  <2>1. Places(Append(s, x), k) = Places(s, k) BY <1>3, AppendProperties DEF Places
  <2> QED BY <1>3, <2>1, PlacesFinite DEF Occurrences
<1> QED BY <1>2, <1>3

LEMMA CountConcat ==
  ASSUME NEW s \in Seq(Events), NEW t \in Seq(Events), NEW k
  PROVE  Occurrences(s \o t, k) = Occurrences(s, k) + Occurrences(t, k)
<1> DEFINE R == {n \in Places(s \o t, k) : n > Len(s)}
<1>1. s \o t \in Seq(Events) /\ Len(s \o t) = Len(s) + Len(t) BY ConcatProperties
<1>2. Places(s \o t, k) = Places(s, k) \cup R /\ Places(s, k) \cap R = {}
  BY <1>1, ConcatProperties DEF Places
<1>3. IsFiniteSet(R) /\ Cardinality(R) = Cardinality(Places(t, k))
  <2>1. IsFiniteSet(Places(t, k)) /\ Places(t, k) \subseteq Nat /\ R \subseteq Nat
    BY PlacesFinite, <1>1
  <2>2. \A n \in Places(t, k) : n + Len(s) \in R BY <1>1, ConcatProperties DEF Places
  <2>3. \A n \in R : n - Len(s) \in Places(t, k) BY <1>1, ConcatProperties DEF Places
  <2>4. Len(s) \in Nat OBVIOUS
  <2> HIDE DEF R
  <2> QED BY <2>1, <2>2, <2>3, <2>4, Shifted
<1>4. IsFiniteSet(Places(s, k)) BY PlacesFinite
<1>5. Cardinality({}) = 0 BY FS_EmptySet
<1> HIDE DEF R
<1>6. Cardinality(Places(s \o t, k)) = Cardinality(Places(s, k)) + Cardinality(R) - Cardinality({})
  BY <1>2, <1>3, <1>4, FS_Union
<1>7. Cardinality(R) \in Nat /\ Cardinality(Places(s, k)) \in Nat BY <1>3, <1>4, FS_CardinalityType
<1> QED BY <1>3, <1>5, <1>6, <1>7 DEF Occurrences

LEMMA CountTail ==
  ASSUME NEW s \in Seq(Events), s # <<>>, NEW k
  PROVE  Occurrences(s, k) = Occurrences(Tail(s), k) + (IF Head(s) = k THEN 1 ELSE 0)
<1> DEFINE R == {n \in Places(s, k) : n > 1}
<1>1. Tail(s) \in Seq(Events) /\ Len(Tail(s)) = Len(s) - 1 /\ Len(s) \in Nat \ {0} /\ Head(s) = s[1]
  BY HeadTailProperties, EmptySeq
<1>2. IsFiniteSet(R) /\ Cardinality(R) = Cardinality(Places(Tail(s), k))
  <2>1. IsFiniteSet(Places(Tail(s), k)) /\ Places(Tail(s), k) \subseteq Nat /\ R \subseteq Nat
    BY PlacesFinite, <1>1
  <2>2. \A n \in Places(Tail(s), k) : n + 1 \in R BY <1>1, HeadTailProperties DEF Places
  <2>3. \A n \in R : n - 1 \in Places(Tail(s), k) BY <1>1, HeadTailProperties DEF Places
  <2> HIDE DEF R
  <2> QED BY <2>1, <2>2, <2>3, Shifted
<1>3. CASE Head(s) = k
  <2>1. Places(s, k) = R \cup {1} /\ 1 \notin R BY <1>1, <1>3 DEF Places
  <2> QED BY <1>2, <1>3, <2>1, FS_AddElement DEF Occurrences
<1>4. CASE Head(s) # k
  <2>1. Places(s, k) = R BY <1>1, <1>4 DEF Places
  <2>2. Occurrences(s, k) = Occurrences(Tail(s), k) BY <1>2, <2>1 DEF Occurrences
  <2>3. Occurrences(Tail(s), k) \in Nat BY <1>1, PlacesFinite
  <2> QED BY <1>4, <2>2, <2>3
<1> QED BY <1>3, <1>4

\* The trimmed buffer holds no event more often than before.
LEMMA CountTrimmed ==
  ASSUME NEW s \in Seq(Events), NEW k
  PROVE  Trimmed(s) \in Seq(Events) /\ Occurrences(Trimmed(s), k) <= Occurrences(s, k)
<1> USE EventsAssumption
<1>1. CASE Len(s) > BufferSize
  <2> DEFINE m == Len(s) - BufferSize
             t == SubSeq(s, m + 1, Len(s))
             R == {n \in Places(s, k) : n > m}
  <2>1. m \in Nat /\ Trimmed(s) = t BY <1>1 DEF Trimmed
  <2>2. \A i \in m + 1 .. Len(s) : s[i] \in Events BY <2>1
  <2> HIDE DEF m
  <2>3. /\ t \in Seq(Events) /\ Len(t) = (IF m + 1 <= Len(s) THEN Len(s) - (m + 1) + 1 ELSE 0)
        /\ \A i \in 1 .. Len(s) - (m + 1) + 1 : t[i] = s[m + 1 + i - 1]
    BY <2>1, <2>2, SubSeqProperties
  <2>4. m + 1 <= Len(s) BY <1>1 DEF m
  <2> HIDE DEF t
  <2>5. Len(t) = Len(s) - m /\ \A i \in 1 .. Len(t) : t[i] = s[m + i] BY <2>1, <2>3, <2>4
  <2>6. IsFiniteSet(Places(t, k)) /\ Places(t, k) \subseteq Nat /\ R \subseteq Nat
    BY <2>3, PlacesFinite
  <2>7. \A n \in Places(t, k) : n + m \in R BY <2>1, <2>3, <2>5 DEF Places
  <2>8. \A n \in R : n - m \in Places(t, k)
    <3> TAKE n \in R
    <3>1. n \in Nat /\ n > m /\ n <= Len(s) /\ s[n] = k BY DEF Places
    <3>2. n - m \in 1 .. Len(t) /\ m + (n - m) = n BY <2>1, <2>5, <3>1
    <3> QED BY <2>3, <2>5, <3>1, <3>2 DEF Places
  <2>9. Cardinality(R) = Occurrences(t, k) BY <2>1, <2>6, <2>7, <2>8, Shifted DEF Occurrences
  <2>10. R \in SUBSET Places(s, k) /\ IsFiniteSet(Places(s, k)) BY PlacesFinite
  <2>11. Cardinality(R) <= Occurrences(s, k) BY <2>10, FS_Subset DEF Occurrences
  <2> QED BY <2>1, <2>3, <2>9, <2>11
<1>2. CASE ~(Len(s) > BufferSize)
  <2>1. Trimmed(s) = s BY <1>2 DEF Trimmed
  <2> QED BY <2>1, PlacesFinite
<1> QED BY <1>1, <1>2
-----------------------------------------------------------------------------
(* The events that flushes hold: one flush at a time.                       *)

\* Those held by the flushes of other generations than g.
Elsewhere(t, g, k) == UNION {{h} \X Places(t[h], k) : h \in Gens \ {g}}

LEMMA ElsewhereFinite ==
  ASSUME NEW t \in [Gens -> Seq(Events)], NEW g \in Gens, NEW k
  PROVE  IsFiniteSet(Elsewhere(t, g, k))
<1> DEFINE G == Gens \ {g}
           S == {{h} \X Places(t[h], k) : h \in G}
           f == [h \in G |-> {h} \X Places(t[h], k)]
<1>1. IsFiniteSet(G) BY EventsAssumption, FS_Difference
<1>2. f \in Surjection(G, S)
  <2>1. f \in [G -> S] OBVIOUS
  <2>2. \A x \in S : \E h \in G : f[h] = x OBVIOUS
  <2> QED BY <2>1, <2>2, Fun_IsSurj
<1>3. \A x \in S : IsFiniteSet(x)
  <2> TAKE x \in S
  <2>1. PICK h \in G : x = {h} \X Places(t[h], k) OBVIOUS
  <2>2. IsFiniteSet({h}) BY FS_Singleton
  <2>3. IsFiniteSet(Places(t[h], k)) BY PlacesFinite
  <2> QED BY <2>1, <2>2, <2>3, FS_Product
<1> HIDE DEF G, f, S
<1>4. IsFiniteSet(S) BY <1>1, <1>2, FS_Surjection
<1>5. IsFiniteSet(UNION S) BY <1>3, <1>4, FS_UNION
<1> QED BY <1>5 DEF Elsewhere, S, G

LEMMA InFlushSplit ==
  ASSUME NEW t \in [Gens -> Seq(Events)], NEW g \in Gens, NEW k
  PROVE  Cardinality(InFlush(t, k)) = Cardinality(Elsewhere(t, g, k)) + Occurrences(t[g], k)
<1> DEFINE P == Places(t[g], k)
           E == Elsewhere(t, g, k)
           H == {g} \X P
<1>1. IsFiniteSet(P) /\ IsFiniteSet(E) BY PlacesFinite, ElsewhereFinite
<1>2. IsFiniteSet(H) /\ Cardinality(H) = Cardinality(P)
  <2>1. IsFiniteSet({g}) /\ Cardinality({g}) = 1 BY FS_Singleton
  <2> HIDE DEF P
  <2>2. Cardinality(P) \in Nat BY <1>1, FS_CardinalityType
  <2>3. IsFiniteSet({g} \X P) /\ Cardinality({g} \X P) = Cardinality({g}) * Cardinality(P)
    BY <1>1, <2>1, FS_Product
  <2> QED BY <2>1, <2>2, <2>3
<1>3. InFlush(t, k) = E \cup H BY DEF InFlush, Elsewhere
<1>4. E \cap H = {} BY DEF Elsewhere
<1>5. Cardinality(E \cap H) = 0 BY <1>4, FS_EmptySet
<1> HIDE DEF E, H
<1>6. Cardinality(E \cup H) = Cardinality(E) + Cardinality(H) - Cardinality(E \cap H)
  BY <1>1, <1>2, FS_Union
<1>7. Cardinality(E) \in Nat /\ Cardinality(H) \in Nat BY <1>1, <1>2, FS_CardinalityType
<1>8. Cardinality(E \cup H) = Cardinality(E) + Cardinality(H) BY <1>5, <1>6, <1>7
<1>9. Cardinality(InFlush(t, k)) = Cardinality(E \cup H) BY <1>3
<1> QED BY <1>2, <1>8, <1>9 DEF Occurrences, E

\* A flush of g that holds s instead.
LEMMA InFlushMoves ==
  ASSUME NEW t \in [Gens -> Seq(Events)], NEW g \in Gens, NEW s \in Seq(Events), NEW k
  PROVE  /\ Cardinality(InFlush(t, k)) \in Nat
         /\ Cardinality(InFlush([t EXCEPT ![g] = s], k))
              = Cardinality(InFlush(t, k)) + Occurrences(s, k) - Occurrences(t[g], k)
<1> DEFINE u == [t EXCEPT ![g] = s]
<1>1. u \in [Gens -> Seq(Events)] /\ u[g] = s /\ \A h \in Gens \ {g} : u[h] = t[h] OBVIOUS
<1>2. Elsewhere(u, g, k) = Elsewhere(t, g, k) BY <1>1 DEF Elsewhere
<1>3. Cardinality(Elsewhere(t, g, k)) \in Nat BY ElsewhereFinite, FS_CardinalityType
<1>4. Occurrences(s, k) \in Nat /\ Occurrences(t[g], k) \in Nat BY PlacesFinite
<1>5. Cardinality(InFlush(t, k)) = Cardinality(Elsewhere(t, g, k)) + Occurrences(t[g], k)
  BY InFlushSplit
<1> HIDE DEF u
<1>6. Cardinality(InFlush(u, k)) = Cardinality(Elsewhere(u, g, k)) + Occurrences(u[g], k)
  BY <1>1, InFlushSplit
<1>7. Cardinality(InFlush(u, k)) = Cardinality(Elsewhere(t, g, k)) + Occurrences(s, k)
  BY <1>1, <1>2, <1>6
<1> QED BY <1>3, <1>4, <1>5, <1>7 DEF u
-----------------------------------------------------------------------------
(* The types of the state, and that no event is lost or doubled.            *)

\* An emitter past emit's first step has its event in hand.
Loaded == \A e \in Emitters : emitter[e].pc # "idle" => emitter[e].ev \in Events

\* Only a flush holds a part of the buffer.
FlushHolds == \A g \in Gens : ~Flushing(g) => taken[g] = <<>>

Contents ==
  /\ taken \in [Gens -> Seq(Events)] /\ eventBuf \in Seq(Events)
  /\ announced \in Available \cup {None} /\ reported \subseteq Failed
  /\ emitted \in [Events -> Nat] /\ delivered \in [Events -> Nat] /\ dropped \in [Events -> Nat]
  /\ quota \in [Emitters -> Nat]

TallyInv == Contents /\ Loaded /\ FlushHolds /\ Conserved

\* Every emitter but e keeps its event.
LEMMA HoldersMove ==
  ASSUME NEW e \in Emitters, NEW k,
         \A x \in Emitters : x # e => emitter'[x].ev = emitter[x].ev
  PROVE  /\ Cardinality(Holders(k)) \in Nat
         /\ Cardinality(Holders(k)') = Cardinality(Holders(k))
              + (IF emitter'[e].ev = k THEN 1 ELSE 0) - (IF emitter[e].ev = k THEN 1 ELSE 0)
<1> DEFINE R == {x \in Emitters : x # e /\ emitter[x].ev = k}
<1>1. IsFiniteSet(R)
  <2>1. IsFiniteSet({Poll} \cup {Watch}) BY FS_Singleton, FS_AddElement
  <2>2. R \in SUBSET ({Poll} \cup {Watch}) BY DEF Emitters
  <2> HIDE DEF R
  <2> QED BY <2>1, <2>2, FS_Subset
<1>2. e \notin R OBVIOUS
<1>3. Holders(k) = IF emitter[e].ev = k THEN R \cup {e} ELSE R BY DEF Holders
<1>4. Holders(k)' = IF emitter'[e].ev = k THEN R \cup {e} ELSE R BY DEF Holders
<1> HIDE DEF R
<1>5. Cardinality(R) \in Nat /\ Cardinality(R \cup {e}) = Cardinality(R) + 1
  BY <1>1, <1>2, FS_AddElement, FS_CardinalityType
<1>6. Cardinality(Holders(k)) = Cardinality(R) + (IF emitter[e].ev = k THEN 1 ELSE 0) BY <1>3, <1>5
<1>7. Cardinality(Holders(k)') = Cardinality(R) + (IF emitter'[e].ev = k THEN 1 ELSE 0) BY <1>4, <1>5
<1> QED BY <1>5, <1>6, <1>7

LEMMA TallyInit == Init => TallyInv
<1> SUFFICES ASSUME Init PROVE TallyInv OBVIOUS
<1>1. Contents
  <2>1. taken \in [Gens -> Seq(Events)] /\ eventBuf \in Seq(Events) BY EmptySeq DEF Init
  <2> QED BY <2>1, EventsAssumption DEF Init, Contents
<1>2. Loaded /\ FlushHolds BY DEF Init, Loaded, Idle, FlushHolds
<1>3. Conserved
  <2> SUFFICES ASSUME NEW k \in Events
               PROVE  emitted[k] = delivered[k] + dropped[k] + Occurrences(eventBuf, k)
                        + Cardinality(InFlush(taken, k)) + Cardinality(Holders(k))
    BY DEF Conserved
  <2>1. Holders(k) = {} BY EventsAssumption DEF Init, Idle, Holders
  <2>2. InFlush(taken, k) = {} BY CountEmpty DEF Init, InFlush
  <2>3. Occurrences(eventBuf, k) = 0 BY CountEmpty DEF Init
  <2>4. Cardinality(Holders(k)) = 0 BY <2>1, FS_EmptySet
  <2>5. Cardinality(InFlush(taken, k)) = 0 BY <2>2, FS_EmptySet
  <2>6. emitted[k] = 0 /\ delivered[k] = 0 /\ dropped[k] = 0 BY DEF Init
  <2> QED BY <2>3, <2>4, <2>5, <2>6
<1> QED BY <1>1, <1>2, <1>3 DEF TallyInv

\* A step that moves no event, and no burst whose flush holds any.
LEMMA NothingMoves ==
  ASSUME TallyInv,
         UNCHANGED <<taken, eventBuf, emitter, announced, reported, emitted, delivered, dropped, quota>>,
         \A g \in Gens : taken[g] = <<>> \/ burst'[g] = burst[g]
  PROVE  TallyInv'
<1>1. Contents' BY DEF TallyInv, Contents
<1>2. Loaded' /\ FlushHolds' BY DEF TallyInv, Loaded, FlushHolds, Flushing
<1>3. Conserved' BY DEF TallyInv, Conserved, Holders
<1> QED BY <1>1, <1>2, <1>3 DEF TallyInv

LEMMA ConnTally ==
  ASSUME EventsInv, TallyInv, Open \/ Welcome \/ Drop \/ Clear PROVE TallyInv'
<1>1. UNCHANGED <<taken, eventBuf, emitter, announced, reported, emitted, delivered, dropped, quota>>
  BY DEF Open, Welcome, Drop, Clear, bursts, dedupe, history
<1>2. CASE Welcome
  <2>1. wsGen \in Gens /\ burst[wsGen] = "none" BY <1>2 DEF Welcome, EventsInv, Held, Shape
  <2>2. taken[wsGen] = <<>> BY <2>1 DEF TallyInv, FlushHolds, Flushing
  <2> QED BY <1>1, <1>2, <2>1, <2>2, NothingMoves DEF Welcome, EventsInv, Shape
<1>3. CASE Open \/ Drop \/ Clear
  <2>1. burst' = burst BY <1>3 DEF Open, Drop, Clear, bursts
  <2> QED BY <1>1, <2>1, NothingMoves
<1> QED BY <1>2, <1>3

LEMMA QuietBurstTally ==
  ASSUME EventsInv, TallyInv, NEW g \in Gens,
         Swap(g) \/ SendStarted(g) \/ FlushDone(g) \/ Store(g) \/ Info(g)
  PROVE  TallyInv'
<1>1. UNCHANGED <<taken, eventBuf, emitter, announced, reported, emitted, delivered, dropped, quota>>
  BY DEF Swap, SendStarted, FlushDone, Store, Info, dedupe, history
<1>2. taken[g] = <<>>
  BY DEF Swap, SendStarted, FlushDone, Store, Info, Step, TallyInv, FlushHolds, Flushing
<1>3. \A h \in Gens : h # g => burst'[h] = burst[h]
  BY DEF Swap, SendStarted, FlushDone, Store, Info, Step, EventsInv, Shape
<1> QED BY <1>1, <1>2, <1>3, NothingMoves

\* What the counts of an event are before a step.
Counted(k) ==
  /\ emitted[k] = delivered[k] + dropped[k] + Occurrences(eventBuf, k)
                  + Cardinality(InFlush(taken, k)) + Cardinality(Holders(k))
  /\ emitted[k] \in Nat /\ delivered[k] \in Nat /\ dropped[k] \in Nat
  /\ Occurrences(eventBuf, k) \in Nat
  /\ Cardinality(InFlush(taken, k)) \in Nat

LEMMA CountsTyped == ASSUME TallyInv, NEW k \in Events PROVE Counted(k)
<1>1. eventBuf \in Seq(Events) /\ taken \in [Gens -> Seq(Events)] BY DEF TallyInv, Contents
<1>2. Occurrences(eventBuf, k) \in Nat BY <1>1, PlacesFinite
<1>3. Cardinality(InFlush(taken, k)) \in Nat
  <2>1. CASE Gens = {}
    <3>1. InFlush(taken, k) = {} BY <2>1 DEF InFlush
    <3> QED BY <3>1, FS_EmptySet
  <2>2. CASE Gens # {}
    <3>1. PICK g \in Gens : TRUE BY <2>2
    <3> QED BY <1>1, <3>1, InFlushMoves
  <2> QED BY <2>1, <2>2
<1> QED BY <1>2, <1>3 DEF TallyInv, Contents, Conserved, Counted

LEMMA BumpCounts ==
  ASSUME NEW f \in [Events -> Nat], NEW x \in Events
  PROVE  /\ Bump(f, x) \in [Events -> Nat]
         /\ \A k \in Events : Bump(f, x)[k] = f[k] + (IF x = k THEN 1 ELSE 0)
  BY DEF Bump

\* An event that is written or given up is counted once.
Settles(x) ==
  \/ dropped' = Bump(dropped, x) /\ UNCHANGED delivered
  \/ delivered' = Bump(delivered, x) /\ UNCHANGED dropped

LEMMA SettlesCounts ==
  ASSUME Contents, NEW x \in Events, Settles(x)
  PROVE  /\ delivered' \in [Events -> Nat] /\ dropped' \in [Events -> Nat]
         /\ \A k \in Events :
              delivered'[k] + dropped'[k] = delivered[k] + dropped[k] + (IF x = k THEN 1 ELSE 0)
<1>0. delivered \in [Events -> Nat] /\ dropped \in [Events -> Nat] BY DEF Contents
<1>1. CASE dropped' = Bump(dropped, x) /\ UNCHANGED delivered
  <2>1. dropped' \in [Events -> Nat] /\ \A k \in Events : dropped'[k] = dropped[k] + (IF x = k THEN 1 ELSE 0)
    BY <1>0, <1>1, BumpCounts
  <2> QED BY <1>0, <1>1, <2>1
<1>2. CASE delivered' = Bump(delivered, x) /\ UNCHANGED dropped
  <2>1. delivered' \in [Events -> Nat]
        /\ \A k \in Events : delivered'[k] = delivered[k] + (IF x = k THEN 1 ELSE 0)
    BY <1>0, <1>2, BumpCounts
  <2> QED BY <1>0, <1>2, <2>1
<1> QED BY <1>1, <1>2 DEF Settles

\* emit: a wanted event is counted and in the hands of its emitter.
LEMMA EmitTally ==
  ASSUME EventsInv, TallyInv, NEW e \in Emitters, NEW x \in Events, Emit(e, x) PROVE TallyInv'
<1>1. emitter[e] = Idle /\ emitter \in [Emitters -> [pc : {"idle", "send", "buffer"},
        ev : Events \cup {None}, sess : Gens \cup {None}]]
  BY DEF Emit, EventsInv, Shape
<1>2. UNCHANGED <<taken, eventBuf, delivered, dropped, burst>> BY DEF Emit, bursts
<1>3. /\ announced' \in Available \cup {None} /\ reported' \subseteq Failed
      /\ quota' \in [Emitters -> Nat]
  BY DEF Emit, Remembered, TallyInv, Contents
<1>4. FlushHolds' BY <1>2 DEF TallyInv, FlushHolds, Flushing
<1>5. CASE UNCHANGED <<emitter, emitted>>
  <2>1. Contents' /\ Loaded' BY <1>2, <1>3, <1>5 DEF TallyInv, Contents, Loaded
  <2>2. Conserved' BY <1>2, <1>5 DEF TallyInv, Conserved, Holders
  <2> QED BY <1>4, <2>1, <2>2 DEF TallyInv
<1>6. CASE ~UNCHANGED <<emitter, emitted>>
  <2>1. /\ emitted' = [emitted EXCEPT ![x] = @ + 1]
        /\ emitter'[e].ev = x
        /\ \A y \in Emitters : y # e => emitter'[y] = emitter[y]
    BY <1>1, <1>6 DEF Emit, Bump
  <2>2. Contents' BY <1>2, <1>3, <2>1 DEF TallyInv, Contents
  <2>3. Loaded' BY <2>1 DEF TallyInv, Loaded
  <2>4. Conserved'
    <3> SUFFICES ASSUME NEW k \in Events
                 PROVE  emitted'[k] = delivered[k] + dropped[k] + Occurrences(eventBuf, k)
                          + Cardinality(InFlush(taken, k)) + Cardinality(Holders(k)')
      BY <1>2 DEF Conserved
    <3>1. Cardinality(Holders(k)) \in Nat
          /\ Cardinality(Holders(k)') = Cardinality(Holders(k)) + (IF x = k THEN 1 ELSE 0)
      <4>1. emitter[e].ev # k BY <1>1, EventsAssumption DEF Idle
      <4> QED BY <2>1, <4>1, HoldersMove
    <3>2. emitted'[k] = emitted[k] + (IF x = k THEN 1 ELSE 0) BY <2>1 DEF TallyInv, Contents
    <3>3. Counted(k) BY CountsTyped
    <3> QED BY <3>1, <3>2, <3>3 DEF Counted
  <2> QED BY <1>4, <2>2, <2>3, <2>4 DEF TallyInv
<1> QED BY <1>5, <1>6

\* Session.Event: given up, written, or on its way to the buffer.
LEMMA EmitSendTally ==
  ASSUME EventsInv, TallyInv, NEW e \in Emitters, EmitSend(e) PROVE TallyInv'
<1> DEFINE x == emitter[e].ev
<1>1. emitter \in [Emitters -> [pc : {"idle", "send", "buffer"}, ev : Events \cup {None},
                                sess : Gens \cup {None}]]
  BY DEF EventsInv, Shape
<1>2. x \in Events BY DEF EmitSend, TallyInv, Loaded
<1>3. UNCHANGED <<taken, eventBuf, burst, announced, reported, emitted, quota>>
  BY DEF EmitSend, bursts, dedupe
<1>4. FlushHolds' BY <1>3 DEF TallyInv, FlushHolds, Flushing
<1>5. CASE emitter'[e].ev = x /\ UNCHANGED <<delivered, dropped>>
           /\ \A y \in Emitters : y # e => emitter'[y] = emitter[y]
  <2>1. Contents' BY <1>3, <1>5 DEF TallyInv, Contents
  <2>2. Loaded' BY <1>2, <1>5 DEF TallyInv, Loaded
  <2>3. \A k : Holders(k)' = Holders(k) BY <1>5 DEF Holders
  <2>4. Conserved' BY <1>3, <1>5, <2>3 DEF TallyInv, Conserved
  <2> QED BY <1>4, <2>1, <2>2, <2>4 DEF TallyInv
<1>6. CASE emitter' = [emitter EXCEPT ![e] = Idle] /\ Settles(x)
  <2>1. /\ emitter'[e] = Idle
        /\ \A y \in Emitters : y # e => emitter'[y] = emitter[y]
    BY <1>1, <1>6
  <2>2. Contents'
    <3>1. delivered' \in [Events -> Nat] /\ dropped' \in [Events -> Nat]
      BY <1>2, <1>6, SettlesCounts DEF TallyInv
    <3> QED BY <1>3, <3>1 DEF TallyInv, Contents
  <2>3. Loaded' BY <2>1 DEF TallyInv, Loaded, Idle
  <2>4. Conserved'
    <3> SUFFICES ASSUME NEW k \in Events
                 PROVE  emitted[k] = delivered'[k] + dropped'[k] + Occurrences(eventBuf, k)
                          + Cardinality(InFlush(taken, k)) + Cardinality(Holders(k)')
      BY <1>3 DEF Conserved
    <3>1. Cardinality(Holders(k)) \in Nat
          /\ Cardinality(Holders(k)') = Cardinality(Holders(k)) - (IF x = k THEN 1 ELSE 0)
      <4>1. emitter'[e].ev # k BY <2>1, EventsAssumption DEF Idle
      <4> QED BY <2>1, <4>1, HoldersMove
    <3>2. delivered'[k] + dropped'[k] = delivered[k] + dropped[k] + (IF x = k THEN 1 ELSE 0)
      BY <1>2, <1>6, SettlesCounts DEF TallyInv
    <3>3. delivered'[k] \in Nat /\ dropped'[k] \in Nat BY <2>2 DEF Contents
    <3>4. Counted(k) BY CountsTyped
    <3> QED BY <3>1, <3>2, <3>3, <3>4 DEF Counted
  <2> QED BY <1>4, <2>2, <2>3, <2>4 DEF TallyInv
<1> QED BY <1>1, <1>5, <1>6 DEF EmitSend, Delivered, Settles

\* emit's buffer: what the trimming pushes out is counted as dropped.
LEMMA EmitBufferTally ==
  ASSUME EventsInv, TallyInv, NEW e \in Emitters, EmitBuffer(e) PROVE TallyInv'
<1> DEFINE x == emitter[e].ev
           buf == Append(eventBuf, x)
<1>1. emitter \in [Emitters -> [pc : {"idle", "send", "buffer"}, ev : Events \cup {None},
                                sess : Gens \cup {None}]]
  BY DEF EventsInv, Shape
<1>2. x \in Events /\ eventBuf \in Seq(Events) BY DEF EmitBuffer, TallyInv, Loaded, Contents
<1>3. UNCHANGED <<taken, burst, announced, reported, emitted, delivered, quota>>
  BY DEF EmitBuffer, bursts, dedupe
<1>4. /\ emitter'[e] = Idle
      /\ \A y \in Emitters : y # e => emitter'[y] = emitter[y]
  BY <1>1 DEF EmitBuffer
<1>5. eventBuf' = Trimmed(buf)
      /\ dropped' = [k \in Events |-> dropped[k] + Occurrences(buf, k) - Occurrences(Trimmed(buf), k)]
  BY DEF EmitBuffer
<1>6. buf \in Seq(Events) /\ \A k : Occurrences(buf, k) = Occurrences(eventBuf, k) + (IF x = k THEN 1 ELSE 0)
  <2> HIDE DEF x
  <2> QED BY <1>2, AppendProperties, CountAppend
<1> HIDE DEF buf
<1>7. Trimmed(buf) \in Seq(Events) BY <1>6, CountTrimmed
<1>8. \A k : /\ Occurrences(Trimmed(buf), k) <= Occurrences(buf, k)
             /\ Occurrences(buf, k) \in Nat /\ Occurrences(Trimmed(buf), k) \in Nat
  BY <1>6, <1>7, CountTrimmed, PlacesFinite
<1>9. Contents'
  <2>1. dropped' \in [Events -> Nat] BY <1>5, <1>8 DEF TallyInv, Contents
  <2> QED BY <1>3, <1>5, <1>7, <2>1 DEF TallyInv, Contents
<1>10. Loaded' /\ FlushHolds' BY <1>3, <1>4 DEF TallyInv, Loaded, FlushHolds, Flushing, Idle
<1>11. Conserved'
  <2> SUFFICES ASSUME NEW k \in Events
               PROVE  emitted[k] = delivered[k] + dropped'[k] + Occurrences(eventBuf', k)
                        + Cardinality(InFlush(taken, k)) + Cardinality(Holders(k)')
    BY <1>3 DEF Conserved
  <2>1. Cardinality(Holders(k)) \in Nat
        /\ Cardinality(Holders(k)') = Cardinality(Holders(k)) - (IF x = k THEN 1 ELSE 0)
    <3>1. emitter'[e].ev # k BY <1>4, EventsAssumption DEF Idle
    <3> QED BY <1>4, <3>1, HoldersMove
  <2>2. dropped'[k] = dropped[k] + Occurrences(buf, k) - Occurrences(eventBuf', k) BY <1>5
  <2>3. Occurrences(eventBuf', k) \in Nat BY <1>5, <1>8
  <2>4. Counted(k) BY CountsTyped
  <2> QED BY <1>6, <2>1, <2>2, <2>3, <2>4 DEF Counted
<1> QED BY <1>9, <1>10, <1>11 DEF TallyInv

\* flushEvents takes the whole buffer.
LEMMA TakeTally ==
  ASSUME EventsInv, TallyInv, NEW g \in Gens, Take(g) PROVE TallyInv'
<1>1. /\ taken' = [taken EXCEPT ![g] = eventBuf] /\ eventBuf' = <<>>
      /\ UNCHANGED <<emitter, announced, reported, emitted, delivered, dropped, quota>>
  BY DEF Take, Remaining, dedupe, history
<1>2. taken \in [Gens -> Seq(Events)] /\ eventBuf \in Seq(Events) BY DEF TallyInv, Contents
<1>3. taken[g] = <<>> BY DEF Take, Step, TallyInv, FlushHolds, Flushing
<1>4. burst'[g] \in {"flush1", "flush2"} /\ \A h \in Gens : h # g => burst'[h] = burst[h]
  BY DEF Take, Step, EventsInv, Shape
<1>5. Contents'
  <2>1. eventBuf' \in Seq(Events) BY <1>1, EmptySeq
  <2> QED BY <1>1, <1>2, <2>1 DEF TallyInv, Contents
<1>6. Loaded' BY <1>1 DEF TallyInv, Loaded
<1>7. FlushHolds' BY <1>1, <1>2, <1>4 DEF TallyInv, FlushHolds, Flushing
<1>8. Conserved'
  <2> SUFFICES ASSUME NEW k \in Events
               PROVE  emitted[k] = delivered[k] + dropped[k] + Occurrences(eventBuf', k)
                        + Cardinality(InFlush(taken', k)) + Cardinality(Holders(k)')
    BY <1>1 DEF Conserved
  <2>1. Occurrences(eventBuf', k) = 0 /\ Occurrences(taken[g], k) = 0 BY <1>1, <1>3, CountEmpty
  <2>2. Cardinality(InFlush(taken', k))
          = Cardinality(InFlush(taken, k)) + Occurrences(eventBuf, k) - Occurrences(taken[g], k)
    BY <1>1, <1>2, InFlushMoves
  <2>3. Cardinality(Holders(k)') = Cardinality(Holders(k)) BY <1>1 DEF Holders
  <2>4. Cardinality(Holders(k)) \in Nat BY HoldersMove, <1>1 DEF Emitters
  <2>5. Counted(k) BY CountsTyped
  <2> QED BY <2>1, <2>2, <2>3, <2>4, <2>5 DEF Counted
<1> QED BY <1>5, <1>6, <1>7, <1>8 DEF TallyInv

\* One event of a flush: given up or written, or the rest goes back in front of
\* what was buffered since.
LEMMA FlushOneTally ==
  ASSUME EventsInv, TallyInv, NEW g \in Gens, FlushOne(g) PROVE TallyInv'
<1> DEFINE x == Head(taken[g])
<1>1. UNCHANGED <<emitter, announced, reported, emitted, quota>> BY DEF FlushOne, dedupe
<1>2. taken \in [Gens -> Seq(Events)] /\ eventBuf \in Seq(Events) BY DEF TallyInv, Contents
<1>3. taken[g] \in Seq(Events) /\ taken[g] # <<>> /\ Flushing(g) BY <1>2 DEF FlushOne
<1>4. x \in Events /\ Tail(taken[g]) \in Seq(Events) BY <1>3, HeadTailProperties
<1>5. Loaded' BY <1>1 DEF TallyInv, Loaded
<1>6. \A k : Cardinality(Holders(k)) \in Nat /\ Cardinality(Holders(k)') = Cardinality(Holders(k))
  BY <1>1, HoldersMove DEF Emitters, Holders
<1>7. CASE /\ taken' = [taken EXCEPT ![g] = Tail(taken[g])]
           /\ Settles(x) /\ UNCHANGED <<burst, eventBuf>>
  <2>1. Contents'
    <3>1. delivered' \in [Events -> Nat] /\ dropped' \in [Events -> Nat]
      BY <1>4, <1>7, SettlesCounts DEF TallyInv
    <3>2. taken' \in [Gens -> Seq(Events)] BY <1>2, <1>4, <1>7
    <3> QED BY <1>1, <1>2, <1>7, <3>1, <3>2 DEF TallyInv, Contents
  <2>2. FlushHolds' BY <1>2, <1>3, <1>7 DEF TallyInv, FlushHolds, Flushing
  <2>3. Conserved'
    <3> SUFFICES ASSUME NEW k \in Events
                 PROVE  emitted[k] = delivered'[k] + dropped'[k] + Occurrences(eventBuf, k)
                          + Cardinality(InFlush(taken', k)) + Cardinality(Holders(k)')
      BY <1>1, <1>7 DEF Conserved
    <3>1. Cardinality(InFlush(taken', k))
            = Cardinality(InFlush(taken, k)) + Occurrences(Tail(taken[g]), k) - Occurrences(taken[g], k)
      BY <1>2, <1>4, <1>7, InFlushMoves
    <3>2. Occurrences(taken[g], k) = Occurrences(Tail(taken[g]), k) + (IF x = k THEN 1 ELSE 0)
      BY <1>3, CountTail
    <3>3. delivered'[k] + dropped'[k] = delivered[k] + dropped[k] + (IF x = k THEN 1 ELSE 0)
      BY <1>4, <1>7, SettlesCounts DEF TallyInv
    <3>4. delivered'[k] \in Nat /\ dropped'[k] \in Nat BY <2>1 DEF Contents
    <3>5. Occurrences(Tail(taken[g]), k) \in Nat BY <1>4, PlacesFinite
    <3>6. Counted(k) BY CountsTyped
    <3> HIDE DEF x
    <3> QED BY <1>6, <3>1, <3>2, <3>3, <3>4, <3>5, <3>6 DEF Counted
  <2> QED BY <1>5, <2>1, <2>2, <2>3 DEF TallyInv
<1>8. CASE /\ eventBuf' = taken[g] \o eventBuf
           /\ taken' = [taken EXCEPT ![g] = <<>>]
           /\ burst' = [burst EXCEPT ![g] = AfterFlush(g)]
           /\ UNCHANGED <<dropped, delivered>>
  <2>1. eventBuf' \in Seq(Events) BY <1>2, <1>3, <1>8, ConcatProperties
  <2>2. <<>> \in Seq(Events) BY EmptySeq
  <2>3. Contents' BY <1>1, <1>2, <1>8, <2>1, <2>2 DEF TallyInv, Contents
  <2>4. FlushHolds'
    <3> SUFFICES ASSUME NEW h \in Gens, ~Flushing(h)' PROVE taken'[h] = <<>>
      BY DEF FlushHolds
    <3>1. CASE h = g BY <1>2, <1>8, <3>1
    <3>2. CASE h # g
      BY <1>2, <1>8, <3>2 DEF TallyInv, FlushHolds, Flushing, EventsInv, Shape
    <3> QED BY <3>1, <3>2
  <2>5. Conserved'
    <3> SUFFICES ASSUME NEW k \in Events
                 PROVE  emitted[k] = delivered[k] + dropped[k] + Occurrences(eventBuf', k)
                          + Cardinality(InFlush(taken', k)) + Cardinality(Holders(k)')
      BY <1>1, <1>8 DEF Conserved
    <3>1. Cardinality(InFlush(taken', k))
            = Cardinality(InFlush(taken, k)) + Occurrences(<<>>, k) - Occurrences(taken[g], k)
      BY <1>2, <1>8, <2>2, InFlushMoves
    <3>2. Occurrences(<<>>, k) = 0 BY CountEmpty
    <3>3. Occurrences(eventBuf', k) = Occurrences(taken[g], k) + Occurrences(eventBuf, k)
      BY <1>2, <1>3, <1>8, CountConcat
    <3>4. Occurrences(taken[g], k) \in Nat BY <1>3, PlacesFinite
    <3>5. Counted(k) BY CountsTyped
    <3> QED BY <1>6, <3>1, <3>2, <3>3, <3>4, <3>5 DEF Counted
  <2> QED BY <1>5, <2>3, <2>4, <2>5 DEF TallyInv
<1> QED BY <1>7, <1>8 DEF FlushOne, Settles, Delivered

\* The counts agree in every behaviour of emit, the bursts and the supervisor.
THEOREM TallyInvariant == Spec => []TallyInv
<1>1. EventsInv /\ TallyInv /\ [Next]_vars => TallyInv'
  <2> SUFFICES ASSUME EventsInv, TallyInv, [Next]_vars PROVE TallyInv' OBVIOUS
  <2>1. CASE Open \/ Welcome \/ Drop \/ Clear BY <2>1, ConnTally
  <2>2. CASE \E e \in Emitters, k \in Events : Emit(e, k) BY <2>2, EmitTally
  <2>3. CASE \E e \in Emitters : Emission(e) BY <2>3, EmitSendTally, EmitBufferTally DEF Emission
  <2>4. CASE \E g \in Gens : Burst(g)
    BY <2>4, QuietBurstTally, TakeTally, FlushOneTally DEF Burst
  <2>5. CASE UNCHANGED vars
    BY <2>5, NothingMoves DEF vars, bursts, dedupe, history
  <2> QED BY <2>1, <2>2, <2>3, <2>4, <2>5 DEF Next
<1> QED BY <1>1, TallyInit, EventsInvariant, PTL DEF Spec

\* Every variable keeps its type; in particular trimming the buffer never counts
\* a negative number of dropped events (emit).
THEOREM EventsTypeCorrect == Spec => []TypeOK
<1>1. EventsInv /\ TallyInv => TypeOK
  <2> SUFFICES ASSUME EventsInv, TallyInv PROVE TypeOK OBVIOUS
  <2>1. /\ {wsGen, wsSession, live} \subseteq Gens \cup {None}
        /\ {open, welcomed, startedSent, lapped, declined} \subseteq BOOLEAN
    BY DEF EventsInv, Shape
  <2>2. /\ burst \in [Gens -> BurstPCs] /\ starts \in Nat
        /\ refused \in [Gens -> SUBSET (Events \cup {Started})]
        /\ emitter \in [Emitters -> [pc : {"idle", "send", "buffer"}, ev : Events \cup {None},
                                     sess : Gens \cup {None}]]
    BY DEF EventsInv, Shape
  <2> QED BY <2>1, <2>2 DEF TallyInv, Contents, TypeOK
<1> QED BY <1>1, EventsInvariant, TallyInvariant, PTL

\* For any number of overlapping connections and any buffer size, an event handed
\* to emit is written once, still held in one place, or was dropped for a stated
\* reason (emit, flushEvents and its put-back).
THEOREM EventsConserved == Spec => []Conserved
  BY TallyInvariant, PTL DEF TallyInv
=============================================================================
