------------------------- MODULE CommandRingProofs -------------------------
(***************************************************************************)
(* What the dedupe ring of internal/service/clientcmd.go gives: it stays   *)
(* coherent, the deliveries of one id are answered alike, and a command    *)
(* restarts or reboots the machine once.  executeCommand looks an id up    *)
(* and adds it in two critical sections, so each result needs a server     *)
(* that does not have two deliveries of one id in flight at a time.        *)
(***************************************************************************)
EXTENDS ClientCommandsProofs

SameIdSerial ==
  \A d, e \in Deliveries : d # e /\ IdOf[d] = IdOf[e] => <<d, e>> \in Serial

-----------------------------------------------------------------------------
(* The operators of the ring.                                              *)

NoRepeats(s) == \A i, j \in 1..Len(s) : s[i] = s[j] => i = j

\* order and the maps agree, and no id is in order twice.
Whole(x) ==
  /\ x \in Ring
  /\ Len(x.order) <= RingSize
  /\ x.seen = Range(x.order)
  /\ x.stored \subseteq x.seen
  /\ NoRepeats(x.order)

\* The ids of a sequence, by position.
LEMMA RangeMember ==
  ASSUME NEW s \in Seq(Ids), NEW y
  PROVE  y \in Range(s) <=> \E i \in 1..Len(s) : y = s[i]
BY LenProperties DEF Range

\* append of an id that is not there.
LEMMA AppendFresh ==
  ASSUME NEW s \in Seq(Ids), NEW id \in Ids, NoRepeats(s), id \notin Range(s)
  PROVE  /\ Append(s, id) \in Seq(Ids) /\ Append(s, id) # <<>>
         /\ Len(Append(s, id)) = Len(s) + 1 /\ Len(s) \in Nat
         /\ Range(Append(s, id)) = Range(s) \cup {id}
         /\ NoRepeats(Append(s, id))
<1> DEFINE t == Append(s, id)
<1>1. /\ t \in Seq(Ids) /\ t # <<>>
      /\ Len(t) = Len(s) + 1
      /\ \A i \in 1..Len(s) : t[i] = s[i]
      /\ t[Len(s) + 1] = id
  BY AppendProperties
<1>2. Len(s) \in Nat
  BY LenProperties
<1> HIDE DEF t
<1>3. \A i \in 1..Len(t) : i \in 1..Len(s) \/ i = Len(s) + 1
  BY <1>1, <1>2
<1>4. \A i \in 1..Len(s) : s[i] # id
  BY RangeMember
<1>5. NoRepeats(t)
  BY <1>1, <1>3, <1>4 DEF NoRepeats
<1>6. \A y : y \in Range(t) <=> y \in Range(s) \cup {id}
  <2>1. SUFFICES ASSUME NEW y PROVE y \in Range(t) <=> y \in Range(s) \cup {id}
    OBVIOUS
  <2>2. y \in Range(t) => y \in Range(s) \cup {id}
    BY <1>1, <1>3, RangeMember
  <2>3. y \in Range(s) => y \in Range(t)
    BY <1>1, <1>2, RangeMember
  <2>4. id \in Range(t)
    <3>1. Len(s) + 1 \in 1..Len(t)
      BY <1>1, <1>2
    <3>2. QED
      BY <3>1, <1>1, RangeMember
  <2>5. QED
    BY <2>2, <2>3, <2>4
<1>7. QED
  BY <1>1, <1>2, <1>5, <1>6 DEF t

\* order[1:], without the id that was first.
LEMMA TailRange ==
  ASSUME NEW s \in Seq(Ids), s # <<>>, NoRepeats(s)
  PROVE  /\ Tail(s) \in Seq(Ids)
         /\ Len(Tail(s)) = Len(s) - 1 /\ Len(s) \in Nat
         /\ Range(Tail(s)) = Range(s) \ {Head(s)}
         /\ NoRepeats(Tail(s))
<1> DEFINE t == Tail(s)
<1>1. /\ t \in Seq(Ids)
      /\ Len(t) = Len(s) - 1
      /\ \A i \in 1..Len(t) : t[i] = s[i + 1]
  BY HeadTailProperties
<1>2. Len(s) \in Nat \ {0}
  BY EmptySeq
<1>3. Head(s) = s[1]
  OBVIOUS
<1> HIDE DEF t
<1>4. NoRepeats(t)
  <2>1. SUFFICES ASSUME NEW i \in 1..Len(t), NEW j \in 1..Len(t), t[i] = t[j]
                 PROVE  i = j
    BY DEF NoRepeats
  <2>2. i + 1 \in 1..Len(s) /\ j + 1 \in 1..Len(s)
    BY <1>1, <1>2
  <2>3. s[i + 1] = s[j + 1]
    BY <1>1, <2>1
  <2>4. i + 1 = j + 1
    BY <2>2, <2>3 DEF NoRepeats
  <2>5. QED
    BY <2>4
<1>5. ASSUME NEW y \in Range(t)
      PROVE  y \in Range(s) \ {Head(s)}
  <2>1. PICK i \in 1..Len(t) : y = t[i]
    BY <1>1, RangeMember
  <2>2. y = s[i + 1] /\ i + 1 \in 1..Len(s) /\ 1 \in 1..Len(s) /\ i + 1 # 1
    BY <1>1, <1>2, <2>1
  <2>3. y # s[1]
    BY <2>2 DEF NoRepeats
  <2>4. QED
    BY <1>3, <2>2, <2>3, RangeMember
<1>6. ASSUME NEW y \in Range(s) \ {Head(s)}
      PROVE  y \in Range(t)
  <2>1. PICK i \in 1..Len(s) : y = s[i]
    BY RangeMember
  <2>2. i # 1
    BY <1>3, <2>1
  <2>3. i - 1 \in 1..Len(t) /\ (i - 1) + 1 = i
    BY <1>1, <1>2, <2>2
  <2>4. t[i - 1] = y
    BY <1>1, <2>1, <2>3
  <2>5. QED
    BY <1>1, <2>3, <2>4, RangeMember
<1>7. QED
  BY <1>1, <1>2, <1>4, <1>5, <1>6 DEF t

\* commandRing.add of an id the ring does not know keeps it whole, evicting or
\* not.
LEMMA AddWhole ==
  ASSUME NEW x, Whole(x), NEW id \in Ids, id \notin x.seen
  PROVE  Whole(RingAdd(x, id))
<1> DEFINE o == Append(x.order, id)
<1>1. /\ o \in Seq(Ids) /\ o # <<>> /\ NoRepeats(o)
      /\ Len(o) = Len(x.order) + 1 /\ Len(x.order) \in Nat
      /\ Range(o) = x.seen \cup {id}
  BY AppendFresh DEF Whole, Ring
<1>2. RingAdd(x, id) \in Ring
  BY RingAddType DEF Whole
<1>3. CASE Len(o) > RingSize
  <2>1. /\ RingAdd(x, id).order = Tail(o)
        /\ RingAdd(x, id).seen = (x.seen \cup {id}) \ {Head(o)}
        /\ RingAdd(x, id).stored = (x.stored \ {id}) \ {Head(o)}
    BY <1>3 DEF RingAdd
  <2>2. /\ Len(Tail(o)) = Len(o) - 1
        /\ Range(Tail(o)) = Range(o) \ {Head(o)}
        /\ NoRepeats(Tail(o))
    <3> HIDE DEF o
    <3> QED BY <1>1, TailRange
  <2> HIDE DEF o
  <2>3. Len(Tail(o)) <= RingSize
    BY <1>1, <2>2, RingAssumption DEF Whole
  <2>4. QED
    BY <1>1, <1>2, <2>1, <2>2, <2>3 DEF Whole
<1>4. CASE ~(Len(o) > RingSize)
  <2>1. /\ RingAdd(x, id).order = o
        /\ RingAdd(x, id).seen = x.seen \cup {id}
        /\ RingAdd(x, id).stored = x.stored \ {id}
    BY <1>4 DEF RingAdd
  <2> HIDE DEF o
  <2>2. Len(o) <= RingSize
    BY <1>1, <1>4, RingAssumption
  <2>3. QED
    BY <1>1, <1>2, <2>1, <2>2 DEF Whole
<1>5. QED
  BY <1>3, <1>4

\* commandRing.store and refuse leave order and seen alone.
LEMMA StoreRefuseWhole ==
  ASSUME NEW x, Whole(x), NEW id \in Ids
  PROVE  Whole(RingStore(x, id)) /\ Whole(RingRefuse(x, id))
<1>1. RingStore(x, id) \in Ring /\ RingRefuse(x, id) \in Ring
  BY RingStoreType, RingRefuseType DEF Whole
<1>2. Whole(RingStore(x, id))
  BY <1>1 DEF Whole, RingStore, Ring
<1>3. Whole(RingRefuse(x, id))
  BY <1>1 DEF Whole, RingRefuse, Ring
<1>4. QED
  BY <1>2, <1>3

\* The ids of state.json as a sequence: every id once.
LEMMA SeqsOfSet ==
  ASSUME NEW S \in SUBSET Ids, NEW ids \in SetToSeqs(S)
  PROVE  /\ ids \in Seq(Ids) /\ Len(ids) \in Nat /\ Len(ids) = Cardinality(S)
         /\ NoRepeats(ids)
         /\ Range(ids) = S
<1>1. IsFiniteSet(S)
  BY RingAssumption, FS_Subset
<1> DEFINE n == Cardinality(S)
<1>2. n \in Nat
  BY <1>1, FS_CardinalityType
<1>3. ids \in [1..n -> S] /\ \A i, j \in 1..n : i # j => ids[i] # ids[j]
  BY DEF SetToSeqs
<1>4. ids \in Seq(S) /\ ids \in Seq(Ids)
  BY <1>2, <1>3, IsASeq
<1> HIDE DEF n
<1>5. Len(ids) = n
  BY <1>2, <1>3, <1>4, LenProperties
<1>6. NoRepeats(ids)
  BY <1>3, <1>5 DEF NoRepeats
<1>7. ids \in Injection(1..n, S)
  BY <1>3 DEF Injection, IsInjective
<1>8. Cardinality(1..n) = n
  BY <1>2, FS_Interval
<1>9. ids \in Surjection(1..n, S)
  BY <1>1, <1>7, <1>8, FS_Injection DEF n
<1>10. Range(ids) = S
  BY <1>3, <1>9 DEF Surjection, Range
<1>11. QED
  BY <1>2, <1>4, <1>5, <1>6, <1>10 DEF n

\* seedCommandRing starts from a whole ring, which knows every recorded id
\* when the ring is large enough for them.
LEMMA SeedWhole ==
  ASSUME NEW S \in SUBSET Ids, NEW ids \in SetToSeqs(S)
  PROVE  /\ Whole(RingSeed(ids))
         /\ RingSeed(ids).refused = {}
         /\ Cardinality(S) <= RingSize => RingSeed(ids).seen = S
<1> DEFINE n == Len(ids)
           kept == IF n > RingSize THEN SubSeq(ids, n - RingSize + 1, n) ELSE ids
<1>1. /\ ids \in Seq(Ids) /\ n \in Nat /\ n = Cardinality(S)
      /\ NoRepeats(ids) /\ Range(ids) = S
  BY SeqsOfSet
<1>2. Len(kept) <= RingSize /\ NoRepeats(kept)
  <2>1. CASE n > RingSize
    <3> DEFINE m == n - RingSize + 1
    <3>1. m \in Int /\ m \in 1..n /\ n - m + 1 = RingSize
      BY <1>1, <2>1, RingAssumption
    <3>2. \A i \in m..n : ids[i] \in Ids
      BY <1>1, <3>1, ElementOfSeq
    <3> HIDE DEF m
    <3>3. /\ Len(SubSeq(ids, m, n)) = RingSize
          /\ \A i \in 1..RingSize : SubSeq(ids, m, n)[i] = ids[m + i - 1]
      BY <1>1, <3>1, <3>2, SubSeqProperties
    <3>4. \A i \in 1..RingSize : m + i - 1 \in 1..n
      BY <3>1, <1>1, RingAssumption
    <3>5. NoRepeats(SubSeq(ids, m, n))
      <4>1. SUFFICES ASSUME NEW i \in 1..RingSize, NEW j \in 1..RingSize,
                            SubSeq(ids, m, n)[i] = SubSeq(ids, m, n)[j]
                     PROVE  i = j
        BY <3>3 DEF NoRepeats
      <4>2. ids[m + i - 1] = ids[m + j - 1]
        BY <3>3, <4>1
      <4>3. m + i - 1 = m + j - 1
        BY <1>1, <3>4, <4>2 DEF NoRepeats
      <4>4. QED
        BY <4>3, <3>1
    <3>6. QED
      BY <2>1, <3>3, <3>5, RingAssumption DEF m
  <2>2. CASE ~(n > RingSize)
    BY <2>2, <1>1, RingAssumption
  <2>3. QED
    BY <2>1, <2>2
<1>3. RingSeed(ids) \in Ring
  BY RingSeedType
<1>4. n <= RingSize => kept = ids
  BY <1>1, RingAssumption
<1> HIDE DEF kept, n
<1>5. RingSeed(ids) = [EmptyRing EXCEPT !.order = kept, !.seen = Range(kept)]
  BY DEF RingSeed, kept, n
<1>6. /\ RingSeed(ids).order = kept /\ RingSeed(ids).seen = Range(kept)
      /\ RingSeed(ids).stored = {} /\ RingSeed(ids).refused = {}
  BY <1>5 DEF EmptyRing
<1>7. QED
  BY <1>1, <1>2, <1>3, <1>4, <1>6 DEF Whole

\* The empty ring is whole.
LEMMA EmptyWhole == Whole(EmptyRing)
<1>1. EmptyRing \in Ring /\ Len(<<>>) = 0 /\ Range(<<>>) = {}
  BY DEF EmptyRing, Ring, Range
<1>2. QED
  BY <1>1, RingAssumption DEF Whole, EmptyRing, NoRepeats

\* A ring at least as large as the number of ids evicts nothing.
LEMMA AddKeeps ==
  ASSUME Cardinality(Ids) <= RingSize,
         NEW x, Whole(x), NEW id \in Ids, id \notin x.seen
  PROVE  RingAdd(x, id).seen = x.seen \cup {id} /\ RingAdd(x, id).refused = x.refused
<1> DEFINE o == Append(x.order, id)
<1>1. o \in Seq(Ids) /\ NoRepeats(o)
  BY AppendFresh DEF Whole, Ring
<1>2. ~(Len(o) > RingSize)
  <2> HIDE DEF o
  <2>1. Len(o) \in Nat /\ o \in [1..Len(o) -> Ids]
    BY <1>1, LenProperties
  <2>2. o \in Injection(1..Len(o), Ids)
    BY <1>1, <2>1 DEF Injection, IsInjective, NoRepeats
  <2>3. Cardinality(1..Len(o)) = Len(o)
    BY <2>1, FS_Interval
  <2>4. Len(o) <= Cardinality(Ids) /\ Cardinality(Ids) \in Nat
    BY <2>2, <2>3, RingAssumption, FS_Injection, FS_CardinalityType
  <2>5. QED
    BY <2>1, <2>4, RingAssumption
<1>3. QED
  BY <1>2 DEF RingAdd
-----------------------------------------------------------------------------
(* The ring stays coherent.  The property the run checks does not carry    *)
(* over a step by itself: an id that were in order twice would leave seen  *)
(* with its first eviction while order still has it.  So order has no      *)
(* repeats, which needs that a goroutine about to add still finds its id   *)
(* unknown, which needs that no other goroutine of the same id is under    *)
(* way.                                                                    *)

SameIdAlone ==
  \A d, e \in Deliveries :
    d # e /\ IdOf[d] = IdOf[e] => pc[d] \in Resting \/ pc[e] \in Resting

AddsFresh == \A d \in Deliveries : pc[d] = "add" => IdOf[d] \notin ring.seen

RingInv == Whole(ring) /\ SameIdAlone /\ AddsFresh

\* What a step of one delivery does to its place, and to nobody else's.
LEMMA DeliveryMoves ==
  ASSUME TypeOK, NEW d \in Deliveries, Deliver(d) \/ Goroutine(d)
  PROVE  \E to \in PCs :
           /\ to # "idle" /\ pc[d] # "done"
           /\ \A e \in Deliveries : pc'[e] = IF e = d THEN to ELSE pc[e]
           /\ Deliver(d) => pc[d] = "idle" /\ to = "lookup"
           /\ ~Deliver(d) => pc[d] # "idle" /\ to # "lookup"
<1>1. CASE Deliver(d)
  <2>1. pc[d] = "idle" /\ pc' = [pc EXCEPT ![d] = "lookup"]
    BY <1>1 DEF Deliver, Goto
  <2>2. QED
    BY <1>1, <2>1 DEF TypeOK, PCs
<1>2. CASE ~Deliver(d)
  <2>1. Goroutine(d)
    BY <1>2
  <2>2. PICK to \in PCs : /\ pc' = [pc EXCEPT ![d] = to]
                          /\ pc[d] \notin {"idle", "done"} /\ to \notin {"idle", "lookup"}
    BY <2>1 DEF Goroutine, Lookup, Add, Admit, AdmitDestructive, Refuse, Claim, Ack,
         Run, Record, Commit, Act, Clear, Unrecord, Release, Goto, PCs
  <2>3. QED
    BY <1>2, <2>2 DEF TypeOK
<1>3. QED
  BY <1>1, <1>2

\* Only Deliver starts a goroutine, and never next to one of the same id.
LEMMA SameIdStep ==
  ASSUME SameIdSerial, TypeOK, SameIdAlone,
         NEW d \in Deliveries, Deliver(d) \/ Goroutine(d)
  PROVE  SameIdAlone'
<1>1. PICK to \in PCs :
           /\ to # "idle" /\ pc[d] # "done"
           /\ \A e \in Deliveries : pc'[e] = IF e = d THEN to ELSE pc[e]
           /\ Deliver(d) => pc[d] = "idle" /\ to = "lookup"
           /\ ~Deliver(d) => pc[d] # "idle" /\ to # "lookup"
  BY DeliveryMoves
<1>2. CASE Deliver(d)
  <2>1. \A e \in Deliveries : d # e /\ IdOf[d] = IdOf[e] => pc[e] \in Resting
    BY <1>2 DEF Deliver, SameIdSerial, Resting
  <2>2. QED
    BY <1>1, <2>1 DEF SameIdAlone
<1>3. CASE ~Deliver(d)
  BY <1>1, <1>3 DEF SameIdAlone, Resting
<1>4. QED
  BY <1>2, <1>3

\* In the goroutines, the ring changes in Add, Refuse and Run.
LEMMA RingChanges ==
  ASSUME NEW d \in Deliveries, Deliver(d) \/ Goroutine(d)
  PROVE  \/ ring' = ring
         \/ Add(d) /\ ring' = RingAdd(ring, IdOf[d])
         \/ Refuse(d) /\ ring' = RingRefuse(ring, IdOf[d])
         \/ Run(d) /\ ring' = RingStore(ring, IdOf[d])
BY DEF Deliver, Goroutine, Lookup, Add, Admit, AdmitDestructive, Refuse, Claim, Ack,
       Run, Record, Commit, Act, Clear, Unrecord, Release

\* The other actors of a process leave ring and goroutines alone.
LEMMA OthersKeepRing ==
  ASSUME Poll \/ Connect \/ Take \/ SendStarted \/ Tick \/ (\E id \in Ids : Abort(id))
  PROVE  UNCHANGED <<pc, ring, answer, delay, lost, executed>>
BY DEF Poll, CycleCheck, CycleIdle, BeginSelf, BeginSetup, BeginInstall, EndInstall,
       HandOff, PollUnchanged, Connect, Take, SendStarted, BurstUnchanged, Tick,
       Abort, process, history

\* A new process starts with a whole ring, nothing refused, and its goroutines
\* at rest.
LEMMA NewProcessRing ==
  ASSUME TypeOK, NewProcess
  PROVE  /\ Whole(ring') /\ ring'.refused = {}
         /\ \A d \in Deliveries : pc'[d] \in Resting
         /\ Cardinality(Ids) <= RingSize /\ "io" \notin Faults => ring'.seen = records
<1>1. \A d \in Deliveries : pc'[d] \in Resting
  BY DEF NewProcess, Resting
<1>2. CASE \E ids \in SetToSeqs(records) : ring' = RingSeed(ids)
  <2>1. PICK ids \in SetToSeqs(records) : ring' = RingSeed(ids)
    BY <1>2
  <2>2. records \in SUBSET Ids
    BY DEF TypeOK
  <2>3. Cardinality(Ids) <= RingSize => Cardinality(records) <= RingSize
    <3>1. Cardinality(records) <= Cardinality(Ids)
      BY <2>2, RingAssumption, FS_Subset
    <3>2. Cardinality(records) \in Nat /\ Cardinality(Ids) \in Nat
      BY <2>2, RingAssumption, FS_Subset, FS_CardinalityType
    <3>3. QED
      BY <3>1, <3>2, RingAssumption
  <2>4. QED
    BY <1>1, <2>1, <2>2, <2>3, SeedWhole
<1>3. CASE "io" \in Faults /\ ring' = EmptyRing
  BY <1>1, <1>3, EmptyWhole DEF EmptyRing
<1>4. QED
  BY <1>2, <1>3 DEF NewProcess, SeedRing

\* Every step keeps the ring whole.
LEMMA RingStep ==
  ASSUME SameIdSerial, TypeOK, RingInv, Next
  PROVE  RingInv'
<1> USE CommandsAssumption DEF RingInv
<1>1. ASSUME NEW d \in Deliveries, Deliver(d) \/ Goroutine(d)
      PROVE  RingInv'
  <2>0. IdOf[d] \in Ids
    OBVIOUS
  <2>1. SameIdAlone'
    BY <1>1, SameIdStep
  <2>2. PICK to \in PCs :
           /\ to # "idle" /\ pc[d] # "done"
           /\ \A e \in Deliveries : pc'[e] = IF e = d THEN to ELSE pc[e]
           /\ Deliver(d) => pc[d] = "idle" /\ to = "lookup"
           /\ ~Deliver(d) => pc[d] # "idle" /\ to # "lookup"
    BY <1>1, DeliveryMoves
  <2>3. to = "add" => IdOf[d] \notin ring.seen /\ Lookup(d) /\ ring' = ring
    BY <1>1, <2>2 DEF Goroutine, Lookup, Add, Admit, AdmitDestructive, Refuse, Claim,
         Ack, Run, Record, Commit, Act, Clear, Unrecord, Release, Goto, TypeOK
  <2>4. CASE Add(d)
    <3>1. pc[d] = "add" /\ to = "admit" /\ ring' = RingAdd(ring, IdOf[d])
      BY <2>4, <2>2 DEF Add, Goto, TypeOK
    <3>2. IdOf[d] \notin ring.seen
      BY <3>1 DEF AddsFresh
    <3>3. Whole(ring')
      BY <2>0, <3>1, <3>2, AddWhole
    <3>4. ring'.seen \subseteq ring.seen \cup {IdOf[d]}
      BY <3>1 DEF RingAdd
    <3>5. \A e \in Deliveries : e # d /\ pc[e] = "add" => IdOf[e] # IdOf[d]
      BY <3>1 DEF SameIdAlone, Resting
    <3>6. AddsFresh'
      BY <2>2, <3>1, <3>4, <3>5 DEF AddsFresh
    <3>7. QED
      BY <2>1, <3>3, <3>6
  <2>5. CASE ~Add(d)
    <3>1. Whole(ring') /\ ring'.seen = ring.seen
      <4>1. CASE ring' = ring
        BY <4>1
      <4>2. CASE ring' = RingRefuse(ring, IdOf[d]) \/ ring' = RingStore(ring, IdOf[d])
        <5>1. Whole(ring')
          BY <2>0, <4>2, StoreRefuseWhole
        <5>2. ring'.seen = ring.seen
          BY <4>2 DEF RingRefuse, RingStore, Whole, Ring
        <5>3. QED
          BY <5>1, <5>2
      <4>3. QED
        BY <1>1, <2>5, <4>1, <4>2, RingChanges
    <3>2. AddsFresh'
      BY <2>2, <2>3, <3>1 DEF AddsFresh
    <3>3. QED
      BY <2>1, <3>1, <3>2
  <2>6. QED
    BY <2>4, <2>5
<1>2. CASE Poll \/ Connect \/ Take \/ SendStarted \/ Tick \/ (\E id \in Ids : Abort(id))
  BY <1>2, OthersKeepRing DEF SameIdAlone, AddsFresh
<1>3. CASE NewProcess
  <2>1. Whole(ring') /\ \A d \in Deliveries : pc'[d] \in Resting
    BY <1>3, NewProcessRing
  <2>2. QED
    BY <2>1 DEF SameIdAlone, AddsFresh, Resting
<1>4. QED
  BY <1>1, <1>2, <1>3 DEF Next, TakeEffect, Crash

\* The ring of every process stays whole, at every size, with every fault.
THEOREM RingInvariant ==
  ASSUME SameIdSerial
  PROVE  Spec => []RingInv
<1>1. Init => RingInv
  BY EmptyWhole DEF Init, RingInv, SameIdAlone, AddsFresh, Resting
<1>2. TypeOK /\ RingInv /\ [Next]_vars => RingInv'
  <2>1. CASE Next
    BY <2>1, RingStep
  <2>2. CASE UNCHANGED vars
    BY <2>2 DEF vars, process, RingInv, SameIdAlone, AddsFresh
  <2>3. QED
    BY <2>1, <2>2
<1>3. QED
  BY <1>1, <1>2, TypeCorrect, PTL DEF Spec

\* order and results of commandRing agree and never outgrow commandRingSize,
\* whatever add evicts.
THEOREM RingStaysCoherent ==
  ASSUME SameIdSerial
  PROVE  Spec => []RingCoherent
<1>1. RingInv => RingCoherent
  BY DEF RingInv, Whole, RingCoherent
<1>2. QED
  BY <1>1, RingInvariant, PTL
-----------------------------------------------------------------------------
(* One answer per id.  The ring remembers what was refused, and the        *)
(* command that is being decided on has not been answered by anyone.  An   *)
(* evicted id would be decided on again, so the ring must be large enough  *)
(* for the ids of one process.                                             *)

Positive == {"accepted", "dupAccepted"}
Negative == {"refused", "dupRefused"}
Deciding == {"admit", "gate", "refuse", "claim", "ack"}

AnswersFromRing ==
  \A d \in Deliveries :
    /\ answer[d] \in Negative => IdOf[d] = NoId \/ IdOf[d] \in ring.refused
    /\ answer[d] \in Positive => IdOf[d] # NoId /\ IdOf[d] \in ring.seen \ ring.refused

Unanswered ==
  \A d \in Deliveries :
    pc[d] \in {"add"} \cup Deciding =>
      /\ IdOf[d] # NoId
      /\ \A e \in Deliveries : IdOf[e] = IdOf[d] => answer[e] = "none"

DecidingSeen ==
  \A d \in Deliveries : pc[d] \in Deciding => IdOf[d] \in ring.seen \ ring.refused

AckInv ==
  /\ ring.refused \subseteq ring.seen
  /\ AnswersFromRing /\ Unanswered /\ DecidingSeen

\* A delivery in the middle of its decision is the only one of its id.
LEMMA OnlyDecider ==
  ASSUME SameIdAlone, NEW d \in Deliveries, pc[d] \notin Resting,
         NEW e \in Deliveries, e # d, pc[e] \in {"add"} \cup Deciding
  PROVE  IdOf[e] # IdOf[d]
BY DEF SameIdAlone, Resting, Deciding

\* The steps of one delivery keep the answers alike.
LEMMA AckDelivery ==
  ASSUME SameIdSerial, Cardinality(Ids) <= RingSize, TypeOK, RingInv, AckInv,
         NEW d \in Deliveries, Deliver(d) \/ Goroutine(d)
  PROVE  AckInv'
<1> USE CommandsAssumption DEF AckInv
<1>0. IdOf[d] \in Ids
  OBVIOUS
<1>1. PICK to \in PCs :
         /\ to # "idle" /\ pc[d] # "done"
         /\ \A e \in Deliveries : pc'[e] = IF e = d THEN to ELSE pc[e]
         /\ Deliver(d) => pc[d] = "idle" /\ to = "lookup"
         /\ ~Deliver(d) => pc[d] # "idle" /\ to # "lookup"
  BY DeliveryMoves
<1>2. pc[d] # "idle" =>
        \A e \in Deliveries : e # d /\ pc[e] \in {"add"} \cup Deciding
                              => IdOf[e] # IdOf[d]
  BY <1>1, OnlyDecider DEF RingInv, Resting
<1>3. CASE Lookup(d)
  <2>1. ring' = ring /\ pc[d] = "lookup"
    BY <1>3 DEF Lookup, Goto
  <2>2. CASE IdOf[d] = NoId
    <3>1. to = "done" /\ answer' = [answer EXCEPT ![d] = "refused"]
      BY <1>1, <1>3, <2>2 DEF Lookup, Goto, Answer, TypeOK
    <3>2. \A e \in Deliveries : answer'[e] = IF e = d THEN "refused" ELSE answer[e]
      BY <3>1 DEF TypeOK
    <3>3. AnswersFromRing'
      BY <2>1, <2>2, <3>2 DEF AnswersFromRing, Positive, Negative
    <3>4. Unanswered' /\ DecidingSeen'
      BY <1>1, <2>1, <2>2, <3>1, <3>2 DEF Unanswered, DecidingSeen, Deciding
    <3>5. QED
      BY <2>1, <3>3, <3>4
  <2>3. CASE IdOf[d] # NoId /\ IdOf[d] \in ring.seen
    <3>1. /\ to = "done"
          /\ answer' = [answer EXCEPT ![d] =
               IF IdOf[d] \in ring.refused THEN "dupRefused" ELSE "dupAccepted"]
      BY <1>1, <1>3, <2>3 DEF Lookup, Goto, Answer, TypeOK
    <3>2. \A e \in Deliveries : answer'[e] =
            IF e = d THEN IF IdOf[d] \in ring.refused THEN "dupRefused" ELSE "dupAccepted"
                     ELSE answer[e]
      BY <3>1 DEF TypeOK
    <3>3. AnswersFromRing'
      BY <2>1, <2>3, <3>2 DEF AnswersFromRing, Positive, Negative
    <3>4. Unanswered' /\ DecidingSeen'
      BY <1>1, <1>2, <2>1, <3>1, <3>2 DEF Unanswered, DecidingSeen, Deciding
    <3>5. QED
      BY <2>1, <3>3, <3>4
  <2>4. CASE IdOf[d] # NoId /\ IdOf[d] \notin ring.seen
    <3>1. to = "add" /\ answer' = answer
      BY <1>1, <1>3, <2>4 DEF Lookup, Goto, TypeOK
    <3>2. AnswersFromRing'
      BY <2>1, <3>1 DEF AnswersFromRing
    <3>3. \A e \in Deliveries : IdOf[e] = IdOf[d] => answer[e] = "none"
      BY <2>4 DEF AnswersFromRing, Positive, Negative, TypeOK, Answers
    <3>4. Unanswered'
      BY <1>1, <2>4, <3>1, <3>3 DEF Unanswered
    <3>5. DecidingSeen'
      BY <1>1, <2>1, <3>1 DEF DecidingSeen, Deciding
    <3>6. QED
      BY <2>1, <3>2, <3>4, <3>5
  <2>5. QED
    BY <2>2, <2>3, <2>4
<1>4. CASE Add(d)
  <2>1. pc[d] = "add" /\ to = "admit" /\ ring' = RingAdd(ring, IdOf[d]) /\ answer' = answer
    BY <1>1, <1>4 DEF Add, Goto, TypeOK, history
  <2>2. IdOf[d] \notin ring.seen
    BY <2>1 DEF RingInv, AddsFresh
  <2>3. ring'.seen = ring.seen \cup {IdOf[d]} /\ ring'.refused = ring.refused
    BY <1>0, <2>1, <2>2, AddKeeps DEF RingInv
  <2>4. AnswersFromRing'
    BY <2>1, <2>3 DEF AnswersFromRing
  <2>5. Unanswered'
    BY <1>1, <2>1 DEF Unanswered
  <2>6. DecidingSeen'
    BY <1>1, <2>1, <2>2, <2>3 DEF DecidingSeen
  <2>7. QED
    BY <2>3, <2>4, <2>5, <2>6
<1>5. CASE Refuse(d)
  <2>1. /\ pc[d] = "refuse" /\ to = "done" /\ ring' = RingRefuse(ring, IdOf[d])
        /\ answer' = [answer EXCEPT ![d] = "refused"]
    BY <1>1, <1>5 DEF Refuse, Goto, Answer, TypeOK
  <2>2. ring'.seen = ring.seen /\ ring'.refused = ring.refused \cup {IdOf[d]}
    BY <2>1 DEF RingRefuse, TypeOK, Ring
  <2>3. /\ IdOf[d] \in ring.seen
        /\ \A e \in Deliveries : IdOf[e] = IdOf[d] => answer[e] = "none"
    BY <2>1 DEF DecidingSeen, Unanswered, Deciding
  <2>4. \A e \in Deliveries : answer'[e] = IF e = d THEN "refused" ELSE answer[e]
    BY <2>1 DEF TypeOK
  <2>5. AnswersFromRing'
    BY <2>2, <2>3, <2>4 DEF AnswersFromRing, Positive, Negative
  <2>6. Unanswered' /\ DecidingSeen'
    BY <1>1, <1>2, <2>1, <2>2, <2>4 DEF Unanswered, DecidingSeen, Deciding
  <2>7. QED
    BY <2>2, <2>3, <2>5, <2>6
<1>6. CASE Ack(d)
  <2>1. ring' = ring /\ pc[d] = "ack" /\ to \in {"record", "run", "release"}
    BY <1>1, <1>6 DEF Ack, Goto, TypeOK
  <2>2. answer' = [answer EXCEPT ![d] = "accepted"] \/ answer' = answer
    BY <1>6 DEF Ack, Answer
  <2>3. IdOf[d] # NoId /\ IdOf[d] \in ring.seen \ ring.refused
    BY <2>1 DEF DecidingSeen, Unanswered, Deciding
  <2>4. \A e \in Deliveries : answer'[e] = answer[e] \/ (e = d /\ answer'[e] = "accepted")
    BY <2>2 DEF TypeOK
  <2>5. AnswersFromRing'
    BY <2>1, <2>3, <2>4 DEF AnswersFromRing, Positive, Negative
  <2>6. Unanswered' /\ DecidingSeen'
    BY <1>1, <1>2, <2>1, <2>4 DEF Unanswered, DecidingSeen, Deciding
  <2>7. QED
    BY <2>1, <2>5, <2>6
<1>7. CASE ~Lookup(d) /\ ~Add(d) /\ ~Refuse(d) /\ ~Ack(d)
  <2>1. answer' = answer
    BY <1>7 DEF Deliver, Goroutine, Admit, AdmitDestructive, Claim,
       Run, Record, Commit, Act, Clear, Unrecord, Release, history
  <2>2. ring'.seen = ring.seen /\ ring'.refused = ring.refused
    <3>1. ring' = ring \/ ring' = RingStore(ring, IdOf[d])
      BY <1>7, RingChanges
    <3>2. QED
      BY <3>1 DEF RingStore, TypeOK, Ring
  <2>3. to \in {"add"} \cup Deciding => pc[d] \in Deciding /\ to # "add"
    BY <1>1, <1>7 DEF Deliver, Goroutine, Admit, AdmitDestructive, Claim,
       Run, Record, Commit, Act, Clear, Unrecord, Release, Goto, Deciding, TypeOK
  <2>4. AnswersFromRing'
    BY <2>1, <2>2 DEF AnswersFromRing
  <2>5. Unanswered' /\ DecidingSeen'
    BY <1>1, <2>1, <2>2, <2>3 DEF Unanswered, DecidingSeen
  <2>6. QED
    BY <2>2, <2>4, <2>5
<1>8. QED
  BY <1>3, <1>4, <1>5, <1>6, <1>7

\* The answers of one process agree with what its ring remembers.
THEOREM AckInvariant ==
  ASSUME SameIdSerial, Cardinality(Ids) <= RingSize
  PROVE  Spec => []AckInv
<1>1. Init => AckInv
  BY DEF Init, AckInv, AnswersFromRing, Unanswered, DecidingSeen, EmptyRing,
         Positive, Negative, Deciding
<1>2. TypeOK /\ RingInv /\ AckInv /\ [Next]_vars => AckInv'
  <2>1. SUFFICES ASSUME TypeOK, RingInv, AckInv, [Next]_vars PROVE AckInv'
    OBVIOUS
  <2>2. ASSUME NEW d \in Deliveries, Deliver(d) \/ Goroutine(d) PROVE AckInv'
    BY <2>1, <2>2, AckDelivery
  <2>3. CASE Poll \/ Connect \/ Take \/ SendStarted \/ Tick \/ (\E id \in Ids : Abort(id))
    BY <2>1, <2>3, OthersKeepRing DEF AckInv, AnswersFromRing, Unanswered, DecidingSeen
  <2>4. CASE NewProcess
    <3>1. ring'.refused = {} /\ \A d \in Deliveries : pc'[d] \in Resting
      BY <2>1, <2>4, NewProcessRing
    <3>2. \A d \in Deliveries : answer'[d] = "none"
      BY <2>4 DEF NewProcess
    <3>3. QED
      BY <3>1, <3>2 DEF AckInv, AnswersFromRing, Unanswered, DecidingSeen, Resting,
                        Positive, Negative, Deciding
  <2>5. CASE UNCHANGED vars
    BY <2>1, <2>5 DEF vars, process, history, AckInv, AnswersFromRing, Unanswered,
                      DecidingSeen
  <2>6. QED
    BY <2>1, <2>2, <2>3, <2>4, <2>5 DEF Next, TakeEffect, Crash
<1>3. QED
  BY <1>1, <1>2, TypeCorrect, RingInvariant, PTL DEF Spec

\* Within one process no two deliveries of one id get opposite answers, whatever
\* fails (lookup, add and refuse of the ring; the Ack of executeCommand).
THEOREM OneAnswerPerId ==
  ASSUME SameIdSerial, Cardinality(Ids) <= RingSize
  PROVE  Spec => []AckConsistent
<1>1. AckInv => AckConsistent
  BY DEF AckInv, AnswersFromRing, AckConsistent, Positive, Negative
<1>2. QED
  BY <1>1, AckInvariant, PTL
-----------------------------------------------------------------------------
(* At most once, across processes.  A command is spent once its restart or *)
(* reboot is under way or has happened.  As long as its report is not      *)
(* lost, a spent id is on record (in state.json, in the payload of this    *)
(* process, or with the server), so it is in the ring of the process that  *)
(* sees it again, or not sent again at all.  The records must be written   *)
(* and read (no "io" fault) and the ring large enough; the process may     *)
(* die at any point.                                                       *)

Spent(id) == sched[id].on \/ executed[id] > 0
Doing == {"add"} \cup Deciding \cup
         {"run", "record", "commit", "act", "clear", "unrecord"}

RecordsKnown ==
  /\ records \cup payload \subseteq ring.seen
  /\ ~built => payload = {}

DoingSeen ==
  \A d \in Deliveries : pc[d] \in Doing \ {"add"} => IdOf[d] \in ring.seen

\* The server does not send again what it knows to be completed.
ReportedSettled ==
  \A id \in reported :
    id \in ring.seen \/ \A d \in Deliveries : IdOf[d] = id => pc[d] \in Resting

SpentOnRecord ==
  \A id \in Ids \ lost : Spent(id) => id \in reported \cup records \cup payload

SpentOver ==
  \A id \in Ids \ lost :
    Spent(id) => \A d \in Deliveries : IdOf[d] = id => pc[d] \notin Doing

SpentOnce ==
  \A id \in Ids \ lost : executed[id] <= 1 /\ (sched[id].on => executed[id] = 0)

\* The flag of a spent command still covers its schedule: its expiry, which
\* removes the record, comes later.
FlagOfSpent ==
  \A id \in Ids \ lost :
    gate.pending /\ gate.id = id /\ Spent(id)
    => executed[id] = 0 /\ gate.left > sched[id].due

FlagOfAct ==
  \A d \in Deliveries :
    pc[d] = "act" /\ gate.pending /\ gate.id = IdOf[d] => gate.left > delay[d]

\* A destructive command that was admitted saw the flag of its own id cleared.
PastGate(d) ==
  \/ pc[d] \in {"record", "commit"}
  \/ pc[d] \in {"claim", "ack"} /\ DestructiveOf(d)
OwnFlagFree ==
  \A d \in Deliveries : PastGate(d) => ~(gate.pending /\ gate.id = IdOf[d])

ActRecorded ==
  \A d \in Deliveries :
    pc[d] \in {"commit", "act"} => IdOf[d] \in records \cup payload

OnceInv ==
  /\ RecordsKnown /\ DoingSeen /\ ReportedSettled
  /\ SpentOnRecord /\ SpentOver /\ SpentOnce
  /\ FlagOfSpent /\ FlagOfAct /\ OwnFlagFree /\ ActRecorded

\* A goroutine that goes on is one that found its id unspent.
LEMMA PlacesKept ==
  ASSUME OnceInv, NEW d \in Deliveries, IdOf[d] \in Ids, NEW to,
         \A e \in Deliveries : pc'[e] = IF e = d THEN to ELSE pc[e],
         UNCHANGED <<sched, executed, reported, lost>>,
         ring.seen \subseteq ring'.seen,
         pc[d] # "done", to # "idle",
         to \in Doing \ {"add"} => IdOf[d] \in ring'.seen,
         to \in Doing => pc[d] \in Doing \/ (pc[d] = "lookup" /\ IdOf[d] \notin ring.seen),
         pc[d] = "idle" => IdOf[d] \notin reported
  PROVE  DoingSeen' /\ ReportedSettled' /\ SpentOver'
<1> USE DEF OnceInv
<1>1. DoingSeen'
  BY DEF DoingSeen
<1>2. ReportedSettled'
  <2>1. SUFFICES ASSUME NEW id \in reported, id \notin ring'.seen,
                        NEW e \in Deliveries, IdOf[e] = id
                 PROVE  pc'[e] \in Resting
    BY DEF ReportedSettled
  <2>2. \A f \in Deliveries : IdOf[f] = id => pc[f] \in Resting
    BY <2>1 DEF ReportedSettled
  <2>3. e # d
    BY <2>1, <2>2 DEF Resting
  <2>4. QED
    BY <2>1, <2>2, <2>3
<1>3. SpentOver'
  <2>1. SUFFICES ASSUME NEW id \in Ids \ lost, Spent(id),
                        NEW e \in Deliveries, IdOf[e] = id
                 PROVE  pc'[e] \notin Doing
    BY DEF SpentOver, Spent
  <2>2. pc[e] \notin Doing
    BY <2>1 DEF SpentOver
  <2>3. CASE e # d
    BY <2>2, <2>3
  <2>4. CASE e = d /\ to \in Doing
    <3>1. pc[d] = "lookup" /\ id \notin ring.seen
      BY <2>1, <2>2, <2>4
    <3>2. id \in reported
      BY <2>1, <3>1 DEF SpentOnRecord, RecordsKnown
    <3>3. pc[d] \in Resting
      BY <2>1, <2>4, <3>1, <3>2 DEF ReportedSettled
    <3>4. QED
      BY <3>1, <3>3 DEF Resting
  <2>5. QED
    BY <2>3, <2>4
<1>4. QED
  BY <1>1, <1>2, <1>3

\* The expiry of the flag removes the record of a command that never happened.
LEMMA ReadGateOnce ==
  ASSUME "io" \notin Faults, TypeOK, OnceInv, ReadGate,
         UNCHANGED <<sched, executed, reported, lost, payload>>
  PROVE  /\ SpentOnRecord' /\ SpentOnce' /\ FlagOfSpent'
         /\ gate'.pending => gate' = gate
         /\ ~PendingNow => ~gate'.pending
         /\ records' \subseteq records
         /\ \A d \in Deliveries :
              pc[d] \in {"commit", "act"} => IdOf[d] \in records' \cup payload'
<1> USE DEF OnceInv
<1>c. ~PendingNow => ~gate'.pending
  BY ReadGateClears
<1>0. SpentOnce'
  BY DEF SpentOnce
<1>1. CASE ~Overdue
  <2>1. gate' = gate /\ records' = records
    BY <1>1 DEF ReadGate
  <2>2. QED
    BY <1>0, <1>c, <2>1 DEF SpentOnRecord, FlagOfSpent, Spent, ActRecorded
<1>2. CASE Overdue
  <2>1. gate' = NoGate /\ gate.pending /\ gate.left = 0
    BY <1>2 DEF ReadGate, Overdue
  <2>2. records' = records \/ records' = records \ {gate.id}
    BY <1>2 DEF ReadGate, Saved
  <2>3. gate.id \in Ids \ lost => ~Spent(gate.id)
    BY <2>1 DEF FlagOfSpent, TypeOK, Schedules
  <2>4. SpentOnRecord'
    BY <2>2, <2>3 DEF SpentOnRecord, Spent
  <2>5. ~gate'.pending
    BY <2>1, NoGateFree
  <2>6. FlagOfSpent'
    BY <2>5 DEF FlagOfSpent
  <2>7. \A d \in Deliveries : pc[d] \in {"commit", "act"} => IdOf[d] # gate.id
    <3>1. \A d \in Deliveries : pc[d] = "commit" => IdOf[d] # gate.id
      BY <2>1 DEF OwnFlagFree, PastGate
    <3>2. \A d \in Deliveries : pc[d] = "act" => IdOf[d] # gate.id
      BY <2>1 DEF FlagOfAct, TypeOK
    <3>3. QED
      BY <3>1, <3>2
  <2>8. QED
    BY <1>0, <1>c, <2>2, <2>4, <2>5, <2>6, <2>7 DEF ActRecorded
<1>3. QED
  BY <1>1, <1>2

\* The steps of one delivery.
LEMMA OnceDelivery ==
  ASSUME Cardinality(Ids) <= RingSize, "io" \notin Faults,
         TypeOK, RingInv, OnceInv,
         NEW d \in Deliveries, Deliver(d) \/ Goroutine(d)
  PROVE  OnceInv'
<1> USE CommandsAssumption DEF OnceInv
<1> DEFINE id == IdOf[d]
<1>0. IdOf[d] \in Ids
  OBVIOUS
<1>1. PICK to \in PCs :
         /\ to # "idle" /\ pc[d] # "done"
         /\ \A e \in Deliveries : pc'[e] = IF e = d THEN to ELSE pc[e]
         /\ Deliver(d) => pc[d] = "idle" /\ to = "lookup"
         /\ ~Deliver(d) => pc[d] # "idle" /\ to # "lookup"
  BY DeliveryMoves
<1>2. UNCHANGED <<executed, reported, lost, payload, built>>
  BY DEF Deliver, Goroutine, Lookup, Add, Admit, AdmitDestructive, Refuse, Claim, Ack,
         Run, Record, Commit, Act, Clear, Unrecord, Release, history
<1>3. CASE \/ Deliver(d) \/ Lookup(d) \/ Add(d) \/ Admit(d) \/ Refuse(d) \/ Claim(d)
           \/ Ack(d) \/ Run(d) \/ Release(d)
  <2>1. UNCHANGED <<gate, sched, delay, records>>
    BY <1>3 DEF Deliver, Lookup, Add, Admit, Refuse, Claim, Ack, Run, Release, history
  <2>2. /\ ring.seen \subseteq ring'.seen
        /\ Add(d) => IdOf[d] \in ring'.seen
    <3>1. CASE Add(d)
      <4>1. pc[d] = "add" /\ ring' = RingAdd(ring, IdOf[d])
        BY <3>1 DEF Add, Goto
      <4>2. IdOf[d] \notin ring.seen
        BY <4>1 DEF RingInv, AddsFresh
      <4>3. ring'.seen = ring.seen \cup {IdOf[d]}
        BY <1>0, <4>1, <4>2, AddKeeps DEF RingInv
      <4>4. QED
        BY <4>3
    <3>2. CASE ~Add(d)
      <4>1. ring' = ring \/ ring' = RingRefuse(ring, IdOf[d])
                         \/ ring' = RingStore(ring, IdOf[d])
        BY <3>2, RingChanges
      <4>2. QED
        BY <3>2, <4>1 DEF RingRefuse, RingStore, TypeOK, Ring
    <3>3. QED
      BY <3>1, <3>2
  <2>3. to \in Doing \ {"add"} => Add(d) \/ pc[d] \in Doing \ {"add"}
    BY <1>1, <1>3 DEF Deliver, Lookup, Add, Admit, Refuse, Claim, Ack, Run, Release,
       Goto, Doing, Deciding, TypeOK
  <2>4. to \in Doing \ {"add"} => IdOf[d] \in ring'.seen
    BY <2>2, <2>3 DEF DoingSeen
  <2>5. to \in Doing => pc[d] \in Doing \/ (pc[d] = "lookup" /\ IdOf[d] \notin ring.seen)
    BY <1>1, <1>3 DEF Deliver, Lookup, Add, Admit, Refuse, Claim, Ack, Run, Release,
       Goto, Doing, Deciding, TypeOK
  <2>6. pc[d] = "idle" => IdOf[d] \notin reported
    BY <1>1 DEF Deliver
  <2>7. to # "act"
    BY <1>1, <1>3 DEF Deliver, Lookup, Add, Admit, Refuse, Claim, Ack, Run, Release,
       Goto, TypeOK
  <2>8. DoingSeen' /\ ReportedSettled' /\ SpentOver'
    BY <1>0, <1>1, <1>2, <2>1, <2>2, <2>4, <2>5, <2>6, PlacesKept
  <2>9. RecordsKnown'
    BY <1>2, <2>1, <2>2 DEF RecordsKnown
  <2>10. SpentOnRecord' /\ SpentOnce' /\ FlagOfSpent'
    BY <1>2, <2>1 DEF SpentOnRecord, SpentOnce, FlagOfSpent, Spent
  <2>11. FlagOfAct'
    BY <1>1, <2>1, <2>7 DEF FlagOfAct
  <2>12. PastGate(d)' => PastGate(d)
    <3>1. to # "commit"
      BY <1>1, <1>3 DEF Deliver, Lookup, Add, Admit, Refuse, Claim, Ack, Run, Release,
         Goto, TypeOK
    <3>2. to = "record" => pc[d] = "ack" /\ DestructiveOf(d)
      BY <1>1, <1>3 DEF Deliver, Lookup, Add, Admit, Refuse, Claim, Ack, Run, Release,
         Goto, TypeOK, DestructiveOf
    <3>3. to \in {"claim", "ack"} /\ DestructiveOf(d) => pc[d] = "claim"
      BY <1>1, <1>3 DEF Deliver, Lookup, Add, Admit, Refuse, Claim, Ack, Run, Release,
         Goto, TypeOK, DestructiveOf
    <3>4. QED
      BY <1>1, <3>1, <3>2, <3>3 DEF PastGate, DestructiveOf
  <2>13. OwnFlagFree'
    BY <1>1, <2>1, <2>12 DEF OwnFlagFree, PastGate, DestructiveOf
  <2>14. ActRecorded'
    <3>1. to # "commit"
      BY <1>1, <1>3 DEF Deliver, Lookup, Add, Admit, Refuse, Claim, Ack, Run, Release,
         Goto, TypeOK
    <3>2. QED
      BY <1>1, <1>2, <2>1, <2>7, <3>1 DEF ActRecorded
  <2>15. QED
    BY <2>8, <2>9, <2>10, <2>11, <2>13, <2>14
<1>4. CASE \/ AdmitDestructive(d) \/ Record(d) \/ Commit(d) \/ Act(d) \/ Clear(d)
           \/ Unrecord(d)
  <2>1. ring' = ring
    BY <1>4 DEF AdmitDestructive, Record, Commit, Act, Clear, Unrecord
  <2>2. pc[d] \in {"gate", "record", "commit", "act", "clear", "unrecord"}
    BY <1>4 DEF AdmitDestructive, Record, Commit, Act, Clear, Unrecord, Goto
  <2>3. pc[d] \in Doing /\ IdOf[d] \in ring.seen
    BY <2>2 DEF Doing, Deciding, DoingSeen
  <2>4. id \in Ids \ lost => ~Spent(id)
    BY <1>0, <2>3 DEF SpentOver
  <2>5. sched' = sched => DoingSeen' /\ ReportedSettled' /\ SpentOver'
    BY <1>0, <1>1, <1>2, <2>1, <2>2, <2>3, PlacesKept
  <2>6. CASE AdmitDestructive(d)
    <3>1. /\ ReadGate /\ UNCHANGED <<sched, delay>>
          /\ to = "refuse" \/ (to = "claim" /\ ~PendingNow)
      BY <1>1, <2>6 DEF AdmitDestructive, Goto, TypeOK
    <3>2. /\ SpentOnRecord' /\ SpentOnce' /\ FlagOfSpent'
          /\ gate'.pending => gate' = gate
          /\ ~PendingNow => ~gate'.pending
          /\ records' \subseteq records
          /\ \A e \in Deliveries :
               pc[e] \in {"commit", "act"} => IdOf[e] \in records' \cup payload'
      BY <1>2, <3>1, ReadGateOnce
    <3>3. RecordsKnown'
      BY <1>2, <2>1, <3>2 DEF RecordsKnown
    <3>4. FlagOfAct'
      BY <1>1, <3>1, <3>2 DEF FlagOfAct
    <3>5. OwnFlagFree'
      BY <1>1, <3>1, <3>2 DEF OwnFlagFree, PastGate, DestructiveOf
    <3>6. ActRecorded'
      BY <1>1, <3>1, <3>2 DEF ActRecorded
    <3>7. QED
      BY <2>5, <3>1, <3>2, <3>3, <3>4, <3>5, <3>6
  <2>7. CASE Record(d)
    <3>1. /\ UNCHANGED <<gate, sched, delay>> /\ records' = records \cup {id}
          /\ pc[d] = "record" /\ to = "commit"
      BY <1>1, <2>7 DEF Record, Goto, TypeOK
    <3>2. RecordsKnown'
      BY <1>2, <2>1, <2>3, <3>1 DEF RecordsKnown
    <3>3. SpentOnRecord' /\ SpentOnce' /\ FlagOfSpent'
      BY <1>2, <3>1 DEF SpentOnRecord, SpentOnce, FlagOfSpent, Spent
    <3>4. FlagOfAct' /\ OwnFlagFree' /\ ActRecorded'
      BY <1>1, <1>2, <3>1 DEF FlagOfAct, OwnFlagFree, PastGate, DestructiveOf, ActRecorded
    <3>5. QED
      BY <2>5, <3>1, <3>2, <3>3, <3>4
  <2>8. CASE Commit(d)
    <3>1. UNCHANGED <<sched, records>> /\ pc[d] = "commit" /\ to \in {"unrecord", "act"}
      BY <1>1, <2>8 DEF Commit, Goto, TypeOK
    <3>2. RecordsKnown' /\ SpentOnRecord' /\ SpentOnce'
      BY <1>2, <2>1, <3>1 DEF RecordsKnown, SpentOnRecord, SpentOnce, Spent
    <3>a. ActRecorded'
      BY <1>1, <1>2, <3>1 DEF ActRecorded
    <3>3. CASE to = "unrecord"
      <4>1. UNCHANGED <<gate, delay>>
        BY <1>1, <2>8, <3>3 DEF Commit, Goto, TypeOK
      <4>2. FlagOfSpent' /\ FlagOfAct' /\ OwnFlagFree'
        BY <1>1, <1>2, <3>1, <3>3, <4>1 DEF FlagOfSpent, FlagOfAct, OwnFlagFree,
           PastGate, DestructiveOf, Spent
      <4>3. QED
        BY <2>5, <3>1, <3>2, <3>a, <4>2
    <3>4. CASE to = "act"
      <4>1. PICK n \in Delays(NameOf[id]) :
              /\ delay' = [delay EXCEPT ![d] = n]
              /\ gate' = [pending |-> TRUE, left |-> Deadline(NameOf[id], n), id |-> id]
        BY <1>1, <2>8, <3>4 DEF Commit, Goto, TypeOK
      <4>2. n \in Nat /\ Deadline(NameOf[id], n) > n
        BY DEF Delays, Deadline
      <4>3. FlagOfSpent'
        BY <1>2, <2>4, <3>1, <4>1 DEF FlagOfSpent, Spent
      <4>4. \A e \in Deliveries : e # d /\ pc[e] = "act" => IdOf[e] # id
        BY <3>1 DEF RingInv, SameIdAlone, Resting
      <4>5. delay'[d] = n
        BY <4>1 DEF TypeOK
      <4>6. FlagOfAct'
        BY <1>1, <4>1, <4>2, <4>4, <4>5 DEF FlagOfAct
      <4>7. \A e \in Deliveries : e # d /\ PastGate(e) => IdOf[e] # id
        BY <3>1 DEF RingInv, SameIdAlone, Resting, PastGate
      <4>8. OwnFlagFree'
        BY <1>1, <3>4, <4>1, <4>7 DEF OwnFlagFree, PastGate, DestructiveOf
      <4>9. QED
        BY <2>5, <3>1, <3>2, <3>a, <4>3, <4>6, <4>8
    <3>5. QED
      BY <3>1, <3>3, <3>4
  <2>9. CASE Act(d)
    <3>1. UNCHANGED <<gate, delay, records>> /\ pc[d] = "act" /\ to \in {"release", "clear"}
      BY <1>1, <2>9 DEF Act, Goto, TypeOK
    <3>2. RecordsKnown' /\ FlagOfAct' /\ OwnFlagFree' /\ ActRecorded'
      BY <1>1, <1>2, <2>1, <3>1 DEF RecordsKnown, FlagOfAct, OwnFlagFree, PastGate,
         DestructiveOf, ActRecorded
    <3>3. CASE sched' = sched
      <4>1. SpentOnRecord' /\ SpentOnce' /\ FlagOfSpent'
        BY <1>2, <3>1, <3>3 DEF SpentOnRecord, SpentOnce, FlagOfSpent, Spent
      <4>2. QED
        BY <2>5, <3>2, <3>3, <4>1
    <3>4. CASE sched' # sched
      <4>1. sched' = [sched EXCEPT ![id] = On(delay[d])] /\ to = "release"
        BY <1>1, <2>9, <3>4 DEF Act, Goto, TypeOK
      <4>2. /\ \A i \in Ids : i # id => sched'[i] = sched[i]
            /\ sched'[id].due = delay[d]
        BY <1>0, <4>1 DEF TypeOK, On
      <4>3. id \in Ids \ lost => executed[id] = 0
        BY <2>4, <1>0 DEF Spent, TypeOK
      <4>4. QED
        <5>1. DoingSeen'
          BY <1>1, <2>1, <4>1 DEF DoingSeen, Doing, Deciding
        <5>2. ReportedSettled'
          BY <1>1, <1>2, <2>1, <2>3 DEF ReportedSettled
        <5>3. SpentOnRecord'
          <6>1. id \in records \cup payload
            BY <3>1 DEF ActRecorded
          <6>2. QED
            BY <1>2, <3>1, <4>2, <6>1 DEF SpentOnRecord, Spent
        <5>4. SpentOver'
          <6>1. \A e \in Deliveries : IdOf[e] = id => pc'[e] \notin Doing
            BY <1>1, <2>2, <4>1 DEF RingInv, SameIdAlone, Resting, Doing, Deciding
          <6>2. QED
            BY <1>1, <1>2, <4>1, <4>2, <6>1 DEF SpentOver, Spent, Doing, Deciding
        <5>5. SpentOnce'
          BY <1>2, <4>2, <4>3 DEF SpentOnce
        <5>6. FlagOfSpent'
          <6>1. gate.pending /\ gate.id = id => gate.left > delay[d]
            BY <3>1 DEF FlagOfAct
          <6>2. QED
            BY <1>2, <3>1, <4>2, <4>3, <6>1 DEF FlagOfSpent, Spent
        <5>7. QED
          BY <3>2, <5>1, <5>2, <5>3, <5>4, <5>5, <5>6
    <3>5. QED
      BY <3>3, <3>4
  <2>10. CASE Clear(d)
    <3>1. UNCHANGED <<sched, delay, records>> /\ gate' = NoGate /\ to = "unrecord"
      BY <1>1, <2>10 DEF Clear, Goto, TypeOK
    <3>2. ~gate'.pending
      BY <3>1, NoGateFree
    <3>3. RecordsKnown' /\ SpentOnRecord' /\ SpentOnce'
      BY <1>2, <2>1, <3>1 DEF RecordsKnown, SpentOnRecord, SpentOnce, Spent
    <3>4. FlagOfSpent' /\ FlagOfAct' /\ OwnFlagFree' /\ ActRecorded'
      BY <1>1, <1>2, <3>1, <3>2 DEF FlagOfSpent, FlagOfAct, OwnFlagFree, ActRecorded
    <3>5. QED
      BY <2>5, <3>1, <3>3, <3>4
  <2>11. CASE Unrecord(d)
    <3>1. /\ UNCHANGED <<gate, sched, delay>> /\ records' = records \ {id}
          /\ pc[d] = "unrecord" /\ to = "release"
      BY <1>1, <2>11 DEF Unrecord, Goto, Saved, TypeOK
    <3>2. RecordsKnown' /\ SpentOnce' /\ FlagOfSpent'
      BY <1>2, <2>1, <3>1 DEF RecordsKnown, SpentOnce, FlagOfSpent, Spent
    <3>3. SpentOnRecord'
      BY <1>2, <2>4, <3>1 DEF SpentOnRecord, Spent
    <3>4. FlagOfAct' /\ OwnFlagFree'
      BY <1>1, <3>1 DEF FlagOfAct, OwnFlagFree, PastGate, DestructiveOf
    <3>5. \A e \in Deliveries : e # d /\ pc[e] \in {"commit", "act"} => IdOf[e] # id
      BY <3>1 DEF RingInv, SameIdAlone, Resting
    <3>6. ActRecorded'
      BY <1>1, <1>2, <3>1, <3>5 DEF ActRecorded
    <3>7. QED
      BY <2>5, <3>1, <3>2, <3>3, <3>4, <3>6
  <2>12. QED
    BY <1>4, <2>6, <2>7, <2>8, <2>9, <2>10, <2>11
<1>5. QED
  BY <1>3, <1>4 DEF Goroutine

\* The poll goroutine expires flags as admitDestructive does.
LEMMA OncePoll ==
  ASSUME "io" \notin Faults, TypeOK, OnceInv, Poll
  PROVE  OnceInv'
<1> USE DEF OnceInv
<1>1. UNCHANGED <<pc, ring, delay, sched, executed, reported, lost, payload, built>>
  BY DEF Poll, CycleCheck, CycleIdle, BeginSelf, BeginSetup, BeginInstall, EndInstall,
         HandOff, PollUnchanged, history
<1>2. ReadGate \/ UNCHANGED <<gate, records>>
  BY DEF Poll, CycleCheck, CycleIdle, BeginSelf, BeginSetup, BeginInstall, EndInstall,
         HandOff
<1>3. DoingSeen' /\ ReportedSettled' /\ SpentOver'
  BY <1>1 DEF DoingSeen, ReportedSettled, SpentOver, Spent
<1>4. CASE ReadGate
  <2>1. /\ SpentOnRecord' /\ SpentOnce' /\ FlagOfSpent'
        /\ gate'.pending => gate' = gate
        /\ records' \subseteq records
        /\ \A d \in Deliveries :
             pc[d] \in {"commit", "act"} => IdOf[d] \in records' \cup payload'
    BY <1>1, <1>4, ReadGateOnce
  <2>2. RecordsKnown' /\ FlagOfAct' /\ OwnFlagFree' /\ ActRecorded'
    BY <1>1, <2>1 DEF RecordsKnown, FlagOfAct, OwnFlagFree, PastGate, ActRecorded
  <2>3. QED
    BY <1>3, <2>1, <2>2
<1>5. CASE UNCHANGED <<gate, records>>
  BY <1>1, <1>3, <1>5 DEF RecordsKnown, SpentOnRecord, SpentOnce, FlagOfSpent, FlagOfAct,
     OwnFlagFree, PastGate, ActRecorded, Spent
<1>6. QED
  BY <1>2, <1>4, <1>5

\* The burst reports only ids the ring knows.
LEMMA OnceBurst ==
  ASSUME "io" \notin Faults, TypeOK, OnceInv, Connect \/ Take \/ SendStarted
  PROVE  OnceInv'
<1> USE DEF OnceInv
<1>1. UNCHANGED <<pc, ring, delay, gate, sched, executed, lost>>
  BY DEF Connect, Take, SendStarted, BurstUnchanged
<1>2. /\ records' \cup payload' = records \cup payload
      /\ ~built' => payload' = {}
      /\ reported \subseteq reported' /\ reported' \subseteq reported \cup payload
  <2>1. CASE Connect \/ SendStarted
    BY <2>1 DEF Connect, SendStarted, RecordsKnown
  <2>2. CASE Take
    BY <2>2 DEF Take, Saved, RecordsKnown
  <2>3. QED
    BY <2>1, <2>2
<1>3. RecordsKnown'
  BY <1>1, <1>2 DEF RecordsKnown
<1>4. ReportedSettled'
  BY <1>1, <1>2 DEF ReportedSettled, RecordsKnown
<1>5. SpentOnRecord'
  BY <1>1, <1>2 DEF SpentOnRecord, Spent
<1>6. ActRecorded'
  BY <1>1, <1>2 DEF ActRecorded
<1>7. QED
  BY <1>1, <1>3, <1>4, <1>5, <1>6 DEF DoingSeen, SpentOver, SpentOnce, FlagOfSpent,
     FlagOfAct, OwnFlagFree, PastGate, Spent

\* A new process: what its predecessor had taken and not reported is lost, what
\* it had not taken is in the ring.
LEMMA OnceNewProcess ==
  ASSUME Cardinality(Ids) <= RingSize, "io" \notin Faults, TypeOK, OnceInv, NewProcess,
         \A id \in Ids \ lost : Spent(id)' => Spent(id),
         SpentOnce'
  PROVE  OnceInv'
<1> USE DEF OnceInv
<1>1. ring'.seen = records /\ \A d \in Deliveries : pc'[d] \in Resting
  BY NewProcessRing
<1>2. /\ records' = records /\ reported' = reported /\ payload' = {}
      /\ lost' = lost \cup (payload \ reported)
  BY DEF NewProcess
<1>3. ~gate'.pending
  BY NoGateFree DEF NewProcess
<1>4. RecordsKnown'
  BY <1>1, <1>2 DEF RecordsKnown
<1>5. DoingSeen' /\ ReportedSettled' /\ SpentOver' /\ ActRecorded'
  BY <1>1 DEF DoingSeen, ReportedSettled, SpentOver, ActRecorded, Resting, Doing, Deciding
<1>6. SpentOnRecord'
  <2>1. SUFFICES ASSUME NEW id \in Ids \ lost', Spent(id)'
                 PROVE  id \in reported \cup records
    BY <1>2 DEF SpentOnRecord
  <2>2. id \in Ids \ lost /\ id \notin payload \ reported
    BY <1>2, <2>1
  <2>3. Spent(id)
    BY <2>1, <2>2
  <2>4. id \in reported \cup records \cup payload
    BY <2>2, <2>3 DEF SpentOnRecord
  <2>5. QED
    BY <2>2, <2>4
<1>7. FlagOfSpent' /\ FlagOfAct' /\ OwnFlagFree'
  BY <1>3 DEF FlagOfSpent, FlagOfAct, OwnFlagFree
<1>8. QED
  BY <1>4, <1>5, <1>6, <1>7

\* The world outside the process.
LEMMA OnceOutside ==
  ASSUME Cardinality(Ids) <= RingSize, "io" \notin Faults, TypeOK, OnceInv,
         (\E id \in Ids : TakeEffect(id) \/ Abort(id)) \/ Crash \/ Tick
  PROVE  OnceInv'
<1> USE DEF OnceInv
<1>1. ASSUME NEW id \in Ids, TakeEffect(id)
      PROVE  OnceInv'
  <2>1. NewProcess /\ sched[id].on /\ executed' = [executed EXCEPT ![id] = @ + 1]
    BY <1>1 DEF TakeEffect
  <2>2. /\ ~sched'[id].on
        /\ \A i \in Ids : sched'[i].on => sched[i].on
    BY <1>1 DEF TakeEffect, TypeOK, Off
  <2>3. \A i \in Ids : executed'[i] = IF i = id THEN executed[i] + 1 ELSE executed[i]
    BY <2>1 DEF TypeOK
  <2>4. lost \subseteq lost'
    BY <2>1 DEF NewProcess
  <2>5. \A i \in Ids \ lost : Spent(i)' => Spent(i)
    BY <2>1, <2>2, <2>3 DEF Spent
  <2>6. SpentOnce'
    <3>1. SUFFICES ASSUME NEW i \in Ids \ lost'
                   PROVE  executed'[i] <= 1 /\ (sched'[i].on => executed'[i] = 0)
      BY DEF SpentOnce
    <3>2. i \in Ids \ lost
      BY <2>4
    <3>3. executed[i] \in Nat /\ executed[i] <= 1 /\ (sched[i].on => executed[i] = 0)
      BY <3>2 DEF SpentOnce, TypeOK
    <3>4. CASE i = id
      BY <2>1, <2>2, <2>3, <3>3, <3>4
    <3>5. CASE i # id
      BY <2>2, <2>3, <3>3, <3>5
    <3>6. QED
      BY <3>4, <3>5
  <2>7. QED
    BY <2>1, <2>5, <2>6, OnceNewProcess
<1>2. ASSUME NEW id \in Ids, Abort(id)
      PROVE  OnceInv'
  <2>1. UNCHANGED <<pc, ring, gate, delay, records, payload, built, executed, reported, lost>>
    BY <1>2 DEF Abort, process, history
  <2>2. \A i \in Ids : sched'[i].on => sched'[i] = sched[i]
    BY <1>2 DEF Abort, TypeOK, Off
  <2>3. \A i \in Ids : Spent(i)' => Spent(i)
    BY <2>1, <2>2 DEF Spent
  <2>4. SpentOnRecord' /\ SpentOver' /\ SpentOnce'
    BY <2>1, <2>2, <2>3 DEF SpentOnRecord, SpentOver, SpentOnce
  <2>5. FlagOfSpent'
    <3>1. SUFFICES ASSUME NEW i \in Ids \ lost, gate.pending, gate.id = i, Spent(i)'
                   PROVE  executed[i] = 0 /\ gate.left > sched'[i].due
      BY <2>1 DEF FlagOfSpent
    <3>2. executed[i] = 0 /\ gate.left > sched[i].due
      BY <2>3, <3>1 DEF FlagOfSpent
    <3>3. sched'[i].on
      BY <2>1, <3>1, <3>2 DEF Spent
    <3>4. QED
      BY <2>2, <3>2, <3>3
  <2>6. QED
    BY <2>1, <2>4, <2>5 DEF RecordsKnown, DoingSeen, ReportedSettled, FlagOfAct,
       OwnFlagFree, PastGate, ActRecorded
<1>3. CASE Crash
  <2>1. NewProcess /\ UNCHANGED <<sched, executed>>
    BY <1>3 DEF Crash
  <2>2. lost \subseteq lost'
    BY <2>1 DEF NewProcess
  <2>3. SpentOnce' /\ \A i \in Ids \ lost : Spent(i)' => Spent(i)
    BY <2>1, <2>2 DEF SpentOnce, Spent
  <2>4. QED
    BY <2>1, <2>3, OnceNewProcess
<1>4. CASE Tick
  <2>1. UNCHANGED <<pc, ring, delay, records, payload, built, executed, reported, lost>>
    BY <1>4 DEF Tick, history
  <2>2. \A d \in Deliveries : pc[d] # "act"
    BY <1>4 DEF Tick
  <2>3. gate'.pending = gate.pending /\ gate'.id = gate.id
    BY <1>4 DEF Tick, TypeOK, Gates
  <2>4. gate'.left = IF gate.left > 0 THEN gate.left - 1 ELSE 0
    BY <1>4 DEF Tick, TypeOK, Gates
  <2>5. \A i \in Ids : /\ sched'[i].on = sched[i].on
                       /\ sched'[i].due = IF sched[i].due > 0 THEN sched[i].due - 1 ELSE 0
    BY <1>4 DEF Tick, TypeOK, Schedules
  <2>6. \A i \in Ids : sched[i].on => sched[i].due > 0
    BY <1>4 DEF Tick
  <2>7. gate.left \in Nat /\ \A i \in Ids : sched[i].due \in Nat
    BY DEF TypeOK, Gates, Schedules
  <2>8. \A i \in Ids : Spent(i)' <=> Spent(i)
    BY <2>1, <2>5 DEF Spent
  <2>9. SpentOnRecord' /\ SpentOver' /\ SpentOnce'
    BY <2>1, <2>5, <2>8 DEF SpentOnRecord, SpentOver, SpentOnce
  <2>10. FlagOfSpent'
    <3>1. SUFFICES ASSUME NEW i \in Ids \ lost, gate'.pending, gate'.id = i, Spent(i)'
                   PROVE  executed[i] = 0 /\ gate'.left > sched'[i].due
      BY <2>1 DEF FlagOfSpent
    <3>2. gate.pending /\ gate.id = i /\ Spent(i)
      BY <2>3, <2>8, <3>1
    <3>3. executed[i] = 0 /\ gate.left > sched[i].due
      BY <3>2 DEF FlagOfSpent
    <3>4. sched[i].on
      BY <3>2, <3>3 DEF Spent
    <3>5. sched[i].due > 0
      BY <2>6, <3>4
    <3>6. gate'.left > sched'[i].due
      BY <2>4, <2>5, <2>7, <3>3, <3>5
    <3>7. QED
      BY <3>3, <3>6
  <2>11. FlagOfAct' /\ OwnFlagFree'
    BY <2>1, <2>2, <2>3 DEF FlagOfAct, OwnFlagFree, PastGate
  <2>12. QED
    BY <2>1, <2>9, <2>10, <2>11 DEF RecordsKnown, DoingSeen, ReportedSettled, ActRecorded
<1>5. QED
  BY <1>1, <1>2, <1>3, <1>4

\* A spent command is on record, known to the ring or not sent again, for as
\* long as its report is not lost.
THEOREM OnceInvariant ==
  ASSUME SameIdSerial, Cardinality(Ids) <= RingSize, "io" \notin Faults
  PROVE  Spec => []OnceInv
<1>1. Init => OnceInv
  <2>1. SUFFICES ASSUME Init PROVE OnceInv
    OBVIOUS
  <2>2. /\ \A d \in Deliveries : pc[d] = "idle"
        /\ \A id \in Ids : ~Spent(id) /\ executed[id] = 0
        /\ ~gate.pending
    BY <2>1, NoGateFree DEF Init, Spent, Off
  <2>3. RecordsKnown /\ ReportedSettled
    BY <2>1 DEF Init, RecordsKnown, ReportedSettled, EmptyRing
  <2>4. DoingSeen /\ SpentOnRecord /\ SpentOver /\ ActRecorded
    BY <2>2 DEF DoingSeen, SpentOnRecord, SpentOver, ActRecorded, Doing, Deciding
  <2>5. SpentOnce
    BY <2>2 DEF SpentOnce
  <2>6. FlagOfSpent /\ FlagOfAct /\ OwnFlagFree
    BY <2>2 DEF FlagOfSpent, FlagOfAct, OwnFlagFree
  <2>7. QED
    BY <2>3, <2>4, <2>5, <2>6 DEF OnceInv
<1>2. TypeOK /\ RingInv /\ OnceInv /\ [Next]_vars => OnceInv'
  <2>1. SUFFICES ASSUME TypeOK, RingInv, OnceInv, [Next]_vars PROVE OnceInv'
    OBVIOUS
  <2>2. CASE Next
    BY <2>1, <2>2, OnceDelivery, OncePoll, OnceBurst, OnceOutside DEF Next
  <2>3. CASE UNCHANGED vars
    BY <2>1, <2>3 DEF vars, process, history, OnceInv, RecordsKnown, DoingSeen,
       ReportedSettled, SpentOnRecord, SpentOver, SpentOnce, FlagOfSpent, FlagOfAct,
       OwnFlagFree, PastGate, ActRecorded, Spent
  <2>4. QED
    BY <2>1, <2>2, <2>3
<1>3. QED
  BY <1>1, <1>2, TypeCorrect, RingInvariant, PTL DEF Spec

\* A command restarts or reboots a second time only if its report was taken out
\* of state.json (TakePendingCommands) and died unsent with its process; the
\* ring (seedCommandRing, seen) catches every other redelivery.
THEOREM CommandsRunOnce ==
  ASSUME SameIdSerial, Cardinality(Ids) <= RingSize, "io" \notin Faults
  PROVE  Spec => []AtMostOnceUnlessReportLost
<1>1. TypeOK /\ OnceInv => AtMostOnceUnlessReportLost
  BY DEF TypeOK, OnceInv, SpentOnce, AtMostOnceUnlessReportLost
<1>2. QED
  BY <1>1, OnceInvariant, TypeCorrect, PTL
=============================================================================
