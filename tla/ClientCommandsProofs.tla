------------------------ MODULE ClientCommandsProofs ------------------------
(***************************************************************************)
(* Proofs about ClientCommands, for every set of deliveries, every ring    *)
(* size, every delay and every combination of faults.                      *)
(***************************************************************************)
EXTENDS ClientCommands, FiniteSetTheorems, SequenceTheorems, TLAPS

-----------------------------------------------------------------------------
(* The ring operators return rings.                                        *)

\* commandRing.add returns a ring, evicting or not.
LEMMA RingAddType ==
  ASSUME NEW x \in Ring, NEW id \in Ids
  PROVE  RingAdd(x, id) \in Ring
<1>1. Append(x.order, id) \in Seq(Ids) /\ Append(x.order, id) # <<>>
  BY AppendProperties DEF Ring
<1>2. Tail(Append(x.order, id)) \in Seq(Ids)
  BY <1>1, HeadTailProperties
<1>3. QED
  BY <1>1, <1>2 DEF Ring, RingAdd

\* commandRing.store returns a ring.
LEMMA RingStoreType ==
  ASSUME NEW x \in Ring, NEW id \in Ids
  PROVE  RingStore(x, id) \in Ring
BY DEF Ring, RingStore

\* commandRing.refuse returns a ring.
LEMMA RingRefuseType ==
  ASSUME NEW x \in Ring, NEW id \in Ids
  PROVE  RingRefuse(x, id) \in Ring
BY DEF Ring, RingRefuse

\* seedCommandRing builds a ring from any list of recorded ids.
LEMMA RingSeedType ==
  ASSUME NEW S \in SUBSET Ids, NEW ids \in SetToSeqs(S)
  PROVE  RingSeed(ids) \in Ring
<1>1. IsFiniteSet(S)
  BY RingAssumption, FS_Subset
<1>2. Cardinality(S) \in Nat
  BY <1>1, FS_CardinalityType
<1>3. ids \in [1..Cardinality(S) -> Ids]
  BY DEF SetToSeqs
<1>4. ids \in Seq(Ids)
  BY <1>2, <1>3, IsASeq
<1> DEFINE n == Len(ids)
           kept == IF n > RingSize THEN SubSeq(ids, n - RingSize + 1, n) ELSE ids
<1>5. n \in Nat
  BY <1>4, LenProperties
<1>6. kept \in Seq(Ids)
  <2>1. CASE n > RingSize
    <3>1. n - RingSize + 1 \in 1..(n+1)
      BY <2>1, <1>5, RingAssumption
    <3>2. SubSeq(ids, n - RingSize + 1, n) \in Seq(Ids)
      BY <3>1, <1>4, <1>5, SubSeqProperties
    <3>3. QED BY <3>2, <2>1
  <2>2. CASE ~(n > RingSize)
    BY <2>2, <1>4
  <2>3. QED BY <2>1, <2>2
<1>7. Range(kept) \in SUBSET Ids
  <2> HIDE DEF kept
  <2> QED BY <1>6, ElementOfSeq, LenProperties DEF Range
<1> HIDE DEF kept, n
<1>8. RingSeed(ids) = [EmptyRing EXCEPT !.order = kept, !.seen = Range(kept)]
  BY DEF RingSeed, kept, n
<1>9. QED
  BY <1>6, <1>7, <1>8 DEF Ring, EmptyRing
-----------------------------------------------------------------------------
(* Type correctness.                                                       *)

\* The records the actions build.
LEMMA GateType ==
  /\ NoGate \in Gates
  /\ \A n \in Nat, id \in Ids : [pending |-> TRUE, left |-> n, id |-> id] \in Gates
BY CommandsAssumption DEF NoGate, Gates

\* Both forms of a schedule are schedules.
LEMMA ScheduleType ==
  /\ Off \in Schedules
  /\ \A n \in Nat : On(n) \in Schedules
BY DEF Off, On, Schedules

\* The zero values of the first process are well typed.
LEMMA InitType == Init => TypeOK
<1>1. EmptyRing \in Ring
  BY DEF EmptyRing, Ring
<1>2. SUFFICES ASSUME Init PROVE TypeOK
  OBVIOUS
<1>3. gate \in Gates /\ sched \in [Ids -> Schedules]
  BY <1>2, GateType, ScheduleType DEF Init
<1>4. built \in BOOLEAN
  BY <1>2 DEF Init
<1>5. QED
  BY <1>1, <1>2, <1>3, <1>4 DEF Init, TypeOK, PCs, Answers

\* What the critical section of destructivePendingLocked leaves behind.
LEMMA ReadGateType ==
  ASSUME TypeOK, ReadGate
  PROVE  /\ gate' \in Gates
         /\ records' \subseteq Ids
         /\ gate' \in {gate, NoGate}
BY GateType DEF TypeOK, ReadGate, Saved

\* The next process starts in a state of the right type.
LEMMA NewProcessType ==
  ASSUME TypeOK, NewProcess,
         sched' \in [Ids -> Schedules], executed' \in [Ids -> Nat]
  PROVE  TypeOK'
<1>1. ring' \in Ring
  <2>1. CASE \E ids \in SetToSeqs(records) : ring' = RingSeed(ids)
    <3>1. PICK ids \in SetToSeqs(records) : ring' = RingSeed(ids)
      BY <2>1
    <3>2. QED
      BY <3>1, RingSeedType DEF TypeOK
  <2>2. CASE ring' = EmptyRing
    BY <2>2 DEF Ring, EmptyRing
  <2>3. QED
    BY <2>1, <2>2 DEF NewProcess, SeedRing
<1>2. pc' \in [Deliveries -> PCs]
  BY DEF NewProcess, TypeOK, PCs
<1>3. QED
  BY <1>1, <1>2, GateType DEF NewProcess, TypeOK, Answers

\* The steps of one delivery, which all leave the poll goroutine, the burst
\* and the reports alone.
LEMMA DeliveryType ==
  ASSUME TypeOK, NEW d \in Deliveries, Deliver(d) \/ Goroutine(d)
  PROVE  TypeOK'
<1> USE CommandsAssumption
<1>1. IdOf[d] \in Ids /\ NameOf[IdOf[d]] \in Names
  OBVIOUS
<1>2. CASE Deliver(d)
  BY <1>2 DEF Deliver, Goto, TypeOK, PCs, history
<1>3. CASE Lookup(d)
  BY <1>3 DEF Lookup, Goto, Answer, TypeOK, PCs, Answers
<1>4. CASE Add(d)
  BY <1>4, <1>1, RingAddType DEF Add, Goto, TypeOK, PCs, history
<1>5. CASE Admit(d)
  BY <1>5 DEF Admit, Goto, TypeOK, PCs, history
<1>6. CASE AdmitDestructive(d)
  BY <1>6, ReadGateType DEF AdmitDestructive, Goto, TypeOK, PCs, history
<1>7. CASE Refuse(d)
  BY <1>7, <1>1, RingRefuseType DEF Refuse, Goto, Answer, TypeOK, PCs, Answers
<1>8. CASE Claim(d)
  BY <1>8, <1>1 DEF Claim, Goto, TypeOK, PCs, history
<1>9. CASE Ack(d)
  BY <1>9, <1>1 DEF Ack, Goto, Answer, TypeOK, PCs, Answers
<1>10. CASE Run(d)
  BY <1>10, <1>1, RingStoreType DEF Run, Goto, TypeOK, PCs, history
<1>11. CASE Record(d)
  BY <1>11, <1>1 DEF Record, Goto, TypeOK, PCs, history
<1>12. CASE Commit(d)
  <2>1. \A n \in Delays(NameOf[IdOf[d]]) :
          n \in Nat /\ Deadline(NameOf[IdOf[d]], n) \in Nat
    BY DEF Delays, Deadline
  <2>2. QED
    BY <1>12, <1>1, <2>1, GateType DEF Commit, Goto, TypeOK, PCs, history
<1>13. CASE Act(d)
  BY <1>13, <1>1, ScheduleType DEF Act, Goto, TypeOK, PCs, history
<1>14. CASE Clear(d)
  BY <1>14, GateType DEF Clear, Goto, TypeOK, PCs, history
<1>15. CASE Unrecord(d)
  BY <1>15 DEF Unrecord, Goto, Saved, TypeOK, PCs, history
<1>16. CASE Release(d)
  BY <1>16 DEF Release, Goto, TypeOK, PCs, history
<1>17. QED
  BY <1>2, <1>3, <1>4, <1>5, <1>6, <1>7, <1>8, <1>9, <1>10, <1>11, <1>12,
     <1>13, <1>14, <1>15, <1>16 DEF Goroutine

\* The steps of the poll goroutine.  endInstall needs the claim it gives up.
LEMMA PollType ==
  ASSUME TypeOK, poll \in {"setup", "self"} => installing > 0, Poll
  PROVE  TypeOK'
<1> USE DEF PollUnchanged, TypeOK, history
<1>1. CASE CycleCheck
  BY <1>1, ReadGateType DEF CycleCheck
<1>2. CASE CycleIdle
  BY <1>2 DEF CycleIdle
<1>3. CASE BeginSelf
  BY <1>3, ReadGateType DEF BeginSelf, BeginInstall
<1>4. CASE BeginSetup
  BY <1>4, ReadGateType DEF BeginSetup, BeginInstall
<1>5. CASE EndInstall
  BY <1>5 DEF EndInstall
<1>6. CASE HandOff
  BY <1>6 DEF HandOff
<1>7. QED
  BY <1>1, <1>2, <1>3, <1>4, <1>5, <1>6 DEF Poll

\* The welcome burst.
LEMMA BurstType ==
  ASSUME TypeOK, Connect \/ Take \/ SendStarted
  PROVE  TypeOK'
<1> USE DEF BurstUnchanged, TypeOK
<1>1. CASE Connect
  BY <1>1 DEF Connect
<1>2. CASE Take
  BY <1>2 DEF Take, Saved
<1>3. CASE SendStarted
  BY <1>3 DEF SendStarted
<1>4. QED
  BY <1>1, <1>2, <1>3

\* The world outside the process.
LEMMA OutsideType ==
  ASSUME TypeOK, (\E id \in Ids : TakeEffect(id) \/ Abort(id)) \/ Crash \/ Tick
  PROVE  TypeOK'
<1>1. ASSUME NEW id \in Ids, TakeEffect(id)
      PROVE  TypeOK'
  <2>1. sched' \in [Ids -> Schedules]
    BY <1>1, ScheduleType DEF TakeEffect, TypeOK
  <2>2. executed' \in [Ids -> Nat]
    BY <1>1 DEF TakeEffect, TypeOK
  <2>3. QED
    BY <1>1, <2>1, <2>2, NewProcessType DEF TakeEffect
<1>2. ASSUME NEW id \in Ids, Abort(id)
      PROVE  TypeOK'
  BY <1>2, ScheduleType DEF Abort, TypeOK, process, history
<1>3. CASE Crash
  <2>1. sched' \in [Ids -> Schedules] /\ executed' \in [Ids -> Nat]
    BY <1>3 DEF Crash, TypeOK
  <2>2. QED
    BY <1>3, <2>1, NewProcessType DEF Crash
<1>4. CASE Tick
  <2>1. gate' \in Gates
    BY <1>4 DEF Tick, TypeOK, Gates
  <2>2. sched' \in [Ids -> Schedules]
    BY <1>4 DEF Tick, TypeOK, Schedules
  <2>3. QED
    BY <1>4, <2>1, <2>2 DEF Tick, TypeOK, history
<1>5. QED
  BY <1>1, <1>2, <1>3, <1>4
-----------------------------------------------------------------------------
(* Mutual exclusion of setups and committed restarts.  The property is     *)
(* inductive only together with the claim of the poll goroutine: without   *)
(* it, endInstall could give back a claim nobody holds and installing      *)
(* would leave Nat.                                                        *)
ClaimHeld == poll \in {"setup", "self"} => installing > 0

GateInv == TypeOK /\ ClaimHeld /\ InstallExcludesPending

\* The zero values of the gate say that nothing is pending.
LEMMA NoGateFree == ~NoGate.pending
BY DEF NoGate

\* A critical section that reads the flag never sets it, and leaves it clear
\* when it reports that nothing is pending.
LEMMA ReadGateClears ==
  ASSUME TypeOK, ReadGate
  PROVE  /\ gate'.pending => gate.pending
         /\ ~PendingNow => ~gate'.pending
BY NoGateFree DEF ReadGate, PendingNow, Overdue

\* Every step keeps the claim and the exclusion.
LEMMA GateStep ==
  ASSUME GateInv, Next
  PROVE  ClaimHeld' /\ InstallExcludesPending'
<1> USE DEF GateInv, ClaimHeld, InstallExcludesPending
<1>1. ASSUME NEW d \in Deliveries, Deliver(d) \/ Goroutine(d)
      PROVE  ClaimHeld' /\ InstallExcludesPending'
  <2>1. UNCHANGED <<installing, poll>>
    BY <1>1 DEF Deliver, Goroutine, Lookup, Add, Admit, AdmitDestructive,
                Refuse, Claim, Ack, Run, Record, Commit, Act, Clear, Unrecord,
                Release
  <2>2. CASE AdmitDestructive(d)
    BY <2>1, <2>2, ReadGateClears DEF AdmitDestructive
  <2>3. CASE Commit(d)
    BY <2>1, <2>3 DEF Commit, TypeOK
  <2>4. CASE Clear(d)
    BY <2>1, <2>4, NoGateFree DEF Clear
  <2>5. CASE UNCHANGED gate
    BY <2>1, <2>5
  <2>6. QED
    BY <1>1, <2>2, <2>3, <2>4, <2>5
       DEF Deliver, Goroutine, Lookup, Add, Admit, Refuse, Claim, Ack, Run,
           Record, Act, Unrecord, Release
<1>2. CASE Poll
  <2>1. CASE CycleCheck
    BY <2>1, ReadGateClears DEF CycleCheck
  <2>2. CASE CycleIdle
    BY <2>2 DEF CycleIdle
  <2>3. CASE BeginSelf \/ BeginSetup
    BY <2>3, ReadGateClears DEF BeginSelf, BeginSetup, BeginInstall, TypeOK
  <2>4. CASE EndInstall
    BY <2>4 DEF EndInstall, TypeOK
  <2>5. CASE HandOff
    BY <2>5 DEF HandOff
  <2>6. QED
    BY <1>2, <2>1, <2>2, <2>3, <2>4, <2>5 DEF Poll
<1>3. CASE Connect \/ Take \/ SendStarted
  BY <1>3 DEF Connect, Take, SendStarted, BurstUnchanged
<1>4. CASE (\E id \in Ids : TakeEffect(id)) \/ Crash
  BY <1>4, NoGateFree DEF TakeEffect, Crash, NewProcess
<1>5. CASE \E id \in Ids : Abort(id)
  BY <1>5 DEF Abort, process
<1>6. CASE Tick
  BY <1>6 DEF Tick, TypeOK, Gates
<1>7. QED
  BY <1>1, <1>2, <1>3, <1>4, <1>5, <1>6 DEF Next

\* In every behaviour every variable keeps its type, a poll goroutine inside a
\* setup holds a claim, and no restart or reboot is committed while a setup
\* runs (beginInstall and commitDestructive share destructiveMu).
THEOREM GateInvariant == Spec => []GateInv
<1>1. Init => GateInv
  BY InitType, NoGateFree DEF Init, GateInv, ClaimHeld, InstallExcludesPending
<1>2. GateInv /\ [Next]_vars => GateInv'
  <2>1. CASE Next
    <3> SUFFICES ASSUME GateInv PROVE GateInv'
      BY <2>1
    <3>1. TypeOK'
      BY <2>1, DeliveryType, PollType, BurstType, OutsideType
         DEF Next, GateInv, ClaimHeld
    <3>2. QED
      BY <2>1, <3>1, GateStep DEF GateInv
  <2>2. CASE UNCHANGED vars
    BY <2>2 DEF vars, process, history, GateInv, TypeOK, ClaimHeld,
                InstallExcludesPending
  <2>3. QED
    BY <2>1, <2>2
<1>3. QED
  BY <1>1, <1>2, PTL DEF Spec

\* Type correctness, for every value of the constants.
THEOREM TypeCorrect == Spec => []TypeOK
<1>1. GateInv => TypeOK
  BY DEF GateInv
<1>2. QED
  BY <1>1, GateInvariant, PTL

\* No restart or reboot is committed while a setup holds a claim, for every
\* number of concurrent commands and every combination of faults.
THEOREM SetupsExcludeCommits == Spec => []InstallExcludesPending
<1>1. GateInv => InstallExcludesPending
  BY DEF GateInv
<1>2. QED
  BY <1>1, GateInvariant, PTL
-----------------------------------------------------------------------------
(* One goroutine per verb.                                                 *)

\* A step of one delivery that neither takes nor gives back a verb, and keeps
\* the others where they are, keeps the claims as they are.
LEMMA ClaimsKept ==
  ASSUME TypeOK, ClaimsExclusive, running' = running,
         \A d \in Deliveries : pc'[d] \in Holding <=> pc[d] \in Holding
  PROVE  ClaimsExclusive'
BY DEF ClaimsExclusive, Holders

\* claimCommand and releaseCommand keep the claims exclusive, over every step.
LEMMA ClaimsStep ==
  ASSUME TypeOK, ClaimsExclusive, Next
  PROVE  ClaimsExclusive'
<1> USE CommandsAssumption
<1>1. ASSUME NEW d \in Deliveries, Deliver(d) \/ Goroutine(d)
      PROVE  ClaimsExclusive'
  <2>1. CASE Claim(d) /\ NameOf[IdOf[d]] \notin running
    <3>1. /\ running' = running \cup {NameOf[IdOf[d]]}
          /\ pc' = [pc EXCEPT ![d] = "ack"]
          /\ pc[d] = "claim"
      BY <2>1 DEF Claim, Goto
    <3>2. \A e \in Deliveries : pc'[e] \in Holding <=> e = d \/ pc[e] \in Holding
      BY <3>1 DEF TypeOK, Holding
    <3>3. \A e \in Deliveries : pc[e] \in Holding => NameOf[IdOf[e]] # NameOf[IdOf[d]]
      BY <2>1 DEF ClaimsExclusive, Holders
    <3>4. QED
      BY <3>1, <3>2, <3>3 DEF ClaimsExclusive, Holders
  <2>2. CASE Release(d)
    <3>1. /\ running' = running \ {NameOf[IdOf[d]]}
          /\ pc' = [pc EXCEPT ![d] = "done"]
          /\ pc[d] = "release"
      BY <2>2 DEF Release, Goto
    <3>2. \A e \in Deliveries : pc'[e] \in Holding <=> e # d /\ pc[e] \in Holding
      BY <3>1 DEF TypeOK, Holding
    <3>3. \A e \in Deliveries : e # d /\ pc[e] \in Holding
                                => NameOf[IdOf[e]] # NameOf[IdOf[d]]
      BY <3>1 DEF ClaimsExclusive, Holding
    <3>4. QED
      BY <3>1, <3>2, <3>3 DEF ClaimsExclusive, Holders
  <2>3. CASE ~(Claim(d) /\ NameOf[IdOf[d]] \notin running) /\ ~Release(d)
    <3>1. running' = running
      BY <1>1, <2>3 DEF Deliver, Goroutine, Lookup, Add, Admit, AdmitDestructive,
           Refuse, Claim, Ack, Run, Record, Commit, Act, Clear, Unrecord
    <3>2. PICK to \in PCs : /\ pc' = [pc EXCEPT ![d] = to]
                            /\ pc[d] \in Holding <=> to \in Holding
      BY <1>1, <2>3 DEF Deliver, Goroutine, Lookup, Add, Admit, AdmitDestructive,
           Refuse, Claim, Ack, Run, Record, Commit, Act, Clear, Unrecord, Goto,
           PCs, Holding
    <3>3. \A e \in Deliveries : pc'[e] \in Holding <=> pc[e] \in Holding
      BY <3>2 DEF TypeOK
    <3>4. QED
      BY <3>1, <3>3, ClaimsKept
  <2>4. QED
    BY <2>1, <2>2, <2>3
<1>2. CASE Poll \/ Connect \/ Take \/ SendStarted \/ Tick \/ (\E id \in Ids : Abort(id))
  <2>1. UNCHANGED <<pc, running>>
    BY <1>2 DEF Poll, CycleCheck, CycleIdle, BeginSelf, BeginSetup, BeginInstall,
         EndInstall, HandOff, PollUnchanged, Connect, Take, SendStarted,
         BurstUnchanged, Tick, Abort, process
  <2>2. QED
    BY <2>1, ClaimsKept
<1>3. CASE NewProcess
  <2>1. \A d \in Deliveries : pc'[d] \notin Holding
    BY <1>3 DEF NewProcess, Holding
  <2>2. running' = {}
    BY <1>3 DEF NewProcess
  <2>3. QED
    BY <2>1, <2>2 DEF ClaimsExclusive, Holders
<1>4. QED
  BY <1>1, <1>2, <1>3 DEF Next, TakeEffect, Crash

\* A verb is held exactly while one goroutine runs it (claimCommand and the
\* deferred releaseCommand), on every failure path and across restarts.
THEOREM OneGoroutinePerVerb == Spec => []ClaimsExclusive
<1>1. Init => ClaimsExclusive
  BY DEF Init, ClaimsExclusive, Holders, Holding
<1>2. TypeOK /\ ClaimsExclusive /\ [Next]_vars => ClaimsExclusive'
  <2>1. CASE Next
    BY <2>1, ClaimsStep
  <2>2. CASE UNCHANGED vars
    BY <2>2 DEF vars, process, ClaimsExclusive, Holders
  <2>3. QED
    BY <2>1, <2>2
<1>3. QED
  BY <1>1, <1>2, TypeCorrect, PTL DEF Spec
-----------------------------------------------------------------------------
(* Restarts and reboots under way.  The flag of the gate lives in the      *)
(* process, what it stands for lives outside: a restart-service child, or  *)
(* a shutdown in its countdown.  That the flag covers it needs a server    *)
(* that has one destructive command in flight at a time, and a process     *)
(* that does not die on its own in between: a crash takes the flag with    *)
(* it, and Windows goes on counting down.  Failing writes, lost acks,      *)
(* aborted shutdowns and self-updates that stop the service are allowed.   *)

DestructiveOf(d) == Destructive(NameOf[IdOf[d]])
Resting == {"idle", "done"}

\* The server sends destructive commands one after the other.
DestructiveSerial ==
  \A d, e \in Deliveries :
    d # e /\ DestructiveOf(d) /\ DestructiveOf(e) => <<d, e>> \in Serial

NoneScheduled == \A id \in Ids : ~sched[id].on

\* One destructive goroutine at a time.
DestructiveAlone ==
  \A d, e \in Deliveries :
    d # e /\ DestructiveOf(d) /\ DestructiveOf(e)
    => pc[d] \in Resting \/ pc[e] \in Resting

\* Only a destructive command reaches the gate and runDestructive.
DestructivePlaces ==
  \A d \in Deliveries :
    pc[d] \in {"gate", "record", "commit", "act", "clear", "unrecord"}
    => DestructiveOf(d)

\* The deadline of the flag lies behind the moment the schedule is due.
FlagOutlastsSchedule ==
  \A id \in Ids : sched[id].on => gate.pending /\ gate.left > sched[id].due

OneSchedule == \A i, j \in Ids : sched[i].on /\ sched[j].on => i = j

\* An admitted command saw the flag clear, and nobody can have set it since.
FlagFree ==
  \A d \in Deliveries :
    DestructiveOf(d) /\ pc[d] \in {"claim", "ack", "record", "commit"}
    => ~gate.pending

\* Between the commit and the end of runDestructive nothing else is under way.
Committed ==
  \A d \in Deliveries :
    /\ pc[d] \in {"act", "clear", "unrecord"} => NoneScheduled
    /\ pc[d] = "act" => gate.pending /\ gate.left > delay[d]

\* What is about to be scheduled is on record.
Recorded ==
  /\ \A d \in Deliveries :
       pc[d] \in {"commit", "act"} => IdOf[d] \in records \cup payload
  /\ ~built => payload = {}

CountdownInv ==
  /\ DestructiveAlone /\ DestructivePlaces
  /\ FlagOutlastsSchedule /\ OneSchedule
  /\ FlagFree /\ Committed
  /\ Recorded /\ ScheduleTraceable

\* A step of a goroutine that is under way cannot bring a second one.
LEMMA AloneKept ==
  ASSUME TypeOK, DestructiveAlone, NEW d \in Deliveries, NEW to \in PCs,
         pc[d] \notin Resting, pc' = [pc EXCEPT ![d] = to]
  PROVE  DestructiveAlone'
BY DEF TypeOK, DestructiveAlone, Resting

\* A step of one goroutine that touches neither gate nor schedules nor records.
LEMMA QuietMove ==
  ASSUME TypeOK, CountdownInv, NEW d \in Deliveries, NEW to \in PCs,
         pc' = [pc EXCEPT ![d] = to], DestructiveAlone',
         UNCHANGED <<gate, sched, delay, records, payload, built>>,
         to \in {"gate", "record", "unrecord"} => DestructiveOf(d),
         to \in {"claim", "ack", "record"} /\ DestructiveOf(d) => ~gate.pending,
         to \notin {"commit", "act", "clear"},
         to = "unrecord" => NoneScheduled
  PROVE  CountdownInv'
<1> USE DEF CountdownInv
<1>1. \A e \in Deliveries : pc'[e] = IF e = d THEN to ELSE pc[e]
  BY DEF TypeOK
<1>2. DestructivePlaces'
  BY <1>1 DEF DestructivePlaces, DestructiveOf
<1>3. FlagOutlastsSchedule' /\ OneSchedule' /\ ScheduleTraceable'
  BY DEF FlagOutlastsSchedule, OneSchedule, ScheduleTraceable
<1>4. FlagFree'
  BY <1>1 DEF FlagFree, DestructivePlaces, DestructiveOf
<1>5. Committed'
  BY <1>1 DEF Committed, NoneScheduled
<1>6. Recorded'
  BY <1>1 DEF Recorded
<1>7. QED
  BY <1>2, <1>3, <1>4, <1>5, <1>6

\* destructivePendingLocked releases only a flag that stands for nothing any
\* more, so no record of a schedule goes with it.
LEMMA ReadGateKeeps ==
  ASSUME TypeOK, CountdownInv, ReadGate, UNCHANGED <<sched, delay, payload, built>>
  PROVE  /\ FlagOutlastsSchedule' /\ OneSchedule' /\ ScheduleTraceable'
         /\ gate'.pending => gate' = gate
         /\ ~PendingNow => ~gate'.pending /\ NoneScheduled
         /\ \A d \in Deliveries :
              pc[d] \in {"commit", "act"} => gate' = gate /\ records' = records
<1> USE DEF CountdownInv
<1>1. CASE ~Overdue
  <2>1. gate' = gate /\ records' = records
    BY <1>1 DEF ReadGate
  <2>2. ~PendingNow => ~gate.pending
    BY <1>1 DEF PendingNow
  <2>3. QED
    BY <2>1, <2>2 DEF FlagOutlastsSchedule, OneSchedule, ScheduleTraceable,
                      NoneScheduled
<1>2. CASE Overdue
  <2>1. gate' = NoGate /\ gate.pending /\ gate.left = 0
    BY <1>2 DEF ReadGate, Overdue
  <2>2. NoneScheduled
    BY <2>1 DEF FlagOutlastsSchedule, NoneScheduled, TypeOK, Schedules
  <2>3. ~gate'.pending
    BY <2>1, NoGateFree
  <2>4. \A d \in Deliveries : pc[d] \notin {"commit", "act"}
    <3>1. \A d \in Deliveries : pc[d] # "act"
      BY <2>1 DEF Committed, TypeOK
    <3>2. \A d \in Deliveries : pc[d] # "commit"
      BY <2>1 DEF FlagFree, DestructivePlaces
    <3>3. QED
      BY <3>1, <3>2
  <2>5. FlagOutlastsSchedule' /\ OneSchedule' /\ ScheduleTraceable'
    BY <2>2 DEF FlagOutlastsSchedule, OneSchedule, ScheduleTraceable, NoneScheduled
  <2>6. QED
    BY <2>2, <2>3, <2>4, <2>5
<1>3. QED
  BY <1>1, <1>2

\* The steps of one delivery keep the flag over what is under way.
LEMMA CountdownDelivery ==
  ASSUME DestructiveSerial, TypeOK, CountdownInv,
         NEW d \in Deliveries, Deliver(d) \/ Goroutine(d)
  PROVE  CountdownInv'
<1> USE CommandsAssumption
<1> DEFINE id == IdOf[d]
           Quiet == UNCHANGED <<gate, sched, delay, records, payload, built>>
<1>1. CASE Deliver(d)
  <2>1. pc[d] = "idle" /\ pc' = [pc EXCEPT ![d] = "lookup"] /\ Quiet
    BY <1>1 DEF Deliver, Goto
  <2>2. \A e \in Deliveries : pc'[e] = IF e = d THEN "lookup" ELSE pc[e]
    BY <2>1 DEF TypeOK
  <2>3. \A e \in Deliveries : d # e /\ DestructiveOf(d) /\ DestructiveOf(e)
                              => pc[e] \in Resting
    BY <1>1 DEF Deliver, DestructiveSerial, Resting
  <2>4. DestructiveAlone'
    BY <2>2, <2>3 DEF DestructiveAlone, CountdownInv, DestructiveOf
  <2>5. QED
    BY <2>1, <2>4, QuietMove DEF PCs
<1>2. CASE ~Deliver(d)
  <2>0. Goroutine(d)
    BY <1>1, <1>2
  <2>1. PICK to \in PCs : pc[d] \notin Resting /\ pc' = [pc EXCEPT ![d] = to]
    BY <2>0 DEF Goroutine, Lookup, Add, Admit, AdmitDestructive, Refuse, Claim, Ack,
         Run, Record, Commit, Act, Clear, Unrecord, Release, Goto, Resting, PCs
  <2>2. DestructiveAlone'
    BY <2>1, AloneKept DEF CountdownInv
  <2>3. \A e \in Deliveries : pc'[e] = IF e = d THEN to ELSE pc[e]
    BY <2>1 DEF TypeOK
  <2>4. CASE Lookup(d) \/ Add(d) \/ Refuse(d) \/ Run(d) \/ Release(d)
    <3>1. Quiet
      BY <2>4 DEF Lookup, Add, Refuse, Run, Release, history
    <3>2. pc'[d] \in {"done", "add", "admit", "release"}
      BY <2>4 DEF Lookup, Add, Refuse, Run, Release, Goto, TypeOK
    <3>3. to \in {"done", "add", "admit", "release"}
      BY <3>2, <2>3
    <3>4. QED
      BY <2>1, <2>2, <3>1, <3>3, QuietMove
  <2>5. CASE Admit(d)
    <3>1. Quiet
      BY <2>5 DEF Admit
    <3>2. \/ pc'[d] = "refuse"
          \/ pc'[d] = "claim" /\ ~DestructiveOf(d)
          \/ pc'[d] = "gate" /\ DestructiveOf(d)
      BY <2>5 DEF Admit, Goto, TypeOK, DestructiveOf
    <3>3. QED
      BY <2>1, <2>2, <2>3, <3>1, <3>2, QuietMove
  <2>6. CASE Claim(d)
    <3>1. Quiet
      BY <2>6 DEF Claim
    <3>2. pc[d] = "claim" /\ pc'[d] \in {"refuse", "ack"}
      BY <2>6 DEF Claim, Goto, TypeOK
    <3>3. DestructiveOf(d) => ~gate.pending
      BY <3>2 DEF CountdownInv, FlagFree
    <3>4. QED
      BY <2>1, <2>2, <2>3, <3>1, <3>2, <3>3, QuietMove
  <2>7. CASE Ack(d)
    <3>1. Quiet
      BY <2>7 DEF Ack
    <3>2. pc[d] = "ack" /\ \/ pc'[d] \in {"run", "release"}
                           \/ pc'[d] = "record" /\ DestructiveOf(d)
      BY <2>7 DEF Ack, Goto, TypeOK, DestructiveOf
    <3>3. DestructiveOf(d) => ~gate.pending
      BY <3>2 DEF CountdownInv, FlagFree
    <3>4. QED
      BY <2>1, <2>2, <2>3, <3>1, <3>2, <3>3, QuietMove
  <2>8. CASE AdmitDestructive(d)
    <3>1. /\ pc[d] = "gate"
          /\ pc'[d] = "refuse" \/ (pc'[d] = "claim" /\ ~PendingNow)
      BY <2>8 DEF AdmitDestructive, Goto, TypeOK
    <3>2. ReadGate /\ UNCHANGED <<sched, delay, payload, built>>
      BY <2>8 DEF AdmitDestructive
    <3>3. FlagOutlastsSchedule' /\ OneSchedule' /\ ScheduleTraceable'
      BY <3>2, ReadGateKeeps
    <3>4. DestructivePlaces'
      BY <2>3, <3>1 DEF DestructivePlaces, DestructiveOf, CountdownInv
    <3>5. FlagFree'
      <4>1. gate'.pending => gate.pending
        BY <3>2, ReadGateClears
      <4>2. pc'[d] = "claim" => ~gate'.pending
        BY <3>1, <3>2, ReadGateKeeps
      <4>3. QED
        BY <2>3, <3>1, <4>1, <4>2 DEF FlagFree, DestructiveOf, CountdownInv
    <3>6. Committed'
      <4>1. \A e \in Deliveries : pc[e] = "act" => gate' = gate
        BY <3>2, ReadGateKeeps
      <4>2. QED
        BY <2>3, <3>1, <3>2, <4>1 DEF Committed, NoneScheduled, CountdownInv
    <3>7. Recorded'
      <4>1. \A e \in Deliveries : pc[e] \in {"commit", "act"} => records' = records
        BY <3>2, ReadGateKeeps
      <4>2. QED
        BY <2>3, <3>1, <3>2, <4>1 DEF Recorded, CountdownInv
    <3>8. QED
      BY <2>2, <3>3, <3>4, <3>5, <3>6, <3>7 DEF CountdownInv
  <2>9. CASE Record(d) \/ Commit(d) \/ Act(d) \/ Clear(d) \/ Unrecord(d)
    <3>1. pc[d] \in {"record", "commit", "act", "clear", "unrecord"}
      BY <2>9 DEF Record, Commit, Act, Clear, Unrecord, Goto
    <3>2. DestructiveOf(d)
      BY <3>1 DEF CountdownInv, DestructivePlaces
    <3>3. \A e \in Deliveries : e # d /\ DestructiveOf(e) => pc[e] \in Resting
      BY <2>1, <3>2 DEF CountdownInv, DestructiveAlone
    <3>4. \A e \in Deliveries : e # d => 
             pc[e] \notin {"gate", "record", "commit", "act", "clear", "unrecord"}
      BY <3>3 DEF CountdownInv, DestructivePlaces, Resting
    <3>5. DestructivePlaces'
      BY <2>3, <3>2, <3>4 DEF DestructivePlaces, DestructiveOf
    <3> USE DEF CountdownInv
    <3>6. CASE Record(d)
      <4>1. UNCHANGED <<gate, sched, delay, payload, built>> /\ pc[d] = "record"
        BY <3>6 DEF Record, Goto
      <4>2. ~gate.pending
        BY <4>1, <3>2 DEF FlagFree
      <4>3. NoneScheduled
        BY <4>2 DEF NoneScheduled, FlagOutlastsSchedule
      <4>4. \/ to = "commit" /\ records' = records \cup {id}
            \/ to = "unrecord"
        BY <3>6, <2>3 DEF Record, Goto, TypeOK
      <4>5. FlagOutlastsSchedule' /\ OneSchedule' /\ ScheduleTraceable'
        BY <4>1, <4>3 DEF FlagOutlastsSchedule, OneSchedule, ScheduleTraceable,
                          NoneScheduled
      <4>6. FlagFree' /\ Committed'
        BY <4>1, <4>2, <4>3, <4>4, <2>3, <3>4 DEF FlagFree, Committed, NoneScheduled
      <4>7. Recorded'
        BY <4>1, <4>4, <2>3, <3>4 DEF Recorded
      <4>8. QED
        BY <2>2, <3>5, <4>5, <4>6, <4>7
    <3>7. CASE Commit(d)
      <4>1. UNCHANGED <<sched, records, payload, built>> /\ pc[d] = "commit"
        BY <3>7 DEF Commit, Goto
      <4>2. ~gate.pending
        BY <4>1, <3>2 DEF FlagFree
      <4>3. NoneScheduled
        BY <4>2 DEF NoneScheduled, FlagOutlastsSchedule
      <4>4. FlagOutlastsSchedule' /\ OneSchedule' /\ ScheduleTraceable'
        BY <4>1, <4>3 DEF FlagOutlastsSchedule, OneSchedule, ScheduleTraceable,
                          NoneScheduled
      <4>5. to \in {"unrecord", "act"}
        BY <3>7, <2>3 DEF Commit, Goto, TypeOK
      <4>6. FlagFree'
        BY <2>3, <3>3, <4>5 DEF FlagFree, DestructiveOf, Resting
      <4>7. to = "act" => gate'.pending /\ gate'.left > delay'[d]
        <5>1. SUFFICES ASSUME to = "act" PROVE gate'.pending /\ gate'.left > delay'[d]
          OBVIOUS
        <5>2. PICK n \in Delays(NameOf[id]) :
                /\ delay' = [delay EXCEPT ![d] = n]
                /\ gate' = [pending |-> TRUE, left |-> Deadline(NameOf[id], n), id |-> id]
          BY <5>1, <3>7, <2>3 DEF Commit, Goto, TypeOK
        <5>3. n \in Nat /\ Deadline(NameOf[id], n) > n
          BY DEF Delays, Deadline
        <5>4. delay'[d] = n
          BY <5>2 DEF TypeOK
        <5>5. QED
          BY <5>2, <5>3, <5>4
      <4>8. Committed'
        BY <2>3, <3>4, <4>1, <4>3, <4>5, <4>7 DEF Committed, NoneScheduled
      <4>9. Recorded'
        BY <2>3, <3>4, <4>1, <4>5 DEF Recorded
      <4>10. QED
        BY <2>2, <3>5, <4>4, <4>6, <4>8, <4>9
    <3>8. CASE Act(d)
      <4>1. UNCHANGED <<gate, delay, records, payload, built>> /\ pc[d] = "act"
        BY <3>8 DEF Act, Goto
      <4>2. NoneScheduled /\ gate.pending /\ gate.left > delay[d]
            /\ id \in records \cup payload
        BY <4>1 DEF Committed, Recorded
      <4>3. \/ to = "release" /\ sched' = [sched EXCEPT ![id] = On(delay[d])]
            \/ to = "clear" /\ sched' = sched
        BY <3>8, <2>3 DEF Act, Goto, TypeOK
      <4>4. \A i \in Ids : sched'[i].on => i = id /\ sched'[i] = On(delay[d])
        BY <4>2, <4>3 DEF NoneScheduled, TypeOK
      <4>5. FlagOutlastsSchedule' /\ OneSchedule' /\ ScheduleTraceable'
        BY <4>1, <4>2, <4>4 DEF FlagOutlastsSchedule, OneSchedule, ScheduleTraceable, On
      <4>6. FlagFree'
        BY <2>3, <3>3, <4>3 DEF FlagFree, DestructiveOf, Resting
      <4>7. Committed'
        BY <2>3, <3>4, <4>1, <4>2, <4>3 DEF Committed, NoneScheduled
      <4>8. Recorded'
        BY <2>3, <3>4, <4>1, <4>3 DEF Recorded
      <4>9. QED
        BY <2>2, <3>5, <4>5, <4>6, <4>7, <4>8
    <3>9. CASE Clear(d)
      <4>1. UNCHANGED <<sched, delay, records, payload, built>> /\ pc[d] = "clear"
            /\ to = "unrecord"
        BY <3>9, <2>3 DEF Clear, Goto, TypeOK
      <4>2. NoneScheduled
        BY <4>1 DEF Committed
      <4>3. FlagOutlastsSchedule' /\ OneSchedule' /\ ScheduleTraceable'
        BY <4>1, <4>2 DEF FlagOutlastsSchedule, OneSchedule, ScheduleTraceable,
                          NoneScheduled
      <4>4. FlagFree' /\ Committed' /\ Recorded'
        BY <2>3, <3>3, <3>4, <4>1, <4>2
           DEF FlagFree, DestructiveOf, Resting, Committed, NoneScheduled, Recorded
      <4>5. QED
        BY <2>2, <3>5, <4>3, <4>4
    <3>10. CASE Unrecord(d)
      <4>1. UNCHANGED <<gate, sched, delay, payload, built>> /\ pc[d] = "unrecord"
            /\ to = "release"
        BY <3>10, <2>3 DEF Unrecord, Goto, TypeOK
      <4>2. NoneScheduled
        BY <4>1 DEF Committed
      <4>3. FlagOutlastsSchedule' /\ OneSchedule' /\ ScheduleTraceable'
        BY <4>1, <4>2 DEF FlagOutlastsSchedule, OneSchedule, ScheduleTraceable,
                          NoneScheduled
      <4>4. FlagFree' /\ Committed' /\ Recorded'
        BY <2>3, <3>3, <3>4, <4>1, <4>2
           DEF FlagFree, DestructiveOf, Resting, Committed, NoneScheduled, Recorded
      <4>5. QED
        BY <2>2, <3>5, <4>3, <4>4
    <3>11. QED
      BY <2>9, <3>6, <3>7, <3>8, <3>9, <3>10
  <2>10. QED
    BY <2>0, <2>4, <2>5, <2>6, <2>7, <2>8, <2>9 DEF Goroutine
<1>3. QED
  BY <1>1, <1>2

\* The poll goroutine keeps it: it only reads the gate.
LEMMA CountdownPoll ==
  ASSUME TypeOK, CountdownInv, Poll
  PROVE  CountdownInv'
<1>1. UNCHANGED <<pc, sched, delay, payload, built>>
  BY DEF Poll, CycleCheck, CycleIdle, BeginSelf, BeginSetup, BeginInstall,
         EndInstall, HandOff, PollUnchanged
<1>2. ReadGate \/ UNCHANGED <<gate, records>>
  BY DEF Poll, CycleCheck, CycleIdle, BeginSelf, BeginSetup, BeginInstall,
         EndInstall, HandOff
<1> USE DEF CountdownInv
<1>3. DestructiveAlone' /\ DestructivePlaces'
  BY <1>1 DEF DestructiveAlone, DestructivePlaces
<1>4. CASE ReadGate
  <2>1. FlagOutlastsSchedule' /\ OneSchedule' /\ ScheduleTraceable'
    BY <1>1, <1>4, ReadGateKeeps
  <2>2. gate'.pending => gate.pending
    BY <1>4, ReadGateClears
  <2>3. \A d \in Deliveries :
          pc[d] \in {"commit", "act"} => gate' = gate /\ records' = records
    BY <1>1, <1>4, ReadGateKeeps
  <2>4. FlagFree'
    BY <1>1, <2>2 DEF FlagFree
  <2>5. Committed' /\ Recorded'
    BY <1>1, <2>3 DEF Committed, NoneScheduled, Recorded
  <2>6. QED
    BY <1>3, <2>1, <2>4, <2>5
<1>5. CASE UNCHANGED <<gate, records>>
  BY <1>1, <1>3, <1>5 DEF FlagOutlastsSchedule, OneSchedule, ScheduleTraceable,
     FlagFree, Committed, NoneScheduled, Recorded
<1>6. QED
  BY <1>2, <1>4, <1>5

\* The welcome burst moves records into the payload, never out of both.
LEMMA CountdownBurst ==
  ASSUME TypeOK, CountdownInv, Connect \/ Take \/ SendStarted
  PROVE  CountdownInv'
<1>1. UNCHANGED <<pc, sched, delay, gate>>
  BY DEF Connect, Take, SendStarted, BurstUnchanged
<1> USE DEF CountdownInv
<1>2. records \cup payload \subseteq records' \cup payload'
  BY DEF Connect, Take, SendStarted, Recorded
<1>3. ~built' => payload' = {}
  BY DEF Connect, Take, SendStarted, Recorded
<1>4. Recorded' /\ ScheduleTraceable'
  BY <1>1, <1>2, <1>3 DEF Recorded, ScheduleTraceable
<1>5. QED
  BY <1>1, <1>4 DEF DestructiveAlone, DestructivePlaces, FlagOutlastsSchedule,
     OneSchedule, FlagFree, Committed, NoneScheduled

\* A new process with nothing under way outside starts afresh.
LEMMA CountdownAfresh ==
  ASSUME NewProcess, NoneScheduled'
  PROVE  CountdownInv'
<1>1. \A d \in Deliveries : pc'[d] \in Resting
  BY DEF NewProcess, Resting
<1>2. ~gate'.pending /\ payload' = {}
  BY NoGateFree DEF NewProcess
<1>3. DestructiveAlone' /\ DestructivePlaces' /\ FlagFree' /\ Committed'
  BY <1>1 DEF DestructiveAlone, DestructivePlaces, FlagFree, Committed, Resting
<1>4. FlagOutlastsSchedule' /\ OneSchedule' /\ ScheduleTraceable'
  BY DEF FlagOutlastsSchedule, OneSchedule, ScheduleTraceable, NoneScheduled
<1>5. Recorded'
  BY <1>1, <1>2 DEF Recorded, Resting
<1>6. QED
  BY <1>3, <1>4, <1>5 DEF CountdownInv

\* The world outside: when a restart or reboot takes effect it was the only
\* one, and a self-update setup stops the service only with nothing under way.
LEMMA CountdownOutside ==
  ASSUME "crash" \notin Faults, GateInv, CountdownInv,
         (\E id \in Ids : TakeEffect(id) \/ Abort(id)) \/ Crash \/ Tick
  PROVE  CountdownInv'
<1> USE DEF CountdownInv
<1>t. TypeOK
  BY DEF GateInv
<1>1. ASSUME NEW id \in Ids, TakeEffect(id)
      PROVE  CountdownInv'
  <2>1. sched[id].on /\ NewProcess
    BY <1>1 DEF TakeEffect
  <2>2. \A i \in Ids : i # id => ~sched[i].on
    BY <2>1 DEF OneSchedule
  <2>3. NoneScheduled'
    BY <1>1, <1>t, <2>2 DEF TakeEffect, NoneScheduled, Off, TypeOK
  <2>4. QED
    BY <2>1, <2>3, CountdownAfresh
<1>2. ASSUME NEW id \in Ids, Abort(id)
      PROVE  CountdownInv'
  <2>1. UNCHANGED <<pc, gate, delay, records, payload, built>>
    BY <1>2 DEF Abort, process
  <2>2. \A i \in Ids : sched'[i].on => sched'[i] = sched[i]
    BY <1>2, <1>t DEF Abort, Off, TypeOK
  <2>3. NoneScheduled => NoneScheduled'
    BY <2>2 DEF NoneScheduled
  <2>4. FlagOutlastsSchedule' /\ OneSchedule' /\ ScheduleTraceable'
    BY <2>1, <2>2 DEF FlagOutlastsSchedule, OneSchedule, ScheduleTraceable
  <2>5. Committed'
    BY <2>1, <2>3 DEF Committed
  <2>6. QED
    BY <2>1, <2>4, <2>5 DEF DestructiveAlone, DestructivePlaces, FlagFree, Recorded
<1>3. CASE Crash
  <2>1. installing > 0
    BY <1>3, <1>t DEF Crash, HandedOff, TypeOK
  <2>2. ~gate.pending
    BY <2>1 DEF GateInv, InstallExcludesPending
  <2>3. NoneScheduled'
    BY <1>3, <2>2 DEF Crash, NoneScheduled, FlagOutlastsSchedule
  <2>4. QED
    BY <1>3, <2>3, CountdownAfresh DEF Crash
<1>4. CASE Tick
  <2>1. UNCHANGED <<pc, delay, records, payload, built>>
    BY <1>4 DEF Tick
  <2>2. \A d \in Deliveries : pc[d] # "act"
    BY <1>4 DEF Tick
  <2>3. gate'.pending = gate.pending
    BY <1>4, <1>t DEF Tick, TypeOK, Gates
  <2>4. gate'.left = IF gate.left > 0 THEN gate.left - 1 ELSE 0
    BY <1>4, <1>t DEF Tick, TypeOK, Gates
  <2>5. \A i \in Ids : /\ sched'[i].on = sched[i].on
                       /\ sched'[i].due = IF sched[i].due > 0 THEN sched[i].due - 1 ELSE 0
    BY <1>4, <1>t DEF Tick, TypeOK, Schedules
  <2>6. \A i \in Ids : sched[i].on => sched[i].due > 0
    BY <1>4 DEF Tick
  <2>7. gate.left \in Nat /\ \A i \in Ids : sched[i].due \in Nat
    BY <1>t DEF TypeOK, Gates, Schedules
  <2>8. NoneScheduled => NoneScheduled'
    BY <2>5 DEF NoneScheduled
  <2>9. FlagOutlastsSchedule'
    <3>1. SUFFICES ASSUME NEW i \in Ids, sched'[i].on
                   PROVE  gate'.pending /\ gate'.left > sched'[i].due
      BY DEF FlagOutlastsSchedule
    <3>2. sched[i].on
      BY <3>1, <2>5
    <3>3. gate.pending /\ gate.left > sched[i].due /\ sched[i].due > 0
      BY <3>2, <2>6 DEF FlagOutlastsSchedule
    <3>4. gate'.pending
      BY <3>3, <2>3
    <3>5. gate'.left > sched'[i].due
      BY <3>3, <2>4, <2>5, <2>7
    <3>6. QED
      BY <3>4, <3>5
  <2>10. OneSchedule' /\ ScheduleTraceable'
    BY <2>1, <2>5 DEF OneSchedule, ScheduleTraceable
  <2>11. FlagFree'
    BY <2>1, <2>3 DEF FlagFree
  <2>12. Committed'
    BY <2>1, <2>2, <2>8 DEF Committed
  <2>13. QED
    BY <2>1, <2>9, <2>10, <2>11, <2>12 DEF DestructiveAlone, DestructivePlaces, Recorded
<1>5. QED
  BY <1>1, <1>2, <1>3, <1>4

\* While a server sends one destructive command at a time to a process that
\* does not die on its own, the flag outlasts whatever it was set for.
THEOREM CountdownInvariant ==
  ASSUME "crash" \notin Faults, DestructiveSerial
  PROVE  Spec => []CountdownInv
<1>1. Init => CountdownInv
  <2>1. SUFFICES ASSUME Init PROVE CountdownInv
    OBVIOUS
  <2>2. \A d \in Deliveries : pc[d] = "idle"
    BY <2>1 DEF Init
  <2>3. NoneScheduled /\ payload = {}
    BY <2>1 DEF Init, NoneScheduled, Off
  <2>4. DestructiveAlone /\ DestructivePlaces /\ FlagFree /\ Committed /\ Recorded
    BY <2>2, <2>3 DEF DestructiveAlone, DestructivePlaces, FlagFree, Committed,
                      Recorded, Resting
  <2>5. FlagOutlastsSchedule /\ OneSchedule /\ ScheduleTraceable
    BY <2>3 DEF FlagOutlastsSchedule, OneSchedule, ScheduleTraceable, NoneScheduled
  <2>6. QED
    BY <2>4, <2>5 DEF CountdownInv
<1>2. GateInv /\ CountdownInv /\ [Next]_vars => CountdownInv'
  <2>1. SUFFICES ASSUME GateInv, CountdownInv, [Next]_vars PROVE CountdownInv'
    OBVIOUS
  <2>2. CASE Next
    BY <2>1, <2>2, CountdownDelivery, CountdownPoll, CountdownBurst, CountdownOutside
       DEF Next, GateInv
  <2>3. CASE UNCHANGED vars
    BY <2>1, <2>3 DEF vars, process, CountdownInv, DestructiveAlone, DestructivePlaces,
       FlagOutlastsSchedule, OneSchedule, FlagFree, Committed, NoneScheduled,
       Recorded, ScheduleTraceable
  <2>4. QED
    BY <2>1, <2>2, <2>3
<1>3. QED
  BY <1>1, <1>2, GateInvariant, PTL DEF Spec

\* No setup runs while a restart or a reboot is under way (beginInstall and
\* commitDestructive look at each other's claim, and the flag lasts longer
\* than the countdown).
THEOREM NoSetupUnderCountdown ==
  ASSUME "crash" \notin Faults, DestructiveSerial
  PROVE  Spec => []NoInstallUnderCountdown
<1>1. GateInv /\ CountdownInv => NoInstallUnderCountdown
  BY DEF GateInv, CountdownInv, InstallExcludesPending, FlagOutlastsSchedule,
         NoInstallUnderCountdown
<1>2. QED
  BY <1>1, GateInvariant, CountdownInvariant, PTL

\* Whatever is under way can be traced in state.json or in what this process
\* reports (AddPendingCommand comes before the action, RemovePendingCommand
\* only after it failed or the deadline passed).
THEOREM SchedulesOnRecord ==
  ASSUME "crash" \notin Faults, DestructiveSerial
  PROVE  Spec => []ScheduleTraceable
<1>1. CountdownInv => ScheduleTraceable
  BY DEF CountdownInv
<1>2. QED
  BY <1>1, CountdownInvariant, PTL
-----------------------------------------------------------------------------
(* The gate implements PowerLock.  The lock knows which command holds it,  *)
(* and the gate knows it by the id: the flag carries the id of the command *)
(* that set it until the call that follows the commit has returned, and    *)
(* for as long as what that call started is under way.                     *)

ScheduledBy == \A id \in Ids : sched[id].on => gate.id = id
HeldBy == \A d \in Deliveries : pc[d] = "act" => gate.id = IdOf[d]

\* A goroutine between its commit and its call is the only destructive one
\* that moves.
LEMMA ActsAlone ==
  ASSUME CountdownInv, NEW d \in Deliveries, NEW e \in Deliveries,
         pc[e] = "act", pc[d] \in {"commit", "clear"}
  PROVE  FALSE
<1>1. DestructiveOf(d) /\ DestructiveOf(e)
  BY DEF CountdownInv, DestructivePlaces
<1>2. d # e
  OBVIOUS
<1>3. QED
  BY <1>1, <1>2 DEF CountdownInv, DestructiveAlone, Resting

\* Every step keeps the id of the flag with the goroutine that set it.
LEMMA HeldStep ==
  ASSUME TypeOK, CountdownInv, HeldBy, Next
  PROVE  HeldBy'
<1> USE CommandsAssumption
<1>1. ASSUME NEW d \in Deliveries, Deliver(d) \/ Goroutine(d)
      PROVE  HeldBy'
  <2>1. CASE Commit(d)
    <3>1. pc[d] = "commit"
      BY <2>1 DEF Commit, Goto
    <3>2. \A e \in Deliveries : pc[e] # "act"
      BY <3>1, ActsAlone
    <3>3. \A e \in Deliveries : pc'[e] = "act" => e = d /\ gate'.id = IdOf[d]
      BY <2>1, <3>2 DEF Commit, Goto, TypeOK
    <3>4. QED
      BY <3>3 DEF HeldBy
  <2>2. CASE Clear(d)
    <3>1. pc[d] = "clear"
      BY <2>2 DEF Clear, Goto
    <3>2. \A e \in Deliveries : pc[e] # "act"
      BY <3>1, ActsAlone
    <3>3. QED
      BY <2>2, <3>2 DEF Clear, Goto, TypeOK, HeldBy
  <2>3. CASE AdmitDestructive(d)
    <3>1. \A e \in Deliveries : pc'[e] = "act" => pc[e] = "act"
      BY <2>3 DEF AdmitDestructive, Goto, TypeOK
    <3>2. ReadGate /\ UNCHANGED <<sched, delay, payload, built>>
      BY <2>3 DEF AdmitDestructive
    <3>3. QED
      BY <3>1, <3>2, ReadGateKeeps DEF HeldBy
  <2>4. CASE UNCHANGED gate /\ ~Commit(d)
    <3>1. \A e \in Deliveries : pc'[e] = "act" => pc[e] = "act"
      BY <1>1, <2>4 DEF Deliver, Goroutine, Lookup, Add, Admit, AdmitDestructive,
           Refuse, Claim, Ack, Run, Record, Act, Clear, Unrecord, Release, Goto, TypeOK
    <3>2. QED
      BY <2>4, <3>1 DEF HeldBy
  <2>5. QED
    BY <1>1, <2>1, <2>2, <2>3, <2>4
       DEF Deliver, Goroutine, Lookup, Add, Admit, Refuse, Claim, Ack, Run,
           Record, Act, Unrecord, Release
<1>2. CASE Poll
  <2>1. UNCHANGED <<pc, sched, delay, payload, built>>
    BY <1>2 DEF Poll, CycleCheck, CycleIdle, BeginSelf, BeginSetup, BeginInstall,
         EndInstall, HandOff, PollUnchanged
  <2>2. ReadGate \/ UNCHANGED gate
    BY <1>2 DEF Poll, CycleCheck, CycleIdle, BeginSelf, BeginSetup, BeginInstall,
         EndInstall, HandOff
  <2>3. QED
    BY <2>1, <2>2, ReadGateKeeps DEF HeldBy
<1>3. CASE Connect \/ Take \/ SendStarted
  BY <1>3 DEF Connect, Take, SendStarted, BurstUnchanged, HeldBy
<1>4. CASE (\E id \in Ids : TakeEffect(id)) \/ Crash
  BY <1>4 DEF TakeEffect, Crash, NewProcess, HeldBy
<1>5. CASE \E id \in Ids : Abort(id)
  BY <1>5 DEF Abort, process, HeldBy
<1>6. CASE Tick
  BY <1>6 DEF Tick, HeldBy
<1>7. QED
  BY <1>1, <1>2, <1>3, <1>4, <1>5, <1>6 DEF Next

\* Every step keeps the id of the flag with what is under way.
LEMMA ScheduledStep ==
  ASSUME GateInv, CountdownInv, CountdownInv', HeldBy, ScheduledBy, Next
  PROVE  ScheduledBy'
<1> USE CommandsAssumption
<1>t. TypeOK
  BY DEF GateInv
<1>n. NoneScheduled' => ScheduledBy'
  BY DEF NoneScheduled, ScheduledBy
<1>r. ReadGate /\ UNCHANGED <<sched, delay, payload, built>> => ScheduledBy'
  <2>1. SUFFICES ASSUME ReadGate, UNCHANGED <<sched, delay, payload, built>>,
                        NEW id \in Ids, sched'[id].on
                 PROVE  gate'.id = id
    BY DEF ScheduledBy
  <2>2. gate'.pending
    BY <2>1 DEF CountdownInv, FlagOutlastsSchedule
  <2>3. gate' = gate
    BY <1>t, <2>1, <2>2, ReadGateKeeps
  <2>4. QED
    BY <2>1, <2>3 DEF ScheduledBy
<1>1. ASSUME NEW d \in Deliveries, Deliver(d) \/ Goroutine(d)
      PROVE  ScheduledBy'
  <2>1. CASE Commit(d)
    <3>1. pc[d] = "commit" /\ sched' = sched
      BY <2>1 DEF Commit, Goto
    <3>2. ~gate.pending
      BY <3>1 DEF CountdownInv, DestructivePlaces, FlagFree
    <3>3. NoneScheduled'
      BY <3>1, <3>2 DEF CountdownInv, FlagOutlastsSchedule, NoneScheduled
    <3>4. QED
      BY <3>3, <1>n
  <2>2. CASE Clear(d)
    <3>1. pc[d] = "clear" /\ sched' = sched
      BY <2>2 DEF Clear, Goto
    <3>2. NoneScheduled'
      BY <3>1 DEF CountdownInv, Committed, NoneScheduled
    <3>3. QED
      BY <3>2, <1>n
  <2>3. CASE Act(d)
    <3>1. pc[d] = "act" /\ gate' = gate
      BY <2>3 DEF Act, Goto
    <3>2. gate.id = IdOf[d] /\ NoneScheduled
      BY <3>1 DEF HeldBy, CountdownInv, Committed
    <3>3. \A id \in Ids : sched'[id].on => id = IdOf[d]
      BY <2>3, <1>t, <3>2 DEF Act, NoneScheduled, TypeOK
    <3>4. QED
      BY <3>1, <3>2, <3>3 DEF ScheduledBy
  <2>4. CASE AdmitDestructive(d)
    BY <2>4, <1>r DEF AdmitDestructive
  <2>5. CASE UNCHANGED <<gate, sched>>
    BY <2>5 DEF ScheduledBy
  <2>6. QED
    BY <1>1, <2>1, <2>2, <2>3, <2>4, <2>5
       DEF Deliver, Goroutine, Lookup, Add, Admit, Refuse, Claim, Ack, Run,
           Record, Unrecord, Release
<1>2. CASE Poll
  <2>1. UNCHANGED <<pc, sched, delay, payload, built>>
    BY <1>2 DEF Poll, CycleCheck, CycleIdle, BeginSelf, BeginSetup, BeginInstall,
         EndInstall, HandOff, PollUnchanged
  <2>2. ReadGate \/ UNCHANGED gate
    BY <1>2 DEF Poll, CycleCheck, CycleIdle, BeginSelf, BeginSetup, BeginInstall,
         EndInstall, HandOff
  <2>3. QED
    BY <2>1, <2>2, <1>r DEF ScheduledBy
<1>3. CASE Connect \/ Take \/ SendStarted
  BY <1>3 DEF Connect, Take, SendStarted, BurstUnchanged, ScheduledBy
<1>4. CASE (\E id \in Ids : TakeEffect(id)) \/ Crash
  <2>1. gate' = NoGate
    BY <1>4 DEF TakeEffect, Crash, NewProcess
  <2>2. NoneScheduled'
    BY <2>1, NoGateFree DEF CountdownInv, FlagOutlastsSchedule, NoneScheduled
  <2>3. QED
    BY <2>2, <1>n
<1>5. ASSUME NEW id \in Ids, Abort(id) PROVE ScheduledBy'
  <2>1. gate' = gate /\ \A i \in Ids : sched'[i].on => sched[i].on
    BY <1>5, <1>t DEF Abort, process, Off, TypeOK
  <2>2. QED
    BY <2>1 DEF ScheduledBy
<1>6. CASE Tick
  <2>1. gate'.id = gate.id /\ \A i \in Ids : sched'[i].on = sched[i].on
    BY <1>6, <1>t DEF Tick, TypeOK, Gates, Schedules
  <2>2. QED
    BY <2>1 DEF ScheduledBy
<1>7. QED
  BY <1>1, <1>2, <1>3, <1>4, <1>5, <1>6 DEF Next

LockInv == GateInv /\ CountdownInv /\ HeldBy /\ ScheduledBy

\* In every behaviour the flag carries the id of what it was set for.
THEOREM LockInvariant ==
  ASSUME "crash" \notin Faults, DestructiveSerial
  PROVE  Spec => []LockInv
<1>1. Init => HeldBy /\ ScheduledBy
  BY DEF Init, HeldBy, ScheduledBy, Off
<1>2. /\ GateInv /\ CountdownInv /\ CountdownInv' /\ HeldBy /\ ScheduledBy
      /\ [Next]_vars
      => HeldBy' /\ ScheduledBy'
  <2>1. SUFFICES ASSUME GateInv, CountdownInv, CountdownInv', HeldBy, ScheduledBy,
                        [Next]_vars
                 PROVE  HeldBy' /\ ScheduledBy'
    OBVIOUS
  <2>2. CASE Next
    BY <2>1, <2>2, HeldStep, ScheduledStep DEF GateInv
  <2>3. CASE UNCHANGED vars
    BY <2>1, <2>3 DEF vars, process, HeldBy, ScheduledBy
  <2>4. QED
    BY <2>1, <2>2, <2>3
<1>3. QED
  BY <1>1, <1>2, GateInvariant, CountdownInvariant, PTL DEF Spec, LockInv

\* A step that leaves gate, claims and schedules alone is no step of the lock.
LEMMA LockKept ==
  ASSUME UNCHANGED <<gate, installing, sched>>
  PROVE  UNCHANGED Lock!vars
BY DEF Lock!vars, InForce, UnderWay

\* Reading the gate releases only a flag that holds nobody off any more.
LEMMA ReadGateNoStep ==
  ASSUME TypeOK, ReadGate
  PROVE  /\ InForce' = InForce
         /\ ~PendingNow => InForce = {}
<1>1. ASSUME Overdue PROVE InForce = {} /\ InForce' = {}
  BY <1>1, NoGateFree DEF ReadGate, Overdue, InForce
<1>2. ASSUME ~Overdue PROVE InForce' = InForce
  BY <1>2 DEF ReadGate, InForce
<1>3. ~PendingNow => InForce = {}
  BY <1>1 DEF PendingNow, InForce
<1>4. QED
  BY <1>1, <1>2, <1>3

\* While nothing is in force nothing is under way outside.
LEMMA InForceCovers ==
  ASSUME TypeOK, CountdownInv
  PROVE  /\ InForce = {} => UnderWay = {}
         /\ NoneScheduled <=> UnderWay = {}
<1>1. NoneScheduled <=> UnderWay = {}
  BY DEF NoneScheduled, UnderWay
<1>2. ASSUME NEW id \in Ids, sched[id].on PROVE InForce # {}
  <2>1. gate.pending /\ gate.left > sched[id].due
    BY <1>2 DEF CountdownInv, FlagOutlastsSchedule
  <2>2. gate.left \in Nat /\ sched[id].due \in Nat
    BY DEF TypeOK, Gates, Schedules
  <2>3. QED
    BY <2>1, <2>2 DEF InForce
<1>3. QED
  BY <1>1, <1>2 DEF UnderWay

LEMMA NoGateNotInForce ==
  ASSUME gate' = NoGate
  PROVE  InForce' = {}
BY NoGateFree DEF InForce

\* commitDestructive takes the lock, restart() and reboot() start the count,
\* and a failure lets go; nothing else a delivery does is seen at the lock.
LEMMA LockDelivery ==
  ASSUME TypeOK, CountdownInv, HeldBy,
         NEW d \in Deliveries, Deliver(d) \/ Goroutine(d)
  PROVE  [Lock!Next]_(Lock!vars)
<1> USE CommandsAssumption
<1> DEFINE id == IdOf[d]
<1>1. CASE Commit(d)
  <2>1. CASE gate' = gate
    BY <1>1, <2>1, LockKept DEF Commit
  <2>2. CASE gate' # gate
    <3>1. /\ pc[d] = "commit" /\ installing = 0
          /\ UNCHANGED <<installing, sched>>
      BY <1>1, <2>2 DEF Commit, Goto
    <3>2. PICK n \in Delays(NameOf[id]) :
            gate' = [pending |-> TRUE, left |-> Deadline(NameOf[id], n), id |-> id]
      BY <1>1, <2>2 DEF Commit
    <3>3. id \in Ids /\ Destructive(NameOf[id])
      BY <3>1 DEF CountdownInv, DestructivePlaces, DestructiveOf
    <3>4. Deadline(NameOf[id], n) > 0
      BY <3>2 DEF Deadline, Delays
    <3>5. InForce = {}
      BY <3>1, <3>3 DEF CountdownInv, FlagFree, DestructiveOf, InForce
    <3>6. UnderWay = {} /\ UnderWay' = UnderWay
      BY <3>1, <3>5, InForceCovers DEF UnderWay
    <3>7. InForce' = {id}
      BY <3>2, <3>4 DEF InForce
    <3>8. Lock!Commit(id)
      BY <3>1, <3>5, <3>6, <3>7 DEF Lock!Commit
    <3>9. QED
      BY <3>3, <3>8 DEF Lock!Next
  <2>3. QED
    BY <2>1, <2>2
<1>2. CASE Act(d)
  <2>1. pc[d] = "act" /\ UNCHANGED <<gate, installing>>
    BY <1>2 DEF Act, Goto
  <2>2. CASE UNCHANGED sched
    BY <2>1, <2>2, LockKept
  <2>3. CASE sched' # sched
    <3>1. sched' = [sched EXCEPT ![id] = On(delay[d])]
      BY <1>2, <2>3 DEF Act
    <3>2. id \in Ids /\ Destructive(NameOf[id])
      BY <2>1 DEF CountdownInv, DestructivePlaces, DestructiveOf
    <3>3. gate.pending /\ gate.left > delay[d] /\ gate.id = id /\ NoneScheduled
      BY <2>1 DEF CountdownInv, Committed, HeldBy
    <3>4. gate.left \in Nat /\ delay[d] \in Nat
      BY DEF TypeOK, Gates
    <3>5. InForce = {id} /\ InForce' = InForce
      BY <2>1, <3>3, <3>4 DEF InForce
    <3>6. UnderWay = {}
      BY <3>3, InForceCovers
    <3>7. UnderWay' = {id}
      BY <3>1, <3>2, <3>3 DEF UnderWay, NoneScheduled, On, TypeOK
    <3>8. Lock!Schedule(id)
      BY <2>1, <3>5, <3>6, <3>7 DEF Lock!Schedule
    <3>9. QED
      BY <3>2, <3>8 DEF Lock!Next
  <2>4. QED
    BY <2>2, <2>3
<1>3. CASE Clear(d)
  <2>1. pc[d] = "clear" /\ gate' = NoGate /\ UNCHANGED <<installing, sched>>
    BY <1>3 DEF Clear, Goto
  <2>2. InForce' = {}
    BY <2>1, NoGateNotInForce
  <2>3. UnderWay = {} /\ UnderWay' = UnderWay
    BY <2>1, InForceCovers DEF CountdownInv, Committed, UnderWay
  <2>4. CASE InForce = {}
    BY <2>1, <2>2, <2>3, <2>4 DEF Lock!vars
  <2>5. CASE InForce # {}
    <3>1. Lock!GiveUp
      BY <2>1, <2>2, <2>3, <2>5 DEF Lock!GiveUp
    <3>2. QED
      BY <3>1 DEF Lock!Next
  <2>6. QED
    BY <2>4, <2>5
<1>4. CASE AdmitDestructive(d)
  <2>1. ReadGate /\ UNCHANGED <<installing, sched>>
    BY <1>4 DEF AdmitDestructive
  <2>2. QED
    BY <2>1, ReadGateNoStep DEF Lock!vars, UnderWay
<1>5. CASE UNCHANGED <<gate, installing, sched>>
  BY <1>5, LockKept
<1>6. QED
  BY <1>1, <1>2, <1>3, <1>4, <1>5
     DEF Deliver, Goroutine, Lookup, Add, Admit, Refuse, Claim, Ack, Run,
         Record, Unrecord, Release

\* beginInstall and endInstall take and give back a share of the lock.
LEMMA LockPoll ==
  ASSUME GateInv, CountdownInv, Poll
  PROVE  [Lock!Next]_(Lock!vars)
<1>t. TypeOK
  BY DEF GateInv
<1>1. sched' = sched /\ UnderWay' = UnderWay
  BY DEF Poll, CycleCheck, CycleIdle, BeginSelf, BeginSetup, BeginInstall,
         EndInstall, HandOff, PollUnchanged, UnderWay
<1>2. CASE CycleCheck
  BY <1>t, <1>1, <1>2, ReadGateNoStep DEF CycleCheck, Lock!vars
<1>3. CASE CycleIdle \/ HandOff
  BY <1>1, <1>3, LockKept DEF CycleIdle, HandOff
<1>4. CASE EndInstall
  <2>1. installing > 0 /\ installing' = installing - 1 /\ gate' = gate
    BY <1>4 DEF EndInstall, GateInv, ClaimHeld
  <2>2. Lock!End
    BY <1>1, <2>1 DEF Lock!End, InForce
  <2>3. QED
    BY <2>2 DEF Lock!Next
<1>5. CASE BeginSelf \/ BeginSetup
  <2>1. /\ ReadGate
        /\ \/ PendingNow /\ installing' = installing
           \/ ~PendingNow /\ installing' = installing + 1
    BY <1>5 DEF BeginSelf, BeginSetup, BeginInstall
  <2>2. InForce' = InForce /\ (~PendingNow => InForce = {})
    BY <1>t, <2>1, ReadGateNoStep
  <2>3. CASE PendingNow
    BY <1>1, <2>1, <2>2, <2>3 DEF Lock!vars
  <2>4. CASE ~PendingNow
    <3>1. InForce = {} /\ UnderWay = {}
      BY <1>t, <2>2, <2>4, InForceCovers
    <3>2. Lock!Begin
      BY <1>1, <2>1, <2>2, <2>4, <3>1 DEF Lock!Begin
    <3>3. QED
      BY <3>2 DEF Lock!Next
  <2>5. QED
    BY <2>3, <2>4
<1>6. QED
  BY <1>2, <1>3, <1>4, <1>5 DEF Poll

\* Outside: what takes effect is what holds the lock, a self-update that stops
\* the service takes its own share with it, and time lets the flag lapse only
\* when nothing is counting down.
LEMMA LockOutside ==
  ASSUME "crash" \notin Faults, GateInv, CountdownInv,
         ScheduledBy, (\E id \in Ids : TakeEffect(id) \/ Abort(id)) \/ Crash \/ Tick
  PROVE  [Lock!Next]_(Lock!vars)
<1>t. TypeOK
  BY DEF GateInv
<1>1. ASSUME NEW id \in Ids, sched[id].on
      PROVE  /\ installing = 0
             /\ UnderWay = {id} /\ InForce = {id}
  <2>1. gate.pending /\ gate.left > sched[id].due /\ gate.id = id
    BY <1>1 DEF CountdownInv, FlagOutlastsSchedule, ScheduledBy
  <2>2. gate.left \in Nat /\ sched[id].due \in Nat
    BY <1>t DEF TypeOK, Gates, Schedules
  <2>3. InForce = {id}
    BY <2>1, <2>2 DEF InForce
  <2>4. UnderWay = {id}
    BY <1>1 DEF UnderWay, CountdownInv, OneSchedule
  <2>5. installing = 0
    BY <1>t, <2>1 DEF GateInv, InstallExcludesPending, TypeOK
  <2>6. QED
    BY <2>3, <2>4, <2>5
<1>2. ASSUME NEW id \in Ids, TakeEffect(id)
      PROVE  [Lock!Next]_(Lock!vars)
  <2>1. sched[id].on /\ gate' = NoGate /\ installing' = 0
    BY <1>2 DEF TakeEffect, NewProcess
  <2>2. InForce' = {}
    BY <2>1, NoGateNotInForce
  <2>3. UnderWay' = {}
    <3>1. \A i \in Ids : i # id => ~sched[i].on
      BY <2>1 DEF CountdownInv, OneSchedule
    <3>2. QED
      BY <1>2, <1>t, <3>1 DEF TakeEffect, Off, TypeOK, UnderWay
  <2>4. Lock!TakeEffect
    BY <1>1, <2>1, <2>2, <2>3 DEF Lock!TakeEffect
  <2>5. QED
    BY <2>4 DEF Lock!Next
<1>3. ASSUME NEW id \in Ids, Abort(id)
      PROVE  [Lock!Next]_(Lock!vars)
  <2>1. sched[id].on /\ UNCHANGED <<gate, installing>>
    BY <1>3 DEF Abort, process
  <2>2. UnderWay' = UnderWay \ {id}
    BY <1>3, <1>t DEF Abort, Off, TypeOK, UnderWay
  <2>3. UnderWay # {} /\ UnderWay' = {}
    BY <1>1, <2>1, <2>2
  <2>4. Lock!CallOff
    BY <2>1, <2>3 DEF Lock!CallOff, InForce
  <2>5. QED
    BY <2>4 DEF Lock!Next
<1>4. CASE Crash
  <2>1. installing > 0 /\ installing' = 0 /\ gate' = NoGate /\ sched' = sched
    BY <1>4, <1>t DEF Crash, HandedOff, TypeOK, NewProcess
  <2>2. InForce = {} /\ InForce' = {}
    BY <2>1, NoGateNotInForce DEF GateInv, InstallExcludesPending, InForce
  <2>3. Lock!Stop
    BY <2>1, <2>2 DEF Lock!Stop, UnderWay
  <2>4. QED
    BY <2>3 DEF Lock!Next
<1>5. CASE Tick
  <2>1. /\ installing' = installing
        /\ gate'.pending = gate.pending /\ gate'.id = gate.id
        /\ gate'.left = IF gate.left > 0 THEN gate.left - 1 ELSE 0
    BY <1>5, <1>t DEF Tick, TypeOK, Gates
  <2>2. \A i \in Ids : sched'[i].on = sched[i].on
    BY <1>5, <1>t DEF Tick, TypeOK, Schedules
  <2>3. UnderWay' = UnderWay
    BY <2>2 DEF UnderWay
  <2>4. CASE InForce' = InForce
    BY <2>1, <2>3, <2>4 DEF Lock!vars
  <2>5. CASE InForce' # InForce
    <3>1. gate.left \in Nat
      BY <1>t DEF TypeOK, Gates
    <3>2. gate.left = 1 /\ InForce # {} /\ InForce' = {}
      BY <2>1, <2>5, <3>1 DEF InForce
    <3>3. ASSUME NEW i \in Ids, sched[i].on PROVE FALSE
      <4>1. sched[i].due > 0 /\ gate.left > sched[i].due
        BY <1>5, <3>3 DEF Tick, CountdownInv, FlagOutlastsSchedule
      <4>2. sched[i].due \in Nat
        BY <1>t DEF TypeOK, Schedules
      <4>3. QED
        BY <3>2, <4>1, <4>2
    <3>4. UnderWay = {}
      BY <3>3 DEF UnderWay
    <3>5. Lock!GiveUp
      BY <2>1, <2>3, <3>2, <3>4 DEF Lock!GiveUp
    <3>6. QED
      BY <3>5 DEF Lock!Next
  <2>6. QED
    BY <2>4, <2>5
<1>6. QED
  BY <1>2, <1>3, <1>4, <1>5

\* The gate implements the lock between setups and destructive commands
\* (beginInstall, commitDestructive, the deadline of the flag), for every
\* number of commands and setups, whatever fails, is aborted or is lost, with a
\* server that has one destructive command in flight at a time and a process
\* that does not die on its own.
THEOREM GateImplementsLock ==
  ASSUME "crash" \notin Faults, DestructiveSerial
  PROVE  Spec => ImplementsLock
<1>1. Init => Lock!Init
  BY NoGateFree DEF Init, Lock!Init, InForce, UnderWay, Off
<1>2. LockInv /\ [Next]_vars => [Lock!Next]_(Lock!vars)
  <2>1. SUFFICES ASSUME LockInv, [Next]_vars PROVE [Lock!Next]_(Lock!vars)
    OBVIOUS
  <2>2. GateInv /\ TypeOK /\ CountdownInv /\ HeldBy /\ ScheduledBy
    BY <2>1 DEF LockInv, GateInv
  <2>3. ASSUME NEW d \in Deliveries, Deliver(d) \/ Goroutine(d)
        PROVE  [Lock!Next]_(Lock!vars)
    BY <2>2, <2>3, LockDelivery
  <2>4. CASE Poll
    BY <2>2, <2>4, LockPoll
  <2>5. CASE Connect \/ Take \/ SendStarted
    BY <2>5, LockKept DEF Connect, Take, SendStarted, BurstUnchanged
  <2>6. CASE (\E id \in Ids : TakeEffect(id) \/ Abort(id)) \/ Crash \/ Tick
    BY <2>2, <2>6, LockOutside
  <2>7. CASE UNCHANGED vars
    BY <2>7, LockKept DEF vars, process
  <2>8. QED
    BY <2>1, <2>3, <2>4, <2>5, <2>6, <2>7 DEF Next
<1>3. QED
  BY <1>1, <1>2, LockInvariant, PTL DEF Spec, ImplementsLock, Lock!Spec

=============================================================================
