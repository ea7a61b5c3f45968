-------------------------- MODULE SelfUpdateProofs --------------------------
(***************************************************************************)
(* Proofs about SelfUpdate, for every set of versions, every MaxAttempts,  *)
(* every Cooldown, and any number of faults and published manifests.       *)
(***************************************************************************)
EXTENDS SelfUpdate, TLAPS

\* What reconcileSelfUpdate returned is the record, or the record is settled.
Agreed ==
  pc = "resolve" =>
    \/ known.version = record.version /\ known.attempts = record.attempts
    \/ known.version = 0 /\ record.version <= running

\* The attempt Decide allowed is one more than the launches it has to answer
\* for; a target no longer offered answers for none.
Chosen ==
  pc \in {"ensure", "verify", "claim", "record", "retire", "launch"} =>
    /\ target \in Versions /\ running < target
    /\ attempt <= MaxAttempts /\ attempt > 0
    /\ IF target = offer THEN launches < attempt ELSE launches = 0

\* The record names the attempt before the setup is launched.
Recorded ==
  pc \in {"retire", "launch"} => record.version = target /\ record.attempts = attempt

\* Every launch of the offered release is counted in the record.
Counted ==
  launches > 0 =>
    /\ running < offer /\ record.version = offer
    /\ launches <= record.attempts /\ record.attempts <= MaxAttempts

SelfInv == TypeOK /\ Agreed /\ Chosen /\ Recorded /\ Counted
-----------------------------------------------------------------------------
(* Type correctness.                                                       *)

\* Records have the fields their type says, and the steps build records.
LEMMA RecordTypes ==
  /\ NoRecord \in Records /\ NoRecord.version = 0
  /\ \A r \in Records :
       /\ r.version \in Nat /\ r.version \in Versions \cup {0} /\ r.attempts \in Nat
       /\ r.gaveUp \in BOOLEAN /\ r.age \in Nat
       /\ [r EXCEPT !.gaveUp = TRUE] \in Records
       /\ Aged(r) \in Records /\ Aged(r).version = r.version /\ Aged(r).attempts = r.attempts
  /\ \A v \in Versions, n \in Nat :
       [version |-> v, attempts |-> n, gaveUp |-> FALSE, age |-> 0] \in Records
<1>1. NoRecord \in Records /\ NoRecord.version = 0
  BY DEF NoRecord, Records
<1>2. ASSUME NEW r \in Records
      PROVE  /\ r.version \in Nat /\ r.version \in Versions \cup {0} /\ r.attempts \in Nat
             /\ r.gaveUp \in BOOLEAN /\ r.age \in Nat
  <2>1. r.version \in Versions \cup {0} /\ r.attempts \in Nat /\ r.age \in Nat
    BY DEF Records
  <2>2. r.gaveUp \in BOOLEAN
    BY DEF Records
  <2>3. Versions \cup {0} \subseteq Nat
    BY SelfUpdateAssumption
  <2>4. QED
    BY <2>1, <2>2, <2>3
<1>3. ASSUME NEW r \in Records
      PROVE  [r EXCEPT !.gaveUp = TRUE] \in Records
  BY DEF Records
<1>4. ASSUME NEW r \in Records
      PROVE  Aged(r) \in Records /\ Aged(r).version = r.version /\ Aged(r).attempts = r.attempts
  BY DEF Records, Aged
<1>5. ASSUME NEW v \in Versions, NEW n \in Nat
      PROVE  [version |-> v, attempts |-> n, gaveUp |-> FALSE, age |-> 0] \in Records
  BY DEF Records
<1>6. QED
  BY <1>1, <1>2, <1>3, <1>4, <1>5

\* The first state is well typed.
LEMMA InitType == Init => TypeOK
BY RecordTypes, SelfUpdateAssumption DEF Init, TypeOK, PCs

\* Saving a record, and ending a cycle.
LEMMA SaveTypes ==
  ASSUME TypeOK
  PROVE  /\ \A k : Fault(k) => faults' \in Nat
         /\ NoFault => faults' \in Nat
         /\ \A r \in Records : Saved(r) => record' \in {r, record} /\ faults' \in Nat
BY DEF TypeOK, Fault, NoFault, Saved

\* A cycle that ends, with its launches still counted.
LEMMA IdleInv ==
  ASSUME Idle, running' \in Versions, record' \in Records, cached' \subseteq Versions,
         live' \in Versions \cup {0}, aside' \in Versions \cup {0},
         setups' \in [Versions -> Nat], offer' \in Versions \cup {0},
         offers' \in Nat, faults' \in Nat, launches' \in Nat, before' \in Versions \cup {0},
         Counted'
  PROVE  SelfInv'
<1>1. TypeOK'
  BY RecordTypes DEF Idle, TypeOK, PCs
<1>2. QED
  BY <1>1 DEF Idle, SelfInv, Agreed, Chosen, Recorded

\* The launches stay counted by a record of the same version and attempts.
LEMMA CountedKept ==
  ASSUME Counted, record'.version = record.version, record'.attempts = record.attempts,
         UNCHANGED <<running, offer, launches>>
  PROVE  Counted'
BY DEF Counted

\* reconcileSelfUpdate.
LEMMA ReconcileSteps ==
  ASSUME "read" \notin Faults, SelfInv, NoHistory \/ Landed \/ Missed
  PROVE  SelfInv'
<1> USE DEF SelfInv
<1>1. UNCHANGED <<target, attempt, running, live, aside, world, history>> /\ pc' = "resolve"
  BY DEF NoHistory, Landed, Missed, Reconcile
<1>2. running \in Nat /\ record.version \in Nat /\ record \in Records
  BY RecordTypes, SelfUpdateAssumption DEF TypeOK
<1>3. /\ known' \in Records /\ record' \in Records /\ faults' \in Nat /\ cached' \subseteq Versions
      /\ Agreed' /\ Counted'
  <2>1. CASE NoHistory
    <3>1. record.version = 0 /\ record' = record /\ known' = NoRecord /\ cached' = cached
      BY <2>1 DEF NoHistory, Fault, Reconcile
    <3>2. faults' \in Nat
      BY <2>1, SaveTypes DEF NoHistory
    <3>3. Agreed'
      BY <3>1, RecordTypes, <1>1, <1>2 DEF Agreed
    <3>4. Counted'
      BY <3>1, <1>1, CountedKept DEF world, history
    <3>5. QED
      BY <3>1, <3>2, <3>3, <3>4, RecordTypes DEF TypeOK
  <2>2. CASE Landed
    <3>1. ~(running < record.version) /\ known' = NoRecord /\ cached' \subseteq Versions
      BY <2>2 DEF Landed, Reconcile, TypeOK
    <3>2. record' \in {NoRecord, record} /\ faults' \in Nat
      BY <2>2, SaveTypes, RecordTypes DEF Landed
    <3>3. Agreed'
      BY <3>1, <3>2, <1>1, <1>2, RecordTypes DEF Agreed
    <3>4. launches = 0
      BY <3>1, <1>2 DEF Counted, TypeOK
    <3>5. Counted'
      BY <3>4, <1>1 DEF Counted, history
    <3>6. QED
      BY <3>1, <3>2, <3>3, <3>5, <1>2, RecordTypes
  <2>3. CASE Missed
    <3>1. known' = record /\ record' = record /\ cached' = cached /\ faults' \in Nat
      BY <2>3, SaveTypes DEF Missed, Reconcile
    <3>2. Counted'
      BY <3>1, <1>1, CountedKept DEF world, history
    <3>3. QED
      BY <3>1, <3>2, <1>2 DEF Agreed, TypeOK
  <2>4. QED
    BY <2>1, <2>2, <2>3
<1>4. TypeOK'
  BY <1>1, <1>3 DEF TypeOK, PCs, world, history
<1>5. QED
  BY <1>1, <1>3, <1>4 DEF Chosen, Recorded

\* Decide.
LEMMA DecideSteps ==
  ASSUME SelfInv, ManifestFailed \/ NotNow \/ GiveUp \/ Install
  PROVE  SelfInv'
<1> USE DEF SelfInv
<1>1. CASE ManifestFailed \/ NotNow
  <2>1. Idle /\ faults' \in Nat /\ UNCHANGED <<disk, world, history>>
    BY <1>1, SaveTypes DEF ManifestFailed, NotNow
  <2>2. Counted'
    BY <2>1, CountedKept DEF disk, world, history
  <2>3. QED
    BY <2>1, <2>2, IdleInv DEF TypeOK, disk, world, history
<1>2. CASE GiveUp
  <2>1. Idle /\ UNCHANGED <<running, cached, live, aside, world, history>>
    BY <1>2 DEF GiveUp
  <2>2. known \in Records /\ record \in Records /\ known.version = offer /\ offer # 0
    BY <1>2 DEF GiveUp, TypeOK, Tried, Newer
  <2>3. [known EXCEPT !.gaveUp = TRUE] \in Records
    BY <2>2, RecordTypes
  <2>4. record' \in {[known EXCEPT !.gaveUp = TRUE], record} /\ faults' \in Nat
    BY <1>2, <2>3, SaveTypes DEF GiveUp
  <2>5. known.version = record.version /\ known.attempts = record.attempts
    BY <1>2, <2>2 DEF GiveUp, Agreed
  <2>6. /\ [known EXCEPT !.gaveUp = TRUE].version = known.version
        /\ [known EXCEPT !.gaveUp = TRUE].attempts = known.attempts
    BY <2>2 DEF Records
  <2>7. record'.version = record.version /\ record'.attempts = record.attempts
    BY <2>4, <2>5, <2>6
  <2>8. Counted'
    BY <2>1, <2>7, CountedKept DEF world, history
  <2>9. QED
    BY <2>1, <2>2, <2>3, <2>4, <2>8, IdleInv DEF TypeOK, world, history
<1>3. CASE Install
  <2>1. /\ pc' = "ensure" /\ target' = offer /\ known' = known /\ faults' \in Nat
        /\ UNCHANGED <<disk, world, history>> /\ offer # 0 /\ running < offer
    BY <1>3, SaveTypes DEF Install, Newer
  <2>2. /\ known \in Records /\ record \in Records /\ known.attempts \in Nat
        /\ launches \in Nat /\ offer \in Versions /\ running \in Nat /\ offer \in Nat
    BY <2>1, RecordTypes, SelfUpdateAssumption DEF TypeOK
  <2>3. attempt' \in Nat /\ attempt' > 0 /\ attempt' <= MaxAttempts /\ launches < attempt'
    <3>1. CASE known.version # offer
      <4>1. attempt' = 1
        BY <1>3, <3>1 DEF Install, Tried
      <4>2. record.version # offer
        BY <1>3, <3>1, <2>1, <2>2 DEF Install, Agreed
      <4>3. launches = 0
        BY <4>2, <2>2 DEF Counted
      <4>4. QED
        BY <4>1, <4>3, SelfUpdateAssumption
    <3>2. CASE known.version = offer
      <4>1. attempt' = known.attempts + 1 /\ ~(known.attempts >= MaxAttempts)
        BY <1>3, <3>2 DEF Install, Tried, Exhausted
      <4>2. known.attempts = record.attempts
        BY <1>3, <3>2, <2>1 DEF Install, Agreed
      <4>3. launches <= known.attempts
        BY <4>2, <2>2 DEF Counted
      <4>4. QED
        BY <4>1, <4>3, <2>2, SelfUpdateAssumption
    <3>3. QED
      BY <3>1, <3>2
  <2>4. TypeOK'
    BY <2>1, <2>2, <2>3 DEF TypeOK, PCs, disk, world, history
  <2>5. Counted'
    BY <2>1, CountedKept DEF disk, world, history
  <2>6. QED
    BY <2>1, <2>2, <2>3, <2>4, <2>5 DEF Agreed, Chosen, Recorded, disk, world, history
<1>4. QED
  BY <1>1, <1>2, <1>3

\* A step of applySelfUpdate that moves on towards the launch and leaves the
\* counts alone.
LEMMA MoveInv ==
  ASSUME SelfInv, pc \in {"ensure", "verify", "claim", "retire"},
         pc' \in {"verify", "claim", "record", "launch"},
         pc' = "launch" => pc = "retire",
         cached' \subseteq Versions, live' \in Versions \cup {0}, aside' \in Versions \cup {0},
         faults' \in Nat, before' \in Versions \cup {0},
         UNCHANGED <<known, target, attempt, running, record, world, launches>>
  PROVE  SelfInv'
<1>1. TypeOK'
  BY DEF SelfInv, TypeOK, PCs, world
<1>2. Counted'
  BY CountedKept DEF SelfInv, world
<1>3. Chosen' /\ Recorded' /\ Agreed'
  BY DEF SelfInv, Agreed, Chosen, Recorded, world
<1>4. QED
  BY <1>1, <1>2, <1>3 DEF SelfInv

\* A step of applySelfUpdate that gives up before the launch.
LEMMA StopInv ==
  ASSUME SelfInv, Idle, cached' \subseteq Versions, live' \in Versions \cup {0},
         aside' \in Versions \cup {0}, faults' \in Nat,
         UNCHANGED <<running, record, world, history>>
  PROVE  SelfInv'
<1>1. Counted'
  BY CountedKept DEF SelfInv, world, history
<1>2. QED
  BY <1>1, IdleInv DEF SelfInv, TypeOK, world, history

\* applySelfUpdate.
LEMMA ApplySteps ==
  ASSUME SelfInv, Ensure \/ Verify \/ Claim \/ Record \/ Retire \/ Launch \/ Restore
  PROVE  SelfInv'
<1> USE DEF SelfInv
<1>1. CASE Ensure
  <2>1. target \in Versions /\ faults' \in Nat
    BY <1>1, SaveTypes DEF Ensure, Chosen
  <2>2. CASE pc' = "verify" /\ cached' = cached \cup {target} /\ UNCHANGED <<known, target, attempt>>
    BY <1>1, <2>1, <2>2, MoveInv DEF Ensure, TypeOK, history
  <2>3. CASE Idle /\ cached' = cached
    BY <1>1, <2>1, <2>3, StopInv DEF Ensure, TypeOK
  <2>4. QED
    BY <1>1, <2>2, <2>3 DEF Ensure
<1>2. CASE Verify
  <2>1. faults' \in Nat
    BY <1>2, SaveTypes DEF Verify
  <2>2. CASE pc' = "claim" /\ UNCHANGED <<known, target, attempt, cached>>
    BY <1>2, <2>1, <2>2, MoveInv DEF Verify, TypeOK, history
  <2>3. CASE Idle /\ cached' = cached \ {target}
    BY <1>2, <2>1, <2>3, StopInv DEF Verify, TypeOK
  <2>4. QED
    BY <1>2, <2>2, <2>3 DEF Verify
<1>3. CASE Claim
  <2>1. faults' \in Nat
    BY <1>3, SaveTypes DEF Claim
  <2>2. CASE pc' = "record" /\ UNCHANGED <<known, target, attempt>>
    BY <1>3, <2>1, <2>2, MoveInv DEF Claim, TypeOK, disk, history
  <2>3. CASE Idle
    BY <1>3, <2>1, <2>3, StopInv DEF Claim, TypeOK, disk
  <2>4. QED
    BY <1>3, <2>2, <2>3 DEF Claim
<1>4. CASE Record
  <2>1. /\ target \in Versions /\ faults' \in Nat /\ attempt \in Nat /\ launches \in Nat
        /\ MaxAttempts \in Nat
    BY <1>4, SaveTypes, SelfUpdateAssumption DEF Record, Chosen, TypeOK
  <2>2. UNCHANGED <<running, cached, live, aside, world, history>>
    BY <1>4 DEF Record
  <2>3. CASE /\ pc' = "retire" /\ UNCHANGED <<known, target, attempt>>
             /\ record' = [version |-> target, attempts |-> attempt, gaveUp |-> FALSE, age |-> 0]
    <3>1. record' \in Records /\ record'.version = target /\ record'.attempts = attempt
      BY <2>1, <2>3, RecordTypes
    <3>2. TypeOK'
      BY <2>2, <2>3, <2>1, <3>1 DEF TypeOK, PCs, world, history
    <3>3. /\ running < target /\ attempt <= MaxAttempts /\ attempt > 0
          /\ IF target = offer THEN launches < attempt ELSE launches = 0
      BY <1>4 DEF Record, Chosen
    <3>4. Counted'
      BY <2>1, <2>2, <3>1, <3>3 DEF Counted, world, history
    <3>5. Chosen' /\ Recorded' /\ Agreed'
      BY <2>1, <2>2, <2>3, <3>1, <3>3 DEF Chosen, Recorded, Agreed, world, history
    <3>6. QED
      BY <3>2, <3>4, <3>5
  <2>4. CASE Idle /\ record' = record
    BY <2>1, <2>2, <2>4, StopInv DEF TypeOK
  <2>5. QED
    BY <1>4, <2>3, <2>4 DEF Record
<1>5. CASE Retire
  <2>1. live' \in Versions \cup {0} /\ aside' \in Versions \cup {0} /\ before' \in Versions \cup {0}
    BY <1>5 DEF Retire, TypeOK
  <2>2. pc = "retire" /\ pc' = "launch" /\ faults' \in Nat
    BY <1>5, SaveTypes DEF Retire
  <2>3. UNCHANGED <<known, target, attempt, running, record, cached, world, launches>>
    BY <1>5 DEF Retire
  <2>4. QED
    BY <2>1, <2>2, <2>3, MoveInv DEF TypeOK
<1>6. CASE Launch
  <2>1. target \in Versions /\ faults' \in Nat /\ UNCHANGED <<disk, offer, offers, before>>
    BY <1>6, SaveTypes DEF Launch, Chosen
  <2>2. CASE /\ setups' = [setups EXCEPT ![target] = @ + 1] /\ Idle
             /\ launches' = IF target = offer THEN launches + 1 ELSE launches
    <3>1. /\ running < target /\ attempt <= MaxAttempts /\ attempt \in Nat
          /\ record.version = target /\ record.attempts = attempt
          /\ IF target = offer THEN launches < attempt ELSE launches = 0
      BY <1>6 DEF Launch, Chosen, Recorded, TypeOK
    <3>2. launches' \in Nat /\ setups' \in [Versions -> Nat]
      BY <2>1, <2>2 DEF TypeOK
    <3>3. Counted'
      BY <2>1, <2>2, <3>1, SelfUpdateAssumption DEF Counted, disk, TypeOK
    <3>4. QED
      BY <2>1, <2>2, <3>2, <3>3, IdleInv DEF TypeOK, disk
  <2>3. CASE pc' = "restore" /\ UNCHANGED <<known, target, attempt, setups, launches>>
    <3>1. TypeOK'
      BY <2>1, <2>3 DEF TypeOK, PCs, disk
    <3>2. Counted'
      BY <2>1, <2>3, CountedKept DEF disk
    <3>3. QED
      BY <2>3, <3>1, <3>2 DEF Agreed, Chosen, Recorded
  <2>4. QED
    BY <1>6, <2>2, <2>3 DEF Launch, history
<1>7. CASE Restore
  <2>1. live' \in Versions \cup {0} /\ aside' \in Versions \cup {0} /\ faults' \in Nat
    BY <1>7, SaveTypes DEF Restore, TypeOK
  <2>2. QED
    BY <1>7, <2>1, StopInv DEF Restore, TypeOK
<1>8. QED
  BY <1>1, <1>2, <1>3, <1>4, <1>5, <1>6, <1>7

\* Setups, crashes, the release server, refreshConfig and time.
LEMMA WorldSteps ==
  ASSUME SelfInv, World
  PROVE  SelfInv'
<1> USE DEF SelfInv
<1>0. running \in Nat /\ offer \in Nat /\ launches \in Nat
  BY SelfUpdateAssumption DEF TypeOK
<1>1. ASSUME NEW v \in Versions, SetupLands(v) PROVE SelfInv'
  <2>1. /\ setups' \in [Versions -> Nat] /\ running' = v
        /\ Idle /\ UNCHANGED <<record, cached, live, aside, offer, offers, faults, before>>
    <3>1. setups[v] > 0 /\ setups' = [setups EXCEPT ![v] = @ - 1]
      BY <1>1 DEF SetupLands
    <3>2. setups' \in [Versions -> Nat]
      BY <3>1 DEF TypeOK
    <3>3. QED
      BY <1>1, <3>2 DEF SetupLands
  <2>2. launches' = IF v >= offer THEN 0 ELSE launches
    BY <1>1 DEF SetupLands
  <2>3. Counted'
    BY <2>1, <2>2, <1>0, SelfUpdateAssumption DEF Counted
  <2>4. launches' \in Nat
    BY <2>2, <1>0
  <2>5. QED
    BY <2>1, <2>3, <2>4, IdleInv DEF TypeOK
<1>2. ASSUME NEW v \in Versions, SetupFails(v) PROVE SelfInv'
  <2>1. setups' \in [Versions -> Nat] /\ UNCHANGED <<disk, offer, offers, faults, history>>
    <3>1. setups[v] > 0 /\ setups' = [setups EXCEPT ![v] = @ - 1]
      BY <1>2 DEF SetupFails
    <3>2. setups' \in [Versions -> Nat]
      BY <3>1 DEF TypeOK
    <3>3. QED
      BY <1>2, <3>2 DEF SetupFails
  <2>2. Counted'
    BY <2>1, CountedKept DEF disk, history
  <2>3. CASE Idle
    BY <2>1, <2>2, <2>3, IdleInv DEF TypeOK, disk, history
  <2>4. CASE UNCHANGED local
    <3>1. TypeOK'
      BY <2>1, <2>4 DEF TypeOK, disk, local, history
    <3>2. QED
      BY <2>1, <2>2, <2>4, <3>1 DEF Agreed, Chosen, Recorded, disk, local, history
  <2>5. QED
    BY <1>2, <2>3, <2>4 DEF SetupFails
<1>3. CASE Crash
  <2>1. faults' \in Nat
    BY <1>3, SaveTypes DEF Crash
  <2>2. QED
    BY <1>3, <2>1, StopInv DEF Crash, TypeOK, disk
<1>4. ASSUME NEW v \in Versions \cup {0}, Publish(v) PROVE SelfInv'
  <2>1. /\ offers' \in Nat /\ offer' = v /\ launches' = 0
        /\ UNCHANGED <<local, disk, setups, faults, before>>
    BY <1>4 DEF Publish, TypeOK
  <2>2. TypeOK'
    BY <2>1 DEF TypeOK, local, disk
  <2>3. Counted' /\ Recorded' /\ Agreed'
    BY <2>1 DEF Counted, Recorded, Agreed, local, disk
  <2>4. Chosen'
    BY <2>1 DEF Chosen, local, disk
  <2>5. QED
    BY <2>2, <2>3, <2>4
<1>5. CASE Refresh
  <2>1. live' = running /\ pc = "idle"
        /\ UNCHANGED <<local, running, record, cached, aside, world, faults, history>>
    BY <1>5 DEF Refresh
  <2>2. TypeOK'
    BY <2>1 DEF TypeOK, local, world, history
  <2>3. Counted'
    BY <2>1, CountedKept DEF world, history
  <2>4. QED
    BY <2>1, <2>2, <2>3 DEF Agreed, Chosen, Recorded, local
<1>6. CASE Tick
  <2>1. /\ record' = Aged(record) /\ known' = Aged(known)
        /\ UNCHANGED <<pc, target, attempt, running, cached, live, aside, world, faults, history>>
    BY <1>6 DEF Tick
  <2>2. /\ record' \in Records /\ known' \in Records
        /\ record'.version = record.version /\ record'.attempts = record.attempts
        /\ known'.version = known.version /\ known'.attempts = known.attempts
    BY <2>1, RecordTypes DEF TypeOK
  <2>3. TypeOK'
    BY <2>1, <2>2 DEF TypeOK, world, history
  <2>4. Counted'
    BY <2>1, <2>2, CountedKept DEF world, history
  <2>5. QED
    BY <2>1, <2>2, <2>3, <2>4 DEF Agreed, Chosen, Recorded, world, history
<1>7. QED
  BY <1>1, <1>2, <1>3, <1>4, <1>5, <1>6 DEF World

\* Every step keeps the inductive invariant, as long as state.json can be read.
LEMMA StepInv == "read" \notin Faults /\ SelfInv /\ [Next]_vars => SelfInv'
<1> SUFFICES ASSUME "read" \notin Faults, SelfInv, [Next]_vars PROVE SelfInv'
  OBVIOUS
<1>1. CASE Updater
  BY <1>1, ReconcileSteps, DecideSteps, ApplySteps DEF Updater
<1>2. CASE World
  BY <1>2, WorldSteps
<1>3. CASE UNCHANGED vars
  BY <1>3 DEF SelfInv, TypeOK, Agreed, Chosen, Recorded, Counted, vars, local, disk, world, history
<1>4. QED
  BY <1>1, <1>2, <1>3 DEF Next

\* While state.json can be read, a release that never lands is launched at most
\* MaxAttempts times for as long as it stays the offered one.
THEOREM LaunchesAreBounded ==
  ASSUME "read" \notin Faults
  PROVE  Spec => []LaunchesBounded
<1>1. Init => SelfInv
  BY InitType DEF Init, SelfInv, Agreed, Chosen, Recorded, Counted
<1>2. SelfInv /\ [Next]_vars => SelfInv'
  BY StepInv
<1>3. SelfInv => LaunchesBounded
  <2> SUFFICES ASSUME SelfInv PROVE launches <= MaxAttempts
    BY DEF LaunchesBounded
  <2>1. launches \in Nat /\ MaxAttempts \in Nat /\ record.attempts \in Nat
    BY RecordTypes, SelfUpdateAssumption DEF SelfInv, TypeOK
  <2>2. QED
    BY <2>1 DEF SelfInv, Counted
<1>4. QED
  BY <1>1, <1>2, <1>3, PTL DEF Spec
-----------------------------------------------------------------------------
(* Type correctness with every fault, an unreadable state.json included:   *)
(* it only needs that a release being applied is a version.                *)

Applying == {"ensure", "verify", "claim", "record", "retire", "launch"}
Targeted == pc \in Applying => target \in Versions
Typed == TypeOK /\ Targeted

\* The steps of selfUpdate keep the types.
LEMMA UpdaterTyped ==
  ASSUME Typed, Updater
  PROVE  Typed'
<1> USE DEF Typed, Applying
<1>0. known \in Records /\ record \in Records
  BY DEF TypeOK
<1>1. CASE NoHistory \/ Landed \/ Missed
  <2>1. UNCHANGED <<target, attempt, running, live, aside, world, history>> /\ pc' = "resolve"
    BY <1>1 DEF NoHistory, Landed, Missed, Reconcile
  <2>2. known' \in {NoRecord, record} /\ cached' \subseteq Versions
    BY <1>1 DEF NoHistory, Landed, Missed, Reconcile, TypeOK
  <2>3. record' \in {NoRecord, record} /\ faults' \in Nat
    BY <1>1, SaveTypes, RecordTypes DEF NoHistory, Landed, Missed
  <2>4. known' \in Records /\ record' \in Records
    BY <1>0, <2>2, <2>3, RecordTypes
  <2>5. QED
    BY <2>1, <2>2, <2>3, <2>4 DEF TypeOK, Targeted, PCs, world, history
<1>2. CASE Idle /\ ~(NoHistory \/ Landed \/ Missed)
  <2>1. /\ running' = running /\ cached' \subseteq Versions
        /\ live' \in Versions \cup {0} /\ aside' \in Versions \cup {0}
        /\ UNCHANGED <<offer, offers, before>>
    BY <1>2 DEF Updater, NoHistory, Landed, Missed, Reconcile, ManifestFailed, NotNow, GiveUp,
       Install, Ensure, Verify, Claim, Record, Retire, Launch, Restore, Idle,
       disk, world, history, TypeOK
  <2>2. faults' \in Nat
    <3>1. CASE GiveUp
      BY <1>0, <3>1, SaveTypes, RecordTypes DEF GiveUp
    <3>2. CASE ~GiveUp
      BY <1>2, <3>2, SaveTypes DEF Updater, ManifestFailed, NotNow, Install, Ensure, Verify,
         Claim, Record, Retire, Launch, Restore
    <3>3. QED
      BY <3>1, <3>2
  <2>3. record' \in Records
    <3>1. CASE GiveUp
      BY <1>0, <3>1, SaveTypes, RecordTypes DEF GiveUp
    <3>2. CASE ~GiveUp
      <4>1. record' = record
        BY <1>2, <3>2 DEF Updater, ManifestFailed, NotNow, Install, Ensure, Verify, Claim,
           Record, Retire, Launch, Restore, Idle, disk
      <4>2. QED
        BY <1>0, <4>1
    <3>3. QED
      BY <3>1, <3>2
  <2>4. setups' \in [Versions -> Nat] /\ launches' \in Nat
    <3>1. CASE Launch
      <4>1. target \in Versions
        BY <3>1 DEF Launch, Targeted
      <4>2. setups' = [setups EXCEPT ![target] = @ + 1] \/ setups' = setups
        BY <3>1 DEF Launch
      <4>3. launches' \in {launches, launches + 1}
        BY <3>1 DEF Launch, history
      <4>4. QED
        BY <4>1, <4>2, <4>3 DEF TypeOK
    <3>2. CASE ~Launch
      <4>1. UNCHANGED <<setups, launches>>
        BY <3>2 DEF Updater, NoHistory, Landed, Missed, Reconcile, ManifestFailed, NotNow,
           GiveUp, Install, Ensure, Verify, Claim, Record, Retire, Restore, world, history
      <4>2. QED
        BY <4>1 DEF TypeOK
    <3>3. QED
      BY <3>1, <3>2
  <2>5. QED
    BY <1>2, <2>1, <2>2, <2>3, <2>4, RecordTypes DEF Idle, TypeOK, Targeted, PCs
<1>3. CASE Install
  <2>1. /\ pc' = "ensure" /\ target' = offer /\ offer \in Versions /\ faults' \in Nat
        /\ UNCHANGED <<known, disk, world, history>>
    BY <1>3, SaveTypes DEF Install, Newer, TypeOK
  <2>2. attempt' \in Nat
    <3>1. known.attempts \in Nat
      BY <1>0, RecordTypes
    <3>2. attempt' \in {1, known.attempts + 1}
      BY <1>3 DEF Install
    <3>3. QED
      BY <3>1, <3>2
  <2>3. QED
    BY <2>1, <2>2 DEF TypeOK, Targeted, PCs, disk, world, history
<1>4. CASE (Ensure \/ Verify \/ Claim \/ Retire) /\ ~Idle
  <2>1. /\ pc' \in {"verify", "claim", "record", "launch"} /\ pc \in Applying
        /\ UNCHANGED <<known, target, attempt, running, record, world, launches>>
    BY <1>4 DEF Ensure, Verify, Claim, Retire, disk, history
  <2>2. /\ cached' \subseteq Versions /\ live' \in Versions \cup {0}
        /\ aside' \in Versions \cup {0} /\ before' \in Versions \cup {0}
    BY <1>4 DEF Ensure, Verify, Claim, Retire, disk, history, TypeOK, Targeted
  <2>3. faults' \in Nat
    BY <1>4, SaveTypes DEF Ensure, Verify, Claim, Retire
  <2>4. QED
    BY <2>1, <2>2, <2>3 DEF TypeOK, Targeted, PCs, world
<1>5. CASE Record /\ ~Idle
  <2>1. /\ pc' = "retire" /\ target \in Versions /\ attempt \in Nat
        /\ record' = [version |-> target, attempts |-> attempt, gaveUp |-> FALSE, age |-> 0]
        /\ UNCHANGED <<known, target, attempt, running, cached, live, aside, world, history>>
    BY <1>5 DEF Record, Targeted, TypeOK
  <2>2. record' \in Records /\ faults' \in Nat
    BY <1>5, <2>1, RecordTypes, SaveTypes DEF Record
  <2>3. QED
    BY <2>1, <2>2 DEF TypeOK, Targeted, PCs, world, history
<1>6. CASE Launch /\ ~Idle
  <2>1. /\ pc' = "restore" /\ faults' \in Nat
        /\ UNCHANGED <<known, target, attempt, setups, history, disk, offer, offers>>
    BY <1>6, SaveTypes DEF Launch
  <2>2. QED
    BY <2>1 DEF TypeOK, Targeted, PCs, disk, history
<1>7. QED
  BY <1>1, <1>2, <1>3, <1>4, <1>5, <1>6 DEF Updater, ManifestFailed, NotNow, GiveUp, Restore

\* So do setups, crashes, the release server, refreshConfig and time.
LEMMA WorldTyped ==
  ASSUME Typed, World
  PROVE  Typed'
<1> USE DEF Typed
<1>1. ASSUME NEW v \in Versions, SetupLands(v) \/ SetupFails(v)
      PROVE  Typed'
  <2>1. setups[v] > 0 /\ setups' = [setups EXCEPT ![v] = @ - 1]
    BY <1>1 DEF SetupLands, SetupFails
  <2>2. setups' \in [Versions -> Nat]
    BY <2>1 DEF TypeOK
  <2>3. /\ running' \in Versions
        /\ UNCHANGED <<record, cached, live, aside, offer, offers, faults, before>>
    BY <1>1 DEF SetupLands, SetupFails, disk, history, TypeOK
  <2>4. launches' \in Nat
    BY <1>1 DEF SetupLands, SetupFails, history, TypeOK
  <2>5. CASE Idle
    BY <2>2, <2>3, <2>4, <2>5, RecordTypes DEF Idle, TypeOK, Targeted, PCs, Applying
  <2>6. CASE UNCHANGED local
    BY <2>2, <2>3, <2>4, <2>6 DEF local, TypeOK, Targeted
  <2>7. QED
    BY <1>1, <2>5, <2>6 DEF SetupLands, SetupFails
<1>2. CASE Crash
  <2>1. faults' \in Nat /\ Idle /\ UNCHANGED <<disk, world, history>>
    BY <1>2, SaveTypes DEF Crash
  <2>2. QED
    BY <2>1, RecordTypes DEF Idle, TypeOK, Targeted, PCs, Applying, disk, world, history
<1>3. ASSUME NEW v \in Versions \cup {0}, Publish(v)
      PROVE  Typed'
  <2>1. /\ offers' \in Nat /\ offer' = v /\ launches' = 0
        /\ UNCHANGED <<local, disk, setups, faults, before>>
    BY <1>3 DEF Publish, TypeOK
  <2>2. QED
    BY <2>1 DEF TypeOK, Targeted, local, disk
<1>4. CASE Refresh
  BY <1>4 DEF Refresh, TypeOK, Targeted, local, world, history
<1>5. CASE Tick
  <2>1. /\ record' = Aged(record) /\ known' = Aged(known)
        /\ UNCHANGED <<pc, target, attempt, running, cached, live, aside, world, faults, history>>
    BY <1>5 DEF Tick
  <2>2. record' \in Records /\ known' \in Records
    BY <2>1, RecordTypes DEF TypeOK
  <2>3. QED
    BY <2>1, <2>2 DEF TypeOK, Targeted, world, history
<1>6. QED
  BY <1>1, <1>2, <1>3, <1>4, <1>5 DEF World

\* Every release being applied is a version of the updater.
LEMMA TypedInvariant == Spec => []Typed
<1>1. Init => Typed
  BY InitType DEF Init, Typed, Targeted, Applying
<1>2. Typed /\ [Next]_vars => Typed'
  <2>1. SUFFICES ASSUME Typed, [Next]_vars PROVE Typed'
    OBVIOUS
  <2>2. CASE UNCHANGED vars
    BY <2>1, <2>2 DEF Typed, TypeOK, Targeted, vars, local, disk, world, history
  <2>3. QED
    BY <2>1, <2>2, UpdaterTyped, WorldTyped DEF Next
<1>3. QED
  BY <1>1, <1>2, PTL DEF Spec

\* Every variable keeps its type, with every combination of faults.
THEOREM TypeCorrect == Spec => []TypeOK
<1>1. Typed => TypeOK
  BY DEF Typed
<1>2. QED
  BY <1>1, TypedInvariant, PTL
-----------------------------------------------------------------------------
(* Cooldown.  While the releases offered only go up, state.json can be     *)
(* read and setups end before Cooldown does, a release is not launched     *)
(* next to its own setup.  The setup of the offered release is the one in  *)
(* the record, which is still cooling down; no older release is ever       *)
(* chosen again.                                                           *)

\* A release being applied has no setup at work, and neither has the one that
\* is offered by then.
Heading ==
  pc \in Applying =>
    /\ running < target /\ target <= offer
    /\ setups[target] = 0 /\ setups[offer] = 0

JustRecorded == pc \in {"retire", "launch"} => record.version = target /\ record.age = 0

\* What Decide looks at is as old as what state.json holds.
SameAge ==
  pc = "resolve" =>
    \/ known.version = record.version /\ known.age = record.age
    \/ known.version = 0 /\ record.version <= running

AtWork ==
  \A v \in Versions :
    /\ setups[v] <= 1
    /\ setups[v] > 0 =>
         /\ v <= offer
         /\ v = offer => running < v /\ record.version = v /\ record.age < Cooldown

SetupInv == offer \in Versions /\ Heading /\ JustRecorded /\ SameAge /\ AtWork

\* The versions are numbers.
LEMMA Numbers ==
  ASSUME TypeOK, offer \in Versions
  PROVE  /\ running \in Nat /\ offer \in Nat /\ record \in Records /\ known \in Records
         /\ record.version \in Nat /\ known.version \in Nat
         /\ record.age \in Nat /\ known.age \in Nat
         /\ \A v \in Versions : setups[v] \in Nat /\ v \in Nat /\ v > 0
         /\ target \in Nat /\ Cooldown \in Nat /\ Cooldown > 0
<1>1. record \in Records /\ known \in Records
  BY DEF TypeOK
<1>2. /\ record.version \in Nat /\ known.version \in Nat
      /\ record.age \in Nat /\ known.age \in Nat
  BY <1>1, RecordTypes
<1>3. running \in Nat /\ offer \in Nat /\ target \in Nat /\ Cooldown \in Nat /\ Cooldown > 0
  BY SelfUpdateAssumption DEF TypeOK
<1>4. \A v \in Versions : setups[v] \in Nat /\ v \in Nat /\ v > 0
  BY SelfUpdateAssumption DEF TypeOK
<1>5. QED
  BY <1>1, <1>2, <1>3, <1>4

\* A step that leaves setups, offer, running and the record's version and age
\* alone keeps what is at work.
LEMMA AtWorkKept ==
  ASSUME AtWork, UNCHANGED <<setups, offer, running>>,
         record'.version = record.version, record'.age = record.age
  PROVE  AtWork'
BY DEF AtWork

\* A step that ends the cycle.
LEMMA IdleSetups ==
  ASSUME Idle, AtWork', offer' \in Versions
  PROVE  SetupInv'
BY DEF Idle, SetupInv, Heading, JustRecorded, SameAge, Applying

\* selfUpdate.
LEMMA UpdaterSetups ==
  ASSUME "read" \notin Faults, Typed, SetupInv, Updater
  PROVE  SetupInv'
<1> USE DEF SetupInv
<1>t. TypeOK
  BY DEF Typed
<1>n. /\ running \in Nat /\ offer \in Nat /\ record \in Records /\ known \in Records
      /\ record.version \in Nat /\ known.version \in Nat
      /\ record.age \in Nat /\ known.age \in Nat
      /\ \A v \in Versions : setups[v] \in Nat /\ v \in Nat /\ v > 0
      /\ target \in Nat /\ Cooldown \in Nat /\ Cooldown > 0
  BY <1>t, Numbers
<1>1. CASE NoHistory \/ Landed \/ Missed
  <2>1. pc' = "resolve" /\ UNCHANGED <<running, setups, offer>>
    BY <1>1 DEF NoHistory, Landed, Missed, Reconcile, world
  <2>2. SameAge' /\ AtWork'
    <3>1. CASE NoHistory
      <4>1. record.version = 0 /\ record' = record /\ known' = NoRecord
        BY <3>1 DEF NoHistory, Fault, Reconcile
      <4>2. QED
        BY <1>n, <2>1, <4>1, AtWorkKept, RecordTypes DEF SameAge
    <3>2. CASE Landed
      <4>1. known' = NoRecord /\ ~(running < record.version)
        BY <3>2 DEF Landed, Reconcile
      <4>2. record' \in {NoRecord, record}
        BY <3>2, <1>t, SaveTypes, RecordTypes DEF Landed
      <4>3. record'.version <= running
        BY <1>n, <4>1, <4>2, RecordTypes
      <4>4. \A v \in Versions : setups[v] > 0 => v # offer
        BY <1>n, <4>1 DEF AtWork
      <4>5. AtWork'
        BY <2>1, <4>4 DEF AtWork
      <4>6. QED
        BY <2>1, <4>1, <4>3, <4>5, RecordTypes DEF SameAge
    <3>3. CASE Missed
      <4>1. known' = record /\ record' = record
        BY <3>3 DEF Missed, Reconcile
      <4>2. QED
        BY <2>1, <4>1, AtWorkKept DEF SameAge
    <3>4. QED
      BY <1>1, <3>1, <3>2, <3>3
  <2>3. QED
    BY <2>1, <2>2 DEF Heading, JustRecorded, Applying
<1>2. CASE ManifestFailed \/ NotNow \/ Restore
  <2>1. Idle /\ UNCHANGED <<running, record, setups, offer>>
    BY <1>2 DEF ManifestFailed, NotNow, Restore, disk, world
  <2>2. QED
    BY <2>1, AtWorkKept, IdleSetups
<1>3. CASE GiveUp
  <2>1. Idle /\ UNCHANGED <<running, setups, offer>> /\ pc = "resolve"
        /\ known.version = offer
    BY <1>3 DEF GiveUp, world, Tried
  <2>2. [known EXCEPT !.gaveUp = TRUE] \in Records
    BY <1>n, RecordTypes
  <2>3. record' \in {[known EXCEPT !.gaveUp = TRUE], record}
    BY <1>3, <1>t, <2>2, SaveTypes DEF GiveUp
  <2>4. known.version = record.version /\ known.age = record.age
    BY <1>n, <2>1 DEF SameAge
  <2>5. /\ [known EXCEPT !.gaveUp = TRUE].version = known.version
        /\ [known EXCEPT !.gaveUp = TRUE].age = known.age
    BY <1>n DEF Records
  <2>6. record'.version = record.version /\ record'.age = record.age
    BY <2>3, <2>4, <2>5
  <2>7. QED
    BY <2>1, <2>6, AtWorkKept, IdleSetups
<1>4. CASE Install
  <2>1. /\ pc = "resolve" /\ pc' = "ensure" /\ target' = offer /\ running < offer
        /\ UNCHANGED <<running, record, setups, offer>>
    BY <1>4 DEF Install, Newer, disk, world
  <2>2. ~(known.version = offer /\ known.age < Cooldown)
    BY <1>4 DEF Install, Tried, CoolingDown
  <2>3. ~(record.version = offer /\ record.age < Cooldown)
    BY <1>n, <2>1, <2>2 DEF SameAge
  <2>4. setups[offer] = 0
    BY <1>n, <2>3 DEF AtWork
  <2>5. AtWork'
    BY <2>1, AtWorkKept
  <2>6. QED
    BY <1>n, <2>1, <2>4, <2>5 DEF Heading, JustRecorded, SameAge, Applying
<1>5. CASE Ensure \/ Verify \/ Claim \/ Retire
  <2>1. UNCHANGED <<running, record, setups, offer>> /\ pc \in Applying
    BY <1>5 DEF Ensure, Verify, Claim, Retire, disk, world, Applying
  <2>2. CASE Idle
    BY <2>1, <2>2, AtWorkKept, IdleSetups
  <2>3. CASE ~Idle
    <3>1. target' = target /\ pc' \in {"verify", "claim", "record", "launch"}
          /\ (pc' = "launch" => pc = "retire")
      BY <1>5, <2>3 DEF Ensure, Verify, Claim, Retire
    <3>2. AtWork'
      BY <2>1, AtWorkKept
    <3>3. Heading' /\ JustRecorded' /\ SameAge'
      BY <2>1, <3>1 DEF Heading, JustRecorded, SameAge, Applying
    <3>4. QED
      BY <2>1, <3>2, <3>3
  <2>4. QED
    BY <2>2, <2>3
<1>6. CASE Record
  <2>1. UNCHANGED <<running, setups, offer>> /\ pc = "record"
    BY <1>6 DEF Record, world
  <2>2. /\ running < target /\ target <= offer
        /\ setups[target] = 0 /\ setups[offer] = 0
    BY <2>1 DEF Heading, Applying
  <2>3. AtWork'
    BY <2>1, <2>2 DEF AtWork
  <2>4. CASE Idle
    BY <2>1, <2>3, <2>4, IdleSetups
  <2>5. CASE ~Idle
    <3>1. /\ pc' = "retire" /\ target' = target
          /\ record' = [version |-> target, attempts |-> attempt, gaveUp |-> FALSE, age |-> 0]
      BY <1>6, <2>5 DEF Record
    <3>2. record'.version = target /\ record'.age = 0
      BY <3>1
    <3>3. QED
      BY <2>1, <2>2, <2>3, <3>1, <3>2 DEF Heading, JustRecorded, SameAge, Applying
  <2>6. QED
    BY <2>4, <2>5
<1>7. CASE Launch
  <2>1. UNCHANGED <<running, record, offer>> /\ pc = "launch"
    BY <1>7 DEF Launch, disk
  <2>2. /\ running < target /\ target <= offer /\ target \in Versions
        /\ setups[target] = 0 /\ record.version = target /\ record.age = 0
    BY <2>1 DEF Heading, JustRecorded, Typed, Targeted, Applying
  <2>3. CASE Idle /\ setups' = [setups EXCEPT ![target] = @ + 1]
    <3>1. \A v \in Versions : setups'[v] = IF v = target THEN 1 ELSE setups[v]
      BY <1>t, <2>2, <2>3 DEF TypeOK
    <3>2. AtWork'
      BY <1>n, <2>1, <2>2, <3>1 DEF AtWork
    <3>3. QED
      BY <2>1, <2>3, <3>2, IdleSetups
  <2>4. CASE pc' = "restore" /\ setups' = setups
    <3>1. AtWork'
      BY <2>1, <2>4, AtWorkKept
    <3>2. QED
      BY <2>1, <2>4, <3>1 DEF Heading, JustRecorded, SameAge, Applying
  <2>5. QED
    BY <1>7, <2>3, <2>4 DEF Launch
<1>8. QED
  BY <1>1, <1>2, <1>3, <1>4, <1>5, <1>6, <1>7 DEF Updater

\* Setups, crashes, the release server, refreshConfig and time.
LEMMA WorldSetups ==
  ASSUME "slow" \notin Faults, Typed, SetupInv, World, offer' >= offer
  PROVE  SetupInv'
<1> USE DEF SetupInv
<1>t. TypeOK
  BY DEF Typed
<1>n. /\ running \in Nat /\ offer \in Nat /\ record \in Records /\ known \in Records
      /\ record.version \in Nat /\ known.version \in Nat
      /\ record.age \in Nat /\ known.age \in Nat
      /\ \A v \in Versions : setups[v] \in Nat /\ v \in Nat /\ v > 0
      /\ target \in Nat /\ Cooldown \in Nat /\ Cooldown > 0
  BY <1>t, Numbers
<1>1. ASSUME NEW v \in Versions, SetupLands(v) \/ SetupFails(v)
      PROVE  SetupInv'
  <2>1. /\ setups[v] > 0 /\ setups' = [setups EXCEPT ![v] = @ - 1]
        /\ UNCHANGED <<record, offer>> /\ running' \in {running, v}
    BY <1>1 DEF SetupLands, SetupFails, disk
  <2>2. \A w \in Versions : setups'[w] = IF w = v THEN 0 ELSE setups[w]
    BY <1>t, <1>n, <2>1 DEF TypeOK, AtWork
  <2>3. \A w \in Versions : setups'[w] <= 1 /\ (setups'[w] > 0 => w # v)
    BY <1>n, <2>2 DEF AtWork
  <2>4. v <= offer
    BY <2>1 DEF AtWork
  <2>5. AtWork'
    <3>1. SUFFICES ASSUME NEW w \in Versions, setups'[w] > 0
                   PROVE  /\ w <= offer
                          /\ w = offer => running' < w /\ record.version = w
                                          /\ record.age < Cooldown
      BY <2>1, <2>3 DEF AtWork
    <3>2. w # v /\ setups[w] > 0
      BY <2>2, <2>3, <3>1
    <3>3. w <= offer /\ (w = offer => running < w /\ record.version = w
                                      /\ record.age < Cooldown)
      BY <3>2 DEF AtWork
    <3>4. w = offer => v < w
      BY <1>n, <2>4, <3>2
    <3>5. QED
      BY <2>1, <3>3, <3>4
  <2>6. CASE Idle
    BY <2>1, <2>5, <2>6, IdleSetups
  <2>7. CASE SetupFails(v) /\ UNCHANGED local
    <3>1. UNCHANGED <<pc, target, known, running>>
      BY <2>7 DEF local, SetupFails, disk
    <3>2. pc \in Applying => target \in Versions
      BY DEF Typed, Targeted
    <3>3. Heading' /\ JustRecorded' /\ SameAge'
      BY <2>1, <2>2, <3>1, <3>2 DEF Heading, JustRecorded, SameAge
    <3>4. QED
      BY <2>1, <2>5, <3>3
  <2>8. QED
    BY <1>1, <2>6, <2>7 DEF SetupLands, SetupFails
<1>2. CASE Crash
  <2>1. Idle /\ UNCHANGED <<running, record, setups, offer>>
    BY <1>2 DEF Crash, disk, world
  <2>2. QED
    BY <2>1, AtWorkKept, IdleSetups
<1>3. ASSUME NEW v \in Versions \cup {0}, Publish(v)
      PROVE  SetupInv'
  <2>1. /\ offer' = v /\ v # offer
        /\ UNCHANGED <<pc, known, target, running, record, setups>>
    BY <1>3 DEF Publish, local, disk
  <2>2. v \in Versions /\ v > offer
    BY <1>n, <2>1
  <2>3. \A w \in Versions : setups[w] > 0 => w < v
    BY <1>n, <2>2 DEF AtWork
  <2>4. AtWork'
    BY <1>n, <2>1, <2>3 DEF AtWork
  <2>5. setups[v] = 0
    BY <1>n, <2>2, <2>3
  <2>6. Heading' /\ JustRecorded' /\ SameAge'
    BY <1>n, <2>1, <2>2, <2>5 DEF Heading, JustRecorded, SameAge
  <2>7. QED
    BY <2>1, <2>2, <2>4, <2>6
<1>4. CASE Refresh
  <2>1. UNCHANGED <<pc, known, target, running, record, setups, offer>>
    BY <1>4 DEF Refresh, local, world
  <2>2. QED
    BY <2>1, AtWorkKept DEF Heading, JustRecorded, SameAge
<1>5. CASE Tick
  <2>1. /\ record' = Aged(record) /\ known' = Aged(known)
        /\ UNCHANGED <<pc, target, running, setups, offer>>
        /\ pc \notin {"retire", "launch"}
        /\ record.version # 0 /\ record.age < Cooldown
        /\ record.age + 1 < Cooldown \/ Quiet
    BY <1>5 DEF Tick, world
  <2>2. record'.version = record.version /\ record'.age = record.age + 1
    BY <1>n, <2>1 DEF Aged, Records
  <2>3. known'.version = known.version
    BY <1>n, <2>1, RecordTypes
  <2>4. known.version = record.version /\ known.age = record.age
        => known'.age = record'.age
    BY <1>n, <2>1, <2>2 DEF Aged, Records
  <2>5. SameAge'
    BY <2>1, <2>2, <2>3, <2>4 DEF SameAge
  <2>6. AtWork'
    BY <1>n, <2>1, <2>2 DEF AtWork, Quiet
  <2>7. QED
    BY <2>1, <2>5, <2>6 DEF Heading, JustRecorded
<1>6. QED
  BY <1>1, <1>2, <1>3, <1>4, <1>5 DEF World

\* No release is launched next to its own setup (the record is written before
\* the launch, and Decide waits for Cooldown), as long as the offered versions
\* only go up, state.json can be read and setups do not outlast Cooldown.
THEOREM OneSetupEach ==
  ASSUME "read" \notin Faults, "slow" \notin Faults
  PROVE  Spec /\ [][offer' >= offer]_vars => []OneSetupPerRelease
<1>1. Init => SetupInv
  BY DEF Init, SetupInv, Heading, JustRecorded, SameAge, AtWork, Applying
<1>2. Typed /\ SetupInv /\ [Next]_vars /\ [offer' >= offer]_vars => SetupInv'
  <2>1. SUFFICES ASSUME Typed, SetupInv, [Next]_vars, [offer' >= offer]_vars
                 PROVE  SetupInv'
    OBVIOUS
  <2>2. CASE UNCHANGED vars
    BY <2>1, <2>2 DEF vars, local, disk, world, SetupInv, Heading, JustRecorded, SameAge, AtWork
  <2>3. CASE Updater
    BY <2>1, <2>3, UpdaterSetups
  <2>4. CASE World /\ offer' >= offer
    BY <2>1, <2>4, WorldSetups
  <2>5. QED
    BY <2>1, <2>2, <2>3, <2>4 DEF Next
<1>3. SetupInv => OneSetupPerRelease
  BY DEF SetupInv, AtWork, OneSetupPerRelease
<1>4. QED
  BY <1>1, <1>2, <1>3, TypedInvariant, PTL DEF Spec
=============================================================================
