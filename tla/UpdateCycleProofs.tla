------------------------- MODULE UpdateCycleProofs -------------------------
(***************************************************************************)
(* Proofs about UpdateCycle, for every set of builds and versions, every   *)
(* number of faults and of published manifests.                            *)
(***************************************************************************)
EXTENDS UpdateCycle, TLAPS

Applying == {"apply", "warn", "kill", "wait", "install"}

\* Where retry is set, and where cur and target hold an entry.
Placed ==
  /\ pc \in Applying \cup {"idle", "poll", "wipe"} => ~retry
  /\ pc \in {"resolve", "uninstall"} => retry
  /\ retry \/ pc \in Applying \cup {"setup", "wipe", "finish"} => cur \in Entries
  /\ pc \in {"ensure", "persist"} => target \in Entries

\* The cached file of an entry is its build, or was spoiled under install's hands.
AtHand(e) ==
  \/ Verified(e)
  \/ cache[Version(e)] = Corrupt /\ Version(e) \in spoiled

\* What the cached file of the entry at hand is while install works on it: the
\* build the final gate or Ensure verified, unless spoiled since, or nothing.
FileAtHand ==
  /\ retry /\ pc = "persist" => AtHand(target)
  /\ ~retry /\ pc \in {"setup", "wipe"} => AtHand(cur)
  /\ retry /\ pc \in {"resolve", "ensure", "uninstall", "setup"}
       => cache[Version(cur)] = None \/ AtHand(cur)

CycleInv == TypeOK /\ Placed /\ FileAtHand
-----------------------------------------------------------------------------
(* The values the steps are built from.                                    *)

\* Entries and manifests have the fields their types say.
LEMMA FieldTypes ==
  /\ NoEntry \notin Entries
  /\ \A e \in Entries : e.build \in Builds /\ e.forced \in BOOLEAN /\ Version(e) \in Versions
  /\ \A e \in Entries : Version(e) \in Nat /\ Version(e) > 0
  /\ \A o \in Offers : o.build \in Builds /\ o.critical \in BOOLEAN /\ o.min \in Nat
  /\ \A x \in Builds, f \in BOOLEAN : [build |-> x, forced |-> f] \in Entries
  /\ \A v \in Versions : v \in Nat /\ v > 0
  /\ \A x \in Builds : VersionOf[x] \in Versions
  /\ Builds \subseteq Files /\ None \in Files /\ Corrupt \in Files
<1>1. \A e \in Entries : e.build \in Builds /\ e.forced \in BOOLEAN
  BY DEF Entries
<1>2. \A o \in Offers : o.build \in Builds /\ o.critical \in BOOLEAN /\ o.min \in Nat
  BY DEF Offers
<1>3. NoEntry \notin Entries
  BY CycleAssumption DEF Entries, NoEntry
<1>4. \A x \in Builds, f \in BOOLEAN : [build |-> x, forced |-> f] \in Entries
  BY DEF Entries
<1>5. \A x \in Builds : VersionOf[x] \in Versions /\ VersionOf[x] \in Nat /\ VersionOf[x] > 0
  BY CycleAssumption DEF Versions
<1>6. \A v \in Versions : v \in Nat /\ v > 0
  BY CycleAssumption DEF Versions
<1>7. QED
  BY <1>1, <1>2, <1>3, <1>4, <1>5, <1>6 DEF Version, Files

\* Removing files leaves a cache in which every file is the old one or none.
LEMMA CacheTypes ==
  ASSUME cache \in [Versions -> Files]
  PROVE  /\ \A k : Cleaned(k) \in [Versions -> Files]
         /\ \A k, v : v \in Versions => Cleaned(k)[v] \in {cache[v], None}
         /\ \A k : CleanedPartly(k) \subseteq [Versions -> Files]
         /\ \A k : \A x \in CleanedPartly(k) : \A v \in Versions : x[v] \in {cache[v], None}
         /\ \A k : Removed(k) \in [Versions -> Files]
         /\ \A k, v : v \in Versions => Removed(k)[v] \in {cache[v], None}
<1>1. None \in Files
  BY DEF Files
<1>2. QED
  BY <1>1 DEF Cleaned, CleanedPartly, Removed

\* The writes to state.json and to the cache.
LEMMA WriteTypes ==
  ASSUME TypeOK
  PROVE  /\ \A k : Fault(k) => faults' \in Nat
         /\ NoFault => faults' \in Nat
         /\ \A e \in Entries : SetPending(e)
              => pending' \in Entries \cup {NoEntry} /\ faults' \in Nat
         /\ \A k : ClearAndClean(k)
              => /\ pending' \in Entries \cup {NoEntry} /\ faults' \in Nat
                 /\ cache' \in [Versions -> Files]
                 /\ \A v \in Versions : cache'[v] \in {cache[v], None}
         /\ \A e : Discard(e)
              => /\ pending' \in Entries \cup {NoEntry} /\ faults' \in Nat
                 /\ cache' \in [Versions -> Files]
                 /\ \A v \in Versions : cache'[v] \in {cache[v], None}
<1>1. \A k : Fault(k) => faults' \in Nat
  BY DEF Fault, TypeOK
<1>2. NoFault => faults' \in Nat
  BY DEF NoFault, TypeOK
<1>3. ASSUME NEW e \in Entries, SetPending(e)
      PROVE  pending' \in Entries \cup {NoEntry} /\ faults' \in Nat
  BY <1>1, <1>2, <1>3 DEF SetPending, TypeOK
<1>4. ASSUME NEW k, ClearAndClean(k)
      PROVE  /\ pending' \in Entries \cup {NoEntry} /\ faults' \in Nat
             /\ cache' \in [Versions -> Files]
             /\ \A v \in Versions : cache'[v] \in {cache[v], None}
  BY <1>1, <1>2, <1>4, CacheTypes DEF ClearAndClean, TypeOK
<1>5. ASSUME NEW e, Discard(e)
      PROVE  /\ pending' \in Entries \cup {NoEntry} /\ faults' \in Nat
             /\ cache' \in [Versions -> Files]
             /\ \A v \in Versions : cache'[v] \in {cache[v], None}
  BY <1>1, <1>2, <1>5, CacheTypes DEF Discard, TypeOK
<1>6. QED
  BY <1>1, <1>2, <1>3, <1>4, <1>5
-----------------------------------------------------------------------------
(* The invariant.                                                          *)

\* The first state satisfies the inductive invariant.
LEMMA InitInv == Init => CycleInv
<1> SUFFICES ASSUME Init PROVE CycleInv
  OBVIOUS
<1>1. installed \in Nat
  BY FieldTypes DEF Init
<1>2. cache \in [Versions -> Files]
  BY FieldTypes DEF Init, Emptied
<1>3. emly \in BOOLEAN /\ retry \in BOOLEAN
  BY DEF Init
<1>4. QED
  BY <1>1, <1>2, <1>3, CycleAssumption
  DEF Init, CycleInv, TypeOK, Placed, FileAtHand, Applying, PCs

\* A cycle that ends leaves nothing to show of install's work.
LEMMA IdleInv ==
  ASSUME CycleInv, Idle, seen' \in Nat, pending' \in Entries \cup {NoEntry},
         cache' \in [Versions -> Files], installed' \in Nat, faults' \in Nat,
         UNCHANGED world
  PROVE  CycleInv'
<1>1. retry' \in BOOLEAN /\ ~retry' /\ pc' = "idle" /\ emly' \in BOOLEAN
  BY DEF Idle, world, CycleInv, TypeOK
<1>2. TypeOK'
  BY <1>1 DEF CycleInv, TypeOK, Idle, world, PCs
<1>3. QED
  BY <1>1, <1>2 DEF CycleInv, Placed, FileAtHand, Applying

\* The steps of Cycle.
LEMMA CycleSteps ==
  ASSUME CycleInv,
         \/ NothingPending \/ PendingSatisfied \/ PendingDiscarded \/ ResumePending
         \/ PollFailed \/ NothingNeeded \/ UpdateFound \/ Ensured \/ EnsureFailed \/ Persist
  PROVE  CycleInv'
<1> USE DEF CycleInv
<1>1. ASSUME StartCycle
      PROVE  /\ seen' \in Nat /\ target' \in Entries \cup {NoEntry} /\ retry' = retry /\ ~retry
             /\ retry' \in BOOLEAN /\ spoiled' \subseteq Versions
             /\ installed' \in Nat /\ emly' \in BOOLEAN /\ offer' \in Offers
             /\ hold' \in {"no", "paused", "destructive"} /\ offers' \in Nat
  BY <1>1 DEF StartCycle, TypeOK, Placed, Applying, world
<1>2. ASSUME StartCycle, pc' = "poll", cur' = cur, faults' \in Nat,
             pending' \in Entries \cup {NoEntry}, cache' \in [Versions -> Files]
      PROVE  CycleInv'
  BY <1>1, <1>2 DEF TypeOK, PCs, Placed, Applying, FileAtHand
<1>3. CASE NothingPending
  BY <1>2, <1>3, WriteTypes DEF NothingPending, TypeOK
<1>4. CASE PendingSatisfied
  BY <1>2, <1>4, WriteTypes DEF PendingSatisfied
<1>5. CASE PendingDiscarded
  BY <1>2, <1>5, WriteTypes DEF PendingDiscarded
<1>6. CASE ResumePending
  <2>1. cur' \in Entries /\ cache' \in [Versions -> Files] /\ pending' \in Entries \cup {NoEntry}
    BY <1>6 DEF ResumePending, TypeOK
  <2>2. StartCycle /\ pc' = "apply" /\ faults' \in Nat
    BY <1>6, WriteTypes DEF ResumePending
  <2>3. QED
    BY <2>1, <2>2, <1>1 DEF TypeOK, PCs, Placed, Applying, FileAtHand
<1>7. CASE PollFailed
  BY <1>7, IdleInv, WriteTypes DEF PollFailed, disk, TypeOK
<1>8. CASE NothingNeeded
  BY <1>8, IdleInv, WriteTypes, CacheTypes DEF NothingNeeded, TypeOK
<1>9. CASE UpdateFound
  <2>1. Forced(seen) \in BOOLEAN
    BY FieldTypes DEF Forced, Less, TypeOK
  <2>2. target' \in Entries
    BY <1>9, <2>1, FieldTypes DEF UpdateFound, TypeOK
  <2>3. ~retry /\ retry' = retry /\ pc' = "ensure"
    BY <1>9 DEF UpdateFound, Placed, Applying
  <2>4. TypeOK'
    <3>1. retry' \in BOOLEAN /\ emly' \in BOOLEAN
      BY <1>9 DEF UpdateFound, TypeOK, world
    <3>2. QED
      BY <1>9, <2>2, <3>1, WriteTypes DEF UpdateFound, TypeOK, PCs, disk, world
  <2>5. QED
    BY <2>2, <2>3, <2>4 DEF Placed, Applying, FileAtHand
<1>10. CASE Ensured
  <2>1. target \in Entries /\ target' = target /\ cur' = cur /\ retry' = retry /\ pc' = "persist"
    BY <1>10 DEF Ensured, Placed
  <2>2. cache' \in [Versions -> Files] /\ cache'[Version(target)] = target.build
    BY <1>10, <2>1, FieldTypes DEF Ensured, TypeOK
  <2>3. TypeOK'
    <3>1. retry' \in BOOLEAN /\ emly' \in BOOLEAN
      BY <1>10 DEF Ensured, TypeOK, world
    <3>2. QED
      BY <1>10, <2>1, <2>2, <3>1, WriteTypes DEF Ensured, TypeOK, PCs, world
  <2>4. QED
    BY <1>10, <2>1, <2>2, <2>3 DEF Placed, Applying, FileAtHand, AtHand, Verified, Version
<1>11. CASE EnsureFailed
  <2>1. faults' \in Nat /\ seen' \in Nat /\ pending' \in Entries \cup {NoEntry} /\ installed' \in Nat
    BY <1>11, WriteTypes DEF EnsureFailed, TypeOK
  <2>2. /\ cache' \in [Versions -> Files]
        /\ \A v \in Versions : cache'[v] \in {cache[v], None}
    BY <1>11, CacheTypes DEF EnsureFailed, TypeOK
  <2>3. CASE ~retry
    BY <1>11, <2>1, <2>2, <2>3, IdleInv DEF EnsureFailed
  <2>4. CASE retry
    <3>1. pc' = "uninstall" /\ target' = NoEntry /\ UNCHANGED <<cur, retry, spoiled>>
      BY <1>11, <2>4 DEF EnsureFailed
    <3>2. cur \in Entries /\ (cache[Version(cur)] = None \/ AtHand(cur))
      BY <1>11, <2>4 DEF EnsureFailed, Placed, FileAtHand
    <3>3. cache'[Version(cur)] = None \/ (cache'[Version(cur)] = cache[Version(cur)] /\ AtHand(cur))
      BY <2>2, <3>2, FieldTypes
    <3>4. TypeOK'
      <4>1. retry' \in BOOLEAN /\ emly' \in BOOLEAN
        BY <1>11, <3>1 DEF EnsureFailed, TypeOK, world
      <4>2. QED
        BY <1>11, <2>1, <2>2, <3>1, <4>1 DEF EnsureFailed, TypeOK, PCs, world
    <3>5. QED
      BY <2>4, <3>1, <3>2, <3>3, <3>4 DEF Placed, Applying, FileAtHand, AtHand, Verified, Version
  <2>5. QED
    BY <2>3, <2>4 DEF TypeOK
<1>12. CASE Persist
  <2>1. target \in Entries /\ cur' = target /\ target' = NoEntry /\ retry' = retry /\ cache' = cache
    BY <1>12 DEF Persist, Placed
  <2>2. pending' \in Entries \cup {NoEntry} /\ faults' \in Nat
    BY <1>12, <2>1, WriteTypes DEF Persist
  <2>3. pc' = IF retry THEN "uninstall" ELSE "apply"
    BY <1>12 DEF Persist
  <2>4. spoiled' = spoiled /\ (retry => AtHand(target))
    BY <1>12 DEF Persist, FileAtHand
  <2>5. TypeOK'
    <3>1. retry' \in BOOLEAN /\ emly' \in BOOLEAN
      BY <1>12 DEF Persist, TypeOK, world
    <3>2. QED
      BY <1>12, <2>1, <2>2, <2>3, <3>1 DEF Persist, TypeOK, PCs, world
  <2>6. QED
    BY <2>1, <2>3, <2>4, <2>5 DEF Placed, Applying, FileAtHand, AtHand, Verified, Version, TypeOK
<1>13. QED
  BY <1>3, <1>4, <1>5, <1>6, <1>7, <1>8, <1>9, <1>10, <1>11, <1>12

\* A step that only moves on, keeping everything the invariant speaks of.
LEMMA MoveInv ==
  ASSUME CycleInv, pc \in Applying, pc' \in Applying, faults' \in Nat, emly' \in BOOLEAN,
         UNCHANGED <<seen, target, cur, retry, spoiled, disk, offer, hold, offers>>
  PROVE  CycleInv'
<1>1. TypeOK'
  <2>1. retry' \in BOOLEAN /\ spoiled' \subseteq Versions
    BY DEF CycleInv, TypeOK
  <2>2. QED
    BY <2>1 DEF CycleInv, TypeOK, PCs, disk, Applying
<1>2. QED
  BY <1>1 DEF CycleInv, Placed, FileAtHand, Applying

\* The steps of apply.
LEMMA ApplySteps ==
  ASSUME CycleInv, HeldBack \/ Apply \/ Warned \/ Kill \/ Exited \/ WaitFailed
  PROVE  CycleInv'
<1>0. TypeOK
  BY DEF CycleInv
<1>1. CASE HeldBack
  BY <1>0, <1>1, IdleInv, WriteTypes DEF HeldBack, disk, TypeOK
<1>2. CASE Apply
  <2>1. pc \in Applying /\ pc' \in Applying
    BY <1>2 DEF Apply, Applying
  <2>2. QED
    BY <1>0, <1>2, <2>1, MoveInv, WriteTypes DEF Apply, world, TypeOK
<1>3. CASE Warned
  <2>1. pc \in Applying /\ pc' \in Applying
    BY <1>3 DEF Warned, Applying
  <2>2. QED
    BY <1>0, <1>3, <2>1, MoveInv, WriteTypes DEF Warned, world, TypeOK
<1>4. CASE Kill
  <2>1. pc \in Applying /\ pc' \in Applying
    BY <1>4 DEF Kill, Applying
  <2>2. emly' \in BOOLEAN
    BY <1>0, <1>4 DEF Kill, TypeOK
  <2>3. QED
    BY <1>0, <1>4, <2>1, <2>2, MoveInv, WriteTypes DEF Kill
<1>5. CASE Exited
  <2>1. pc \in Applying /\ pc' \in Applying
    BY <1>5 DEF Exited, Applying
  <2>2. QED
    BY <1>0, <1>5, <2>1, MoveInv, WriteTypes DEF Exited, world, TypeOK
<1>6. CASE WaitFailed
  BY <1>0, <1>6, IdleInv, WriteTypes DEF WaitFailed, disk, TypeOK
<1>7. QED
  BY <1>1, <1>2, <1>3, <1>4, <1>5, <1>6

\* What a setup leaves in config.ini.
LEMMA SetupTypes ==
  ASSUME TypeOK, NEW ok, RunSetup(ok)
  PROVE  pc = "setup" /\ installed' \in Nat /\ faults' \in Nat
<1>1. ASSUME cache[Version(cur)] \in Builds
      PROVE  VersionOf[cache[Version(cur)]] \in Nat
  BY <1>1, FieldTypes
<1>2. QED
  BY <1>1, WriteTypes DEF RunSetup, TypeOK

\* The steps of install.
LEMMA InstallSteps ==
  ASSUME CycleInv,
         \/ GatePassed \/ GateRefused \/ SetupDone \/ SetupFailed \/ ReinstallFailed
         \/ Wipe \/ ResolveAgain \/ Uninstall \/ Finish
  PROVE  CycleInv'
<1> USE DEF CycleInv
<1>1. CASE GatePassed
  <2>1. ~retry /\ retry' = retry /\ cur \in Entries /\ cur' = cur /\ cache' = cache /\ pc' = "setup"
    BY <1>1 DEF GatePassed, disk, Placed, Applying
  <2>2. Verified(cur)
    BY <1>1 DEF GatePassed
  <2>3. TypeOK'
    <3>1. retry' \in BOOLEAN /\ emly' \in BOOLEAN
      BY <1>1 DEF GatePassed, TypeOK, world
    <3>2. QED
      BY <1>1, <3>1, WriteTypes DEF GatePassed, TypeOK, PCs, disk, world
  <2>4. QED
    BY <2>1, <2>2, <2>3 DEF Placed, Applying, FileAtHand, AtHand, Verified, Version
<1>2. CASE GateRefused
  BY <1>2, IdleInv, WriteTypes DEF GateRefused, TypeOK
<1>3. CASE SetupDone
  <2>1. cur \in Entries /\ cur' = cur /\ retry' = retry /\ pc' = "finish"
    BY <1>3, SetupTypes DEF SetupDone, Placed
  <2>2. TypeOK'
    <3>1. retry' \in BOOLEAN /\ emly' \in BOOLEAN
      BY <1>3 DEF SetupDone, TypeOK, world
    <3>2. QED
      BY <1>3, <3>1, SetupTypes DEF SetupDone, TypeOK, PCs, world
  <2>3. QED
    BY <2>1, <2>2 DEF Placed, Applying, FileAtHand
<1>4. CASE SetupFailed
  <2>1. pc = "setup" /\ ~retry
    BY <1>4, SetupTypes DEF SetupFailed
  <2>2. cur \in Entries /\ cur' = cur /\ retry' = retry /\ pc' = "wipe" /\ cache' = cache
    BY <1>4, <2>1 DEF SetupFailed, Placed
  <2>3. AtHand(cur) /\ spoiled' = spoiled
    BY <1>4, <2>1 DEF FileAtHand, SetupFailed
  <2>4. TypeOK'
    <3>1. retry' \in BOOLEAN /\ emly' \in BOOLEAN
      BY <1>4 DEF SetupFailed, TypeOK, world
    <3>2. QED
      BY <1>4, <3>1, SetupTypes DEF SetupFailed, TypeOK, PCs, world
  <2>5. QED
    BY <2>1, <2>2, <2>3, <2>4 DEF Placed, Applying, FileAtHand, AtHand, Verified, Version
<1>5. CASE ReinstallFailed
  BY <1>5, IdleInv, SetupTypes DEF ReinstallFailed, TypeOK
<1>6. CASE Wipe
  <2>1. cur \in Entries /\ AtHand(cur)
    BY <1>6 DEF Wipe, Placed, Applying, FileAtHand
  <2>2. cur' = cur /\ target' = target /\ retry' = TRUE /\ pc' = "resolve" /\ spoiled' = spoiled
    BY <1>6 DEF Wipe
  <2>3. /\ pending' \in Entries \cup {NoEntry} /\ faults' \in Nat
        /\ cache' \in [Versions -> Files]
        /\ \A v \in Versions : cache'[v] \in {cache[v], None}
    BY <1>6, WriteTypes DEF Wipe
  <2>4. cache'[Version(cur)] \in {cache[Version(cur)], None}
    BY <2>1, <2>3, FieldTypes
  <2>5. TypeOK'
    <3>1. retry' \in BOOLEAN /\ emly' \in BOOLEAN
      BY <1>6 DEF Wipe, TypeOK, world
    <3>2. QED
      BY <1>6, <2>3, <3>1 DEF Wipe, TypeOK, PCs, world
  <2>6. QED
    BY <2>1, <2>2, <2>4, <2>5 DEF Placed, Applying, FileAtHand, AtHand, Verified, Version
<1>7. CASE ResolveAgain
  <2>1. cur \in Entries /\ retry /\ (cache[Version(cur)] = None \/ AtHand(cur))
    BY <1>7 DEF ResolveAgain, Placed, FileAtHand
  <2>2. cur' = cur /\ retry' = retry /\ cache' = cache /\ spoiled' = spoiled
    BY <1>7 DEF ResolveAgain, disk
  <2>3. \/ pc' = "ensure" /\ target' \in Entries
        \/ pc' = "uninstall" /\ target' = target
    BY <1>7, <2>1, FieldTypes DEF ResolveAgain, TypeOK
  <2>4. TypeOK'
    <3>1. retry' \in BOOLEAN /\ emly' \in BOOLEAN
      BY <1>7 DEF ResolveAgain, TypeOK, world
    <3>2. faults' \in Nat
      BY <1>7, WriteTypes DEF ResolveAgain
    <3>3. pc' \in PCs /\ target' \in Entries \cup {NoEntry}
      BY <2>3 DEF TypeOK, PCs
    <3>4. QED
      BY <1>7, <3>1, <3>2, <3>3 DEF ResolveAgain, TypeOK, disk, world
  <2>5. QED
    BY <2>1, <2>2, <2>3, <2>4 DEF Placed, Applying, FileAtHand, AtHand, Verified, Version
<1>8. CASE Uninstall
  <2>1. cur \in Entries /\ retry /\ (cache[Version(cur)] = None \/ AtHand(cur))
    BY <1>8 DEF Uninstall, Placed, FileAtHand
  <2>2. cur' = cur /\ retry' = retry /\ cache' = cache /\ pc' = "setup" /\ spoiled' = spoiled
    BY <1>8 DEF Uninstall
  <2>3. TypeOK'
    <3>1. retry' \in BOOLEAN /\ emly' \in BOOLEAN
      BY <1>8 DEF Uninstall, TypeOK, world
    <3>2. installed' \in Nat /\ faults' \in Nat
      BY <1>8, WriteTypes DEF Uninstall, TypeOK
    <3>3. QED
      BY <1>8, <3>1, <3>2 DEF Uninstall, TypeOK, PCs, world
  <2>4. QED
    BY <2>1, <2>2, <2>3 DEF Placed, Applying, FileAtHand, AtHand, Verified, Version
<1>9. CASE Finish
  BY <1>9, IdleInv, WriteTypes DEF Finish, TypeOK
<1>10. QED
  BY <1>1, <1>2, <1>3, <1>4, <1>5, <1>6, <1>7, <1>8, <1>9

\* The steps of the world: they leave the poll goroutine where it is, and what
\* they do to the file install works on is remembered.
LEMMA WorldSteps ==
  ASSUME CycleInv, World
  PROVE  CycleInv'
<1> USE DEF CycleInv
<1>1. CASE Crash
  <2>1. installed' \in Nat
    BY <1>1, FieldTypes DEF Crash, TypeOK
  <2>2. QED
    BY <1>1, <2>1, IdleInv, WriteTypes DEF Crash, TypeOK
<1>2. ASSUME UNCHANGED <<pc, seen, target, cur, retry>>, pending' = pending, installed' \in Nat, emly' \in BOOLEAN,
             offer' \in Offers, hold' \in {"no", "paused", "destructive"},
             faults' \in Nat, offers' \in Nat,
             cache' \in [Versions -> Files], spoiled' \subseteq Versions,
             FileAtHand'
      PROVE  CycleInv'
  <2>1. TypeOK'
    <3>1. retry' \in BOOLEAN
      BY <1>2 DEF TypeOK
    <3>2. QED
      BY <1>2, <3>1 DEF TypeOK
  <2>2. Placed'
    BY <1>2 DEF Placed
  <2>3. QED
    BY <1>2, <2>1, <2>2
<1>2a. ASSUME UNCHANGED <<local, cache>> PROVE FileAtHand' /\ spoiled' \subseteq Versions
  BY <1>2a DEF local, FileAtHand, AtHand, Verified, Version, TypeOK
<1>3. CASE Publish
  <2>1. offer' \in Offers
    <3>1. PICK x \in Builds, critical \in BOOLEAN, min \in Versions \cup {0} :
            offer' = [build |-> x, critical |-> critical, min |-> min]
      BY <1>3 DEF Publish
    <3>2. QED
      BY <3>1, FieldTypes DEF Offers
  <2>2. QED
    BY <1>3, <2>1, <1>2, <1>2a DEF Publish, disk, local, TypeOK
<1>4. CASE OpenEMLy
  BY <1>4, <1>2, <1>2a DEF OpenEMLy, disk, local, TypeOK
<1>5. CASE CloseEMLy
  BY <1>5, <1>2, <1>2a DEF CloseEMLy, disk, local, TypeOK
<1>6. CASE Unhold
  BY <1>6, <1>2, <1>2a DEF Unhold, disk, local, TypeOK
<1>7. ASSUME NEW v \in Versions, Damage(v) PROVE CycleInv'
  <2>1. cache' \in [Versions -> Files]
    BY <1>7, FieldTypes DEF Damage, TypeOK
  <2>2. spoiled' \subseteq Versions /\ UNCHANGED <<pc, seen, target, cur, retry>>
    BY <1>7 DEF Damage, TypeOK
  <2>3. /\ cache'[v] = Corrupt
        /\ \A w \in Versions : w # v => cache'[w] = cache[w]
        /\ \A w \in Versions : w \in spoiled => w \in spoiled'
        /\ InInstall => v \in spoiled'
    BY <1>7 DEF Damage, TypeOK
  <2>4. ASSUME NEW e \in Entries, InInstall
        PROVE  /\ AtHand(e)
                    => \/ cache'[Version(e)] = e.build
                       \/ cache'[Version(e)] = Corrupt /\ Version(e) \in spoiled'
               /\ cache[Version(e)] = None => cache'[Version(e)] = None
    <3>1. Version(e) \in Versions
      BY FieldTypes
    <3>2. CASE Version(e) = v
      <4>1. cache[Version(e)] # None
        BY <1>7, <3>2, CycleAssumption DEF Damage
      <4>2. cache'[Version(e)] = Corrupt /\ Version(e) \in spoiled'
        BY <2>3, <2>4, <3>2
      <4>3. QED
        BY <4>1, <4>2
    <3>3. CASE Version(e) # v
      <4>1. cache'[Version(e)] = cache[Version(e)]
        BY <2>3, <3>1, <3>3
      <4>2. Version(e) \in spoiled => Version(e) \in spoiled'
        BY <2>3, <3>1
      <4>3. QED
        BY <4>1, <4>2 DEF AtHand, Verified
    <3>4. QED
      BY <3>2, <3>3
  <2>5. FileAtHand'
    BY <2>2, <2>4 DEF FileAtHand, AtHand, Verified, Version, InInstall, Placed, Applying
  <2>6. QED
    BY <1>7, <2>1, <2>2, <2>5, <1>2, WriteTypes DEF Damage, world, TypeOK
<1>8. ASSUME NEW v \in Versions, OutsideInstall(v) PROVE CycleInv'
  BY <1>8, <1>2, <1>2a, FieldTypes, WriteTypes DEF OutsideInstall, world, local, TypeOK
<1>9. ASSUME NEW why \in {"paused", "destructive"}, Hold(why) PROVE CycleInv'
  BY <1>9, <1>2, <1>2a, WriteTypes DEF Hold, disk, local, TypeOK
<1>10. QED
  BY <1>1, <1>3, <1>4, <1>5, <1>6, <1>7, <1>8, <1>9 DEF World

\* Every step keeps the inductive invariant.
LEMMA StepInv == CycleInv /\ [Next]_vars => CycleInv'
<1>1. ASSUME CycleInv, Updater PROVE CycleInv'
  BY <1>1, CycleSteps, ApplySteps, InstallSteps DEF Updater
<1>2. ASSUME CycleInv, UNCHANGED vars PROVE CycleInv'
  BY <1>2 DEF CycleInv, TypeOK, Placed, FileAtHand, AtHand, Verified, Version,
              vars, local, disk, world
<1>3. QED
  BY <1>1, <1>2, WorldSteps DEF Next

\* CycleInv holds in every reachable state.
THEOREM CycleInvariant == Spec => []CycleInv
BY InitInv, StepInv, PTL DEF Spec

\* Every variable of the update cycle keeps its type.
THEOREM CycleTypeCorrect == Spec => []TypeOK
<1>1. CycleInv => TypeOK
  BY DEF CycleInv
<1>2. QED
  BY <1>1, CycleInvariant, PTL

\* installer.Run is only ever given a file whose checksum is the one of the
\* entry it is run for, both times install calls it, unless the file was damaged
\* between the last check and the run.
THEOREM SetupsVerified == Spec => []OnlyVerifiedRun
<1>1. CycleInv => OnlyVerifiedRun
  BY DEF CycleInv, TypeOK, FileAtHand, AtHand, Verified, OnlyVerifiedRun
<1>2. QED
  BY <1>1, CycleInvariant, PTL
-----------------------------------------------------------------------------
(* The first attempt of install.                                           *)

FirstTry == pc \in Applying \cup {"setup"} /\ ~retry

\* The version read when the cycle started is still the installed one, and the
\* entry at hand is newer, until the first setup runs.
Upward ==
  /\ pc = "poll" => seen = installed
  /\ pc \in {"ensure", "persist"} /\ ~retry => installed < Version(target)
  /\ FirstTry => installed < Version(cur)

\* The entry at hand is the persisted one until the first setup has run.
Queued == FirstTry => pending = cur

\* The steps that end the first attempt, or come after it.
Later ==
  \/ PollFailed \/ NothingNeeded \/ EnsureFailed \/ HeldBack \/ WaitFailed \/ GateRefused
  \/ SetupDone \/ SetupFailed \/ ReinstallFailed \/ Wipe \/ ResolveAgain \/ Uninstall
  \/ Finish \/ Crash

\* The steps of a first attempt from apply to the setup.
Onward == Apply \/ Warned \/ Kill \/ Exited \/ GatePassed

\* A step that ends or repeats an attempt leaves no first attempt under way.
LEMMA LaterSteps ==
  ASSUME CycleInv, Later
  PROVE  /\ pc' # "poll" /\ ~FirstTry'
         /\ pc' \in {"ensure", "persist"} => retry'
<1> USE DEF FirstTry, Applying
<1>1. ASSUME Idle PROVE pc' = "idle" /\ ~retry'
  BY <1>1 DEF Idle
<1>2. CASE EnsureFailed
  BY <1>1, <1>2 DEF EnsureFailed
<1>3. CASE SetupDone \/ SetupFailed \/ Wipe
  BY <1>3 DEF SetupDone, SetupFailed, Wipe
<1>4. CASE ResolveAgain \/ Uninstall
  BY <1>4 DEF ResolveAgain, Uninstall, CycleInv, Placed
<1>5. CASE PollFailed \/ NothingNeeded \/ HeldBack \/ WaitFailed \/ GateRefused
           \/ ReinstallFailed \/ Finish \/ Crash
  BY <1>1, <1>5 DEF PollFailed, NothingNeeded, HeldBack, WaitFailed, GateRefused,
                    ReinstallFailed, Finish, Crash
<1>6. QED
  BY <1>2, <1>3, <1>4, <1>5 DEF Later

\* A first attempt on its way from apply to the setup keeps its entry.
LEMMA OnwardSteps ==
  ASSUME CycleInv, Onward
  PROVE  /\ FirstTry /\ pc' \in Applying \cup {"setup"}
         /\ UNCHANGED <<cur, retry, pending, installed>>
<1>1. pc \in Applying /\ pc' \in Applying \cup {"setup"} /\ UNCHANGED <<cur, retry, disk>>
  BY DEF Onward, Apply, Warned, Kill, Exited, GatePassed, Applying
<1>2. QED
  BY <1>1 DEF CycleInv, Placed, FirstTry, disk

\* What happens around a living updater leaves its entries alone.
LEMMA WorldFrame ==
  ASSUME World, ~Crash
  PROVE  /\ UNCHANGED <<pc, seen, target, cur, retry, pending>>
         /\ "outside" \notin Faults => installed' = installed
BY DEF local, World, Publish, OpenEMLy, CloseEMLy, Unhold, Damage, OutsideInstall, Hold, Fault, disk

\* Every step keeps Upward: nothing else lowers or raises the installed version.
LEMMA UpwardStep ==
  ASSUME "outside" \notin Faults, CycleInv, Upward, [Next]_vars
  PROVE  Upward'
<1>1. CASE Later
  BY <1>1, LaterSteps DEF Upward
<1>2. CASE Onward
  BY <1>2, OnwardSteps DEF Upward, FirstTry, Applying, Version
<1>3. CASE NothingPending \/ PendingSatisfied \/ PendingDiscarded
  <2>1. pc' = "poll" /\ seen' = installed /\ installed' = installed
    BY <1>3 DEF NothingPending, PendingSatisfied, PendingDiscarded, StartCycle
  <2>2. QED
    BY <2>1 DEF Upward, FirstTry, Applying
<1>4. CASE ResumePending
  BY <1>4 DEF ResumePending, StartCycle, Less, Upward, FirstTry, Applying, Version
<1>5. CASE UpdateFound
  <2>1. pc = "poll" /\ seen < VersionOf[offer.build] /\ installed' = installed
    BY <1>5 DEF UpdateFound, Needed, Less, disk
  <2>2. pc' = "ensure" /\ Version(target)' = VersionOf[offer.build]
    BY <1>5 DEF UpdateFound, Version
  <2>3. QED
    BY <2>1, <2>2 DEF Upward, FirstTry, Applying
<1>6. CASE Ensured
  BY <1>6 DEF Ensured, Upward, FirstTry, Applying, Version
<1>7. CASE Persist
  BY <1>7 DEF Persist, Upward, FirstTry, Applying, Version
<1>8. CASE World /\ ~Crash
  BY <1>8, WorldFrame DEF Upward, FirstTry, Version
<1>9. CASE UNCHANGED vars
  BY <1>9 DEF vars, local, disk, Upward, FirstTry, Version
<1>10. QED
  BY <1>1, <1>2, <1>3, <1>4, <1>5, <1>6, <1>7, <1>8, <1>9
  DEF Next, Updater, Later, Onward, World

\* Every step keeps Queued, as long as state.json can be written.
LEMMA QueuedStep ==
  ASSUME "io" \notin Faults, CycleInv, Queued, [Next]_vars
  PROVE  Queued'
<1>1. CASE Later
  BY <1>1, LaterSteps DEF Queued
<1>2. CASE Onward
  BY <1>2, OnwardSteps DEF Queued, FirstTry
<1>3. CASE NothingPending \/ PendingSatisfied \/ PendingDiscarded \/ UpdateFound \/ Ensured
  BY <1>3 DEF NothingPending, PendingSatisfied, PendingDiscarded, UpdateFound, Ensured,
              Queued, FirstTry, Applying
<1>4. CASE ResumePending
  BY <1>4 DEF ResumePending, Queued
<1>5. CASE Persist
  BY <1>5 DEF Persist, SetPending, Fault, Queued
<1>6. CASE World /\ ~Crash
  BY <1>6, WorldFrame DEF Queued, FirstTry
<1>7. CASE UNCHANGED vars
  BY <1>7 DEF vars, local, disk, Queued, FirstTry
<1>8. QED
  BY <1>1, <1>2, <1>3, <1>4, <1>5, <1>6, <1>7 DEF Next, Updater, Later, Onward, World

\* The installed version goes down in one step only inside a clean reinstall,
\* or to nothing.
LEMMA DownwardStep ==
  ASSUME "outside" \notin Faults, CycleInv, Upward, [Next]_vars,
         installed' # 0, installed' < installed
  PROVE  retry
<1> SUFFICES ASSUME ~retry PROVE FALSE
  BY DEF CycleInv, TypeOK
<1>0. installed \in Nat
  BY DEF CycleInv, TypeOK
<1>1. installed' # installed
  BY <1>0
<1>2. ASSUME pc = "setup", cache[Version(cur)] \in Builds,
             installed' = VersionOf[cache[Version(cur)]]
      PROVE  FALSE
  <2>1. cache[Version(cur)] = cur.build /\ installed < Version(cur)
    BY <1>2, CycleAssumption DEF CycleInv, FileAtHand, AtHand, Verified, Upward, FirstTry
  <2>2. Version(cur) \in Nat
    BY <1>2, FieldTypes DEF CycleInv, Placed
  <2>3. QED
    BY <1>0, <1>2, <2>1, <2>2 DEF Version
<1>3. ASSUME NEW ok, RunSetup(ok) PROVE FALSE
  BY <1>1, <1>2, <1>3 DEF RunSetup
<1>4. CASE SetupDone \/ SetupFailed \/ ReinstallFailed
  BY <1>3, <1>4 DEF SetupDone, SetupFailed, ReinstallFailed
<1>5. CASE Crash
  BY <1>1, <1>2, <1>5 DEF Crash
<1>6. CASE Uninstall
  BY <1>1, <1>6 DEF Uninstall
<1>7. CASE World /\ ~Crash
  BY <1>1, <1>7, WorldFrame
<1>8. CASE Onward
  BY <1>1, <1>8, OnwardSteps
<1>9. CASE \/ NothingPending \/ PendingSatisfied \/ PendingDiscarded \/ ResumePending
           \/ PollFailed \/ NothingNeeded \/ UpdateFound \/ Ensured \/ EnsureFailed \/ Persist
  BY <1>1, <1>9 DEF NothingPending, PendingSatisfied, PendingDiscarded, ResumePending, StartCycle,
                    PollFailed, NothingNeeded, UpdateFound, Ensured, EnsureFailed, Persist, disk
<1>10. CASE HeldBack \/ WaitFailed \/ GateRefused \/ Wipe \/ ResolveAgain \/ Finish
  BY <1>1, <1>10 DEF HeldBack, WaitFailed, GateRefused, Wipe, ResolveAgain, Finish, disk
<1>11. CASE UNCHANGED vars
  BY <1>1, <1>11 DEF vars, disk
<1>12. QED
  BY <1>4, <1>5, <1>6, <1>7, <1>8, <1>9, <1>10, <1>11 DEF Next, Updater, Onward

\* A first attempt never replaces EMLy by an older version: what Cycle compared
\* still holds when the setup runs, however long EMLy kept it waiting.
THEOREM FirstAttemptsGoUp ==
  ASSUME "outside" \notin Faults
  PROVE  Spec => NoPlainDowngrade
<1>1. Init => Upward
  BY DEF Init, Upward, FirstTry, Applying
<1>2. CycleInv /\ Upward /\ [Next]_vars => Upward'
  BY UpwardStep
<1>3. CycleInv /\ Upward /\ [Next]_vars
        => [installed' # 0 /\ installed' < installed => retry]_vars
  BY DownwardStep
<1>4. QED
  BY <1>1, <1>2, <1>3, CycleInvariant, PTL DEF Spec, NoPlainDowngrade

\* While state.json can be written, the entry being applied is the persisted
\* one at every moment until its first setup has run: a crash resumes it.
THEOREM CrashesResume ==
  ASSUME "io" \notin Faults
  PROVE  Spec => []Resumable
<1>1. Init => Queued
  BY DEF Init, Queued, FirstTry, Applying
<1>2. CycleInv /\ Queued /\ [Next]_vars => Queued'
  BY QueuedStep
<1>3. Queued => Resumable
  BY DEF Queued, FirstTry, Applying, Resumable
<1>4. QED
  BY <1>1, <1>2, <1>3, CycleInvariant, PTL DEF Spec
=============================================================================
