----------------------------- MODULE SelfUpdate -----------------------------
(***************************************************************************)
(* The updater updating itself: selfUpdate, reconcileSelfUpdate and        *)
(* applySelfUpdate of internal/service/selfupdate.go, the rules of         *)
(* internal/selfupdate, and retireCache and restoreCache of                *)
(* internal/service/remoteconfig.go.                                       *)
(*                                                                         *)
(* A launched setup is not waited for: it stops this service, and what it  *)
(* did is only known to the next start, from the record in state.json and  *)
(* from the version then running.  The poll goroutine is one step per call *)
(* that leaves the process; launched setups, the release server, time and  *)
(* crashes interleave with it.                                             *)
(***************************************************************************)
EXTENDS Integers, FiniteSets

CONSTANTS
  Versions,    \* versions of the updater, a set of positive numbers
  First,       \* the version that runs first
  Signed,      \* versions whose setup carries the embedded signature
  MaxAttempts, \* selfupdate.MaxAttempts
  Cooldown,    \* selfupdate.Cooldown, in ticks
  Faults,      \* subset of FaultKinds
  MaxFaults,   \* bound: faults in a behaviour
  MaxOffers    \* bound: further manifests published in a behaviour

\* What may go wrong: the service dies; state.json cannot be read, or written;
\* no server answers or a download fails; a file cannot be moved; the setup
\* does not start; a destructive command is pending; a setup outlasts Cooldown.
FaultKinds == {"crash", "read", "write", "net", "move", "launch", "hold", "slow"}

\* state.SelfUpdate; version 0 is the nil record.  age is the time since
\* LaunchedAt, in ticks, counted up to Cooldown.
Records == [version : Versions \cup {0}, attempts : Nat, gaveUp : BOOLEAN, age : Nat]
NoRecord == [version |-> 0, attempts |-> 0, gaveUp |-> FALSE, age |-> 0]

ASSUME SelfUpdateAssumption ==
  /\ Versions \subseteq Nat \ {0}
  /\ First \in Versions /\ Signed \subseteq Versions
  /\ MaxAttempts \in Nat \ {0} /\ Cooldown \in Nat \ {0}
  /\ Faults \subseteq FaultKinds
  /\ {MaxFaults, MaxOffers} \subseteq Nat

VARIABLES
  pc,       \* where the poll goroutine is in selfUpdate
  known,    \* rec: what reconcileSelfUpdate returned
  target,   \* m.Version: the release being applied, 0 when none is
  attempt,  \* decision.Attempt
  running,  \* version.Version of the installed and running binary
  record,   \* state.json: the selfUpdate record
  cached,   \* SelfDownloads: versions whose setup is in the cache
  live,     \* which build accepted the cached remote configuration, 0 when absent
  aside,    \* the same of the cache moved to cachePrevPath
  setups,   \* how many launched setups are at work, outside the process
  offer,    \* the version the updater manifest offers, 0 when none is
  offers,   \* manifests left to publish
  faults    \* faults left
\* History, read by the properties only:
VARIABLES
  launches, \* launches of the offered version since it was offered or landed
  before    \* what retireCache found in the cache

local == <<pc, known, target, attempt>>
disk == <<running, record, cached, live, aside>>
world == <<setups, offer, offers>>
history == <<launches, before>>
vars == <<local, disk, world, faults, history>>

PCs == {"idle", "resolve", "ensure", "verify", "claim", "record", "retire",
        "launch", "restore"}

TypeOK ==
  /\ pc \in PCs
  /\ known \in Records
  /\ target \in Versions \cup {0}
  /\ attempt \in Nat
  /\ running \in Versions
  /\ record \in Records
  /\ cached \subseteq Versions
  /\ live \in Versions \cup {0} /\ aside \in Versions \cup {0}
  /\ setups \in [Versions -> Nat]
  /\ offer \in Versions \cup {0}
  /\ offers \in Nat /\ faults \in Nat
  /\ launches \in Nat /\ before \in Versions \cup {0}
-----------------------------------------------------------------------------
Fault(kind) == kind \in Faults /\ faults > 0 /\ faults' = faults - 1
NoFault == UNCHANGED faults

\* SetSelfUpdate and ClearSelfUpdate: saved, or failed and unchanged.
Saved(r) ==
  \/ NoFault /\ record' = r
  \/ Fault("write") /\ UNCHANGED record

Idle == pc' = "idle" /\ known' = NoRecord /\ target' = 0 /\ attempt' = 0
-----------------------------------------------------------------------------
(* reconcileSelfUpdate and Reconcile.                                      *)

Reconcile(r) ==
  /\ pc = "idle" /\ pc' = "resolve"
  /\ known' = r
  /\ UNCHANGED <<target, attempt, running, live, aside, world, history>>

\* No record, or a state.json that could not be read and counts as empty.
NoHistory ==
  /\ Reconcile(NoRecord)
  /\ \/ record.version = 0 /\ NoFault
     \/ Fault("read")
  /\ UNCHANGED <<record, cached>>

\* The version launched, or a newer one, is running: the record is settled and
\* the setup removed, if it is not still in use.
Landed ==
  /\ record.version # 0 /\ ~(running < record.version)
  /\ Reconcile(NoRecord)
  /\ Saved(NoRecord)
  /\ cached' \in {{}, cached}

Missed ==
  /\ record.version # 0 /\ running < record.version
  /\ Reconcile(record)
  /\ NoFault
  /\ UNCHANGED <<record, cached>>
-----------------------------------------------------------------------------
(* The manifest, and Decide.                                               *)

ManifestFailed ==
  /\ pc = "resolve" /\ Fault("net")
  /\ Idle
  /\ UNCHANGED <<disk, world, history>>

\* Mutant of Exhausted: one attempt too many.
ExhaustedLate(r) == r.attempts > MaxAttempts

\* Mutant of CoolingDown: the cooldown is not observed.
NeverCooling(r) == FALSE

\* Mutant of Newer: whatever differs from the running version is a release.
NewerIfDifferent == running # offer

Newer == offer # 0 /\ running < offer
Tried == known.version = offer
Exhausted(r) == r.attempts >= MaxAttempts
CoolingDown(r) == r.age < Cooldown

\* Nothing is offered, nothing newer is, or the record says not now: the
\* release was given up, or its last launch is too recent.
NotNow ==
  /\ pc = "resolve"
  /\ \/ ~Newer
     \/ Tried /\ known.gaveUp
     \/ Tried /\ ~Exhausted(known) /\ CoolingDown(known)
  /\ NoFault
  /\ Idle
  /\ UNCHANGED <<disk, world, history>>

\* Mutant of GiveUp: the release is given up but that is not recorded.
GiveUpUnrecorded ==
  /\ pc = "resolve" /\ Newer /\ Tried /\ ~known.gaveUp /\ Exhausted(known)
  /\ NoFault
  /\ Idle
  /\ UNCHANGED <<disk, world, history>>

GiveUp ==
  /\ pc = "resolve" /\ Newer /\ Tried /\ ~known.gaveUp /\ Exhausted(known)
  /\ Saved([known EXCEPT !.gaveUp = TRUE])
  /\ Idle
  /\ UNCHANGED <<running, cached, live, aside, world, history>>

\* A release never tried, or one more attempt.
Install ==
  /\ pc = "resolve" /\ Newer
  /\ \/ ~Tried /\ attempt' = 1
     \/ /\ Tried /\ ~known.gaveUp /\ ~Exhausted(known) /\ ~CoolingDown(known)
        /\ attempt' = known.attempts + 1
  /\ NoFault
  /\ target' = offer
  /\ pc' = "ensure"
  /\ UNCHANGED <<known, disk, world, history>>
-----------------------------------------------------------------------------
(* applySelfUpdate.                                                        *)

Ensure ==
  /\ pc = "ensure"
  /\ \/ /\ NoFault
        /\ cached' = cached \cup {target}
        /\ pc' = "verify"
        /\ UNCHANGED <<known, target, attempt>>
     \/ /\ Fault("net") /\ target \notin cached
        /\ Idle
        /\ UNCHANGED cached
  /\ UNCHANGED <<running, record, live, aside, world, history>>

\* verifySelfSetup: a setup without the right signature is dropped.
Verify ==
  /\ pc = "verify"
  /\ NoFault
  /\ \/ /\ target \in Signed
        /\ pc' = "claim"
        /\ UNCHANGED <<known, target, attempt, cached>>
     \/ /\ target \notin Signed
        /\ cached' = cached \ {target}
        /\ Idle
  /\ UNCHANGED <<running, record, live, aside, world, history>>

\* beginInstall refuses while a destructive command is pending.
Claim ==
  /\ pc = "claim"
  /\ \/ NoFault /\ pc' = "record" /\ UNCHANGED <<known, target, attempt>>
     \/ Fault("hold") /\ Idle
  /\ UNCHANGED <<disk, world, history>>

\* Mutant of Record: the number of the attempt is not carried over.
RecordFirst ==
  /\ pc = "record"
  /\ \/ /\ NoFault
        /\ record' = [version |-> target, attempts |-> 1, gaveUp |-> FALSE, age |-> 0]
        /\ pc' = "retire"
        /\ UNCHANGED <<known, target, attempt>>
     \/ /\ Fault("write")
        /\ Idle
        /\ UNCHANGED record
  /\ UNCHANGED <<running, cached, live, aside, world, history>>

\* SetSelfUpdate before launching; without the record there is no launch.
Record ==
  /\ pc = "record"
  /\ \/ /\ NoFault
        /\ record' = [version |-> target, attempts |-> attempt, gaveUp |-> FALSE, age |-> 0]
        /\ pc' = "retire"
        /\ UNCHANGED <<known, target, attempt>>
     \/ /\ Fault("write")
        /\ Idle
        /\ UNCHANGED record
  /\ UNCHANGED <<running, cached, live, aside, world, history>>

\* retireCache: a cache that is missing or cannot be moved stops nothing.
Retire ==
  /\ pc = "retire" /\ pc' = "launch"
  /\ before' = live
  /\ \/ NoFault /\ live # 0 /\ aside' = live /\ live' = 0
     \/ NoFault /\ live = 0 /\ UNCHANGED <<live, aside>>
     \/ Fault("move") /\ UNCHANGED <<live, aside>>
  /\ UNCHANGED <<known, target, attempt, running, record, cached, world, launches>>

\* Launch: the setup is started and not waited for.
Launch ==
  /\ pc = "launch"
  /\ \/ /\ NoFault
        /\ setups' = [setups EXCEPT ![target] = @ + 1]
        /\ launches' = IF target = offer THEN launches + 1 ELSE launches
        /\ Idle
     \/ /\ Fault("launch")
        /\ pc' = "restore"
        /\ UNCHANGED <<known, target, attempt, setups, history>>
  /\ UNCHANGED <<disk, offer, offers, before>>

\* restoreCache: unless a newer cache is there, the one aside comes back.
Restore ==
  /\ pc = "restore"
  /\ \/ NoFault /\ live = 0 /\ aside # 0 /\ live' = aside /\ aside' = 0
     \/ NoFault /\ (live # 0 \/ aside = 0) /\ UNCHANGED <<live, aside>>
     \/ Fault("move") /\ UNCHANGED <<live, aside>>
  /\ Idle
  /\ UNCHANGED <<running, record, cached, world, history>>

Updater ==
  \/ NoHistory \/ Landed \/ Missed
  \/ ManifestFailed \/ NotNow \/ GiveUp \/ Install
  \/ Ensure \/ Verify \/ Claim \/ Record \/ Retire \/ Launch \/ Restore
-----------------------------------------------------------------------------
(* Everyone else.                                                          *)

\* A launched setup replaces the binary and starts the new one; or it fails,
\* before it stopped the service or after.
SetupLands(v) ==
  /\ setups[v] > 0 /\ setups' = [setups EXCEPT ![v] = @ - 1]
  /\ running' = v
  /\ launches' = IF v >= offer THEN 0 ELSE launches
  /\ Idle
  /\ UNCHANGED <<record, cached, live, aside, offer, offers, faults, before>>

SetupFails(v) ==
  /\ setups[v] > 0 /\ setups' = [setups EXCEPT ![v] = @ - 1]
  /\ Idle \/ UNCHANGED local
  /\ UNCHANGED <<disk, offer, offers, faults, history>>

Crash ==
  /\ Fault("crash") /\ pc # "idle"
  /\ Idle
  /\ UNCHANGED <<disk, world, history>>

Publish(v) ==
  /\ offers > 0 /\ offers' = offers - 1
  /\ v # offer /\ offer' = v
  /\ launches' = 0
  /\ UNCHANGED <<local, disk, setups, faults, before>>

\* refreshConfig, before a cycle: a document accepted or revalidated is written
\* to the cache.
Refresh ==
  /\ pc = "idle" /\ live # running
  /\ live' = running
  /\ UNCHANGED <<local, running, record, cached, aside, world, faults, history>>

\* No launched setup is at work.
Quiet == \A v \in Versions : setups[v] = 0

\* A record grows older, in state.json and in memory.
Aged(r) ==
  IF r.version # 0 /\ r.age < Cooldown THEN [r EXCEPT !.age = @ + 1] ELSE r

\* Time passes; without "slow" a setup starts as soon as it is recorded and is
\* through before Cooldown is.
Tick ==
  /\ record.version # 0 /\ record.age < Cooldown
  /\ \/ "slow" \in Faults
     \/ pc \notin {"retire", "launch"} /\ (record.age + 1 < Cooldown \/ Quiet)
  /\ record' = Aged(record)
  /\ known' = Aged(known)
  /\ UNCHANGED <<pc, target, attempt, running, cached, live, aside, world, faults, history>>

World ==
  \/ \E v \in Versions : SetupLands(v) \/ SetupFails(v)
  \/ Crash \/ Refresh \/ Tick
  \/ \E v \in Versions \cup {0} : Publish(v)
-----------------------------------------------------------------------------
Init ==
  /\ pc = "idle" /\ known = NoRecord /\ target = 0 /\ attempt = 0
  /\ running = First
  /\ record = NoRecord
  /\ cached = {} /\ live = 0 /\ aside = 0
  /\ setups = [v \in Versions |-> 0]
  /\ offer \in Versions
  /\ offers = MaxOffers /\ faults = MaxFaults
  /\ launches = 0 /\ before = 0

Next == Updater \/ World

Spec == Init /\ [][Next]_vars

\* The poll loop goes on, time passes, and a launched setup ends one way or
\* the other.
Fairness ==
  /\ WF_vars(Updater) /\ WF_vars(Tick)
  /\ \A v \in Versions : WF_vars(SetupLands(v) \/ SetupFails(v))

FairSpec == Spec /\ Fairness
-----------------------------------------------------------------------------
(* Properties.                                                             *)

\* MaxAttempts: a release that never lands stops the service at most that many
\* times while it stays the offered one, whatever dies between the decision,
\* the record, the launch and the restart, and whatever was offered before.
LaunchesBounded == launches <= MaxAttempts

\* Cooldown: a release is not launched again while its setup is at work, as
\* long as no other release is offered in between.
OneSetupPerRelease == \A v \in Versions : setups[v] <= 1

\* The same of any two releases: no setup races another.
OneSetupAtATime ==
  \A v, w \in Versions : setups[v] > 0 /\ setups[w] > 0 => v = w /\ setups[v] = 1

\* A release that stays offered lands, or is given up: no machine goes on
\* restarting its service, and none is left waiting for a cooldown.
Resolved ==
  \/ offer = 0 \/ running >= offer \/ offer \notin Signed
  \/ record.version = offer /\ record.gaveUp
LandsOrGivesUp == <>[]Resolved

\* restoreCache undoes retireCache: it gives a build that could not hand over
\* back what the cache held, or a document of its own, never the one an earlier
\* build left aside.
RestoresOwnCache == [][Restore => live' \in {0, before, running}]_vars

\* retireCache: a build that takes over finds no document an older one cached.
StartsFresh == [][\A v \in Versions : SetupLands(v) /\ v # running => live = 0]_vars
=============================================================================
