---------------------------- MODULE UpdateCycle ----------------------------
(***************************************************************************)
(* Keeping EMLy up to date: Cycle, apply, install and forceRedownload of   *)
(* internal/service/service.go, with the downloads cache                   *)
(* (internal/download), the pending entry of state.json (internal/state),  *)
(* the setup runner (internal/installer) and the EMLy process              *)
(* (internal/process).                                                     *)
(*                                                                         *)
(* All of it runs on the poll goroutine, one step per call that leaves the *)
(* process.  Between two steps the release server, the user, an            *)
(* administrator and the command goroutines act, and the service may die.  *)
(* A build stands for the bits of a setup and for their checksum; two      *)
(* builds may carry the same version, a release published again.           *)
(***************************************************************************)
EXTENDS Integers, FiniteSets

CONSTANTS
  Builds,     \* setups the server has published or will publish
  VersionOf,  \* [Builds -> Nat \ {0}]: 0 is the 0.0.0 of a fresh install
  FirstOffer, \* the offer the manifest starts with
  None,       \* no file, no entry
  Corrupt,    \* a file that is no published build
  Faults,     \* subset of FaultKinds
  MaxFaults,  \* bound: faults in a behaviour
  MaxOffers   \* bound: further manifests published in a behaviour

\* What may go wrong: the service dies; state.json or the downloads directory
\* cannot be read or written; no server answers or a download fails; a setup or
\* a call about EMLy's processes fails; a cached file is damaged; EMLy is
\* installed by others; the updater is held back.
FaultKinds == {"crash", "io", "net", "exec", "corrupt", "outside", "hold"}

Versions == {VersionOf[b] : b \in Builds}
Files == Builds \cup {None, Corrupt}

\* A manifest of one channel: its target, isCritical, minRequiredVersion (0
\* when absent).
Offers == [build : Builds, critical : BOOLEAN, min : Nat]

\* state.Pending, and the nil *Pending.
Entries == [build : Builds, forced : BOOLEAN]
NoEntry == [build |-> None, forced |-> FALSE]

ASSUME CycleAssumption ==
  /\ VersionOf \in [Builds -> Nat \ {0}]
  /\ None \notin Builds /\ Corrupt \notin Builds /\ None # Corrupt
  /\ FirstOffer \in Offers
  /\ Faults \subseteq FaultKinds
  /\ MaxFaults \in Nat /\ MaxOffers \in Nat

VARIABLES
  pc,        \* where the poll goroutine is
  seen,      \* emly.InstalledVersion, read when the cycle starts
  target,    \* what resolveTarget answered, with the forced flag it will get
  cur,       \* p: the entry being applied
  retry,     \* install is past its first setup
  spoiled,   \* history: cached files damaged since install's gate passed
  \* on disk
  pending,   \* state.json: the pending entry
  cache,     \* the downloads directory, one file name per version
  installed, \* GUI_SEMVER of EMLy's config.ini
  \* around the updater
  emly,      \* an EMLy process exists
  offer,     \* the manifest the server answers with
  hold,      \* "paused" by policy, "destructive" command committed, or "no"
  faults,    \* faults left
  offers     \* manifests left to publish

local == <<pc, seen, target, cur, retry, spoiled>>
disk == <<pending, cache, installed>>
world == <<emly, offer, hold, offers>>
vars == <<local, disk, world, faults>>

PCs == {"idle", "poll", "ensure", "persist", "apply", "warn", "kill", "wait",
        "install", "setup", "wipe", "resolve", "uninstall", "finish"}

\* The steps made while install holds its claim (beginInstall .. endInstall).
InInstall ==
  \/ pc \in {"setup", "wipe", "resolve", "uninstall", "finish"}
  \/ retry /\ pc \in {"ensure", "persist"}

TypeOK ==
  /\ pc \in PCs
  /\ seen \in Nat
  /\ target \in Entries \cup {NoEntry}
  /\ cur \in Entries \cup {NoEntry}
  /\ retry \in BOOLEAN
  /\ spoiled \subseteq Versions
  /\ pending \in Entries \cup {NoEntry}
  /\ cache \in [Versions -> Files]
  /\ installed \in Nat
  /\ emly \in BOOLEAN
  /\ offer \in Offers
  /\ hold \in {"no", "paused", "destructive"}
  /\ faults \in Nat
  /\ offers \in Nat
-----------------------------------------------------------------------------
(* Helpers.                                                                *)
Version(e) == VersionOf[e.build]
Less(a, b) == a < b

\* VerifyFile(p.SetupPath, p.SHA256): the cached file is the very build.
Verified(e) == cache[Version(e)] = e.build

\* Manifest.Forced.
Forced(version) == offer.critical \/ Less(version, offer.min)

Emptied == [v \in Versions |-> None]
Removed(v) == [cache EXCEPT ![v] = None]

\* CleanupExcept: every file but the kept one goes; with a fault, the ones
\* that are in use stay.
Cleaned(keep) == [v \in Versions |-> IF v = keep THEN cache[v] ELSE None]
CleanedPartly(keep) ==
  {[v \in Versions |-> IF v = keep \/ v \in stuck THEN cache[v] ELSE None] :
     stuck \in SUBSET Versions}

Fault(kind) == kind \in Faults /\ faults > 0 /\ faults' = faults - 1
NoFault == UNCHANGED faults

\* Store.SetPending and Store.ClearPending: saved, or failed and unchanged.
SetPending(e) ==
  \/ NoFault /\ pending' = e
  \/ Fault("io") /\ UNCHANGED pending

\* ClearPending followed by CleanupExcept: each may fail on its own.
ClearAndClean(keep) ==
  \/ NoFault /\ pending' = NoEntry /\ cache' = Cleaned(keep)
  \/ /\ Fault("io")
     /\ pending' \in {NoEntry, pending}
     /\ cache' \in CleanedPartly(keep)

\* VerifyFile refuses the entry's file, or (a fault) cannot read it: ClearPending
\* and os.Remove, each of which may fail on its own.
Discard(e) ==
  \/ NoFault /\ ~Verified(e) /\ pending' = NoEntry /\ cache' = Removed(Version(e))
  \/ /\ Fault("io")
     /\ pending' \in {NoEntry, pending}
     /\ cache' \in {Removed(Version(e)), cache}

Idle ==
  /\ pc' = "idle" /\ target' = NoEntry /\ cur' = NoEntry /\ retry' = FALSE
  /\ spoiled' = {}
-----------------------------------------------------------------------------
(* Cycle.                                                                  *)

\* The gates at the top of Cycle (applyControlGate, destructivePendingNow),
\* then config.ini and state.json.  An unreadable state.json counts as empty.
StartCycle ==
  /\ pc = "idle" /\ hold = "no"
  /\ seen' = installed
  /\ UNCHANGED <<target, retry, spoiled, installed, world>>

NothingPending ==
  /\ StartCycle
  /\ \/ pending = NoEntry /\ NoFault
     \/ pending # NoEntry /\ Fault("io")
  /\ pc' = "poll"
  /\ UNCHANGED <<cur, pending, cache>>

\* Mutant of PendingSatisfied: the entry is never cleared.
PendingSatisfiedKept ==
  /\ StartCycle
  /\ pending # NoEntry /\ ~Less(installed, Version(pending))
  /\ NoFault
  /\ pc' = "poll"
  /\ UNCHANGED <<cur, pending, cache>>

\* Installed by other means, or the entry is stale.
PendingSatisfied ==
  /\ StartCycle
  /\ pending # NoEntry /\ ~Less(installed, Version(pending))
  /\ ClearAndClean(0)
  /\ pc' = "poll"
  /\ UNCHANGED cur

PendingDiscarded ==
  /\ StartCycle
  /\ pending # NoEntry /\ Less(installed, Version(pending))
  /\ Discard(pending)
  /\ pc' = "poll"
  /\ UNCHANGED cur

ResumePending ==
  /\ StartCycle
  /\ pending # NoEntry /\ Less(installed, Version(pending)) /\ Verified(pending)
  /\ NoFault
  /\ cur' = pending
  /\ pc' = "apply"
  /\ UNCHANGED <<pending, cache>>

\* Mutant of Needed: whatever differs from the installed version is a target.
NeededIfDifferent == seen # VersionOf[offer.build]

\* needUpdate.
Needed == Less(seen, VersionOf[offer.build])

\* resolveTarget found no server, or no usable target.
PollFailed ==
  /\ pc = "poll" /\ Fault("net")
  /\ Idle
  /\ UNCHANGED <<seen, disk, world>>

\* Already on the latest version: superseded setups go.
NothingNeeded ==
  /\ pc = "poll" /\ ~Needed
  /\ Idle
  /\ \/ NoFault /\ cache' = Cleaned(0)
     \/ Fault("io") /\ cache' \in CleanedPartly(0)
  /\ UNCHANGED <<seen, pending, installed, world>>

UpdateFound ==
  /\ pc = "poll" /\ Needed
  /\ NoFault
  /\ target' = [build |-> offer.build, forced |-> Forced(seen)]
  /\ pc' = "ensure"
  /\ UNCHANGED <<seen, cur, retry, spoiled, disk, world>>

\* Manager.Ensure: a cached file with the right checksum is used; any other is
\* removed and fetched again, and a fetched file is renamed into place only if
\* its checksum is right.
Ensured ==
  /\ pc = "ensure"
  /\ NoFault
  /\ cache' = [cache EXCEPT ![Version(target)] = target.build]
  /\ spoiled' = spoiled \ {Version(target)}
  /\ pc' = "persist"
  /\ UNCHANGED <<seen, target, cur, retry, pending, installed, world>>

\* The directory cannot be made, the fetch failed, its checksum was wrong or it
\* could not be put in place; a good file that could not be read is gone too.
\* A failed re-download leaves install to go on with the old entry.
EnsureFailed ==
  /\ pc = "ensure"
  /\ Fault("net") \/ Fault("io")
  /\ cache' \in {Removed(Version(target)), cache}
  /\ IF retry THEN pc' = "uninstall" /\ target' = NoEntry /\ UNCHANGED <<cur, retry, spoiled>>
     ELSE Idle
  /\ UNCHANGED <<seen, pending, installed, world>>

\* Mutant of Persist: the re-downloaded entry is saved, the old one applied.
PersistKeepsEntry ==
  /\ pc = "persist"
  /\ SetPending(target)
  /\ cur' = IF retry THEN cur ELSE target
  /\ target' = NoEntry
  /\ pc' = IF retry THEN "uninstall" ELSE "apply"
  /\ UNCHANGED <<seen, retry, spoiled, cache, installed, world>>

\* Mutant of Persist: an update about to be forced is not queued first.
PersistUnlessForced ==
  /\ pc = "persist"
  /\ IF target.forced THEN NoFault /\ UNCHANGED pending ELSE SetPending(target)
  /\ cur' = target
  /\ target' = NoEntry
  /\ pc' = IF retry THEN "uninstall" ELSE "apply"
  /\ UNCHANGED <<seen, retry, spoiled, cache, installed, world>>

\* SetPending before applying; a failed write does not stop the update.
Persist ==
  /\ pc = "persist"
  /\ SetPending(target)
  /\ cur' = target
  /\ target' = NoEntry
  /\ pc' = IF retry THEN "uninstall" ELSE "apply"
  /\ UNCHANGED <<seen, retry, spoiled, cache, installed, world>>
-----------------------------------------------------------------------------
(* apply.                                                                  *)

\* A destructive command was committed since: at the top of apply, after the
\* warning's countdown, or (beginInstall) at the top of install.
HeldBack ==
  /\ pc \in {"apply", "warn", "install"} /\ hold = "destructive"
  /\ NoFault
  /\ Idle
  /\ UNCHANGED <<seen, disk, world>>

\* IsRunning; a failed snapshot counts as running.
Apply ==
  /\ pc = "apply" /\ hold # "destructive"
  /\ \/ NoFault /\ pc' = IF ~emly THEN "install" ELSE IF cur.forced THEN "warn" ELSE "wait"
     \/ Fault("exec") /\ pc' = IF cur.forced THEN "warn" ELSE "wait"
  /\ UNCHANGED <<seen, target, cur, retry, spoiled, disk, world>>

\* The countdown is over and nothing destructive is pending.
Warned ==
  /\ pc = "warn" /\ hold # "destructive"
  /\ NoFault
  /\ pc' = "kill"
  /\ UNCHANGED <<seen, target, cur, retry, spoiled, disk, world>>

\* TerminateAll: some instance may survive it; install is tried all the same.
Kill ==
  /\ pc = "kill"
  /\ \/ NoFault /\ emly' = FALSE
     \/ Fault("exec") /\ UNCHANGED emly
  /\ pc' = "install"
  /\ UNCHANGED <<seen, target, cur, retry, spoiled, disk, offer, hold, offers>>

\* WaitForExit returns once no instance is left.
Exited ==
  /\ pc = "wait" /\ ~emly
  /\ NoFault
  /\ pc' = "install"
  /\ UNCHANGED <<seen, target, cur, retry, spoiled, disk, world>>

\* WaitForExit failed: the entry stays and resumes in the next cycle.
WaitFailed ==
  /\ pc = "wait" /\ Fault("exec")
  /\ Idle
  /\ UNCHANGED <<seen, disk, world>>
-----------------------------------------------------------------------------
(* install.                                                                *)

\* Mutant of GatePassed: the file verified at download time is trusted.
GateSkipped ==
  /\ pc = "install" /\ hold # "destructive"
  /\ NoFault
  /\ pc' = "setup"
  /\ UNCHANGED <<seen, target, cur, retry, spoiled, disk, world>>

\* beginInstall, then the final integrity gate.
GatePassed ==
  /\ pc = "install" /\ hold # "destructive" /\ Verified(cur)
  /\ NoFault
  /\ pc' = "setup"
  /\ UNCHANGED <<seen, target, cur, retry, spoiled, disk, world>>

GateRefused ==
  /\ pc = "install" /\ hold # "destructive"
  /\ Discard(cur)
  /\ Idle
  /\ UNCHANGED <<seen, installed, world>>

\* runSetupAndVerify: a setup leaves its version behind, and a missing or
\* broken file does not start.  With a fault it may exit with an error, and
\* leave the old version, none, or its own; a broken file may start after all.
RunSetup(ok) ==
  LET file == cache[Version(cur)] IN
  /\ pc = "setup"
  /\ \/ /\ NoFault
        /\ installed' = IF file \in Builds THEN VersionOf[file] ELSE installed
        /\ ok <=> file \in Builds /\ ~Less(installed', Version(cur))
     \/ /\ Fault("exec") /\ file # None
        /\ installed' \in {installed, 0} \cup {VersionOf[x] : x \in Builds \cap {file}}
        /\ ok => ~Less(installed', Version(cur))

SetupDone ==
  /\ RunSetup(TRUE)
  /\ pc' = "finish"
  /\ UNCHANGED <<seen, target, cur, retry, spoiled, pending, cache, world>>

\* The first setup did not get there: a clean reinstall is tried.
SetupFailed ==
  /\ RunSetup(FALSE) /\ ~retry
  /\ pc' = "wipe"
  /\ UNCHANGED <<seen, target, cur, retry, spoiled, pending, cache, world>>

\* Nor did the clean reinstall: left to the next cycle.
ReinstallFailed ==
  /\ RunSetup(FALSE) /\ retry
  /\ Idle
  /\ UNCHANGED <<seen, pending, cache, world>>

\* forceRedownload: the cache and the entry go first ...
Wipe ==
  /\ pc = "wipe"
  /\ ClearAndClean(0)
  /\ retry' = TRUE
  /\ pc' = "resolve"
  /\ UNCHANGED <<seen, target, cur, spoiled, installed, world>>

\* ... then the manifest is asked again, whatever it offers now.
ResolveAgain ==
  /\ pc = "resolve"
  /\ \/ /\ NoFault
        /\ target' = [build |-> offer.build, forced |-> cur.forced]
        /\ pc' = "ensure"
     \/ /\ Fault("net")
        /\ pc' = "uninstall"
        /\ UNCHANGED target
  /\ UNCHANGED <<seen, cur, retry, spoiled, disk, world>>

\* installer.Uninstall, best effort.
Uninstall ==
  /\ pc = "uninstall"
  /\ \/ NoFault /\ installed' = 0
     \/ Fault("exec") /\ UNCHANGED installed
  /\ pc' = "setup"
  /\ UNCHANGED <<seen, target, cur, retry, spoiled, pending, cache, world>>

\* Confirmed in config.ini: the entry and the superseded setups go.
Finish ==
  /\ pc = "finish"
  /\ ClearAndClean(Version(cur))
  /\ Idle
  /\ UNCHANGED <<seen, installed, world>>

Updater ==
  \/ NothingPending \/ PendingSatisfied \/ PendingDiscarded \/ ResumePending
  \/ PollFailed \/ NothingNeeded \/ UpdateFound \/ Ensured \/ EnsureFailed \/ Persist
  \/ HeldBack \/ Apply \/ Warned \/ Kill \/ Exited \/ WaitFailed
  \/ GatePassed \/ GateRefused \/ SetupDone \/ SetupFailed \/ ReinstallFailed
  \/ Wipe \/ ResolveAgain \/ Uninstall \/ Finish
-----------------------------------------------------------------------------
(* Everyone else.                                                          *)

\* The service dies or is stopped, and starts again.  A setup it was running
\* goes on without it and leaves what it leaves.
Crash ==
  /\ Fault("crash") /\ pc # "idle"
  /\ \/ UNCHANGED installed
     \/ pc \in {"setup", "uninstall"} /\ installed' = 0
     \/ /\ pc = "setup" /\ cache[Version(cur)] \in Builds
        /\ installed' = VersionOf[cache[Version(cur)]]
  /\ Idle
  /\ UNCHANGED <<seen, pending, cache, world>>

Publish ==
  /\ offers > 0 /\ offers' = offers - 1
  /\ \E b \in Builds, critical \in BOOLEAN, min \in Versions \cup {0} :
       offer' = [build |-> b, critical |-> critical, min |-> min]
  /\ UNCHANGED <<local, disk, emly, hold, faults>>

OpenEMLy ==
  /\ ~emly /\ installed # 0 /\ emly' = TRUE
  /\ UNCHANGED <<local, disk, offer, hold, offers, faults>>

CloseEMLy ==
  /\ emly /\ emly' = FALSE
  /\ UNCHANGED <<local, disk, offer, hold, offers, faults>>

\* A cached file goes bad, at any time: nothing holds it, not even install.
Damage(v) ==
  /\ Fault("corrupt")
  /\ cache[v] \in Builds
  /\ cache' = [cache EXCEPT ![v] = Corrupt]
  /\ spoiled' = IF InInstall THEN spoiled \cup {v} ELSE spoiled
  /\ UNCHANGED <<pc, seen, target, cur, retry, pending, installed, world>>

\* EMLy installed by other means (a GPO, an orphaned setup).
OutsideInstall(v) ==
  /\ Fault("outside")
  /\ installed' = v
  /\ UNCHANGED <<local, pending, cache, world>>

\* The policy pauses the updater, or a destructive command is committed -
\* which ClientCommands excludes while an install is claimed.
Hold(why) ==
  /\ Fault("hold")
  /\ hold = "no" /\ hold' = why
  /\ why = "destructive" => ~InInstall
  /\ UNCHANGED <<local, disk, emly, offer, offers>>

Unhold ==
  /\ hold # "no" /\ hold' = "no"
  /\ UNCHANGED <<local, disk, emly, offer, offers, faults>>

World ==
  \/ Crash \/ Publish \/ OpenEMLy \/ CloseEMLy \/ Unhold
  \/ \E v \in Versions : Damage(v) \/ OutsideInstall(v)
  \/ \E why \in {"paused", "destructive"} : Hold(why)
-----------------------------------------------------------------------------
Init ==
  /\ pc = "idle" /\ seen = 0 /\ retry = FALSE /\ spoiled = {}
  /\ target = NoEntry /\ cur = NoEntry /\ pending = NoEntry
  /\ cache = Emptied
  /\ installed \in Versions \cup {0}
  /\ emly = FALSE
  /\ offer = FirstOffer
  /\ hold = "no"
  /\ faults = MaxFaults
  /\ offers = MaxOffers

Next == Updater \/ World

Spec == Init /\ [][Next]_vars

\* The poll loop goes on, a pause or a pending command ends, and a waiting
\* updater notices that EMLy has exited.
Fairness == WF_vars(Updater) /\ SF_vars(Exited) /\ WF_vars(Unhold)

\* Under FairSpec the user owes nothing; under ClosingSpec EMLy is closed now
\* and then.
FairSpec == Spec /\ Fairness
ClosingSpec == FairSpec /\ WF_vars(CloseEMLy)
-----------------------------------------------------------------------------
(* Properties.                                                             *)

\* What runs as SYSTEM is the very build of its entry (or there is no file to
\* run), unless it was damaged while install was at work, after its checksum was
\* last taken: no order of earlier damage, releases published again under their
\* version, failed deletions, re-downloads and crashes gets another file to the
\* setup runner, and a release published again gets there in neither run.
OnlyVerifiedRun ==
  pc = "setup"
    => \/ cache[Version(cur)] \in {cur.build, None}
       \/ cache[Version(cur)] = Corrupt /\ Version(cur) \in spoiled

\* What the repository says of it, of the second run of install: a setup whose
\* checksum does not match is never executed.
MismatchNeverRun ==
  pc = "setup" /\ retry => cache[Version(cur)] \in {cur.build, None}

\* A manifest rolled back to an older release never makes a plain install
\* replace EMLy by an older version, however long the entry has waited: only
\* the clean reinstall, which asks the manifest again, may.
NoPlainDowngrade ==
  [][installed' # 0 /\ installed' < installed => retry]_vars

\* install is never started, nor EMLy closed by force, for an entry that is no
\* longer the persisted one or was never persisted (without write errors):
\* whatever the moment of a crash, the next start resumes this very setup.
Resumable ==
  pc \in {"apply", "warn", "kill", "wait", "install", "setup"} /\ ~retry
    => pending = cur

\* Once manifests stop changing and nothing fails any more, EMLy reaches the
\* offered version, no entry is left and the cache is emptied - from every
\* state that failures and crashes can leave behind.
Settled == installed >= VersionOf[offer.build] /\ pending = NoEntry /\ cache = Emptied
Converges == <>[]Settled

\* The fallback of install: EMLy is uninstalled only with a setup at hand to
\* install it again.
FallbackAvailable == pc = "uninstall" => Verified(cur)

\* A failed clean reinstall keeps its entry for the next cycle.
FailedInstallKeepsPending == [][ReinstallFailed => pending' # NoEntry]_vars

\* EMLy is not closed by force for an install that is refused because of a
\* pending destructive command.
KilledOnlyToInstall == [][Kill => hold # "destructive"]_vars

\* A critical release is installed even while EMLy is running.
CriticalInstalled ==
  offer.critical /\ installed < VersionOf[offer.build]
    ~> ~offer.critical \/ installed >= VersionOf[offer.build]
=============================================================================
