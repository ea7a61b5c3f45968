# EMLy updater: TLA+ models, checks and proofs

The EMLy updater is a Windows service that keeps the desktop program EMLy and
itself up to date and takes commands over a websocket.  This directory holds
TLA+ models of its core, TLC configurations that check them on small instances,
and TLAPS proofs of the properties that matter most for every instance.

    tlc -workers 2 -config commands_gate.cfg MCClientCommands
    tlapm ClientCommandsProofs.tla

`PROJECT.json` lists components, runs, mutants, hazards, findings and theorems,
and maps every definition to the source lines it stands for.

## 1. The system

One process, several goroutines, one JSON file, and other programs around it.

| part | state | operations | talks to |
|---|---|---|---|
| poll loop (`service.go` RunLoop, Cycle, apply, install) | the cycle's locals; wake channel | resume a pending entry, poll the manifest, download, persist, wait for or kill EMLy, run the setup, clean reinstall | state store, downloads, setup runner, EMLy process, gate |
| self-update (`service/selfupdate.go`, `selfupdate/`) | the selfUpdate record | reconcile, decide, download, verify, record, retire the configuration cache, launch | state store, gate, configuration cache; the launched setup stops the service |
| command executor (`clientcmd.go`) | dedupe ring, running verbs | look up, add, admit, claim, ack, run, release; one goroutine per command | gate, state store, presence channel |
| destructive gate (`clientpower.go`) | destructivePending, deadline, command id; installing | admit, commit, clear, expire; begin and end an install | executor, poll loop, Windows |
| presence channel (`clientws.go`, `clientevents.go`, `wsclient/`) | session and its generation, event buffer, service.started payload, backoff | connect, welcome burst, emit, flush, heartbeat, reconnect | server, executor, poll loop |
| state store (`state/`) | state.json: pending, selfUpdate, pendingCommands | set, clear, add, remove, take; one mutex | everyone |
| downloads (`download/`) | one file per version | ensure, clean up, verify | poll loop, self-update |
| remote configuration (`remoteconfig.go`, `policy/`) | snapshot, cache file, etag | load, fetch, accept, confirm, save, retire, restore | poll loop, self-update, server |
| server choice (`preferred.go`, `sourcepolicy.go`, `source/`) | preferred server, site | resolve the chain, note the server that answered | poll loop, presence channel |
| notify wake-ups (`clientnotify.go`) | rate limit, forceConfig | wake the poll loop | poll loop |
| session watch (`sessionwatch.go`) | a bounded queue | queue, coalesce, report | Windows, presence channel |
| IPC (`ipc/`) | none of its own | answer EMLy's questions | EMLy |
| Windows services (process, installer, cert, authenticode, assoc, notify, toast, power, machineinfo, winget), configuration, logging, command line | none, or files | one-shot calls | everyone |

What is hard here: a command goroutine, the poll goroutine and the welcome burst
share the gate, the ring and state.json; the process that records an action is
ended by it, so whatever it did not write is lost; setups outlive the process;
calls fail half-way; a cycle waits for days between reading a version and acting
on it; flags expire by the clock.  `PROJECT.json` lists these as hazards, each at
its line, with the properties that would notice.

What makes the parts correct:

* gate and executor - a setup and a restart or reboot exclude each other; a verb
  runs once at a time and is always released; a redelivered command is answered as
  before and not executed again; the flag heals; what is under way is traceable;
* update cycle - no file is run that its last checksum did not cover; no
  accidental downgrade; a crash resumes; EMLy converges to the offered version;
* self-update - a bad release stops the service a bounded number of times; setups
  do not race; a release lands or is given up; configuration is handed over
  cleanly;
* client events - an event handed to emit is written once or dropped for a stated
  reason; the published session is the current connection's; service.started is
  sent once, first, and arrives as connections go on being made;
* presence channel and server choice - the channel ends up on the server that
  serves the manifest, closes when it is switched off, and does not hammer a
  server that fails;
* remote configuration - the policy never goes back to an older or an invalid
  document, every combination of overrides is valid, the cache means what was
  sent, a switched-off updater comes back;
* service loop - no forced fetch, wake-up or session change is lost; a stop or a
  panic ends every goroutine.

## 2. Modules

| module | models | kind |
|---|---|---|
| `CommandRing` | `commandRing` | operators |
| `PowerLock` | what the destructive gate promises | abstract specification |
| `ClientCommands` | executor, gate, pendingCommands, service.started; implements `PowerLock` | state machine |
| `UpdateCycle` | Cycle, apply, install, forceRedownload, downloads, setup runner, EMLy process | state machine |
| `SelfUpdate` | selfUpdate, Decide, Reconcile, Launch, retireCache, restoreCache | state machine |
| `ClientEvents` | emit, its buffer, the welcome burst, session generations, update events | state machine |
| `Presence` | resolver and preferred server, runClientWS, its watchers, the dial | state machine |
| `PolicyDocument` | package policy and the IPC version check: merge, validation, overrides, defaults | operators |
| `PolicyRegister` | what the policy store promises | abstract specification |
| `RemoteConfig` | refreshConfig, the cache, the cycle's control gate, IPC connections; implements `PolicyRegister` | state machine |
| `ServiceLoop` | RunLoop, Execute, notify wake-ups, site facts, session watch | state machine, composes the goroutines |
| `MC...` | instances for TLC | constants |
| `ClientCommandsProofs`, `CommandRingProofs` (about the ring, on top of it), `UpdateCycleProofs`, `SelfUpdateProofs`, `ClientEventsProofs`, `PresenceProofs`, `RemoteConfigProofs`, `ServiceLoopProofs` | theorems | proofs |

Conventions.  A step is one critical section of a mutex or one call that leaves
the process; everything between two such points is part of the step before.
`pc` is where a goroutine is.  Faults are a constant set, `Faults`: a
configuration chooses which kinds may happen, and `MaxFaults` bounds how many do
(in `ClientCommands` they are unbounded).  History variables are declared apart
and read by properties only.  A definition called "Mutant of X" is a plausible
mistake in X; it is used by no specification, and shows that a property can fail.

### ClientCommands

`pc[d]` follows executeCommand for delivery `d`: lookup, add, admit, gate, claim,
ack, then run (read-only verbs), or record, commit, act (restart, reboot), with
refuse, clear, unrecord and release on the failure paths.  `gate` is
destructivePending with its deadline and command id; `installing`, `running` and
`ring` are the fields of that name; `records` is state.json's pendingCommands;
`payload`, `built` and `burst` are the cached service.started and its send;
`poll` is the poll goroutine as far as the gate sees it; `sched` is outside the
process: the restart-service child or Windows' countdown.

Abstractions.  A deadline is the number of ticks left; time does not pass a
moment at which something is due, nor between commitDestructive and the call
that follows it.  The reasons of a refusal (arguments, expiry, policy, transport)
are one nondeterministic choice.  `records` is a set: the order only matters for
seeding, which takes any order.  Windows refuses a second shutdown during a
countdown.  A connection exists when `burst` is not "none"; closing it is not a
step of its own.  The once-only log flag and the backup of a corrupt state.json
are left out.

`PowerLock` is the promise of the gate: setups share a lock that a restart or a
reboot holds alone, from its commit until it has taken effect, failed, been
called off and lapsed; nothing lets go of it while it counts down, and what takes
effect is what holds it.  The mapping takes `setups` from `installing`,
`committed` from the flag while its deadline has not passed (an overdue flag
holds nobody off, so releasing it is no step of the lock) and `counting` from
`sched`.

### UpdateCycle

`pc` follows the poll goroutine through Cycle, apply, install and
forceRedownload.  `pending`, `cache` and `installed` are on disk and survive
`Crash`; `seen`, `target`, `cur` and `retry` are locals.  A build is the bits of
a setup and their checksum; two builds may have one version, so a republished
release can be told from the file in the cache.  `Publish`, `OpenEMLy`,
`CloseEMLy`, `Damage`, `OutsideInstall`, `Hold` and `Unhold` are everyone else.

Abstractions.  The self-update at the top of a cycle is the module SelfUpdate; a
service it stops is `Crash`.  Versions are numbers (Less is tested in the
repository), so invalid version strings do not occur.  A crash between
ClearPending and CleanupExcept is the same as a failed clean-up.  A destructive
command is not committed while install is at work, which is what
`InstallExcludesPending` of ClientCommands shows.  The toast, events and file
associations are left out.

`Damage` happens at any time.  The history variable `spoiled` holds the versions
whose file went bad while install was at work and has not been verified since,
for nothing protects the file between the gate and the two runs: `OnlyVerifiedRun`
excepts exactly these, and `unverified_run.cfg` shows what the exception costs.

### SelfUpdate

`pc` follows selfUpdate and applySelfUpdate; `record` is the selfUpdate record
with the age of LaunchedAt in ticks; `setups` counts launched setups at work,
which land (`SetupLands`) or fail (`SetupFails`) at any time; `live` and `aside`
say which build accepted the document in the configuration cache and in the file
beside it.

Abstractions.  The signature check is membership in `Signed`.  Unless "slow" is
among the faults, a setup is launched as soon as it is recorded and is through
before Cooldown is.  A release without the right signature is retried in every
cycle and never launched, so `LandsOrGivesUp` does not speak of it.  A manifest
that alternates between two releases resets the count each time, as the comment
in Decide intends; `LaunchesBounded` is about a release while it stays offered.

### ClientEvents

`wsGen`, `wsSession`, `startedSent`, `eventBuf` are the fields of the Updater;
`open`, `welcomed` and `live` are the connection: Run is running, the server has
switched to v2, the socket can be written.  `burst[g]` follows handleWelcomeBurst
of generation `g` (swap, started, take1, flush1, store, take2, flush2, info) and
may outlive its connection; `taken[g]` is the buffer its flush holds.
`emitter[e]` follows emit on the poll goroutine and on watchSessions.
`announced` and `reported` are the filters of clientupdates.go.

Abstractions.  wsGen only grows and is only compared for equality, so a
generation is a name that may be used again once no burst and no emitter holds
it.  `announced` is one target's.  A write on a live socket succeeds, or fails and
closes it; the ErrTooLarge of a message is a constant of the event.  What a server
accepts is drawn with its welcome (`refused`), service.started included: a server
that does not take it leaves startedSent set with nothing written, which the
history variable `declined` remembers.

### Presence

`poll` follows one cycle through newResolver, resolveWith and
notePreferredServer, first for the updater's manifest and then for EMLy's; `sup`
follows runClientWS; `watching` and `lingering` are the watcher of the attempt
and of an earlier one.  `wake` is the channel of capacity one that the supervisor
and every watcher read.  A server is "ok", "down", without the updater's manifest
("nodoc"), without the websocket route ("noroute") or answers it with 401 or 403
("banned").

Abstractions.  The lengths of the backoff and of the watch interval are left out:
a wait is a step that ends.  The retries of one server in resolveWith are its
last one.  `unsupported` marks expire while the supervisor waits or is connected.

### PolicyDocument, PolicyRegister, RemoteConfig

`PolicyDocument` has one operator per function of package policy.  A document is
what was sent: sections with the fields that are present, JSON's null among the
values, so that merging over defaults, deleting by null and completing a patched
section behave as in the code.  The ipc section is a set of versions with their
limits and a default, so that a version that is not listed falls back to the
compiled limits.  `Marshal` is what the cache holds: the typed
document.  Everything lexical is one flag.  `RemoteConfig` runs it: `published`
and `down` are the servers, `policy` the store's snapshot, `cache` the file,
`cur` the latest cycle, `conn` the IPC connections, each with the goroutine Accept
started for it.  A connection reads the policy for the version check, again in
`Dispatch`, and writes the answer in a later step (`WriteEnvelope`), which may
fail; between them the loop and the other connections go on.  `told` is the highest
revision EMLy was given, and `floor` what it was when the connection was made.
Answers under way together may overtake one another - one that read revision 2 can
be written after another gave revision 3 - so `ToldForward` compares an answer
with `floor`.  `Restart` reads the cache back, with a disk that may fail to read
or to move it.

`PolicyRegister` is the promise: one document in force that only makes way for
one of at least its revision, a saved copy, and a restart that brings back that
copy or nothing.  The mapping takes `current` from the snapshot's document and
`saved` from the cache; fetches, cycles, IPC and time are stuttering steps.  It is
about refreshConfig, acceptDocument, saveCache and initPolicy: retireCache and
restoreCache, which move the same file around a self-update, are in SelfUpdate.

### ServiceLoop

`loop` follows RunLoop: swap (forceConfig), refresh, fetch, host, lookup, begin,
cycle, wait, and unwind, the deferred stopPresence and presence.Wait.  `proc` is
what the SCM sees.  `watch` follows watchSessions, `timers` are the jittered
wake-ups, `site` is u.site.  A cycle, a fetch and the presence supervisor are
steps here; the other modules are about what they do.

Abstractions.  A document is its revision, and a fetch that succeeds finds the
published one (mirrors that lag are in RemoteConfig).  RemoteConfigEnabled is
assumed.  The domain controller of a network is named after its addresses.
Windows changes a session before it notifies; the settle time is taken to be
enough for WTS to follow, as its comment says.  A WTS query may fail, for all
sessions or for some: what cannot be read is skipped, and a failed enumeration
gives the zero user, which is reported like any other (LoggedUser).  The history
variable `blind` says that the last query was such a one, the exception of
`SessionsSettle`.  Elapsing intervals are steps.

## 3. Runs

| run | asks | instance |
|---|---|---|
| `commands_gate` | do the gate, the claims and the ring stay consistent? | a restart and a reboot at once, or two restarts; every fault, a ring of one entry, two hand-offs; 1.55M states |
| `commands_serial` | does the gate implement the lock? is a countdown respected, traceable, not repeated, answered alike? does a pending flag always clear? | restart, its redelivery and a reboot, one at a time, or a reboot next to a read-only command, or a command without an id; failed acks and aborts; 401k states |
| `cycle_resume` | can every first attempt be resumed, does it go up? | three builds of two versions, two further manifests, three faults but no I/O errors and no outside installs; 251k states |
| `cycle_converges` | is what runs what was verified; does EMLy converge? | the same with every fault, damage at any time; 670k states |
| `self_attempts` | are launches bounded and apart? | three versions, one not signed, two attempts, one further manifest, three faults; 19k states |
| `self_settles` | does a release land or get given up? | the same with unreadable state.json and slow setups; 167k states |
| `events_flow` | is an event lost or doubled, the session stale, service.started late? does the buffer empty, does service.started arrive? | two generations, an emission of each emitter, a buffer of one, one event too large, servers that accept everything or neither service.started nor the version on offer; 597k states |
| `presence_follows` | does the channel follow the server that serves? is a server stormed? | two servers, four policies, five conditions, two changes, one loss; 113k states |
| `config_register` | does the store implement the register? do overrides, cache and kill switch behave? | two servers, documents with up to three overrides and expiries, three changes, one restart, failing disk; 232k states |
| `config_told` | does an answer take EMLy back? | two connections at once, four documents, two changes, one restart; 1.62M states |
| `loop_wakes` | is a notify, a wake-up or a session change lost? do the cycles catch up, does the service end? | four budgets of the environment, see below; 742k states |

Bounds.  Two concurrent destructive commands suffice for every conflict of the
gate, since it holds one flag, and two commands of one verb for the claims;
`Mixes` says which commands one behaviour consists of; the redelivery needs two
deliveries of one id; a ring of one entry evicts at the second command.  Two
versions and a republished one give upgrade, rollback and replacement under a
name; three faults are more than one attempt with its retry can absorb; the bound
on manifests is what makes convergence meaningful.  Grace and delay are one or two
ticks: what matters is their order, which the ASSUMEs state.  Two generations
suffice for a burst that outlives its connection; a buffer of one is full at the
first event.  Two servers are a head and a backup.  The dry run tries every
override alone and all of them together, so the first subset it does not try is a
pair out of three: `Off` of MCRemoteConfig has three overrides of which a pair is
left when the first expires. Two connections suffice for one answer to overtake
another.  `ServiceLoop` draws one of four budgets at the start - two publications
and a failure; a move and a failure; two session changes and a WTS query that
fails; a panic, a stop and a publication - so that parts that do not touch each
other are not multiplied.  Larger instances that were run by hand and pass:
`Presence` with three changes (696k states), `ClaimsExclusive` with a restart, its
redelivery and another restart at once (2.27M states), the invariants of
`ClientEvents` with three emissions (954k states, symmetric connections).
`TypeOK` of RemoteConfig was checked with the bounds of its two runs by adding it
to the configurations; those of UpdateCycle, Presence and ServiceLoop are proved
and in no run.

Fairness.  Goroutines run and the poll loop goes on (RunLoop's timer); time
passes; what Windows has scheduled happens; a launched setup ends; a pause or a
pending command ends.  `Exited` is strongly fair because a user may open EMLy
again and again: WaitForExit waits on process handles and notices.  `Converges`
assumes that the user closes EMLy now and then; `CriticalInstalled` does not,
which is its point.  No fairness is assumed of the network, the server or the
faults. In `ClientEvents` goroutines run and writes return (they carry a timeout);
nothing ends a healthy connection, which can last for days.  `Drains` and
`StartedArrives` therefore have two premises of their own: the network has settled
(`Settled`: connections are no longer lost before their burst is over), and
connections go on being made (`Renewed`).  On a connection that lasts for ever, an
event left behind by a burst, or a service.started that one burst skipped and the
other failed to write, stays where it is; that is the code's behaviour
(`events_stranded.cfg`), not something the properties deny.  In `Presence` timers
fire and a cancelled watcher is noticed; the expiry of a mark is strongly fair,
because the hour passes although the supervisor looks around in between.  In
`RemoteConfig` the loop goes on and time passes.  In `ServiceLoop` RunLoop goes
on (a cycle and a fetch end), a supervisor whose context has ended returns, and the
intervals pass; there is no fairness for notifies, stops or Publish.

Violation.  One run states what a comment says and finds a behaviour of the code
that differs.  `cache_rejected`: a document with an override for listed machines
(or with an except) is accepted and saved; saveCache writes the typed selector,
`"all": false` included, and the next start refuses that and quarantines the
cache, so the machine starts with the default policy although its cache was good.

More configurations of the same kind can be run by hand:

| configuration | property | what happens |
|---|---|---|
| `overlap_install.cfg` | NoInstallUnderCountdown | restart and reboot are both admitted before either commits; the reboot commits over the restart, fails, and clears the flag: an install starts under the restart (service.go:239) |
| `early_completion.cfg` | CompletedMeansExecuted | a command recorded before the first service.started of its own process is reported completed (state.go:51) |
| `unsent_ack.cfg` | ConfirmedRan | a command whose Ack could not be written is not run, yet its redelivery is answered accepted and duplicate (clientcmd.go:49) |
| `fallback_lost.cfg` | FallbackAvailable | the clean reinstall deletes the cached setup first; offline, it then uninstalls EMLy with nothing to install |
| `unverified_run.cfg` | MismatchNeverRun | install takes the checksum once (service.go:874); after a failed first run, forceRedownload and the uninstaller, the clean reinstall runs the setup without taking it again (908), so a file that went bad in between is executed, where src/README.md:42 and download.go:3 say that a setup that does not match never is |
| `critical_blocked.cfg` | CriticalInstalled | while the updater waits for EMLy to exit for an ordinary release, a critical one is not seen |
| `redelivery_race.cfg` | AckConsistent | lookup and add are two critical sections: of two deliveries of one id at once, one is accepted and one refused as busy |
| `second_restart.cfg` | AtMostOnce | the report is taken out of state.json, lost with its process, and the command runs again (clientcmd.go:137) |
| `pending_lost.cfg` | FailedInstallKeepsPending | service.go:913 says "pending kept", but forceRedownload has cleared it |
| `useless_kill.cfg` | KilledOnlyToInstall | a reboot commits between the last check and TerminateAll (service.go:794) |
| `self_forgotten.cfg` | LaunchesBounded | an unreadable state.json counts as no history |
| `self_racing.cfg` | OneSetupAtATime | a release published since is launched next to the setup at work |
| `stale_restore.cfg` | RestoresOwnCache | with no cache to retire, restoreCache brings back an older .prev |
| `stale_start.cfg` | StartsFresh | refreshConfig writes the cache again between the launch and the stop |
| `events_started.cfg` | StartedAlwaysFirst | a burst finds startedSent set while the burst of the dropped connection is still writing, and flushes ahead of it (clientevents.go:179) |
| `events_buffer.cfg` | BufferBounded | a failed flush puts its events back in front of a buffer that filled up meanwhile (clientevents.go:33) |
| `events_stranded.cfg` | NothingStranded | emit loads no session, the burst flushes twice, emit buffers: the event waits for the next connection (clientevents.go:183) |
| `presence_preference.cfg` | PreferenceStands | the supervisor forgets the preferred server for a chain loaded before the cycle changed (preferred.go:14) |
| `presence_wake.cfg` | WakeKept | the watcher of an attempt that has ended takes the wake-up of the idle supervisor (clientws.go:358) |

Two smaller ones are visible without a run: announceUpdate remembers the last
version of a target only, where its comment says once per target and version; an
IPC answer with a document of more than 64 KiB is never sent, while documents may
have 1 MiB.

## 4. Proofs

For every set of commands, every ring size, builds, versions, delays and faults
that the last column does not exclude:

| theorem | says | assumes |
|---|---|---|
| `TypeCorrect`, `SetupsExcludeCommits`, `OneGoroutinePerVerb` (ClientCommandsProofs) | TypeOK, InstallExcludesPending, ClaimsExclusive | - |
| `NoSetupUnderCountdown`, `SchedulesOnRecord` | NoInstallUnderCountdown, ScheduleTraceable | one destructive command in flight at a time; the process does not die on its own |
| `GateImplementsLock` | ImplementsLock, for any number of commands and setups, with failing writes, lost acks and aborted shutdowns | the same |
| `RingStaysCoherent` (CommandRingProofs) | RingCoherent | the deliveries of one id are not in flight together |
| `OneAnswerPerId` | AckConsistent | the same, and the ring has room for every id |
| `CommandsRunOnce` | AtMostOnceUnlessReportLost | the same, and state.json can be written |
| `CycleTypeCorrect`, `SetupsVerified` (UpdateCycleProofs) | TypeOK, OnlyVerifiedRun, with damage at any moment; the property excepts a file damaged since its last check | - |
| `FirstAttemptsGoUp` | NoPlainDowngrade | nobody else installs EMLy |
| `CrashesResume` | Resumable | state.json can be read and written |
| `TypeCorrect` (SelfUpdateProofs) | TypeOK | - |
| `LaunchesAreBounded` | LaunchesBounded | state.json can be read |
| `OneSetupEach` | OneSetupPerRelease | state.json can be read, setups do not outlast Cooldown, offered versions only go up |
| `EventsTypeCorrect`, `EventsConserved` (ClientEventsProofs) | TypeOK, Conserved, for any number of connections in use, events and emissions and any buffer size | - |
| `PublishedIsCurrent`, `StartedAtMostOnce`, `StartedGoesFirst` | SessionCurrent, StartedOnce, StartedFirst, for the same and servers that accept what they like | - |
| `NoServerStormed` (PresenceProofs) | NoStorm, for any servers, chains, changes and losses | - |
| `PresenceInvariant` | TypeOK of Presence; a poll never looks for a server past the end of its chain | no chain is empty |
| `StoreImplementsRegister`, `EMLyToldForward` (RemoteConfigProofs) | ImplementsRegister, ToldForward, for any documents, servers, hosts, clients and any number of connections at once | documents have the shape of a document (`Shaped`) and a natural number as revision |
| `OverridesCompose`, `AnyOverridesValid` | a patch that is valid alone keeps any valid sections valid; any set of the overrides of an accepted document makes a valid one | JSON's null is not an object |
| `OverridesAlwaysCovered` | SubsetsCovered, for any documents, hosts and times | the same; what config.ini stands for is a valid document |
| `StoredMeansTheSame`, `CacheMeansTheSame` | the cached form of a document gives every host the policy of the one that was sent; RoundTrip | JSON's null is not an object |
| `MarshalTwice` | a document read from the cache is saved again as it was | the same |
| `AnnouncedIsForced`, `WakeupsStay`, `LastUserReported` (ServiceLoopProofs) | ForceOwed, WakeOwed, SessionsSettle, for any networks, sessions and faults, failed WTS queries included (a failure of the last one is the property's exception) | the queue of session changes has room for one |
| `LoopTypeCorrect` | TypeOK of ServiceLoop | - |

The hypotheses are needed; each stands for a behaviour of the code that breaks
the property without it.  A process that dies takes the flag with it while
Windows goes on counting down, and two destructive commands in flight can clear
each other's flag (`overlap_install.cfg`).  lookup and add of the ring are two
critical sections, so two deliveries of one id at once are both new
(`redelivery_race.cfg`).  A ring too small forgets an answer, and a state.json
that cannot be written forgets a command.  `commands_serial` is an instance of
these hypotheses.  An unreadable state.json counts as no history
(`self_forgotten.cfg`); a manifest that goes up, down and up again starts the
count of a release afresh while its setup is at work.  Each of these is a
premise of the theorem that needs it.  What the constants are - the shape of a
document, a chain that is not empty, a queue with room for one - are the ASSUMEs
of the modules that declare them, which TLC evaluates on every run.

The arguments.  *Gate*: `InstallExcludesPending` is not inductive alone, because
endInstall lowers `installing`; `GateInv` adds that a poll goroutine in a setup
holds a claim.  Commit needs `installing = 0`, BeginInstall needs the flag clear
after its expiry, and both are single steps under destructiveMu.  *Claims*: the
set `running` is the set of verbs of the goroutines between claim and release.
*Countdown*: `CountdownInv` says where the one destructive command may be
(`DestructivePlaces`), that at most one thing is scheduled (`OneSchedule`), that
the flag's deadline is not before the end of what it was set for
(`FlagOutlastsSchedule`), that from the commit to the end of runDestructive
nothing else is scheduled (`Committed`) and that a command about to be scheduled
is in state.json or in the report built from it (`Recorded`); with
InstallExcludesPending the first property follows.
*Lock*: the lock knows which command holds it, so `LockInv` adds that the flag
carries the id of the goroutine between its commit and its call (`HeldBy`) and of
what is under way (`ScheduledBy`).  Then Commit, Act, Clear, BeginInstall,
EndInstall and the world outside each map to one action of the lock or to none;
a tick lets the flag lapse only with nothing counting down, because its deadline
lies behind that of the schedule.
*Ring*: `RingInv` adds that an id on its way to add is not in the ring
yet (`AddsFresh`), which is where the serial deliveries enter; the lemmas about
Append and Tail of a sequence without repeats do the rest.  `AckInv` ties the
answers of this process to the ring's results, which a ring with room for every
id never evicts.  `OnceInv` follows a spent command through state.json, the
report, the seeding of the next ring and the redelivery: it is on record or known
to the ring until its report is lost.
*Cycle*: `CycleInv` says which locals are set at which `pc` (`Placed`) and which
file lies under the version of the entry once the gate has been passed
(`FileAtHand`), or that it was damaged since: the second setup has no gate of its
own and rests on Ensure having put the file there, or on the wiped cache holding
none.  A release published again under its version therefore never gets there, and
a damaged file only if nobody looked at it afterwards.  `Upward` carries
the comparison made when the cycle started to the setup; `Queued` says the entry
of a first attempt is the persisted one.  *Self-update*: `SelfInv` relates the
record in memory to the one on disk (`Agreed`), the decision to both (`Chosen`),
the record to the attempt about to be launched (`Recorded`), and the launches so
far to the attempts recorded (`Counted`).  `SetupInv` says that a release being
applied has no setup at work (`Heading`), that the record written just before
the launch names it with age 0 (`JustRecorded`), that Decide looks at a record as
old as the one on disk (`SameAge`), and that a setup at work for the offered
release is the one on record and still cooling down (`AtWork`), so that Decide
waits for it.  *Events*: `SessionCurrent` needs that
a generation is current exactly while Run runs and that a burst of it was
welcomed (`Held`), since a late burst compares generations and nothing else.
`StartedOnce` rests on `OneWriter`: the flag is set while one burst is between
the compare-and-swap and its write, or after the write that succeeded.
`StartedFirst` is about the past, so `Behind` says it of whoever may still write
on the live connection (its burst past the flag, the published session, the
session an emitter has loaded); a failed write of service.started re-opens the
flag but also closes the connection, which is why it keeps `Behind`; a server that
does not take service.started is an exception the property names.
`Conserved` counts: the lemmas say what Append, Tail, a put-back and the trimming
do to the number of occurrences of an event in a sequence, and what a change of
one flush does to the events held by all of them; `TallyInv` adds that an emitter
past its first step holds its event and that only a flush holds a part of the
buffer, since Take would otherwise overwrite one.
*Presence*: `NoStorm` is about a step, and `StormInv` about what precedes it: the
supervisor comes back to its choice after a wait, after a cancellation, or with
the server of its last attempt marked, and marks do not expire before it chooses.
`PresenceInvariant` needs that the list of a document under resolution is never
empty (`AsksSomebody`); that a mark is a server comes from `StormInv`.
*Configuration*: a step of the store maps to Adopt, Save, Restart or a stutter
once `Stored` is known (a snapshot without a document is the default one, and a
save is only ever of a document); Adopt compares revisions of documents, the code
those of snapshots, hence the lemma that `Marshal` keeps the revision.
`OverridesCompose` rests on `FieldFromEither`: after a merge a field has the value
it had, or the one the patch gives it alone, and every rule of validateDocument
that a patch can touch is about one field.  `AnyOverridesValid` is the induction
over the loop that applies the overrides.  The library's induction principle takes
an operator, which the provers cannot instantiate; its form about sets can be used
(`LeastElement`, `SetInduction`), with the set of the rounds after which the
document is valid.  `AccumulatedSteps` shows by the same means that the function
the loop is written as exists.  The comment of Effective says that the dry run
"cannot fully cover" the subsets of overrides and keeps a fallback for them
(match.go:22): the theorem shows that the fallback is never taken for a document
that Parse has accepted.  For the cache, `PatchedAlike` and `AppliedAlike` say that
filling in defaults before a patch, as the stored form does, or after it, as the
one that was sent, leads to the same sections; again by induction over the loop.
`ToldForward` needs `Ordered`: what EMLy was told is not past the view, and the
cycle's snapshot not past the store's; and, of every connection (`Served`), that its
floor is not past what EMLy was told, nor its answer past the view.
*Loop*: `ForceOwed` and `WakeOwed` are
inductive once the signals are typed; `SessionsSettle` is not, and `Watched` adds
what holds while a change is still in the SCM, in the queue, behind the settle
timer or being resolved, and that what is being resolved is the user at the machine
unless WTS failed.  With a queue of no room at all it would fail: a change
that finds the queue full is dropped safely only because another is in it.

Only model-checked: the liveness properties (`PendingHeals`, `Converges`,
`LandsOrGivesUp`, `Drains`, `StartedArrives`, `SameServer`, `SwitchedOff`,
`Adopts`, `PauseEnds`, `RevisionArrives`, `SiteFollows`, `Unwinds`), since the
prover does not handle fairness, and `TypeOK` of RemoteConfig, because the
candidates of a fetch are made with SelectSeq, which takes an operator.  Every
invariant and every action property of the runs has a theorem, and both
refinements are proved.

## 5. Plan

1. ClientCommands, UpdateCycle, SelfUpdate: done.
2. ClientEvents, Presence, PolicyDocument, RemoteConfig with its refinement,
   ServiceLoop: done.
3. Proofs of the safety properties: done, see section 4.  Next: the same
   properties under weaker hypotheses where the code allows it (a countdown that
   survives a crash of the process up to the next commit; a ring smaller than the
   set of ids, for ids that are redelivered soon enough).
4. The read-only verbs (manifest checks, winget listing) and ChannelVersion as
   operators.

## 6. Not modelled

Pure I/O and Windows calls (HTTP requests, trust store, Authenticode, toasts,
message boxes, file associations, winget, logging), generated IPC messages, INI
files, and the one-shot subcommands other than restart-service.  Formats and
parsing are left out wherever no property depends on them.  Wall-clock limits
(the 30 s stop, the 15 min setup timeout) are failures that may happen at any
time.  The lengths of the websocket backoff, the wire format, the answers of the
read-only verbs, the lexical validation of a document and the foreground mode are
left out.  A file system that loses a completed rename is not modelled.
