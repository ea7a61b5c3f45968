--------------------------- MODULE ClientCommands ---------------------------
(***************************************************************************)
(* The server-pushed commands of the client channel: the executor          *)
(* (internal/service/clientcmd.go), the gate that keeps a restart or a     *)
(* reboot away from a running setup (internal/service/clientpower.go), the *)
(* pendingCommands list of state.json (internal/state/state.go) and the    *)
(* report of that list in service.started (internal/service/               *)
(* clientevents.go), across restarts of the service process.               *)
(*                                                                         *)
(* Every command runs on a goroutine of its own, here one delivery, next   *)
(* to the poll goroutine (which runs the setups) and the welcome burst     *)
(* (which reports the finished commands).  A step is one critical section  *)
(* or one call that leaves the process.  Time is counted in coarse ticks:  *)
(* a deadline is the number of ticks still to go.                          *)
(***************************************************************************)
EXTENDS Integers, CommandRing

CONSTANTS
  Deliveries,    \* command messages the server sends, redeliveries included
  IdOf,          \* [Deliveries -> Ids]: the id a delivery carries
  NameOf,        \* [Ids -> Names]: the verb of a command
  NoId,          \* the empty id
  Restart,       \* service.restart
  Reboot,        \* machine.reboot
  ReadOnly,      \* the verbs that only read
  Serial,        \* pairs of deliveries the server never has in flight together
  Mixes,         \* bound: the sets of deliveries that a behaviour may consist of
  Faults,        \* subset of {"crash", "io", "ack", "abort"}
  RestartDue,    \* ticks the restart-service child needs at most
  RestartGrace,  \* serviceRestartGrace
  RebootDelay,   \* the delay asked for by machine.reboot
  MinNotice,     \* minRebootNoticeWithUser
  RebootGrace,   \* rebootGrace
  MaxHandOffs    \* bound: self-update setups handed off by one process

Names == {Restart, Reboot} \cup ReadOnly

\* wsclient.Destructive
Destructive(name) == name \in {Restart, Reboot}

ASSUME CommandsAssumption ==
  /\ IdOf \in [Deliveries -> Ids]
  /\ NameOf \in [Ids -> Names]
  /\ NoId \in Ids
  /\ Restart # Reboot /\ Restart \notin ReadOnly /\ Reboot \notin ReadOnly
  /\ Serial \subseteq Deliveries \X Deliveries
  /\ Mixes \subseteq SUBSET Deliveries
  /\ Faults \subseteq {"crash", "io", "ack", "abort"}
  /\ {RestartDue, RestartGrace, RebootDelay, MinNotice, RebootGrace} \subseteq Nat
  /\ RestartDue < RestartGrace /\ RebootGrace > 0
  /\ MaxHandOffs \in Nat

VARIABLES
  pc,         \* where the goroutine of each delivery is
  ring,       \* u.commands
  running,    \* u.running: the verbs claimed
  delay,      \* the delay each destructive goroutine settled on
  gate,       \* destructivePending, its deadline (ticks to go), its command id
  installing, \* u.installing
  poll,       \* the poll goroutine
  burst,      \* the welcome burst
  payload,    \* ids in the cached service.started payload
  built,      \* serviceStartedOnce
  records,    \* state.json: the ids of pendingCommands
  sched       \* outside the process: restarts and reboots under way
\* History, read by the properties only:
VARIABLES
  answer,     \* the Ack of each delivery of this process
  executed,   \* how many times each command restarted or rebooted
  began,      \* ids whose execution began: the positive Ack went out
  reported,   \* ids the server received as completed
  lost        \* ids whose report died with its process

process == <<pc, ring, running, delay, gate, installing, poll, burst, payload, built>>
history == <<answer, executed, began, reported, lost>>
vars == <<process, records, sched, history>>

PCs == {"idle", "lookup", "add", "admit", "gate", "refuse", "claim", "ack",
        "run", "record", "commit", "act", "clear", "unrecord", "release", "done"}
Answers == {"none", "accepted", "refused", "dupAccepted", "dupRefused"}

Gates == [pending : BOOLEAN, left : Nat, id : Ids]
Schedules == [on : BOOLEAN, due : Nat]

\* A schedule is off, or on with the ticks left until it takes effect.
Off == [on |-> FALSE, due |-> 0]
On(n) == [on |-> TRUE, due |-> n]

\* The zero values clearDestructivePendingLocked puts back.
NoGate == [pending |-> FALSE, left |-> 0, id |-> NoId]

TypeOK ==
  /\ pc \in [Deliveries -> PCs]
  /\ ring \in Ring
  /\ running \subseteq Names
  /\ delay \in [Deliveries -> Nat]
  /\ gate \in Gates
  /\ installing \in Nat
  /\ poll \in {"idle", "cycle", "setup", "self"}
  /\ burst \in {"none", "build", "send", "done"}
  /\ payload \subseteq Ids
  /\ built \in BOOLEAN
  /\ records \subseteq Ids
  /\ sched \in [Ids -> Schedules]
  /\ answer \in [Deliveries -> Answers]
  /\ executed \in [Ids -> Nat]
  /\ began \subseteq Ids
  /\ reported \subseteq Ids
  /\ lost \subseteq Ids
-----------------------------------------------------------------------------
(* state.json.  Store.update is one critical section: it saves the mutated *)
(* list, or fails (a sharing violation, a full disk) and changes nothing.  *)
Saved(new) == IF "io" \in Faults THEN {new, records} ELSE {new}

\* Mutant of Overdue: the deadline is never enforced.
NeverOverdue == FALSE

(* destructivePendingLocked: an overdue flag is released on the way, and   *)
(* the record of its command goes with it.                                 *)
Overdue == gate.pending /\ gate.left = 0
PendingNow == gate.pending /\ ~Overdue
ReadGate ==
  \/ /\ ~Overdue
     /\ UNCHANGED <<gate, records>>
  \/ /\ Overdue
     /\ gate' = NoGate
     /\ records' \in IF gate.id # NoId THEN Saved(records \ {gate.id}) ELSE {records}
-----------------------------------------------------------------------------
(* One delivery: executeCommand.                                           *)
Goto(d, from, to) == pc[d] = from /\ pc' = [pc EXCEPT ![d] = to]
Answer(d, a) == answer' = [answer EXCEPT ![d] = a]

\* wsclient starts executeCommand on its own goroutine for a command read
\* after welcome.  The server does not send a command again once it has read
\* its id in completed_commands, nor two commands of a serial pair at once.
Deliver(d) ==
  /\ burst # "none"
  /\ IdOf[d] \notin reported
  /\ \A e \in Deliveries : <<d, e>> \in Serial => pc[e] \in {"idle", "done"}
  /\ \E mix \in Mixes : {d} \cup {e \in Deliveries : pc[e] # "idle"} \subseteq mix
  /\ Goto(d, "idle", "lookup")
  /\ UNCHANGED <<ring, running, delay, gate, installing, poll, burst, payload, built,
                 records, sched, history>>

\* A command without an id is refused before the ring is touched; one the
\* ring has seen is answered from it; any other goes on.
Lookup(d) ==
  LET id == IdOf[d] IN
  /\ \/ /\ id = NoId
        /\ Goto(d, "lookup", "done")
        /\ Answer(d, "refused")
     \/ /\ id # NoId /\ id \in ring.seen
        /\ Goto(d, "lookup", "done")
        /\ Answer(d, IF id \in ring.refused THEN "dupRefused" ELSE "dupAccepted")
     \/ /\ id # NoId /\ id \notin ring.seen
        /\ Goto(d, "lookup", "add")
        /\ UNCHANGED answer
  /\ UNCHANGED <<ring, running, delay, gate, installing, poll, burst, payload, built,
                 records, sched, executed, began, reported, lost>>

Add(d) ==
  /\ Goto(d, "add", "admit")
  /\ ring' = RingAdd(ring, IdOf[d])
  /\ UNCHANGED <<running, delay, gate, installing, poll, burst, payload, built,
                 records, sched, history>>

\* admitCommand up to and including the busy check on installing in
\* admitDestructive.  Whether the arguments, the expiry, the policy and the
\* transport let the command through is the server's and the policy's call.
Admit(d) ==
  LET destructive == Destructive(NameOf[IdOf[d]]) IN
  /\ \/ Goto(d, "admit", "refuse")
     \/ ~destructive /\ Goto(d, "admit", "claim")
     \/ destructive /\ installing = 0 /\ Goto(d, "admit", "gate")
  /\ UNCHANGED <<ring, running, delay, gate, installing, poll, burst, payload, built,
                 records, sched, history>>

\* The rest of admitDestructive: busy while a destructive command is pending;
\* a reboot with when_user_active=skip is refused when somebody is there.
AdmitDestructive(d) ==
  /\ \/ PendingNow /\ Goto(d, "gate", "refuse")
     \/ ~PendingNow /\ Goto(d, "gate", "claim")
     \/ ~PendingNow /\ NameOf[IdOf[d]] = Reboot /\ Goto(d, "gate", "refuse")
  /\ ReadGate
  /\ UNCHANGED <<ring, running, delay, installing, poll, burst, payload, built, sched,
                 history>>

\* Mutant of Refuse: the refusal is answered but not remembered.
RefuseForgotten(d) ==
  /\ Goto(d, "refuse", "done")
  /\ Answer(d, "refused")
  /\ UNCHANGED <<ring, running, delay, gate, installing, poll, burst, payload,
                 built, records, sched, executed, began, reported, lost>>

\* commands.refuse, then the negative Ack.
Refuse(d) ==
  /\ Goto(d, "refuse", "done")
  /\ ring' = RingRefuse(ring, IdOf[d])
  /\ Answer(d, "refused")
  /\ UNCHANGED <<running, delay, gate, installing, poll, burst, payload, built,
                 records, sched, executed, began, reported, lost>>

\* Mutant of Claim: the verb is claimed whoever has it.
ClaimUnchecked(d) ==
  /\ Goto(d, "claim", "ack")
  /\ running' = running \cup {NameOf[IdOf[d]]}
  /\ UNCHANGED <<ring, delay, gate, installing, poll, burst, payload, built, records,
                 sched, history>>

\* claimCommand: one command of a verb at a time.
Claim(d) ==
  LET name == NameOf[IdOf[d]] IN
  /\ \/ /\ name \in running
        /\ Goto(d, "claim", "refuse")
        /\ UNCHANGED running
     \/ /\ name \notin running
        /\ Goto(d, "claim", "ack")
        /\ running' = running \cup {name}
  /\ UNCHANGED <<ring, delay, gate, installing, poll, burst, payload, built, records,
                 sched, history>>

\* Mutant of Ack: the early return on a failed write skips the release.
AckKeepsClaim(d) ==
  /\ \/ /\ Goto(d, "ack", IF Destructive(NameOf[IdOf[d]]) THEN "record" ELSE "run")
        /\ Answer(d, "accepted")
        /\ began' = began \cup {IdOf[d]}
     \/ /\ "ack" \in Faults
        /\ Goto(d, "ack", "done")
        /\ UNCHANGED <<answer, began>>
  /\ UNCHANGED <<ring, running, delay, gate, installing, poll, burst, payload,
                 built, records, sched, executed, reported, lost>>

\* The positive Ack.  If it cannot be written the command is given up.
Ack(d) ==
  /\ \/ /\ Goto(d, "ack", IF Destructive(NameOf[IdOf[d]]) THEN "record" ELSE "run")
        /\ Answer(d, "accepted")
        /\ began' = began \cup {IdOf[d]}
     \/ /\ "ack" \in Faults
        /\ Goto(d, "ack", "release")
        /\ UNCHANGED <<answer, began>>
  /\ UNCHANGED <<ring, running, delay, gate, installing, poll, burst, payload, built,
                 records, sched, executed, reported, lost>>

\* runReadOnly, then commands.store and the Result.  A panic is recovered by
\* the goroutine's deferred calls and leaves no result.
Run(d) ==
  /\ Goto(d, "run", "release")
  /\ ring' \in {RingStore(ring, IdOf[d]), ring}
  /\ UNCHANGED <<running, delay, gate, installing, poll, burst, payload, built,
                 records, sched, history>>

\* Mutant of Record: service.restart is not recorded before it acts.
RecordRebootOnly(d) ==
  /\ Goto(d, "record", "commit")
  /\ records' = IF NameOf[IdOf[d]] = Reboot THEN records \cup {IdOf[d]} ELSE records
  /\ UNCHANGED <<ring, running, delay, gate, installing, poll, burst, payload,
                 built, sched, history>>

\* runDestructive: AddPendingCommand.  A failed write ends in fail().
Record(d) ==
  LET new == records \cup {IdOf[d]} IN
  /\ \/ Goto(d, "record", "commit") /\ records' = new
     \/ /\ "io" \in Faults
        /\ Goto(d, "record", "unrecord")
        /\ UNCHANGED records
  /\ UNCHANGED <<ring, running, delay, gate, installing, poll, burst, payload, built,
                 sched, history>>

\* Mutant of Deadline: the grace alone, without the delay it is added to.
DeadlineWithoutDelay(name, n) == IF name = Restart THEN RestartGrace ELSE RebootGrace

\* The delay runDestructive settles on (machine.reboot's is raised to MinNotice
\* when somebody is at the machine) and the deadline it commits with.
Delays(name) ==
  IF name = Restart THEN {RestartDue}
  ELSE {RebootDelay, IF RebootDelay < MinNotice THEN MinNotice ELSE RebootDelay}
Deadline(name, n) == IF name = Restart THEN RestartGrace ELSE n + RebootGrace

\* Mutant of Commit: no second look at installing.
CommitUnchecked(d) ==
  LET name == NameOf[IdOf[d]] IN
  /\ Goto(d, "commit", "act")
  /\ \E n \in Delays(name) :
       /\ delay' = [delay EXCEPT ![d] = n]
       /\ gate' = [pending |-> TRUE, left |-> Deadline(name, n), id |-> IdOf[d]]
  /\ UNCHANGED <<ring, running, installing, poll, burst, payload, built,
                 records, sched, history>>

\* commitDestructive: refused if an install has started, else the flag is set.
Commit(d) ==
  LET name == NameOf[IdOf[d]] IN
  /\ \/ /\ installing > 0
        /\ Goto(d, "commit", "unrecord")
        /\ UNCHANGED <<gate, delay>>
     \/ /\ installing = 0
        /\ Goto(d, "commit", "act")
        /\ \E n \in Delays(name) :
             /\ delay' = [delay EXCEPT ![d] = n]
             /\ gate' = [pending |-> TRUE, left |-> Deadline(name, n), id |-> IdOf[d]]
  /\ UNCHANGED <<ring, running, installing, poll, burst, payload, built,
                 records, sched, history>>

\* restart() or reboot().  Windows refuses a second shutdown while one is in
\* its countdown; either call may fail for reasons of its own.
Countdown == \E i \in Ids : NameOf[i] = Reboot /\ sched[i].on
Act(d) ==
  /\ \/ /\ NameOf[IdOf[d]] = Reboot => ~Countdown
        /\ Goto(d, "act", "release")
        /\ sched' = [sched EXCEPT ![IdOf[d]] = On(delay[d])]
     \/ /\ Goto(d, "act", "clear")
        /\ UNCHANGED sched
  /\ UNCHANGED <<ring, running, delay, gate, installing, poll, burst, payload,
                 built, records, history>>

\* clearDestructivePending, after restart() or reboot() failed.
Clear(d) ==
  /\ Goto(d, "clear", "unrecord")
  /\ gate' = NoGate
  /\ UNCHANGED <<ring, running, delay, installing, poll, burst, payload, built,
                 records, sched, history>>

\* RemovePendingCommand on every failure path.
Unrecord(d) ==
  /\ Goto(d, "unrecord", "release")
  /\ records' \in Saved(records \ {IdOf[d]})
  /\ UNCHANGED <<ring, running, delay, gate, installing, poll, burst, payload, built,
                 sched, history>>

\* The deferred releaseCommand.
Release(d) ==
  /\ Goto(d, "release", "done")
  /\ running' = running \ {NameOf[IdOf[d]]}
  /\ UNCHANGED <<ring, delay, gate, installing, poll, burst, payload, built, records,
                 sched, history>>

Goroutine(d) ==
  \/ Lookup(d) \/ Add(d) \/ Admit(d) \/ AdmitDestructive(d) \/ Refuse(d)
  \/ Claim(d) \/ Ack(d) \/ Run(d) \/ Record(d) \/ Commit(d) \/ Act(d)
  \/ Clear(d) \/ Unrecord(d) \/ Release(d)
-----------------------------------------------------------------------------
(* The poll goroutine, as far as the gate sees it.  Cycle first asks       *)
(* whether a destructive command is pending; the setups, EMLy's own and    *)
(* the updater's, then each claim installing under the gate's lock.        *)
PollUnchanged == UNCHANGED <<pc, ring, running, delay, burst, payload, built,
                             sched, history>>

CycleCheck ==
  /\ poll = "idle"
  /\ poll' = IF PendingNow THEN "idle" ELSE "cycle"
  /\ ReadGate
  /\ UNCHANGED installing
  /\ PollUnchanged

\* A cycle that has nothing to install.
CycleIdle ==
  /\ poll = "cycle" /\ poll' = "idle"
  /\ UNCHANGED <<installing, gate, records>>
  /\ PollUnchanged

\* Mutant of BeginInstall: the check without the claim.
BeginInstallUnclaimed(kind) ==
  /\ poll = "cycle"
  /\ poll' = IF ~PendingNow THEN kind ELSE IF kind = "self" THEN "cycle" ELSE "idle"
  /\ UNCHANGED installing
  /\ ReadGate
  /\ PollUnchanged

\* beginInstall.  A refused self-update leaves Cycle to go on; a refused EMLy
\* install ends the cycle.
BeginInstall(kind) ==
  /\ poll = "cycle"
  /\ \/ /\ PendingNow
        /\ poll' = IF kind = "self" THEN "cycle" ELSE "idle"
        /\ UNCHANGED installing
     \/ /\ ~PendingNow
        /\ poll' = kind
        /\ installing' = installing + 1
  /\ ReadGate
  /\ PollUnchanged

\* Self-update setups this process has launched and not been stopped by yet.
HandedOff == installing - (IF poll \in {"setup", "self"} THEN 1 ELSE 0)

BeginSelf == HandedOff < MaxHandOffs /\ BeginInstall("self")
BeginSetup == BeginInstall("setup")

\* endInstall, after EMLy's setup or after a self-update that did not launch.
EndInstall ==
  /\ poll \in {"setup", "self"}
  /\ poll' = IF poll = "self" THEN "cycle" ELSE "idle"
  /\ installing' = installing - 1
  /\ UNCHANGED <<gate, records>>
  /\ PollUnchanged

\* A self-update setup that launched: installing stays claimed.
HandOff ==
  /\ poll = "self" /\ poll' = "idle"
  /\ UNCHANGED <<installing, gate, records>>
  /\ PollUnchanged

Poll == CycleCheck \/ CycleIdle \/ BeginSelf \/ BeginSetup \/ EndInstall \/ HandOff
-----------------------------------------------------------------------------
(* The welcome burst: service.started with the pending ids, once.          *)
BurstUnchanged == UNCHANGED <<pc, ring, running, delay, gate, installing, poll,
                              sched, answer, executed, began, lost>>

Connect ==
  /\ burst = "none" /\ burst' = "build"
  /\ UNCHANGED <<payload, built, records, reported>>
  /\ BurstUnchanged

\* cachedServiceStarted: TakePendingCommands the first time.  It hands the ids
\* out even when saving the emptied list failed, and none when reading did.
Take ==
  /\ burst = "build" /\ burst' = "send"
  /\ built' = TRUE
  /\ \/ built /\ UNCHANGED <<payload, records>>
     \/ ~built /\ payload' = records /\ records' \in Saved({})
     \/ ~built /\ "io" \in Faults /\ payload' = {} /\ UNCHANGED records
  /\ UNCHANGED reported
  /\ BurstUnchanged

\* The send: received by the server; not sent to a server that does not know
\* the event, or written and lost, which both count as sent; or failed with its
\* connection.
SendStarted ==
  /\ burst = "send"
  /\ \/ burst' = "done" /\ reported' = reported \cup payload
     \/ burst' \in {"done", "none"} /\ UNCHANGED reported
  /\ UNCHANGED <<payload, built, records>>
  /\ BurstUnchanged
-----------------------------------------------------------------------------
(* The world outside the process.                                          *)

\* Mutant of SeedRing: the next process starts with an empty ring.
NoSeed == ring' = EmptyRing

\* seedCommandRing: the ids left in state.json, in the order they have there,
\* are seen (with "io", unless the file could not be read).
SeedRing ==
  \/ \E ids \in SetToSeqs(records) : ring' = RingSeed(ids)
  \/ "io" \in Faults /\ ring' = EmptyRing

\* The process ends and the next one starts: nothing in memory survives, and
\* its ring is seeded.
NewProcess ==
  /\ pc' = [d \in Deliveries |-> IF pc[d] = "idle" THEN "idle" ELSE "done"]
  /\ SeedRing
  /\ running' = {}
  /\ delay' = [d \in Deliveries |-> 0]
  /\ gate' = NoGate
  /\ installing' = 0
  /\ poll' = "idle"
  /\ burst' = "none"
  /\ payload' = {}
  /\ built' = FALSE
  /\ answer' = [d \in Deliveries |-> "none"]
  /\ lost' = lost \cup (payload \ reported)
  /\ UNCHANGED <<records, began, reported>>

\* A restart or a reboot takes effect.  A reboot also ends whatever else was
\* under way on the machine.
TakeEffect(id) ==
  /\ sched[id].on
  /\ NameOf[id] = Reboot => sched[id].due = 0
  /\ sched' = IF NameOf[id] = Reboot THEN [i \in Ids |-> Off]
              ELSE [sched EXCEPT ![id] = Off]
  /\ executed' = [executed EXCEPT ![id] = @ + 1]
  /\ NewProcess

\* A shutdown aborted by hand, or a restart-service child that died.
Abort(id) ==
  /\ "abort" \in Faults
  /\ sched[id].on
  /\ sched' = [sched EXCEPT ![id] = Off]
  /\ UNCHANGED <<process, records, history>>

\* The process dies, or a handed-off self-update setup stops the service.
Crash ==
  /\ "crash" \in Faults \/ HandedOff > 0
  /\ UNCHANGED <<sched, executed>>
  /\ NewProcess

\* Time passes: never past the moment a schedule is due, and not between
\* commitDestructive and the call that follows it.
Tick ==
  /\ \A id \in Ids : sched[id].on => sched[id].due > 0
  /\ \A d \in Deliveries : pc[d] # "act"
  /\ \/ gate.left > 0
     \/ \E id \in Ids : sched[id].on
  /\ gate' = [gate EXCEPT !.left = IF @ > 0 THEN @ - 1 ELSE 0]
  /\ sched' = [id \in Ids |-> [sched[id] EXCEPT !.due = IF @ > 0 THEN @ - 1 ELSE 0]]
  /\ UNCHANGED <<pc, ring, running, delay, installing, poll, burst, payload,
                 built, records, history>>
-----------------------------------------------------------------------------
Init ==
  /\ pc = [d \in Deliveries |-> "idle"]
  /\ ring = EmptyRing
  /\ running = {}
  /\ delay = [d \in Deliveries |-> 0]
  /\ gate = NoGate
  /\ installing = 0
  /\ poll = "idle"
  /\ burst = "none"
  /\ payload = {}
  /\ built = FALSE
  /\ records = {}
  /\ sched = [id \in Ids |-> Off]
  /\ answer = [d \in Deliveries |-> "none"]
  /\ executed = [id \in Ids |-> 0]
  /\ began = {}
  /\ reported = {}
  /\ lost = {}

Next ==
  \/ \E d \in Deliveries : Deliver(d) \/ Goroutine(d)
  \/ Poll
  \/ Connect \/ Take \/ SendStarted
  \/ \E id \in Ids : TakeEffect(id) \/ Abort(id)
  \/ Crash \/ Tick

Spec == Init /\ [][Next]_vars

\* Goroutines run, the poll loop keeps polling, time passes and what Windows
\* has scheduled takes effect.  The server, the network and the faults owe
\* nothing.
Fairness ==
  /\ \A d \in Deliveries : WF_vars(Goroutine(d))
  /\ WF_vars(Poll)
  /\ WF_vars(Tick)
  /\ \A id \in Ids : WF_vars(TakeEffect(id))

FairSpec == Spec /\ Fairness
-----------------------------------------------------------------------------
(* Properties.                                                             *)

\* The promise of destructiveMu: while a setup holds an install claim no
\* restart or reboot is committed, whatever the order of beginInstall,
\* admitDestructive, commitDestructive, the expiry and a failed reboot.
InstallExcludesPending == installing > 0 => ~gate.pending

\* claimCommand and releaseCommand: two goroutines never run the same verb at
\* once, and a verb is held exactly while one runs it - a failure path that
\* forgot to release would leave it busy for the life of the process.
Holding == {"ack", "run", "record", "commit", "act", "clear", "unrecord", "release"}
Holders(name) == {d \in Deliveries : pc[d] \in Holding /\ NameOf[IdOf[d]] = name}
ClaimsExclusive ==
  /\ \A d, e \in Deliveries :
       /\ d # e /\ pc[d] \in Holding /\ pc[e] \in Holding
       => NameOf[IdOf[d]] # NameOf[IdOf[e]]
  /\ running = {name \in Names : Holders(name) # {}}

\* What the flag is for: no setup runs while Windows counts down to a reboot
\* or the restart-service child is about to stop the service.
NoInstallUnderCountdown == installing > 0 => \A id \in Ids : ~sched[id].on

\* The flag of the gate while it is in force (an overdue one holds nobody off),
\* and the commands that are under way outside the process.
InForce == IF gate.pending /\ gate.left > 0 THEN {gate.id} ELSE {}
UnderWay == {id \in Ids : sched[id].on}

Lock == INSTANCE PowerLock WITH
  Commands  <- {id \in Ids : Destructive(NameOf[id])},
  setups    <- installing,
  committed <- InForce,
  counting  <- UnderWay

\* The gate implements the lock, towards a server that sends one destructive
\* command at a time: setups share it, a restart or a reboot holds it alone
\* until it has taken effect, failed or been called off, and what counts down
\* outside the process is what was committed inside it (beginInstall,
\* commitDestructive, the deadline).
ImplementsLock == Lock!Spec

\* The record is written before the action: a restart or reboot under way can
\* be traced by the next process, in state.json or in what this process
\* reports.
ScheduleTraceable ==
  \A id \in Ids : sched[id].on => id \in records \cup payload

\* Dedupe across restarts (seedCommandRing): a command restarts or reboots the
\* machine a second time only if the report of the first time was taken out of
\* state.json and died, unsent, with the process that took it.
AtMostOnceUnlessReportLost == \A id \in Ids : executed[id] > 1 => id \in lost

\* The same without the excuse: no command restarts or reboots twice.
AtMostOnce == \A id \in Ids : executed[id] <= 1

\* Within one process, the deliveries of one id are answered alike: none is
\* told accepted and another refused.
AckConsistent ==
  \A d, e \in Deliveries :
    /\ IdOf[d] = IdOf[e]
    /\ answer[d] \in {"accepted", "dupAccepted"}
    => answer[e] \notin {"refused", "dupRefused"}

\* commandRing: order and results agree, whatever was evicted, and the ring
\* never outgrows commandRingSize.
RingCoherent ==
  /\ Len(ring.order) <= RingSize
  /\ ring.seen = Range(ring.order)
  /\ ring.stored \subseteq ring.seen

\* completed_commands of service.started names only commands that happened.
CompletedMeansExecuted == \A id \in reported : executed[id] > 0

\* A duplicate is confirmed as accepted only for a command that actually ran.
ConfirmedRan == \A d \in Deliveries : answer[d] = "dupAccepted" => IdOf[d] \in began

\* destructiveDeadline: a committed restart or reboot that never happens does
\* not keep the machine busy forever.
PendingHeals == gate.pending ~> ~gate.pending
=============================================================================
