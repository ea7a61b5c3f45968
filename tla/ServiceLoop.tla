----------------------------- MODULE ServiceLoop -----------------------------
(***************************************************************************)
(* The goroutines of the running service and what wakes and stops them:    *)
(* RunLoop and Handler.Execute (internal/service/service.go), the notify   *)
(* wake-ups (clientnotify.go), the machine facts a cycle starts from       *)
(* (sourcepolicy.go) and the session watch (sessionwatch.go, internal/     *)
(* machineinfo/loggeduser.go).                                             *)
(*                                                                         *)
(* What happens inside a cycle, a fetch and the presence channel is in     *)
(* UpdateCycle, RemoteConfig and Presence: here each is a step that ends.  *)
(* A policy document is its revision.  The passing of a delay is a step.   *)
(***************************************************************************)
EXTENDS Integers

CONSTANTS
  Places,       \* the address sets the machine may have, "none" among them
  Ids,          \* WTS session ids that may carry a user
  Attempts,     \* updater.dcLookupRetry.attempts; 0 on a machine outside a domain
  QueueCap,     \* sessionChangeBuffer
  Budgets       \* bound: how often the environment may do each thing

Spendings == {"publish", "fail", "move", "session", "wts", "panic", "stop"}
ASSUME LoopAssumption ==
  /\ "none" \in Places
  /\ Ids \subseteq Nat \ {0}
  /\ Attempts \in Nat
  /\ QueueCap \in Nat \ {0}
  /\ Budgets \subseteq [Spendings -> Nat]

VARIABLES
  proc,         \* the process, as the SCM sees it
  loop,         \* where RunLoop is
  first,        \* its first round
  forced,       \* the force argument of refreshConfig
  panicked,     \* Cycle panicked
  policy,       \* the revision of u.Policy.Current()
  due,          \* the refresh interval has passed since lastConfigAttempt
  site,         \* u.site: the addresses and the domain controller, too old or not
  seen,         \* the addresses resolveHost has read
  tries,        \* lookups left in resolveDC
  cur,          \* u.cur
  forceConfig,
  wake,         \* u.wake holds a reason
  timers,       \* wake-ups that wait out their jitter
  throttled,    \* notifyWakeThrottle has not passed since lastNotifyWake
  presence,     \* the presence supervisor
  ipc,          \* Server.Serve is running
  watch,        \* where watchSessions is
  armed,        \* its settle timer runs
  got,          \* the answer of resolveSession
  prev,         \* the user it reported last
  queue         \* how many session changes wait for it
VARIABLES
  published,    \* the revision the servers serve
  mail,         \* notifies on their way
  net,          \* the addresses of the machine, and whether its domain answers
  sessions,     \* the state of each WTS session
  console,      \* the console session, 0 when there is none
  scm,          \* session changes on their way to Execute
  budget
\* History, read by the properties only:
VARIABLES
  owed,         \* a newer revision was announced and no fetch has begun since
  wakeOwed,     \* a wake-up was allowed and the loop has not left its wait since
  touched,      \* a session has changed since the service started
  blind         \* WTS failed to name the users of some sessions at the last resolve

loopVars == <<loop, first, forced, panicked>>
policyVars == <<policy, due>>
siteVars == <<site, seen, tries>>
wakeVars == <<forceConfig, wake, timers, throttled>>
watchVars == <<watch, armed, got, prev, queue>>
world == <<published, mail, net, sessions, console, scm, budget>>
history == <<owed, wakeOwed, touched, blind>>
vars == <<proc, loopVars, policyVars, siteVars, cur, wakeVars, presence, ipc, watchVars, world, history>>

Nobody == [id |-> 0, state |-> "nobody"]
UserSessions == {Nobody} \cup [id : Ids, state : {"active-console", "active-rdp", "disconnected"}]
Messages == [topic : {"config", "release"}, rev : Nat]
NoDC == "none"

TypeOK ==
  /\ proc \in {"running", "stopping", "stopped", "crashed"}
  /\ loop \in {"swap", "refresh", "fetch", "host", "lookup", "begin", "cycle", "wait", "unwind", "ended"}
  /\ {first, forced, panicked, due, forceConfig, wake, throttled, ipc, armed} \subseteq BOOLEAN
  /\ {policy, published, timers, scm} \subseteq Nat
  /\ site \in [ip : Places, dc : Places, old : BOOLEAN]
  /\ seen \in Places
  /\ tries \in 0 .. Attempts
  /\ cur \in [rev : Nat, ip : Places, dc : Places]
  /\ presence \in {"none", "on", "cancelled", "off"}
  /\ watch \in {"select", "resolving", "off"}
  /\ {got, prev} \subseteq UserSessions
  /\ queue \in 0 .. QueueCap
  /\ mail \subseteq Messages
  /\ net \in [ip : Places, ready : BOOLEAN]
  /\ sessions \in [Ids -> {"empty", "active", "disconnected"}]
  /\ console \in Ids \cup {0}
  /\ budget \in [Spendings -> Nat]
  /\ {owed, wakeOwed, touched, blind} \subseteq BOOLEAN
-----------------------------------------------------------------------------
Init ==
  /\ proc = "running" /\ presence = "none" /\ ipc = TRUE
  /\ loop = "refresh" /\ first = TRUE /\ forced = TRUE /\ panicked = FALSE
  /\ published = 1 /\ policy \in {0, 1} /\ due = TRUE
  /\ site = [ip |-> "none", dc |-> NoDC, old |-> TRUE] /\ seen = "none" /\ tries = 0
  /\ cur = [rev |-> 0, ip |-> "none", dc |-> NoDC]
  /\ forceConfig = FALSE /\ wake = FALSE /\ timers = 0 /\ throttled = FALSE
  /\ watch = "select" /\ armed = FALSE /\ got = Nobody /\ prev = Nobody /\ queue = 0
  /\ mail = {} /\ scm = 0
  /\ net \in [ip : Places \ {"none"}, ready : BOOLEAN]
  /\ sessions = [i \in Ids |-> "empty"] /\ console = 0
  /\ budget \in Budgets
  /\ owed = FALSE /\ wakeOwed = FALSE /\ touched = FALSE /\ blind = FALSE

Alive == proc \in {"running", "stopping"}
Step(from, to) == Alive /\ loop = from /\ loop' = to
Spend(what) == Alive /\ budget[what] > 0 /\ budget' = [budget EXCEPT ![what] = @ - 1]
-----------------------------------------------------------------------------
(* RunLoop: refreshConfig.                                                 *)
Swap ==
  /\ Step("swap", "refresh")
  /\ forced' = forceConfig
  /\ forceConfig' = FALSE
  /\ UNCHANGED <<proc, first, panicked, policyVars, siteVars, cur, wake, timers, throttled, presence, ipc,
                 watchVars, world, history>>

FetchDueForced == forced  \* mutant: only an announced document is fetched
FetchDue == forced \/ due

Refresh ==
  /\ \/ Step("refresh", "fetch") /\ FetchDue /\ due' = FALSE /\ owed' = FALSE
     \/ Step("refresh", "host") /\ ~FetchDue /\ UNCHANGED <<due, owed>>
  /\ UNCHANGED <<proc, first, forced, panicked, policy, siteVars, cur, wakeVars, presence, ipc,
                 watchVars, world, wakeOwed, touched, blind>>

FetchOK ==
  /\ proc = "running"
  /\ Step("fetch", "host")
  /\ policy' = published
  /\ UNCHANGED <<proc, first, forced, panicked, due, siteVars, cur, wakeVars, presence, ipc, watchVars, world,
                 history>>

\* No server answers, or the context has ended.
FetchFails ==
  /\ Step("fetch", "host")
  /\ \/ proc = "running" /\ Spend("fail")
     \/ proc = "stopping" /\ UNCHANGED budget
  /\ UNCHANGED <<proc, first, forced, panicked, policyVars, siteVars, cur, wakeVars, presence, ipc, watchVars,
                 published, mail, net, sessions, console, scm, history>>
-----------------------------------------------------------------------------
(* RunLoop: beginCycle and resolveHost.                                    *)
NeedDCForever(ip) == first \/ ip # site.ip  \* mutant: the cached answer never ages
NeedDC(ip) == first \/ ip # site.ip \/ site.old

\* The controller the network names, when it answers.
Actual == IF net.ready THEN net.ip ELSE NoDC

\* An enumeration that fails counts as no address at all.
Host ==
  /\ \/ seen' = net.ip /\ UNCHANGED budget
     \/ seen' = "none" /\ net.ip # "none" /\ Spend("fail")
  /\ IF NeedDC(seen')
       THEN Step("host", "lookup") /\ tries' = IF first THEN Attempts ELSE 0
       ELSE Step("host", "begin") /\ UNCHANGED tries
  /\ UNCHANGED <<proc, first, forced, panicked, policyVars, site, cur, wakeVars, presence, ipc, watchVars,
                 published, mail, net, sessions, console, scm, history>>

\* resolveDC: a failure is retried while there are attempts left and nobody
\* asked the service to stop.
Retry == Actual = NoDC /\ tries > 0 /\ proc = "running"
Lookup ==
  /\ \/ Retry /\ Step("lookup", "lookup") /\ tries' = tries - 1 /\ UNCHANGED site
     \/ /\ ~Retry
        /\ Step("lookup", "begin")
        /\ site' = [ip |-> seen, dc |-> Actual, old |-> FALSE]
        /\ UNCHANGED tries
  /\ UNCHANGED <<proc, first, forced, panicked, policyVars, seen, cur, wakeVars, presence, ipc, watchVars,
                 world, history>>

\* The cycle is published; after the first one the presence channel starts.
BeginCycle ==
  /\ Step("begin", "cycle")
  /\ cur' = [rev |-> policy, ip |-> seen, dc |-> site.dc]
  /\ presence' = IF first THEN "on" ELSE presence
  /\ first' = FALSE
  /\ UNCHANGED <<proc, forced, panicked, policyVars, siteVars, wakeVars, ipc, watchVars, world, history>>
-----------------------------------------------------------------------------
(* RunLoop: the cycle and the wait after it.                               *)
CycleEnds ==
  /\ Step("cycle", "wait")
  /\ UNCHANGED <<proc, first, forced, panicked, policyVars, siteVars, cur, wakeVars, presence, ipc, watchVars,
                 world, history>>

CyclePanics ==
  /\ Step("cycle", "unwind")
  /\ Spend("panic")
  /\ panicked' = TRUE
  /\ UNCHANGED <<proc, first, forced, policyVars, siteVars, cur, wakeVars, presence, ipc, watchVars,
                 published, mail, net, sessions, console, scm, history>>

\* The three cases of the select.  A stop is ready long before the poll
\* interval is over; a wake-up may be ready as well.
PollTick ==
  /\ proc = "running"
  /\ Step("wait", "swap")
  /\ wakeOwed' = FALSE
  /\ UNCHANGED <<proc, first, forced, panicked, policyVars, siteVars, cur, wakeVars, presence, ipc, watchVars,
                 world, owed, touched, blind>>

Woken ==
  /\ wake
  /\ Step("wait", "swap")
  /\ wake' = FALSE
  /\ wakeOwed' = FALSE
  /\ UNCHANGED <<proc, first, forced, panicked, policyVars, siteVars, cur, forceConfig, timers, throttled,
                 presence, ipc, watchVars, world, owed, touched, blind>>

LoopStopped ==
  /\ proc = "stopping"
  /\ Step("wait", "unwind")
  /\ UNCHANGED <<proc, first, forced, panicked, policyVars, siteVars, cur, wakeVars, presence, ipc, watchVars,
                 world, history>>

\* The deferred call: stopPresence, then presence.Wait.
CancelledNever == "on"  \* mutant: the supervisor shares the service's context
Cancelled == "cancelled"
StopPresence ==
  /\ Alive /\ loop = "unwind"
  /\ presence = "on"
  /\ presence' = Cancelled
  /\ UNCHANGED <<proc, loopVars, policyVars, siteVars, cur, wakeVars, ipc, watchVars, world, history>>

\* A panic goes on to the top of the goroutine and takes the process with it.
LoopEnds ==
  /\ Step("unwind", "ended")
  /\ presence = "off"
  /\ proc' = IF panicked THEN "crashed" ELSE proc
  /\ UNCHANGED <<first, forced, panicked, policyVars, siteVars, cur, wakeVars, presence, ipc, watchVars,
                 world, history>>

\* runClientWS returns when its context ends, and only then.
PresenceEnds ==
  /\ Alive
  /\ presence = "cancelled" \/ (presence = "on" /\ proc = "stopping")
  /\ presence' = "off"
  /\ UNCHANGED <<proc, loopVars, policyVars, siteVars, cur, wakeVars, ipc, watchVars, world, history>>
-----------------------------------------------------------------------------
(* Notifies.  The read goroutine of a connection runs handleNotify.        *)

\* config.published: the revision announced is newer than the cycle's;
\* release.published: releaseConcernsMe, decided by the message.
Concerns(m) == IF m.topic = "config" THEN m.rev > cur.rev ELSE m.rev = 1
AllowNotifyWake == ~throttled
ForcesAllowed(m) == m.topic = "config" /\ Concerns(m) /\ AllowNotifyWake  \* mutant: after the throttle
\* forceConfig is set whether the wake-up is allowed or not.
Forces(m) == m.topic = "config" /\ Concerns(m)

HandleNotify ==
  /\ Alive /\ presence = "on"
  /\ \E m \in mail :
       /\ mail' = mail \ {m}
       /\ forceConfig' = (forceConfig \/ Forces(m))
       /\ owed' = (owed \/ (m.topic = "config" /\ Concerns(m)))
       /\ IF Concerns(m) /\ AllowNotifyWake
            THEN timers' = timers + 1 /\ throttled' = TRUE /\ wakeOwed' = TRUE
            ELSE UNCHANGED <<timers, throttled, wakeOwed>>
  /\ UNCHANGED <<proc, loopVars, policyVars, siteVars, cur, wake, presence, ipc, watchVars, published, net,
                 sessions, console, scm, budget, touched, blind>>

\* The end of a jitter: a send that never blocks into a channel of one.
WakeSentWaiting == loop = "wait"  \* mutant: an unbuffered channel
WakeSent == TRUE
TimerFires ==
  /\ Alive /\ timers > 0
  /\ timers' = timers - 1
  /\ wake' = (wake \/ WakeSent)
  /\ UNCHANGED <<proc, loopVars, policyVars, siteVars, cur, forceConfig, throttled, presence, ipc, watchVars,
                 world, history>>
-----------------------------------------------------------------------------
(* The session watch.                                                      *)

\* pickSession, over the sessions whose user WTS names: an active console, another
\* active session, a disconnected one.  A session whose user cannot be read is
\* skipped; an enumeration that fails reads none.
With(read, state) == {i \in read : sessions[i] = state}
FirstOf(S) == CHOOSE i \in S : \A j \in S : i <= j
PickSession(read) ==
  LET active == With(read, "active")
      left == With(read, "disconnected")
  IN CASE console \in active -> [id |-> console, state |-> "active-console"]
       [] console \notin active /\ active # {} -> [id |-> FirstOf(active), state |-> "active-rdp"]
       [] active = {} /\ left # {} -> [id |-> FirstOf(left), state |-> "disconnected"]
       [] OTHER -> Nobody
AtMachine == PickSession(Ids)

\* Execute hands a notification over without blocking: a full queue drops it.
QueueRoomWaiting == watch = "select"  \* mutant: an unbuffered channel
QueueRoom == queue < QueueCap
QueueSessionChange ==
  /\ proc = "running" /\ scm > 0
  /\ scm' = scm - 1
  /\ queue' = IF QueueRoom THEN queue + 1 ELSE queue
  /\ UNCHANGED <<proc, loopVars, policyVars, siteVars, cur, wakeVars, presence, ipc, watch, armed, got, prev,
                 published, mail, net, sessions, console, budget, history>>

ReceiveChange ==
  /\ Alive /\ watch = "select" /\ queue > 0
  /\ queue' = queue - 1
  /\ armed' = TRUE
  /\ UNCHANGED <<proc, loopVars, policyVars, siteVars, cur, wakeVars, presence, ipc, watch, got, prev,
                 world, history>>

\* The burst has settled: resolveSession asks WTS, whose failures are silent...
Settled ==
  /\ Alive /\ watch = "select" /\ armed
  /\ armed' = FALSE
  /\ watch' = "resolving"
  /\ \E read \in SUBSET Ids :
       /\ got' = PickSession(read)
       /\ blind' = (read # Ids)
       /\ IF read = Ids THEN UNCHANGED budget ELSE Spend("wts")
  /\ UNCHANGED <<proc, loopVars, policyVars, siteVars, cur, wakeVars, presence, ipc, prev, queue, published,
                 mail, net, sessions, console, scm, owed, wakeOwed, touched>>

\* ... and the answer is reported.
Resolved ==
  /\ Alive /\ watch = "resolving"
  /\ watch' = "select"
  /\ prev' = got /\ got' = Nobody
  /\ UNCHANGED <<proc, loopVars, policyVars, siteVars, cur, wakeVars, presence, ipc, armed, queue, world, history>>

WatchEnds ==
  /\ proc = "stopping" /\ watch = "select"
  /\ watch' = "off" /\ armed' = FALSE
  /\ UNCHANGED <<proc, loopVars, policyVars, siteVars, cur, wakeVars, presence, ipc, got, prev, queue,
                 world, history>>
-----------------------------------------------------------------------------
(* Execute: the stop.                                                      *)
IPCEnds ==
  /\ proc = "stopping" /\ ipc
  /\ ipc' = FALSE
  /\ UNCHANGED <<proc, loopVars, policyVars, siteVars, cur, wakeVars, presence, watchVars, world, history>>

Stop ==
  /\ proc = "running" /\ proc' = "stopping"
  /\ Spend("stop")
  /\ UNCHANGED <<loopVars, policyVars, siteVars, cur, wakeVars, presence, ipc, watchVars, published, mail, net,
                 sessions, console, scm, history>>

\* Every goroutine is done, or 30 seconds are over.
Joined == loop = "ended" /\ watch = "off" /\ ~ipc
Stopped ==
  /\ proc = "stopping" /\ proc' = "stopped"
  /\ Joined
  /\ UNCHANGED <<loopVars, policyVars, siteVars, cur, wakeVars, presence, ipc, watchVars, world, history>>
GiveUp ==
  /\ proc = "stopping" /\ proc' = "stopped"
  /\ ~Joined
  /\ UNCHANGED <<loopVars, policyVars, siteVars, cur, wakeVars, presence, ipc, watchVars, world, history>>

Gone == ~Alive /\ UNCHANGED vars
-----------------------------------------------------------------------------
(* The environment and the clock.                                          *)
Mail(topic, rev) == mail' = mail \cup {[topic |-> topic, rev |-> rev]}

\* A document is published, or a release, or the last document once more.
Publish ==
  /\ Spend("publish")
  /\ \/ published' = published + 1 /\ Mail("config", published + 1)
     \/ published' = published /\ Mail("config", published)
     \/ published' = published /\ \E rev \in {0, 1} : Mail("release", rev)
  /\ UNCHANGED <<proc, loopVars, policyVars, siteVars, cur, wakeVars, presence, ipc, watchVars, net, sessions,
                 console, scm, history>>

\* The channel is down, or the notify was sent to another connection.
LoseNotify ==
  /\ Alive
  /\ \E m \in mail : mail' = mail \ {m}
  /\ UNCHANGED <<proc, loopVars, policyVars, siteVars, cur, wakeVars, presence, ipc, watchVars, published, net,
                 sessions, console, scm, budget, history>>

Move ==
  /\ Spend("move")
  /\ net' \in [ip : Places, ready : BOOLEAN] \ {net}
  /\ UNCHANGED <<proc, loopVars, policyVars, siteVars, cur, wakeVars, presence, ipc, watchVars, published, mail,
                 sessions, console, scm, history>>

\* Windows changes a session and tells the SCM.
SessionChange ==
  /\ Spend("session")
  /\ \E i \in Ids, state \in {"empty", "active", "disconnected"} :
       sessions' = [sessions EXCEPT ![i] = state]
  /\ console' \in Ids \cup {0}
  /\ scm' = scm + 1
  /\ touched' = TRUE
  /\ UNCHANGED <<proc, loopVars, policyVars, siteVars, cur, wakeVars, presence, ipc, watchVars, published, mail,
                 net, owed, wakeOwed, blind>>

RefreshInterval ==
  /\ Alive /\ ~due /\ due' = TRUE
  /\ UNCHANGED <<proc, loopVars, policy, siteVars, cur, wakeVars, presence, ipc, watchVars, world, history>>

DCCacheTTL ==
  /\ Alive /\ ~site.old /\ site' = [site EXCEPT !.old = TRUE]
  /\ UNCHANGED <<proc, loopVars, policyVars, seen, tries, cur, wakeVars, presence, ipc, watchVars, world, history>>

NotifyWakeThrottle ==
  /\ Alive /\ throttled /\ throttled' = FALSE
  /\ UNCHANGED <<proc, loopVars, policyVars, siteVars, cur, forceConfig, wake, timers, presence, ipc, watchVars,
                 world, history>>
-----------------------------------------------------------------------------
RunLoop ==
  \/ Swap \/ Refresh \/ FetchOK \/ FetchFails \/ Host \/ Lookup \/ BeginCycle \/ CycleEnds
  \/ PollTick \/ Woken \/ LoopStopped \/ StopPresence \/ LoopEnds
WatchSessions == ReceiveChange \/ Settled \/ Resolved \/ WatchEnds

Next ==
  \/ RunLoop \/ CyclePanics \/ PresenceEnds \/ WatchSessions
  \/ HandleNotify \/ TimerFires
  \/ QueueSessionChange \/ Stop \/ IPCEnds \/ Stopped \/ GiveUp \/ Gone
  \/ Publish \/ LoseNotify \/ Move \/ SessionChange
  \/ RefreshInterval \/ DCCacheTTL \/ NotifyWakeThrottle

Spec == Init /\ [][Next]_vars

\* Every goroutine goes on and every delay ends; nobody owes a stop, a
\* notify or a change.
Fairness ==
  /\ WF_vars(RunLoop) /\ WF_vars(PresenceEnds)
  /\ WF_vars(RefreshInterval) /\ WF_vars(DCCacheTTL)
FairSpec == Spec /\ Fairness
-----------------------------------------------------------------------------
\* Once config.published has announced a newer revision, forceConfig keeps
\* asking for the fetch until one has begun: a notify that meets the
\* throttle, a fetch under way or the Swap of the loop is not lost
\* (handleNotify, RunLoop).
ForceOwed == Alive /\ owed => forceConfig \/ (loop = "refresh" /\ forced)

\* A wake-up that allowNotifyWake let through is a running timer or a token
\* in u.wake until the loop leaves its wait, wherever the loop was when the
\* timer fired (scheduleWake).
WakeOwed == Alive /\ wakeOwed => wake \/ timers > 0

\* When no session change is on its way and nothing is being resolved, the
\* user reported last is the one at the machine, unless WTS failed when it was
\* asked last: a change dropped by a full queue, one that comes while WTS is
\* asked, and a failure before the last change are made up for
\* (queueSessionChange, watchSessions, LoggedUser).
SessionsSettle ==
  touched /\ proc = "running" /\ scm = 0 /\ queue = 0 /\ ~armed /\ watch = "select"
    => prev = AtMachine \/ blind

\* The cycles of a service that goes on running come to use the document
\* published last, with every notify lost and after fetches that failed
\* (refreshConfig's interval).
RevisionArrives == <>[](proc # "running" \/ cur.rev = published)

\* ... and the addresses and the domain controller of the network the
\* machine is in, after a boot that was too early for the lookup and after
\* moves (resolveHost, dcCacheTTL).
SiteFollows == <>[](proc # "running" \/ (cur.ip = net.ip /\ cur.dc = Actual))

\* RunLoop never stays in its deferred wait: after a panic in Cycle too the
\* presence channel ends and the goroutine with it (RunLoop).
Unwinds == loop = "unwind" ~> (loop = "ended" \/ ~Alive)
=============================================================================
