------------------------------ MODULE Presence ------------------------------
(***************************************************************************)
(* Which server a machine talks to: the chain of the current cycle and the *)
(* preferred server the poll loop finds by resolving its two manifests     *)
(* (internal/service/preferred.go, internal/source/resolver.go), and the   *)
(* supervisor that keeps the presence channel on the head of that chain    *)
(* (internal/service/clientws.go, internal/wsclient/client.go).            *)
(*                                                                         *)
(* Three goroutines run here: the poll loop, the supervisor, and one       *)
(* watcher for each connection attempt, which may linger after it.  They   *)
(* share u.cur, u.preferred and the wake channel of capacity one.  Delays  *)
(* (backoff, watch interval, the hour a mark lasts) are steps that end.    *)
(***************************************************************************)
EXTENDS Integers, SequencesExt

CONSTANTS
  Servers,
  None,
  Policies,     \* what beginCycle may find: [chain : Seq(Servers), enabled : BOOLEAN]
  FirstPolicy,
  Conditions,   \* subset of {"ok", "down", "nodoc", "noroute", "banned"}
  MaxChanges,   \* bound: changes of the policy or of a server
  MaxLosses     \* bound: connections lost without a cause seen elsewhere

ASSUME PresenceAssumption ==
  /\ None \notin Servers
  /\ Policies \subseteq [chain : Seq(Servers), enabled : BOOLEAN]
  /\ \A p \in Policies : p.chain # <<>>
  /\ FirstPolicy \in Policies
  /\ "ok" \in Conditions
  /\ Conditions \subseteq {"ok", "down", "nodoc", "noroute", "banned"}
  /\ {MaxChanges, MaxLosses} \subseteq Nat

VARIABLES
  policy,     \* the document and the site facts, as the next beginCycle sees them
  srv,        \* the condition of each server
  cur,        \* u.cur
  preferred,  \* u.preferred
  wake,       \* u.clientWSWake holds a token
  poll,       \* the poll loop: its step, its document, servers left to ask, PrimaryErr
  sup,        \* where the supervisor is
  loaded,     \* the cycle its clientWSTarget has loaded
  target,     \* the server of its attempt
  result,     \* what Client.Run returned
  marks,      \* unsupported
  watching,   \* the watcher of the attempt is running
  cancelled,  \* it has cancelled the attempt
  lingering,  \* a watcher of an earlier attempt has not seen its context end yet
  budget      \* what is left of MaxChanges and MaxLosses
\* History, read by the properties only:
VARIABLES
  served,     \* the server that served EMLy's manifest last
  rested,     \* the supervisor has waited since its last attempt
  last        \* the server of its last attempt, None after one its watcher cut

world == <<policy, srv>>
shared == <<cur, preferred, wake>>
attempt == <<target, result, watching, cancelled>>
vars == <<world, shared, poll, sup, loaded, attempt, marks, lingering, budget, served, rested, last>>

Docs == {"updater", "emly"}
Maybe == Servers \cup {None}

TypeOK ==
  /\ policy \in Policies
  /\ cur \in Policies
  /\ loaded \in Policies
  /\ srv \in [Servers -> Conditions]
  /\ {preferred, target, served, last} \subseteq Maybe
  /\ {wake, watching, cancelled, lingering, rested} \subseteq BOOLEAN
  /\ poll \in [pc : {"idle", "order", "ask", "note", "wake"}, doc : Docs,
               left : Seq(Servers), perr : {"none", "404", "other"}]
  /\ sup \in {"jitter", "load", "read", "dial", "up", "ended", "idle"}
  /\ result \in {"none", "404", "failed", "lost"}
  /\ marks \subseteq Servers
  /\ budget \in [changes : Nat, losses : Nat]
-----------------------------------------------------------------------------
(* preferredChain: the preferred server moves to the head; one the chain   *)
(* does not list is forgotten on the way.                                  *)
Lists(cyc, s) == \E n \in DOMAIN cyc.chain : cyc.chain[n] = s
PreferredChain(cyc) ==
  IF Lists(cyc, preferred)
    THEN <<preferred>> \o RemoveFirst(cyc.chain, preferred)
    ELSE cyc.chain
Forget(cyc) == preferred' = IF Lists(cyc, preferred) THEN preferred ELSE None

\* clientWSTarget of a cycle: None stands for the zero target.
TargetOf(cyc) == IF cyc.enabled THEN Head(PreferredChain(cyc)) ELSE None
ForgetIfRead(cyc) == IF cyc.enabled THEN Forget(cyc) ELSE UNCHANGED preferred
-----------------------------------------------------------------------------
(* The environment.                                                        *)
Spend(what) == budget[what] > 0 /\ budget' = [budget EXCEPT ![what] = @ - 1]

Change ==
  /\ Spend("changes")
  /\ \/ policy' \in Policies \ {policy} /\ UNCHANGED srv
     \/ /\ \E s \in Servers, c \in Conditions : srv[s] # c /\ srv' = [srv EXCEPT ![s] = c]
        /\ UNCHANGED policy
  /\ UNCHANGED <<shared, poll, sup, loaded, attempt, marks, lingering, served, rested, last>>
-----------------------------------------------------------------------------
(* The poll loop: a cycle resolves the updater's manifest, then EMLy's.    *)
PollStep(from, to) == poll.pc = from /\ poll' = [poll EXCEPT !.pc = to]

\* beginCycle publishes the cycle.
BeginCycle ==
  /\ poll.pc = "idle"
  /\ cur' = policy
  /\ poll' = [poll EXCEPT !.pc = "order", !.doc = "updater"]
  /\ UNCHANGED <<world, preferred, wake, sup, loaded, attempt, marks, lingering, budget, served, rested, last>>

\* newResolver.
NewResolver ==
  /\ poll.pc = "order"
  /\ poll' = [poll EXCEPT !.pc = "ask", !.left = PreferredChain(cur), !.perr = "none"]
  /\ Forget(cur)
  /\ UNCHANGED <<world, cur, wake, sup, loaded, attempt, marks, lingering, budget, served, rested, last>>

\* One fetch of a document, the last of its retries.
Fetch(s) ==
  CASE srv[s] = "down" -> "other"
    [] srv[s] = "nodoc" /\ poll.doc = "updater" -> "404"
    [] OTHER -> "served"

\* The end of a document's resolution: on to EMLy's manifest, or sleep.
NextDoc == IF poll.doc = "updater" THEN [poll EXCEPT !.pc = "order", !.doc = "emly"]
                                   ELSE [poll EXCEPT !.pc = "idle"]
IfEMLy(s) == IF poll.doc = "emly" THEN s ELSE served

\* resolveWith: the primary, then each fallback.  PrimaryErr is that of the
\* first server asked.
Ask ==
  LET s == Head(poll.left)
      answer == Fetch(s)
  IN /\ poll.pc = "ask"
     /\ \/ /\ answer = "served"
           /\ poll' = [poll EXCEPT !.pc = "note"]
           /\ served' = IfEMLy(s)
        \/ /\ answer # "served" /\ Len(poll.left) > 1
           /\ poll' = [poll EXCEPT !.left = Tail(@), !.perr = IF @ = "none" THEN answer ELSE @]
           /\ UNCHANGED served
        \/ /\ answer # "served" /\ Len(poll.left) = 1
           /\ poll' = NextDoc
           /\ served' = IfEMLy(None)
     /\ UNCHANGED <<world, shared, sup, loaded, attempt, marks, lingering, budget, rested, last>>

\* Mutant of Noted: a backup that answers is never preferred.
NotedNever(s) == None

\* The preference after s served a document.
Noted(s) == IF s = Head(cur.chain) THEN None ELSE s

\* notePreferredServer.
Note ==
  LET s == Head(poll.left)
  IN /\ poll.pc = "note"
     /\ \/ /\ poll.perr = "404" \/ Noted(s) = preferred
           /\ poll' = NextDoc
           /\ UNCHANGED preferred
        \/ /\ poll.perr # "404" /\ Noted(s) # preferred
           /\ preferred' = Noted(s)
           /\ poll' = [poll EXCEPT !.pc = "wake"]
     /\ UNCHANGED <<world, cur, wake, sup, loaded, attempt, marks, lingering, budget, served, rested, last>>

\* wakeClientWS: a token already in the channel covers this one.
WakeClientWS ==
  /\ poll.pc = "wake"
  /\ wake' = TRUE
  /\ poll' = NextDoc
  /\ UNCHANGED <<world, cur, preferred, sup, loaded, attempt, marks, lingering, budget, served, rested, last>>

PollLoop == BeginCycle \/ NewResolver \/ Ask \/ Note \/ WakeClientWS
-----------------------------------------------------------------------------
(* The supervisor: runClientWS.                                            *)
SupStep(from, to) == sup = from /\ sup' = to

\* The initial jitter takes no wake-up.
Jitter ==
  /\ SupStep("jitter", "load")
  /\ UNCHANGED <<world, shared, poll, loaded, attempt, marks, lingering, budget, served, rested, last>>

\* clientWSTarget loads the cycle ...
Load ==
  /\ SupStep("load", "read")
  /\ loaded' = cur
  /\ UNCHANGED <<world, shared, poll, attempt, marks, lingering, budget, served, rested, last>>

\* ... and then reads the preference.  Nothing to connect to, or a server
\* marked as not serving the endpoint: idle.  Else an attempt with its watcher.
Read ==
  LET t == TargetOf(loaded)
  IN /\ ForgetIfRead(loaded)
     /\ \/ /\ t \in marks \cup {None}
           /\ SupStep("read", "idle")
           /\ UNCHANGED <<attempt, rested, last>>
        \/ /\ t \notin marks \cup {None}
           /\ SupStep("read", "dial")
           /\ target' = t
           /\ watching' = TRUE /\ cancelled' = FALSE /\ result' = "none"
           /\ rested' = FALSE /\ last' = t
     /\ UNCHANGED <<world, cur, wake, poll, loaded, marks, lingering, budget, served>>

\* The server upgrades, and says hello.
WSWorks(s) == srv[s] \in {"ok", "nodoc"}

\* Client.Run: the dial, then hello and identity.  The upgrade is refused with
\* 404 or 403, cannot be made, is cancelled, or the connection is up.
Dial ==
  /\ sup = "dial"
  /\ \/ /\ WSWorks(target) /\ ~cancelled
        /\ sup' = "up"
        /\ UNCHANGED result
     \/ /\ ~WSWorks(target) \/ cancelled
        /\ sup' = "ended"
        /\ result' = IF srv[target] = "noroute" THEN "404" ELSE "failed"
  /\ UNCHANGED <<world, shared, poll, loaded, target, watching, cancelled, marks, lingering, budget,
                 served, rested, last>>

\* heartbeat returns: the context ended, or nothing came for the idle timeout,
\* or (budget) the connection was lost on its own.
Lose ==
  /\ SupStep("up", "ended")
  /\ result' = "lost"
  /\ \/ (cancelled \/ srv[target] = "down") /\ UNCHANGED budget
     \/ Spend("losses")
  /\ UNCHANGED <<world, shared, poll, loaded, target, watching, cancelled, marks, lingering,
                 served, rested, last>>

\* Mutant of WatcherCancelled: the context is read after the supervisor's own
\* cancel.
WatcherCancelledAlways == TRUE

\* connCtx.Err(), read before cancel().
WatcherCancelled == cancelled

\* unsupported, with the server that has just answered 404.
Marked == marks \cup {target}

\* Run has returned: what to do next.
Ended ==
  /\ sup = "ended"
  /\ sup' = IF WatcherCancelled \/ result = "404" THEN "load" ELSE "idle"
  /\ marks' = IF ~WatcherCancelled /\ result = "404" THEN Marked ELSE marks
  /\ last' = IF cancelled THEN None ELSE last
  /\ lingering' = (lingering \/ watching)
  /\ watching' = FALSE
  /\ UNCHANGED <<world, shared, poll, loaded, target, result, cancelled, budget, served, rested>>

\* clientWSIdle ends with its timer or with a wake-up.
Idle ==
  /\ SupStep("idle", "load")
  /\ wake' \in {wake, FALSE}
  /\ rested' = TRUE
  /\ UNCHANGED <<world, cur, preferred, poll, loaded, attempt, marks, lingering, budget, served, last>>

\* The hour of a mark is over, while the supervisor waits or is connected.
Expire ==
  /\ sup \in {"idle", "up"}
  /\ \E s \in marks : marks' = marks \ {s}
  /\ UNCHANGED <<world, shared, poll, sup, loaded, attempt, lingering, budget, served, rested, last>>

Supervisor == Jitter \/ Load \/ Read \/ Dial \/ Lose \/ Ended \/ Idle
-----------------------------------------------------------------------------
(* watchClientWSTarget.                                                    *)

\* Mutant of Moved: only a move to another server is followed.
MovedIfEnabled == TargetOf(cur) \notin {target, None}

\* The cycle points elsewhere, or nowhere.
Moved == TargetOf(cur) # target

\* A tick, or a wake-up, which the watcher consumes.
Watch ==
  /\ watching
  /\ wake' \in {wake, FALSE}
  /\ ForgetIfRead(cur)
  /\ cancelled' = (cancelled \/ Moved)
  /\ watching' = ~Moved
  /\ UNCHANGED <<world, cur, poll, sup, loaded, target, result, marks, lingering, budget, served, rested, last>>

\* A watcher whose context has ended may still see a tick or a wake-up first.
Linger ==
  /\ lingering
  /\ \/ lingering' = FALSE /\ UNCHANGED <<wake, preferred>>
     \/ /\ wake' \in {wake, FALSE}
        /\ ForgetIfRead(cur)
        /\ UNCHANGED lingering
  /\ UNCHANGED <<world, cur, poll, sup, loaded, attempt, marks, budget, served, rested, last>>
-----------------------------------------------------------------------------
Init ==
  /\ policy = FirstPolicy /\ cur = FirstPolicy /\ loaded = FirstPolicy
  /\ srv = [s \in Servers |-> "ok"]
  /\ preferred = None /\ wake = FALSE
  /\ poll = [pc |-> "order", doc |-> "updater", left |-> <<>>, perr |-> "none"]
  /\ sup = "jitter" /\ target = None /\ result = "none" /\ marks = {}
  /\ watching = FALSE /\ cancelled = FALSE /\ lingering = FALSE
  /\ budget = [changes |-> MaxChanges, losses |-> MaxLosses]
  /\ served = None /\ rested = TRUE /\ last = None

Next == Change \/ PollLoop \/ Supervisor \/ Expire \/ Watch \/ Linger

Spec == Init /\ [][Next]_vars

\* The goroutines run, their timers fire, an ended context is noticed, and an
\* hour passes although the supervisor looks around in between.
Fairness ==
  /\ WF_vars(PollLoop)
  /\ WF_vars(Jitter \/ Load \/ Read \/ Dial \/ Ended \/ Idle)
  /\ WF_vars(Lose /\ UNCHANGED budget)
  /\ SF_vars(Expire) /\ WF_vars(Watch)
  /\ WF_vars(Linger /\ ~lingering')

FairSpec == Spec /\ Fairness
-----------------------------------------------------------------------------
(* Properties.                                                             *)

\* What clientWSTarget promises: once things stay as they are, the channel is
\* on the server that serves EMLy's manifest - it follows a backup, a new
\* chain and the return of the head, whatever wake-ups are dropped, stolen by
\* a lingering watcher or arrive while nobody waits.
SameServer ==
  <>[](served # None /\ cur.enabled /\ WSWorks(served) => sup = "up" /\ target = served)

\* The kill switch: a document that turns the channel off closes a connection
\* that would otherwise last for days.
SwitchedOff == <>[](~policy.enabled => sup # "up")

\* Only a watcher's cancellation, which follows a change of the target, spares
\* the supervisor its wait: a server that fails or refuses is not dialled
\* twice without one in between.
NoStorm == [][sup # "dial" /\ sup' = "dial" => rested \/ last # target']_vars

\* A preference lasts until the head answers again or the chain of the current
\* cycle no longer lists it.
PreferenceStands ==
  [][preferred # None /\ preferred' = None => ~Lists(cur, preferred) \/ poll.pc = "note"]_vars

\* A wake-up that nobody has answered is still in the channel: the target of an
\* idle supervisor is the one it found, or a wake-up is on its way.
WakeKept ==
  [][wake /\ ~wake' => (sup = "idle" /\ sup' = "load") \/ watching]_vars
=============================================================================
