---------------------------- MODULE ClientEvents ----------------------------
(***************************************************************************)
(* The events of the client channel: emit and its buffer, the welcome      *)
(* burst, the published session and its generation (internal/service/      *)
(* clientevents.go), which update events are emitted at all (internal/     *)
(* service/clientupdates.go), and a v2 session as its writers see it       *)
(* (internal/wsclient/session.go).                                         *)
(*                                                                         *)
(* Three kinds of goroutines run here: the supervisor that opens one       *)
(* connection after another, a welcome burst for every connection that was *)
(* welcomed - it may outlive its connection - and the emitters, the poll   *)
(* goroutine and watchSessions.  A step is one critical section, one       *)
(* atomic access or one write on a socket.                                 *)
(*                                                                         *)
(* wsGen only ever grows and is only compared for equality: a generation   *)
(* is a name nobody still uses, None between connections.                  *)
(***************************************************************************)
EXTENDS Integers, Sequences, FiniteSets

CONSTANTS
  Gens,        \* bound: connections in use at once, by a burst, an emitter or Run
  None,        \* no generation, no session, no event
  Available,   \* update.available, one for each version on offer
  Failed,      \* update.failed, one for each distinct occurrence
  Session,     \* session.changed
  Started,     \* service.started
  Welcomes,    \* the sets of names a server may leave out of its welcome
  TooLarge,    \* names whose payload is over the servers' max_message_bytes
  BufferSize,  \* eventBufferSize
  MaxEmits     \* bound: events each emitter emits, [Emitters -> Nat]

Poll == "poll"
Watch == "watch"
Emitters == {Poll, Watch}
Events == Available \cup Failed \cup {Session}

ASSUME EventsAssumption ==
  /\ IsFiniteSet(Gens) /\ None \notin Gens /\ None \notin Events
  /\ Session \notin Available \cup Failed
  /\ Available \cap Failed = {}
  /\ Started \notin Events
  /\ Welcomes \subseteq SUBSET (Events \cup {Started})
  /\ TooLarge \subseteq Events \cup {Started}
  /\ BufferSize \in Nat \ {0} /\ MaxEmits \in [Emitters -> Nat]

VARIABLES
  wsGen,      \* u.wsGen
  wsSession,  \* u.wsSession, by the generation of its connection
  open,       \* wsclient.Client.Run is running for wsGen
  welcomed,   \* its connection was switched to v2
  refused,    \* what its server, or that of an older burst, did not accept
  live,       \* the generation whose socket can still be written, or None
  burst,      \* where the welcome burst of each generation is
  taken,      \* the buffer its flushEvents has taken and not sent yet
  startedSent,
  eventBuf,
  emitter,    \* where each emitter is, its event, the session it loaded
  announced,  \* u.announced of one target
  reported    \* u.updateFailed
\* History, read by the properties only:
VARIABLES
  emitted,    \* how often each event was handed to emit and not dropped there
  delivered,  \* how often it was written to a server
  dropped,  \* how often it was pushed out of the full buffer or given up
  starts,     \* how often service.started was written
  lapped,     \* a burst skipped service.started while another was writing it
  declined,   \* a server did not accept service.started, which stays unsent
  quota       \* events each emitter may still emit

conn == <<wsGen, wsSession, open, welcomed, refused, live>>
bursts == <<burst, taken, startedSent>>
dedupe == <<announced, reported>>
history == <<emitted, delivered, dropped, starts, lapped, declined, quota>>
vars == <<conn, bursts, eventBuf, emitter, dedupe, history>>

BurstPCs == {"none", "swap", "started", "take1", "flush1", "store", "take2", "flush2", "info"}
Idle == [pc |-> "idle", ev |-> None, sess |-> None]

TypeOK ==
  /\ {wsGen, wsSession, live} \subseteq Gens \cup {None}
  /\ {open, welcomed, startedSent, lapped, declined} \subseteq BOOLEAN
  /\ refused \in [Gens -> SUBSET (Events \cup {Started})]
  /\ burst \in [Gens -> BurstPCs]
  /\ taken \in [Gens -> Seq(Events)]
  /\ eventBuf \in Seq(Events)
  /\ emitter \in [Emitters -> [pc : {"idle", "send", "buffer"}, ev : Events \cup {None},
                               sess : Gens \cup {None}]]
  /\ announced \in Available \cup {None}
  /\ reported \subseteq Failed
  /\ {emitted, delivered, dropped} \subseteq [Events -> Nat]
  /\ starts \in Nat
  /\ quota \in [Emitters -> Nat]
-----------------------------------------------------------------------------
Bump(f, k) == [f EXCEPT ![k] = @ + 1]

(* Session.write.  On a connection that is gone it fails; on a live one it *)
(* succeeds or fails, and a write that fails closes the connection.        *)
WriteOK(g) == g # None /\ live = g /\ UNCHANGED live
WriteFails(g) == live' = IF live = g THEN None ELSE live

Delivered(k) == delivered' = Bump(delivered, k)
-----------------------------------------------------------------------------
(* The supervisor, as far as the session goes: one connection at a time.   *)

\* nextWSGeneration and the dial.  A connection that cannot be established
\* is one that drops before its welcome.
Open ==
  /\ ~open
  /\ \E g \in Gens :
       /\ burst[g] = "none"
       /\ \A e \in Emitters : emitter[e].sess # g
       /\ wsGen' = g /\ live' = g
  /\ open' = TRUE /\ welcomed' = FALSE
  /\ UNCHANGED <<wsSession, refused, bursts, eventBuf, emitter, dedupe, history>>

\* Mutant of Welcome: the session is published before the burst.
WelcomePublishes ==
  /\ open /\ live = wsGen /\ ~welcomed
  /\ welcomed' = TRUE
  /\ \E w \in Welcomes : refused' = [refused EXCEPT ![wsGen] = w]
  /\ burst' = [burst EXCEPT ![wsGen] = "swap"]
  /\ wsSession' = wsGen
  /\ UNCHANGED <<wsGen, open, live, taken, startedSent, eventBuf, emitter, dedupe, history>>

\* heartbeat reads the first welcome: Handler.Welcome starts the burst on a
\* goroutine of its own and returns.
Welcome ==
  /\ open /\ live = wsGen /\ ~welcomed
  /\ welcomed' = TRUE
  /\ \E w \in Welcomes : refused' = [refused EXCEPT ![wsGen] = w]
  /\ burst' = [burst EXCEPT ![wsGen] = "swap"]
  /\ UNCHANGED <<wsGen, wsSession, open, live, taken, startedSent, eventBuf, emitter, dedupe, history>>

\* The network, the server or the watcher ends the connection.
Drop ==
  /\ live # None
  /\ live' = None
  /\ UNCHANGED <<wsGen, wsSession, open, welcomed, refused, bursts, eventBuf, emitter, dedupe, history>>

\* Mutant of RetiredGen: the generation moves on with the next attempt only.
RetiredGenKept == wsGen

\* clearWSSession advances wsGen past the connection it retires.
RetiredGen == None

\* Run has returned: clearWSSession.
Clear ==
  /\ open /\ live # wsGen
  /\ open' = FALSE
  /\ wsGen' = RetiredGen
  /\ wsSession' = None
  /\ UNCHANGED <<welcomed, refused, live, bursts, eventBuf, emitter, dedupe, history>>
-----------------------------------------------------------------------------
(* emit.                                                                   *)

\* markUpdateFailed: a failure is reported once per process.
NewFailure(k) == k \notin reported

\* announceUpdate only remembers the last version announced for a target.
NewOffer(k) == announced # k

\* Mutant of Remembered: any event is taken for the announced version.
RememberedAny(k) == k

\* u.announced after event k.
Remembered(k) == IF k \in Available THEN k ELSE announced

\* What each goroutine has to report, past its own filter.
Reportable(e, k) ==
  \/ e = Watch /\ k = Session
  \/ e = Poll /\ k \in Available /\ NewOffer(k)
  \/ e = Poll /\ k \in Failed /\ NewFailure(k)

\* emit loads the session: session.changed without one, and what the server
\* did not accept, is dropped; without a session the event goes to the buffer.
Emit(e, k) ==
  LET unwanted == IF wsSession = None THEN k = Session ELSE k \in refused[wsSession]
      next == IF wsSession = None THEN "buffer" ELSE "send"
  IN /\ quota[e] > 0 /\ emitter[e] = Idle
     /\ Reportable(e, k)
     /\ quota' = [quota EXCEPT ![e] = @ - 1]
     /\ announced' = Remembered(k)
     /\ reported' = IF k \in Failed THEN reported \cup {k} ELSE reported
     /\ \/ unwanted /\ UNCHANGED <<emitter, emitted>>
        \/ /\ ~unwanted
           /\ emitter' = [emitter EXCEPT ![e] = [pc |-> next, ev |-> k, sess |-> wsSession]]
           /\ emitted' = Bump(emitted, k)
     /\ UNCHANGED <<conn, bursts, eventBuf, delivered, dropped, starts, lapped, declined>>

\* Session.Event on the session emit loaded.
EmitSend(e) ==
  LET k == emitter[e].ev
      g == emitter[e].sess
  IN /\ emitter[e].pc = "send"
     /\ \/ /\ k \in TooLarge
           /\ dropped' = Bump(dropped, k)
           /\ emitter' = [emitter EXCEPT ![e] = Idle]
           /\ UNCHANGED <<live, delivered>>
        \/ /\ k \notin TooLarge /\ WriteOK(g)
           /\ Delivered(k)
           /\ emitter' = [emitter EXCEPT ![e] = Idle]
           /\ UNCHANGED dropped
        \/ /\ k \notin TooLarge /\ WriteFails(g)
           /\ emitter' = [emitter EXCEPT ![e].pc = "buffer", ![e].sess = None]
           /\ UNCHANGED <<delivered, dropped>>
     /\ UNCHANGED <<wsGen, wsSession, open, welcomed, refused, bursts, eventBuf, dedupe, emitted, starts, lapped, declined, quota>>

\* The oldest go first when the buffer fills, under eventsMu.
Trimmed(buf) ==
  IF Len(buf) > BufferSize THEN SubSeq(buf, Len(buf) - BufferSize + 1, Len(buf)) ELSE buf

Places(s, k) == {n \in DOMAIN s : s[n] = k}
Occurrences(s, k) == Cardinality(Places(s, k))

EmitBuffer(e) ==
  LET buf == Append(eventBuf, emitter[e].ev)
  IN /\ emitter[e].pc = "buffer"
     /\ eventBuf' = Trimmed(buf)
     /\ dropped' = [k \in Events |->
          dropped[k] + Occurrences(buf, k) - Occurrences(Trimmed(buf), k)]
     /\ emitter' = [emitter EXCEPT ![e] = Idle]
     /\ UNCHANGED <<conn, bursts, dedupe, emitted, delivered, starts, lapped, declined, quota>>
-----------------------------------------------------------------------------
(* handleWelcomeBurst of generation g.                                     *)
Step(g, from, to) == burst[g] = from /\ burst' = [burst EXCEPT ![g] = to]

\* Mutant of Unsent: the flag is set and never looked at.
UnsentAlways == TRUE

\* What startedSent.CompareAndSwap finds.
Unsent == ~startedSent

Swap(g) ==
  /\ startedSent' = TRUE
  /\ \/ Unsent /\ Step(g, "swap", "started") /\ UNCHANGED lapped
     \/ /\ ~Unsent /\ Step(g, "swap", "take1")
        /\ lapped' = (lapped \/ \E h \in Gens : burst[h] = "started")
  /\ UNCHANGED <<conn, taken, eventBuf, emitter, dedupe, emitted, delivered, dropped, starts,
                 declined, quota>>

\* Mutant of StartedAfterFailure: a failed write is not taken back.
StartedAfterFailureKept == TRUE

\* What startedSent is after a write that failed.
StartedAfterFailure == FALSE

\* wsSend of service.started.  Not sent to a server that did not accept it,
\* which counts as sent; too large, which counts as failed; or written.
SendStarted(g) ==
  /\ Step(g, "started", "take1")
  /\ \/ /\ Started \in refused[g]
        /\ declined' = TRUE
        /\ UNCHANGED <<live, startedSent, starts>>
     \/ /\ Started \notin refused[g] \cup TooLarge /\ WriteOK(g)
        /\ starts' = starts + 1
        /\ UNCHANGED <<startedSent, declined>>
     \/ /\ Started \notin refused[g]
        /\ IF Started \in TooLarge THEN UNCHANGED live ELSE WriteFails(g)
        /\ startedSent' = StartedAfterFailure
        /\ UNCHANGED <<starts, declined>>
  /\ UNCHANGED <<wsGen, wsSession, open, welcomed, refused, taken, eventBuf, emitter, dedupe,
                 emitted, delivered, dropped, lapped, quota>>

\* Mutant of Remaining: the flush works on a copy, the buffer keeps its events.
RemainingCopied == eventBuf

\* What a flush leaves in the buffer when it takes it.
Remaining == <<>>

\* flushEvents takes the buffer under eventsMu.
Take(g) ==
  /\ Step(g, "take1", "flush1") \/ Step(g, "take2", "flush2")
  /\ taken' = [taken EXCEPT ![g] = eventBuf]
  /\ eventBuf' = Remaining
  /\ UNCHANGED <<conn, startedSent, emitter, dedupe, history>>

Flushing(g) == burst[g] \in {"flush1", "flush2"}
AfterFlush(g) == IF burst[g] = "flush1" THEN "store" ELSE "info"

\* Mutant of Hopeless: an event over the limit is kept for another try.
HopelessNever(g, k) == k \in refused[g]

\* Events a flush drops instead of keeping them at the head.
Hopeless(g, k) == k \in refused[g] \cup TooLarge

\* One event of a flush: dropped when the server does not want it or it is too
\* large, written, or - the write failed - put back with the rest in front of
\* what was buffered since.
FlushOne(g) ==
  LET k == Head(taken[g])
  IN /\ Flushing(g) /\ taken[g] # <<>>
     /\ \/ /\ Hopeless(g, k)
           /\ taken' = [taken EXCEPT ![g] = Tail(@)]
           /\ dropped' = Bump(dropped, k)
           /\ UNCHANGED <<live, burst, eventBuf, delivered>>
        \/ /\ ~Hopeless(g, k) /\ k \notin TooLarge /\ WriteOK(g)
           /\ taken' = [taken EXCEPT ![g] = Tail(@)]
           /\ Delivered(k)
           /\ UNCHANGED <<burst, eventBuf, dropped>>
        \/ /\ ~Hopeless(g, k)
           /\ IF k \in TooLarge THEN UNCHANGED live ELSE WriteFails(g)
           /\ eventBuf' = taken[g] \o eventBuf
           /\ taken' = [taken EXCEPT ![g] = <<>>]
           /\ burst' = [burst EXCEPT ![g] = AfterFlush(g)]
           /\ UNCHANGED <<dropped, delivered>>
     /\ UNCHANGED <<wsGen, wsSession, open, welcomed, refused, startedSent, emitter, dedupe, emitted, starts, lapped, declined, quota>>

FlushDone(g) ==
  /\ Flushing(g) /\ taken[g] = <<>>
  /\ burst' = [burst EXCEPT ![g] = AfterFlush(g)]
  /\ UNCHANGED <<conn, taken, startedSent, eventBuf, emitter, dedupe, history>>

\* Mutant of MayPublish: the session is published whatever became of it.
MayPublishAlways(g) == TRUE

\* storeWSSession publishes only for the current connection attempt.
MayPublish(g) == wsGen = g

Store(g) ==
  /\ Step(g, "store", "take2")
  /\ wsSession' = IF MayPublish(g) THEN g ELSE wsSession
  /\ UNCHANGED <<wsGen, open, welcomed, refused, live, taken, startedSent, eventBuf, emitter, dedupe, history>>

\* machine.info, whose failure nobody looks at; the burst ends.
Info(g) ==
  /\ Step(g, "info", "none")
  /\ WriteOK(g) \/ WriteFails(g)
  /\ UNCHANGED <<wsGen, wsSession, open, welcomed, refused, taken, startedSent, eventBuf, emitter, dedupe, history>>

Burst(g) ==
  Swap(g) \/ SendStarted(g) \/ Take(g) \/ FlushOne(g) \/ FlushDone(g) \/ Store(g) \/ Info(g)
-----------------------------------------------------------------------------
Init ==
  /\ wsGen = None /\ wsSession = None /\ live = None
  /\ open = FALSE /\ welcomed = FALSE /\ startedSent = FALSE
  /\ refused = [g \in Gens |-> {}]
  /\ burst = [g \in Gens |-> "none"]
  /\ taken = [g \in Gens |-> <<>>]
  /\ eventBuf = <<>>
  /\ emitter = [e \in Emitters |-> Idle]
  /\ announced = None /\ reported = {}
  /\ emitted = [k \in Events |-> 0]
  /\ delivered = [k \in Events |-> 0]
  /\ dropped = [k \in Events |-> 0]
  /\ starts = 0 /\ lapped = FALSE /\ declined = FALSE
  /\ quota = MaxEmits

Emission(e) == EmitSend(e) \/ EmitBuffer(e)

Next ==
  \/ Open \/ Welcome \/ Drop \/ Clear
  \/ \E e \in Emitters, k \in Events : Emit(e, k)
  \/ \E e \in Emitters : Emission(e)
  \/ \E g \in Gens : Burst(g)

Spec == Init /\ [][Next]_vars

\* Goroutines run and every write returns within its timeout.  Nothing is
\* assumed of the supervisor, the servers or the network.
Fairness ==
  /\ \A e \in Emitters : WF_vars(Emission(e))
  /\ \A g \in Gens : WF_vars(Burst(g))

FairSpec == Spec /\ Fairness
-----------------------------------------------------------------------------
(* Properties.                                                             *)

\* What the generation is for: the session emit finds is that of the
\* connection the supervisor holds, never one it has retired, however late
\* the burst of an earlier connection comes to storeWSSession.
SessionCurrent == wsSession # None => open /\ welcomed /\ wsSession = wsGen

\* emit, flushEvents and the put-back of a failed flush share a buffer that
\* two bursts and two emitters change at once: an event handed to emit is
\* written once, still held in one place, or was dropped for a stated reason
\* (full buffer, refused, too large).  It is neither lost nor duplicated.
Holders(k) == {e \in Emitters : emitter[e].ev = k}
InFlush(t, k) == UNION {{g} \X Places(t[g], k) : g \in Gens}
Conserved ==
  \A k \in Events :
    emitted[k] = delivered[k] + dropped[k] + Occurrences(eventBuf, k)
                 + Cardinality(InFlush(taken, k)) + Cardinality(Holders(k))

\* The compare-and-swap of startedSent, taken back when the write fails: of
\* all the bursts of a process one at most writes service.started.
StartedOnce == starts <= 1

\* The order handleWelcomeBurst is written for: nothing reaches a server ahead
\* of service.started.  It holds except when a connection is welcomed while
\* the burst of the previous one is still writing service.started - the new
\* burst takes it for sent - and when a server does not take service.started.
Overtaken == starts = 0 /\ \E k \in Events : delivered[k] > 0
StartedFirst == Overtaken => lapped \/ declined \/ Started \in TooLarge

\* The same without the exceptions, as the comment of handleWelcomeBurst has it.
StartedAlwaysFirst == ~Overtaken

\* eventBufferSize bounds the events kept while no session is up.
BufferBounded == Len(eventBuf) <= BufferSize

\* The second flush picks up what was emitted during the first: once the burst
\* of the published session has ended, nothing waits for another connection.
NothingStranded ==
  wsSession # None /\ live = wsSession /\ burst[wsSession] = "none" => eventBuf = <<>>

\* A network that has settled: a connection is no longer lost before its
\* welcome and its burst are over.
EarlyLoss == live # None /\ live' # live /\ (~welcomed \/ burst[live] # "none")
Settled == <>[][~EarlyLoss]_vars

\* Connections go on being made.  On one that lasts for ever an event left
\* behind, or a service.started taken for sent, stays where it is.
Renewed == []<><<Welcome>>_vars

\* Once nothing more is emitted, the next connections empty the buffer, although
\* flushes fail, are overtaken and put back: no event blocks the ones behind it
\* for ever.
Drains ==
  Settled /\ Renewed
    => <>[](/\ eventBuf = <<>>
            /\ \A g \in Gens : taken[g] = <<>>
            /\ \A e \in Emitters : emitter[e] = Idle)

\* service.started, which reports the commands the restart completed, reaches
\* a server as connections go on being made, whatever writes fail and whichever
\* bursts overlap - unless a server did not accept it: then it is never sent,
\* not even to a later one that would.
StartedArrives == Settled /\ Renewed => <>(starts > 0 \/ declined)
=============================================================================
