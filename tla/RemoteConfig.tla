---------------------------- MODULE RemoteConfig ----------------------------
(***************************************************************************)
(* The remote configuration in the running service: the fetch that asks    *)
(* one server after another, the policy store and its cache on disk, the   *)
(* state each poll cycle takes from them, and the IPC server that reads    *)
(* that state on goroutines of its own (internal/service/remoteconfig.go,  *)
(* internal/policy/store.go and cache.go, internal/ipc/server.go).         *)
(*                                                                         *)
(* Servers, files and clients are the environment: what a server publishes *)
(* and whether it answers change up to MaxChanges times, a write of the    *)
(* cache may fail, and the service may stop between any two steps.         *)
(***************************************************************************)
EXTENDS PolicyDocument

CONSTANTS
  Docs,         \* the raw documents that servers publish, by their ETag
  Urls,         \* the servers' base URLs
  Hosts,        \* the facts a cycle may find about this machine
  Machine,      \* its hardware id, known from the start
  Conns,        \* IPC connections, each served by a goroutine of its own
  Clients,      \* the versions a client may declare, Null when it does not
  DiskFaults,   \* the cache may be unreadable or impossible to write
  MaxNow,       \* bound: the clock, in units between two values of `until`
  MaxChanges,   \* bound: changes of what servers publish and of who answers
  MaxRestarts   \* bound: stops of the service

ASSUME RemoteConfigAssumption ==
  /\ Null \notin DOMAIN Docs
  /\ \A t \in DOMAIN Docs : Shaped(Docs[t]) /\ Docs[t].revision \in Nat
  /\ \A h \in Hosts : h.hwids = Machine
  /\ DiskFaults \in BOOLEAN
  /\ {MaxNow, MaxChanges, MaxRestarts} \subseteq Nat

VARIABLES
  published,  \* what each server has published, Null for nothing
  down,       \* the servers that do not answer, or answer with an error
  now,        \* the clock
  due,        \* refresh.intervalMinutes have passed since lastConfigAttempt
  loop,       \* where the poll loop is
  cands,      \* the base URLs the fetch has still to ask
  policy,     \* u.Policy: the snapshot's document, the form it was parsed from, its source
  cache,      \* the document in remote-config.json, Null when there is no file
  cur,        \* u.cur: snapshot, host facts and clock of the latest cycle, or Null
  paused,     \* u.paused
  conn,       \* each IPC connection: how far it is, the version declared, the
              \* revision in its answer (Null: none, or too large to be sent)
  budget      \* what is left of MaxChanges and MaxRestarts
\* History, read by the properties only:
VARIABLES
  told        \* the highest revision EMLy was given in this run of the service
\* The field floor of a connection is history too: told when it was opened.

world == <<published, down>>
ipc == <<conn, told>>
vars == <<world, now, due, loop, cands, policy, cache, cur, paused, ipc, budget>>

Tags == DOMAIN Docs
Unknown == [hwids |-> {}, dcs |-> {}, nets |-> {}]
Named == [Unknown EXCEPT !.hwids = Machine]
NoConn == [state |-> "none", version |-> Null, answer |-> Null, floor |-> 0]

\* The policies the store may hold: a document as it was sent, the same document
\* as it reads back from the cache, and the default policy (Null).
Default == [doc |-> Null, stored |-> FALSE, src |-> "default"]
Snapshots == {Default} \cup [doc : Tags, stored : BOOLEAN, src : {"cache", "remote"}]

Raw == [t \in Tags \cup {Null} |-> [stored \in BOOLEAN |->
          IF t = Null THEN FromLegacy ELSE IF stored THEN Marshal(Docs[t]) ELSE Docs[t]]]
Revision(snap) == Raw[snap.doc][snap.stored].revision

\* The tables of Parse and of Effective for these documents.
ParsesOf == [t \in Tags |-> [stored \in BOOLEAN |-> Parses(Raw[t][stored])]]
Valid == {t \in Tags : ParsesOf[t][FALSE]}
Loads == {t \in Tags : ParsesOf[t][TRUE]}
EffectiveOf ==
  [t \in Tags \cup {Null} |-> [stored \in BOOLEAN |-> [h \in Hosts \cup {Unknown, Named} |->
     [n \in 0 .. MaxNow |-> Effective(Raw[t][stored], h, n)]]]]
EffectiveIn(snap, host, at) == EffectiveOf[snap.doc][snap.stored][host][at]

TypeOK ==
  /\ published \in [Urls -> Tags \cup {Null}]
  /\ down \subseteq Urls
  /\ now \in 0 .. MaxNow
  /\ {due, paused} \subseteq BOOLEAN
  /\ loop \in {"start", "fetch", "save", "cycle"}
  /\ cands \in Seq(Urls)
  /\ policy \in Snapshots
  /\ policy.stored = FALSE \/ policy.doc \in Loads
  /\ cache \in Tags \cup {Null}
  /\ cur = Null \/ (cur.snap \in Snapshots /\ cur.host \in Hosts /\ cur.now \in 0 .. now)
  /\ \A c \in Conns : conn[c].state \in {"none", "open", "admitted", "answering"}
  /\ budget.changes \in 0 .. MaxChanges /\ budget.restarts \in 0 .. MaxRestarts

-----------------------------------------------------------------------------
\* Start (initPolicy, LoadCache, QuarantineCache)

\* The snapshot a start takes from the cache; readable is FALSE when the file
\* cannot be read back.
Loaded(readable) == cache # Null /\ readable /\ cache \in Loads
InitPolicy(readable) ==
  IF Loaded(readable) THEN [doc |-> cache, stored |-> TRUE, src |-> "cache"] ELSE Default

\* The cache that did not load is moved aside, if it can be.
Quarantined(readable, moved) == IF Loaded(readable) \/ ~moved THEN cache ELSE Null

Init ==
  /\ \E t \in Tags \cup {Null} : published = [u \in Urls |-> t]
  /\ down = {}
  /\ now = 0
  /\ due = TRUE
  /\ loop = "start"
  /\ cands = <<>>
  /\ policy = Default
  /\ cache = Null
  /\ cur = Null
  /\ paused = FALSE
  /\ conn = [c \in Conns |-> NoConn]
  /\ budget = [changes |-> MaxChanges, restarts |-> MaxRestarts]
  /\ told = 0

Restart ==
  /\ budget.restarts > 0
  /\ budget' = [budget EXCEPT !.restarts = @ - 1]
  /\ \E readable, moved \in BOOLEAN :
       /\ ~DiskFaults => readable /\ moved
       /\ policy' = InitPolicy(readable)
       /\ cache' = Quarantined(readable, moved)
  /\ loop' = "start"
  /\ due' = TRUE
  /\ cands' = <<>>
  /\ cur' = Null
  /\ paused' = FALSE
  /\ conn' = [c \in Conns |-> NoConn]
  /\ told' = 0
  /\ UNCHANGED <<world, now>>

-----------------------------------------------------------------------------
\* The fetch (refreshConfig, configCandidates, FetchConfig, acceptDocument)

\* The effective chain, then the default server, then the bootstrap endpoints,
\* each URL once.  The host is the latest cycle's.
ConfigCandidates ==
  LET host == IF cur = Null THEN Unknown ELSE cur.host
      doc == EffectiveIn(policy, host, IF cur = Null THEN now ELSE cur.now)
      all == Chain(doc, host) \o <<doc.servers[doc.sections.defaultServer]>> \o Config.endpoints
      first(i) == \A j \in 1 .. i - 1 : all[j] # all[i]
  IN SelectSeq([i \in DOMAIN all |-> [url |-> all[i], keep |-> first(i)]], LAMBDA c : c.keep)

NotDue ==
  /\ loop = "start"
  /\ ~due
  /\ loop' = "cycle"
  /\ UNCHANGED <<world, now, due, cands, policy, cache, cur, paused, ipc, budget>>

\* force (a notify, a manual run) is due as well: when it comes is not said here.
RefreshConfig ==
  /\ loop = "start"
  /\ due
  /\ due' = FALSE
  /\ cands' = [i \in DOMAIN ConfigCandidates |-> ConfigCandidates[i].url]
  /\ loop' = IF cands' = <<>> THEN "cycle" ELSE "fetch"
  /\ UNCHANGED <<world, now, policy, cache, cur, paused, ipc, budget>>

Asked == Head(cands)
Answers == loop = "fetch" /\ Asked \notin down

\* An error of any kind: the next candidate, or the cycle with the policy it has.
FetchFails ==
  /\ loop = "fetch"
  /\ Asked \in down
  /\ cands' = Tail(cands)
  /\ loop' = IF cands' = <<>> THEN "cycle" ELSE "fetch"
  /\ UNCHANGED <<world, now, due, policy, cache, cur, paused, ipc, budget>>

\* If-None-Match is sent unless the policy is the default one.
Unchanged(t) == t # Null /\ t = policy.doc

\* Mutants: any revision is taken; validation is left out; the revision must be higher.
AcceptableAny(t) == t \in Valid
AcceptableUnparsed(t) == policy.src = "default" \/ Docs[t].revision >= Revision(policy)
AcceptableNewer(t) == t \in Valid /\ (policy.src = "default" \/ Docs[t].revision > Revision(policy))

\* A document that parses replaces the policy unless its revision is lower.
Acceptable(t) ==
  /\ t \in Valid
  /\ policy.src = "default" \/ Docs[t].revision >= Revision(policy)

\* The first server that answers decides: 304 confirms, 204 and a document that
\* is refused change nothing, one that is accepted becomes the policy.
FetchAnswered ==
  LET t == published[Asked]
      taken == CASE Unchanged(t) -> [policy EXCEPT !.src = "remote"]
                 [] t # Null /\ ~Unchanged(t) /\ Acceptable(t) ->
                      [doc |-> t, stored |-> FALSE, src |-> "remote"]
                 [] OTHER -> Null
  IN /\ Answers
     /\ policy' = IF taken # Null THEN taken ELSE policy
     /\ loop' = IF taken # Null THEN "save" ELSE "cycle"
     /\ cands' = <<>>
     /\ UNCHANGED <<world, now, due, cache, cur, paused, ipc, budget>>

\* saveCache: the file is replaced whole, or a failure leaves it as it was.
SaveCache ==
  /\ loop = "save"
  /\ \/ cache' = policy.doc
     \/ DiskFaults /\ UNCHANGED cache
  /\ loop' = "cycle"
  /\ UNCHANGED <<world, now, due, cands, policy, cur, paused, ipc, budget>>

-----------------------------------------------------------------------------
\* The cycle (beginCycle, applyControlGate)

BeginCycle ==
  /\ loop = "cycle"
  /\ \E h \in Hosts :
       /\ cur' = [snap |-> policy, host |-> h, now |-> now]
       /\ paused' = ~UpdaterEnabled(EffectiveIn(policy, h, now), now)
  /\ loop' = "start"
  /\ UNCHANGED <<world, now, due, cands, policy, cache, ipc, budget>>

-----------------------------------------------------------------------------
\* IPC (policyView, handleConn, dispatch)

\* The latest cycle's state, or before the first cycle the store's, for a machine
\* whose site is not known yet.
View ==
  LET of(snap, host, at) == [snap |-> snap, doc |-> EffectiveIn(snap, host, at)]
  IN IF cur # Null THEN of(cur.snap, cur.host, cur.now) ELSE of(policy, Named, now)

\* Accept starts a goroutine per connection.
Connect(c) ==
  /\ conn[c].state = "none"
  /\ \E v \in Clients :
       conn' = [conn EXCEPT ![c] = [state |-> "open", version |-> v, answer |-> Null, floor |-> told]]
  /\ UNCHANGED <<world, now, due, loop, cands, policy, cache, cur, paused, told, budget>>

\* Not EMLy's executable, no readable envelope of this protocol version within the
\* deadline: the connection ends before the policy is looked at.
TurnAway(c) ==
  /\ conn[c].state = "open"
  /\ conn' = [conn EXCEPT ![c] = NoConn]
  /\ UNCHANGED <<world, now, due, loop, cands, policy, cache, cur, paused, told, budget>>

CheckPeerVersion(c) ==
  /\ conn[c].state = "open"
  /\ conn' = [conn EXCEPT ![c] = IF Admits(View.doc.ipc, conn[c].version)
                                 THEN [conn[c] EXCEPT !.state = "admitted"] ELSE NoConn]
  /\ UNCHANGED <<world, now, due, loop, cands, policy, cache, cur, paused, told, budget>>

\* dispatch reads the policy again, for a request of the configuration; the loop
\* and the other connections go on before the answer is written.
Dispatch(c) ==
  /\ conn[c].state = "admitted"
  /\ LET given == IF Raw[View.snap.doc][FALSE].large THEN Null ELSE Revision(View.snap)
     IN conn' = [conn EXCEPT ![c] = [conn[c] EXCEPT !.state = "answering", !.answer = given]]
  /\ UNCHANGED <<world, now, due, loop, cands, policy, cache, cur, paused, told, budget>>

\* An answer over MaxFrameSize is not sent, and any write may fail.
WriteEnvelope(c) ==
  LET given == conn[c].answer
  IN /\ conn[c].state = "answering"
     /\ conn' = [conn EXCEPT ![c] = NoConn]
     /\ \/ told' = IF given # Null /\ given > told THEN given ELSE told
        \/ UNCHANGED told
     /\ UNCHANGED <<world, now, due, loop, cands, policy, cache, cur, paused, budget>>

-----------------------------------------------------------------------------
\* The environment

Publish ==
  /\ budget.changes > 0
  /\ budget' = [budget EXCEPT !.changes = @ - 1]
  /\ \E u \in Urls, t \in Tags : published' = [published EXCEPT ![u] = t]
  /\ UNCHANGED <<down, now, due, loop, cands, policy, cache, cur, paused, ipc>>

Outage ==
  /\ budget.changes > 0
  /\ budget' = [budget EXCEPT !.changes = @ - 1]
  /\ \E u \in Urls : down' = IF u \in down THEN down \ {u} ELSE down \cup {u}
  /\ UNCHANGED <<published, now, due, loop, cands, policy, cache, cur, paused, ipc>>

Elapse ==
  /\ ~due
  /\ due' = TRUE
  /\ UNCHANGED <<world, now, loop, cands, policy, cache, cur, paused, ipc, budget>>

Clock ==
  /\ now < MaxNow
  /\ now' = now + 1
  /\ UNCHANGED <<world, due, loop, cands, policy, cache, cur, paused, ipc, budget>>

Loop == NotDue \/ RefreshConfig \/ FetchFails \/ FetchAnswered \/ SaveCache \/ BeginCycle
Serve == \E c \in Conns :
  Connect(c) \/ TurnAway(c) \/ CheckPeerVersion(c) \/ Dispatch(c) \/ WriteEnvelope(c)
World == Publish \/ Outage \/ Elapse \/ Clock

Next == Loop \/ Serve \/ World \/ Restart

Spec == Init /\ [][Next]_vars

\* The poll loop keeps running and time passes.  One of the loop's steps is enabled
\* in every state, so that WF_vars(Loop) is []<><<Loop>>_vars.
FairSpec == Spec /\ []<><<Loop>>_vars /\ WF_vars(Elapse) /\ WF_vars(Clock)

-----------------------------------------------------------------------------
\* Properties

\* Whether no host and no time make a document invalid, and whether it means the
\* same to every host once it has been through the cache.
NeverInvalid ==
  [t \in Tags \cup {Null} |-> [stored \in BOOLEAN |->
     \A h \in Hosts, n \in 0 .. MaxNow : ValidDocument(Overridden(Raw[t][stored], h, n))]]
SameWhenStored ==
  [t \in Tags |-> \A h \in Hosts, n \in 0 .. MaxNow : EffectiveOf[t][TRUE][h][n] = EffectiveOf[t][FALSE][h][n]]

Register == INSTANCE PolicyRegister WITH
  Rev     <- [t \in Tags |-> Docs[t].revision],
  Nothing <- Null,
  current <- policy.doc,
  saved   <- cache

\* The store and its cache implement the register: whatever servers publish, in
\* whatever order they answer and wherever the service stops, a run never goes
\* back to an older document or to one that fails validation, and a start finds
\* the document saved last or none.  This is about refreshConfig, acceptDocument,
\* saveCache and initPolicy: retireCache and restoreCache, which move the same
\* file around a self-update, are in SelfUpdate and not here.
ImplementsRegister == Register!Spec

\* The dry run at fetch time is enough: the overrides that select this machine,
\* whichever they are and whenever they expire, make a valid document, so that
\* Effective never falls back to the global one (dryRunOverrides, Effective).
SubsetsCovered == NeverInvalid[policy.doc][policy.stored]

\* A cache that loads gives every host, at any time, the policy the document gave
\* when it was fetched, although the cache holds the typed document with its
\* defaults filled in and not the bytes that were sent (saveCache, Parse).
RoundTrip == cache \in Loads => SameWhenStored[cache]

\* An answer never carries an older revision than EMLy had been given when the
\* question was put: no goroutine reads the policy early enough, or from a store
\* that went back, although cycles and other connections run between accepting
\* the connection, reading the policy and writing the answer.  Answers that are
\* under way together may overtake one another (handleConn, dispatch, policyView).
ToldForward ==
  \A c \in Conns : conn[c].answer # Null => conn[c].answer >= conn[c].floor

\* A document that every server ends up publishing, and that is valid, is in force
\* for good in the end, in the store and in the cycles, unless a newer one is.
Adopts ==
  \A t \in Valid :
    <>[](down = {} /\ \A u \in Urls : published[u] = t)
      => <>[](/\ policy.doc = t \/ Revision(policy) > Docs[t].revision
              /\ cur # Null /\ cur.snap = policy)

\* The kill switch is fail-open: once every `until` has passed, the update
\* machinery is held back only by a document that sets none (applyControlGate).
PauseEnds ==
  <>[](paused => LET doc == EffectiveIn(cur.snap, cur.host, cur.now)
                 IN doc.sections.control.until = Null)

\* A document that was accepted and saved loads again: a start with the cache in
\* place begins with that policy (initPolicy, saveCache).
CacheLoads == cache # Null => cache \in Loads
=============================================================================
