--------------------------- MODULE PresenceProofs ---------------------------
(***************************************************************************)
(* Theorems about Presence, for any servers, chains, policies, conditions, *)
(* number of changes and of lost connections.                              *)
(***************************************************************************)
EXTENDS Presence, WellFoundedInduction, TLAPS

\* The supervisor is on an attempt, or Run has returned and it has not looked
\* at the outcome yet.
Attempting == sup \in {"dial", "up", "ended"}

\* It is about to choose a server.
Choosing == sup \in {"load", "read"}

Shape ==
  /\ sup \in {"jitter", "load", "read", "dial", "up", "ended", "idle"}
  /\ rested \in BOOLEAN
  /\ cancelled \in BOOLEAN

\* What history remembers is the attempt under way.
OnRecord == Attempting => last = target /\ target # None

\* Back at the choice without a wait, the supervisor comes from an attempt that
\* its watcher cut or from a server that it has marked: marks do not expire
\* before the choice is made.
WaitedOrMarked ==
  /\ sup = "jitter" => rested
  /\ Choosing => rested \/ last = None \/ last \in marks

StormInv == Shape /\ OnRecord /\ WaitedOrMarked
-----------------------------------------------------------------------------
LEMMA StormInit == Init => StormInv
  BY DEF Init, StormInv, Shape, OnRecord, WaitedOrMarked, Attempting, Choosing

\* Everything but the supervisor: its place and what it remembers stay, and
\* marks only expire where nothing rests on them.
LEMMA OthersKeep ==
  ASSUME StormInv, UNCHANGED <<sup, rested, last, target>>, cancelled' \in BOOLEAN,
         marks' = marks \/ ~Choosing
  PROVE  StormInv'
  BY DEF StormInv, Shape, OnRecord, WaitedOrMarked, Attempting, Choosing

LEMMA EnvironmentKeeps ==
  ASSUME StormInv, Change \/ PollLoop \/ Linger PROVE StormInv'
<1>1. UNCHANGED <<sup, rested, last, target, cancelled, marks>>
  BY DEF Change, PollLoop, BeginCycle, NewResolver, Ask, Note, WakeClientWS, Linger, attempt
<1> QED BY <1>1, OthersKeep DEF StormInv, Shape

LEMMA ExpireKeeps == ASSUME StormInv, Expire PROVE StormInv'
<1>1. UNCHANGED <<sup, rested, last, target, cancelled>> /\ ~Choosing
  BY DEF Expire, attempt, Choosing
<1> QED BY <1>1, OthersKeep DEF StormInv, Shape

\* A watcher may cancel the attempt, and nothing else of the supervisor's.
LEMMA WatchKeeps == ASSUME StormInv, Watch PROVE StormInv'
<1>1. UNCHANGED <<sup, rested, last, target, marks>> BY DEF Watch
<1>2. cancelled' \in BOOLEAN BY DEF Watch
<1> QED BY <1>1, <1>2, OthersKeep

\* The choice: the server of the attempt is not a marked one.
LEMMA ReadKeeps == ASSUME StormInv, Read PROVE StormInv'
<1>1. CASE SupStep("read", "idle") /\ UNCHANGED <<attempt, rested, last>>
  BY <1>1 DEF StormInv, Shape, OnRecord, WaitedOrMarked, Attempting, Choosing, SupStep, attempt
<1>2. CASE /\ TargetOf(loaded) \notin marks \cup {None} /\ SupStep("read", "dial")
           /\ target' = TargetOf(loaded) /\ last' = TargetOf(loaded)
           /\ cancelled' = FALSE /\ rested' = FALSE
  BY <1>2 DEF StormInv, Shape, OnRecord, WaitedOrMarked, Attempting, Choosing, SupStep
<1> QED BY <1>1, <1>2 DEF Read

\* The end of an attempt: straight back to the choice only after a cancellation,
\* which history notes as no server, or a 404, which marks the server.
LEMMA EndedKeeps == ASSUME StormInv, Ended PROVE StormInv'
  BY DEF Ended, WatcherCancelled, Marked, StormInv, Shape, OnRecord, WaitedOrMarked, Attempting, Choosing

LEMMA SupervisorKeeps == ASSUME StormInv, Supervisor PROVE StormInv'
<1> USE DEF StormInv, Shape, OnRecord, WaitedOrMarked, Attempting, Choosing, SupStep, attempt
<1>1. CASE Jitter BY <1>1 DEF Jitter
<1>2. CASE Load BY <1>2 DEF Load
<1>3. CASE Read BY <1>3, ReadKeeps
<1>4. CASE Dial BY <1>4 DEF Dial
<1>5. CASE Lose BY <1>5 DEF Lose
<1>6. CASE Ended BY <1>6, EndedKeeps
<1>7. CASE Idle BY <1>7 DEF Idle
<1> QED BY <1>1, <1>2, <1>3, <1>4, <1>5, <1>6, <1>7 DEF Supervisor

\* The supervisor's place and its record agree in every behaviour of the poll
\* loop, the supervisor and its watchers (runClientWS, watchClientWSTarget).
THEOREM StormInvariant == Spec => []StormInv
<1>1. StormInv /\ [Next]_vars => StormInv'
  <2> SUFFICES ASSUME StormInv, [Next]_vars PROVE StormInv' OBVIOUS
  <2>1. CASE Change \/ PollLoop \/ Linger BY <2>1, EnvironmentKeeps
  <2>2. CASE Supervisor BY <2>2, SupervisorKeeps
  <2>3. CASE Expire BY <2>3, ExpireKeeps
  <2>4. CASE Watch BY <2>4, WatchKeeps
  <2>5. CASE UNCHANGED vars
    BY <2>5, OthersKeep DEF vars, attempt, StormInv, Shape
  <2> QED BY <2>1, <2>2, <2>3, <2>4, <2>5 DEF Next
<1> QED BY <1>1, StormInit, PTL DEF Spec

\* A server that fails or refuses is not dialled twice without a wait in between,
\* whatever chains, preferences and wake-ups come and go (runClientWS).
THEOREM NoServerStormed == Spec => NoStorm
<1> DEFINE Dialled == sup # "dial" /\ sup' = "dial" => rested \/ last # target'
<1>1. StormInv /\ [Next]_vars => [Dialled]_vars
  <2> SUFFICES ASSUME StormInv, [Next]_vars, sup # "dial", sup' = "dial"
               PROVE  rested \/ last # target'
    OBVIOUS
  <2>1. Read /\ TargetOf(loaded) \notin marks \cup {None} /\ target' = TargetOf(loaded) /\ sup = "read"
    BY DEF Next, Change, PollLoop, BeginCycle, NewResolver, Ask, Note, WakeClientWS, Supervisor, SupStep,
           Jitter, Load, Read, Dial, Lose, Ended, Idle, Expire, Watch, Linger, vars
  <2> QED BY <2>1 DEF StormInv, WaitedOrMarked, Choosing
<1> QED BY <1>1, StormInvariant, PTL DEF Spec, NoStorm
-----------------------------------------------------------------------------
(* Types.  That the supervisor's target and the preference are servers     *)
(* rests on the poll loop never asking past the end of its chain, and on   *)
(* no chain being empty.                                                   *)

\* A document under resolution has a server to ask, and one that was served has
\* the server that served it.
AsksSomebody == poll.pc \in {"ask", "note"} => poll.left # <<>>

PresenceInv == TypeOK /\ AsksSomebody

\* The first of some places.
LEMMA FirstPlace ==
  ASSUME NEW S \in SUBSET Nat, S # {}
  PROVE  Min(S) \in S
<1> DEFINE R == OpToRel(<, Nat)
<1>1. PICK i \in S : \A j \in S : <<j, i>> \notin R
  <2>1. IsWellFoundedOn(R, Nat) BY NatLessThanWellFounded DEF OpToRel
  <2> HIDE DEF R
  <2> QED BY <2>1, WFMin
<1>2. \A j \in S : ~(j < i) BY <1>1 DEF OpToRel
<1>3. \A j \in S : i <= j BY <1>2
<1> QED BY <1>3 DEF Min

\* A sequence of servers without the first place of one is one of servers.
LEMMA RemoveFirstType ==
  ASSUME NEW q \in Seq(Servers), NEW e
  PROVE  RemoveFirst(q, e) \in Seq(Servers)
<1> DEFINE At == {i \in 1 .. Len(q) : q[i] = e}
<1>1. CASE At = {} BY <1>1 DEF RemoveFirst
<1>2. CASE At # {}
  <2>1. At \in SUBSET Nat OBVIOUS
  <2>2. Min(At) \in At BY <1>2, <2>1, FirstPlace
  <2>3. RemoveFirst(q, e) = RemoveAt(q, Min(At)) BY <1>2 DEF RemoveFirst, SelectInSeq
  <2>4. PICK i \in 1 .. Len(q) : i = Min(At) BY <2>2
  <2>5. SubSeq(q, 1, i - 1) \in Seq(Servers) /\ SubSeq(q, i + 1, Len(q)) \in Seq(Servers) OBVIOUS
  <2> QED BY <2>3, <2>4, <2>5 DEF RemoveAt
<1> QED BY <1>1, <1>2

\* preferredChain lists servers, and at least one.
LEMMA PreferredChainType ==
  ASSUME NEW cyc \in Policies
  PROVE  /\ PreferredChain(cyc) \in Seq(Servers)
         /\ PreferredChain(cyc) # <<>>
         /\ Head(PreferredChain(cyc)) \in Servers
         /\ Lists(cyc, preferred) => preferred \in Servers
<1> USE PresenceAssumption
<1>1. cyc.chain \in Seq(Servers) /\ cyc.chain # <<>>
  OBVIOUS
<1>2. CASE Lists(cyc, preferred)
  <2>1. preferred \in Servers
    BY <1>1, <1>2 DEF Lists
  <2>2. RemoveFirst(cyc.chain, preferred) \in Seq(Servers)
    BY <1>1, RemoveFirstType
  <2> QED BY <1>2, <2>1, <2>2 DEF PreferredChain
<1>3. CASE ~Lists(cyc, preferred)
  BY <1>1, <1>3 DEF PreferredChain
<1> QED BY <1>2, <1>3
\* clientWSTarget names a server or none, and reading it leaves the preference
\* a server or none.
LEMMA TargetType ==
  ASSUME NEW cyc \in Policies, preferred \in Maybe
  PROVE  /\ TargetOf(cyc) \in Maybe
         /\ Forget(cyc) \/ ForgetIfRead(cyc) => preferred' \in Maybe
<1>1. TargetOf(cyc) \in Maybe BY PreferredChainType DEF TargetOf, Maybe
<1>2. Forget(cyc) => preferred' \in Maybe BY DEF Forget, Maybe
<1> QED BY <1>1, <1>2 DEF ForgetIfRead

Polls == [pc : {"idle", "order", "ask", "note", "wake"}, doc : Docs,
          left : Seq(Servers), perr : {"none", "404", "other"}]

\* The next document of a poll has no server asked for it yet.
LEMMA NextDocType ==
  ASSUME poll \in Polls
  PROVE  NextDoc \in Polls /\ NextDoc.pc \in {"order", "idle"}
  BY DEF NextDoc, Polls, Docs

LEMMA TailType ==
  ASSUME NEW q \in Seq(Servers), Len(q) > 1
  PROVE  Tail(q) \in Seq(Servers) /\ Tail(q) # <<>>
<1>1. q # <<>> OBVIOUS
<1>2. Tail(q) \in Seq(Servers) BY <1>1
<1>3. Tail(q) # <<>> OBVIOUS
<1> QED BY <1>2, <1>3

LEMMA PollTypes == ASSUME PresenceInv, PollLoop PROVE PresenceInv'
<1> USE PresenceAssumption DEF PresenceInv, AsksSomebody
<1>p. poll \in Polls /\ preferred \in Maybe /\ cur \in Policies /\ policy \in Policies
  BY DEF TypeOK, Polls
<1>1. CASE BeginCycle
  <2>1. poll' \in Polls /\ poll'.pc = "order" BY <1>1, <1>p DEF BeginCycle, Polls, Docs
  <2> QED BY <1>1, <2>1 DEF BeginCycle, TypeOK, Polls, world, attempt
<1>2. CASE NewResolver
  <2>1. PreferredChain(cur) \in Seq(Servers) /\ PreferredChain(cur) # <<>> BY <1>p, PreferredChainType
  <2>2. poll' \in Polls /\ poll'.left # <<>> BY <1>2, <1>p, <2>1 DEF NewResolver, Polls
  <2>3. preferred' \in Maybe BY <1>2, <1>p, TargetType DEF NewResolver
  <2> QED BY <1>2, <2>2, <2>3 DEF NewResolver, TypeOK, Polls, world, attempt
<1>3. CASE Ask
  <2>1. poll.pc = "ask" /\ poll.left # <<>> /\ poll.left \in Seq(Servers) BY <1>3, <1>p DEF Ask, Polls
  <2>2. Head(poll.left) \in Servers BY <2>1
  <2>3. served' \in Maybe BY <1>3, <2>2 DEF Ask, IfEMLy, TypeOK, Maybe
  <2>4. Fetch(Head(poll.left)) \in {"served", "404", "other"} BY DEF Fetch
  <2>5. poll' \in Polls /\ (poll'.pc \in {"ask", "note"} => poll'.left # <<>>)
    <3>1. CASE poll' = [poll EXCEPT !.pc = "note"] BY <1>p, <2>1, <3>1 DEF Polls
    <3>2. CASE /\ Len(poll.left) > 1
               /\ Fetch(Head(poll.left)) # "served"
               /\ poll' = [poll EXCEPT !.left = Tail(@),
                                       !.perr = IF @ = "none" THEN Fetch(Head(poll.left)) ELSE @]
      <4>1. Tail(poll.left) \in Seq(Servers) /\ Tail(poll.left) # <<>> BY <2>1, <3>2, TailType
      <4>2. poll'.left = Tail(poll.left) BY <1>p, <3>2 DEF Polls
      <4> QED BY <1>p, <2>4, <3>2, <4>1, <4>2 DEF Polls
    <3>3. CASE poll' = NextDoc BY <1>p, <3>3, NextDocType
    <3> QED BY <1>3, <3>1, <3>2, <3>3 DEF Ask
  <2> QED BY <1>3, <2>3, <2>5 DEF Ask, TypeOK, Polls, world, shared, attempt
<1>4. CASE Note
  <2>1. poll.pc = "note" /\ poll.left # <<>> /\ poll.left \in Seq(Servers) BY <1>4, <1>p DEF Note, Polls
  <2>2. Head(poll.left) \in Servers BY <2>1
  <2>3. preferred' \in Maybe BY <1>4, <1>p, <2>2 DEF Note, Noted, Maybe
  <2>4. poll' = NextDoc \/ poll' = [poll EXCEPT !.pc = "wake"] BY <1>4 DEF Note
  <2>5. poll' \in Polls /\ poll'.pc \in {"order", "idle", "wake"}
    BY <1>p, <2>4, NextDocType DEF Polls
  <2>6. UNCHANGED <<policy, srv, cur, wake, sup, loaded, target, result, watching, cancelled, marks,
                    lingering, budget, served, rested, last>>
    BY <1>4 DEF Note, world, attempt
  <2> QED BY <2>3, <2>5, <2>6 DEF TypeOK, Polls
<1>5. CASE WakeClientWS
  <2>1. poll' \in Polls /\ poll'.pc \in {"order", "idle"} BY <1>5, <1>p, NextDocType DEF WakeClientWS
  <2> QED BY <1>5, <2>1 DEF WakeClientWS, TypeOK, Polls, world, attempt
<1> QED BY <1>1, <1>2, <1>3, <1>4, <1>5 DEF PollLoop

LEMMA SupervisorTypes == ASSUME PresenceInv, StormInv, Supervisor \/ Expire PROVE PresenceInv'
<1> USE PresenceAssumption DEF PresenceInv, AsksSomebody, SupStep, world, shared, attempt
<1>p. preferred \in Maybe /\ cur \in Policies /\ loaded \in Policies BY DEF TypeOK
<1>1. CASE Jitter BY <1>1 DEF Jitter, TypeOK
<1>2. CASE Load BY <1>2 DEF Load, TypeOK
<1>3. CASE Read
  <2>1. preferred' \in Maybe /\ TargetOf(loaded) \in Maybe BY <1>3, <1>p, TargetType DEF Read
  <2>2. target' \in Maybe /\ last' \in Maybe BY <1>3, <2>1 DEF Read, TypeOK
  <2>3. {watching', cancelled', rested'} \subseteq BOOLEAN BY <1>3 DEF Read, TypeOK
  <2>4. sup' \in {"idle", "dial"} /\ result' \in {"none", "404", "failed", "lost"} BY <1>3 DEF Read, TypeOK
  <2> QED BY <1>3, <2>1, <2>2, <2>3, <2>4 DEF Read, TypeOK
<1>4. CASE Dial BY <1>4 DEF Dial, TypeOK
<1>5. CASE Lose
  <2>1. budget' \in [changes : Nat, losses : Nat] BY <1>5 DEF Lose, Spend, TypeOK
  <2> QED BY <1>5, <2>1 DEF Lose, TypeOK
<1>6. CASE Ended
  <2>1. target \in Servers BY <1>6 DEF Ended, StormInv, OnRecord, Attempting, TypeOK, Maybe
  <2>2. marks' \subseteq Servers BY <1>6, <2>1 DEF Ended, Marked, TypeOK
  <2> QED BY <1>6, <2>2 DEF Ended, TypeOK, Maybe
<1>7. CASE Idle BY <1>7 DEF Idle, TypeOK
<1>8. CASE Expire BY <1>8 DEF Expire, TypeOK
<1> QED BY <1>1, <1>2, <1>3, <1>4, <1>5, <1>6, <1>7, <1>8 DEF Supervisor
LEMMA OthersTypes == ASSUME PresenceInv, Change \/ Watch \/ Linger \/ UNCHANGED vars PROVE PresenceInv'
<1> USE PresenceAssumption DEF PresenceInv, AsksSomebody, world, shared, attempt
<1>p. preferred \in Maybe /\ cur \in Policies BY DEF TypeOK
<1>1. CASE Change
  <2>1. budget' \in [changes : Nat, losses : Nat]
    <3>1. budget.changes > 0 /\ budget' = [budget EXCEPT !.changes = @ - 1] BY <1>1 DEF Change, Spend
    <3>2. budget \in [changes : Nat, losses : Nat] BY DEF TypeOK
    <3> QED BY <3>1, <3>2
  <2>2. policy' \in Policies /\ srv' \in [Servers -> Conditions]
    <3>1. policy \in Policies /\ srv \in [Servers -> Conditions] BY DEF TypeOK
    <3>2. \/ policy' \in Policies /\ srv' = srv
          \/ /\ \E s \in Servers, c \in Conditions : srv' = [srv EXCEPT ![s] = c]
             /\ policy' = policy
      BY <1>1 DEF Change
    <3>3. CASE policy' \in Policies /\ srv' = srv BY <3>1, <3>3
    <3>4. ASSUME NEW s \in Servers, NEW c \in Conditions, srv' = [srv EXCEPT ![s] = c]
          PROVE  srv' \in [Servers -> Conditions]
      BY <3>1, <3>4
    <3> QED BY <3>1, <3>2, <3>3, <3>4
  <2> QED BY <1>1, <2>1, <2>2 DEF Change, TypeOK
<1>2. CASE Watch
  <2>1. preferred' \in Maybe BY <1>2, <1>p, TargetType DEF Watch
  <2>2. {wake', cancelled', watching'} \subseteq BOOLEAN BY <1>2 DEF Watch, TypeOK
  <2> QED BY <1>2, <2>1, <2>2 DEF Watch, TypeOK
<1>3. CASE Linger
  <2>1. preferred' \in Maybe BY <1>3, <1>p, TargetType DEF Linger
  <2>2. {wake', lingering'} \subseteq BOOLEAN BY <1>3 DEF Linger, TypeOK
  <2> QED BY <1>3, <2>1, <2>2 DEF Linger, TypeOK
<1>4. CASE UNCHANGED vars BY <1>4 DEF vars, TypeOK
<1> QED BY <1>1, <1>2, <1>3, <1>4

\* For any chains, servers and changes, the preference, the target of the
\* supervisor and its marks are servers of the policy, and a poll never looks
\* for a server past the end of its chain (preferredChain, resolveWith,
\* notePreferredServer, runClientWS).
THEOREM PresenceInvariant == Spec => []PresenceInv
<1>1. Init => PresenceInv
  <2> SUFFICES ASSUME Init PROVE PresenceInv OBVIOUS
  <2>1. poll \in Polls /\ poll.pc = "order" BY DEF Init, Polls, Docs
  <2>2. budget \in [changes : Nat, losses : Nat] BY PresenceAssumption DEF Init
  <2>3. srv \in [Servers -> Conditions] BY PresenceAssumption DEF Init
  <2> QED BY <2>1, <2>2, <2>3, PresenceAssumption
             DEF Init, PresenceInv, AsksSomebody, TypeOK, Polls, Maybe
<1>2. PresenceInv /\ StormInv /\ [Next]_vars => PresenceInv'
  BY PollTypes, SupervisorTypes, OthersTypes DEF Next
<1> QED BY <1>1, <1>2, StormInvariant, PTL DEF Spec
=============================================================================
