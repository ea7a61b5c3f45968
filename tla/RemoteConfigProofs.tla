------------------------- MODULE RemoteConfigProofs -------------------------
(***************************************************************************)
(* Theorems about RemoteConfig, for any documents, servers, hosts, clients *)
(* and faults: it implements PolicyRegister, and no question of EMLy's is  *)
(* answered with an older configuration than EMLy had when it asked.       *)
(***************************************************************************)
EXTENDS RemoteConfig, WellFoundedInduction, TLAPS

\* The document the IPC server answers from (policyView).
ViewSnap == IF cur # Null THEN cur.snap ELSE policy

\* What the store holds; a save is only ever of a document.
Stored ==
  /\ policy \in Snapshots
  /\ loop = "save" => policy.doc # Null

\* The revisions seen from outside follow the store's: first the store's, then
\* the cycle's, then those that EMLy was told.
Ordered ==
  /\ cur # Null => cur.snap \in Snapshots /\ Revision(cur.snap) <= Revision(policy)
  /\ told \in Nat /\ told <= Revision(ViewSnap)

\* A connection, when EMLy has been told up to high and the view is at most at top:
\* its answer is between what EMLy knew when it asked and the view.
Served(k, high, top) ==
  /\ k.floor \in Nat /\ k.floor <= high
  /\ k.answer # Null => k.answer \in Nat /\ k.floor <= k.answer /\ k.answer <= top

Serving ==
  /\ DOMAIN conn = Conns
  /\ \A c \in Conns : Served(conn[c], told, Revision(ViewSnap))

ConfigInv == Stored /\ Ordered /\ Serving
-----------------------------------------------------------------------------
LEMMA ExceptKeeps ==
  ASSUME NEW raw, NEW a, NEW b, NEW c, "revision" \in DOMAIN raw
  PROVE  [raw EXCEPT !.sections = a, !.ipc = b, !.overrides = c].revision = raw.revision
  OBVIOUS

\* Marshal changes the sections, ipcProtocol and the overrides, and not the
\* revision.
LEMMA MarshalRevision ==
  ASSUME NEW t \in Tags
  PROVE  Marshal(Docs[t]).revision = Docs[t].revision
  BY ExceptKeeps, RemoteConfigAssumption DEF Marshal, Tags, Shaped

\* The revision of a snapshot is that of its document, whether it came from a
\* server or from the cache; the default policy has revision 0.
LEMMA SnapRevision ==
  ASSUME NEW s \in Snapshots
  PROVE  /\ Revision(s) \in Nat
         /\ s.doc = Null => Revision(s) = 0
         /\ s.doc # Null => s.doc \in Tags /\ Revision(s) = Docs[s.doc].revision
<1>1. s.doc \in Tags \cup {Null} /\ s.stored \in BOOLEAN
  <2>1. CASE s = Default BY <2>1 DEF Default
  <2>2. CASE s \in [doc : Tags, stored : BOOLEAN, src : {"cache", "remote"}] BY <2>2
  <2> QED BY <2>1, <2>2 DEF Snapshots
<1>2. Revision(s) = (IF s.doc = Null THEN FromLegacy ELSE IF s.stored THEN Marshal(Docs[s.doc])
                                                           ELSE Docs[s.doc]).revision
  BY <1>1 DEF Revision, Raw
<1>3. FromLegacy.revision = 0 BY DEF FromLegacy
<1>4. CASE s.doc = Null BY <1>2, <1>3, <1>4
<1>5. CASE s.doc # Null
  <2>1. s.doc \in Tags BY <1>1, <1>5
  <2>2. Marshal(Docs[s.doc]).revision = Docs[s.doc].revision BY <2>1, MarshalRevision
  <2>3. Revision(s) = Docs[s.doc].revision BY <1>1, <1>2, <1>5, <2>2
  <2> QED BY <1>5, <2>1, <2>3, RemoteConfigAssumption DEF Tags
<1> QED BY <1>4, <1>5

LEMMA DefaultSnap == Default \in Snapshots /\ Default.doc = Null /\ Default.src = "default"
  BY DEF Default, Snapshots

\* A snapshot from a server or from the cache has a document.
LEMMA SourcesHaveDocs == ASSUME NEW s \in Snapshots, s.doc # Null PROVE s.src # "default"
  BY DEF Snapshots, Default
-----------------------------------------------------------------------------
LEMMA ConfigInit == Init => ConfigInv
<1> SUFFICES ASSUME Init PROVE ConfigInv OBVIOUS
<1>1. Stored BY DefaultSnap DEF Init, Stored
<1>2. Revision(policy) = 0 BY DefaultSnap, SnapRevision DEF Init
<1>3. Ordered BY <1>2 DEF Init, Ordered, ViewSnap
<1>4. Serving BY DEF Init, Serving, Served, NoConn
<1> QED BY <1>1, <1>3, <1>4 DEF ConfigInv

\* The view is one of the store's snapshots.
LEMMA ViewRevision == ASSUME Stored, Ordered PROVE Revision(ViewSnap) \in Nat
  BY SnapRevision DEF Stored, Ordered, ViewSnap

\* Connections that are left alone are served as before when the view moves on.
LEMMA ServingKept ==
  ASSUME ConfigInv, Ordered', Stored', UNCHANGED <<conn, told>>, Revision(ViewSnap)' >= Revision(ViewSnap)
  PROVE  Serving'
<1>1. Revision(ViewSnap) \in Nat /\ Revision(ViewSnap)' \in Nat
  <2>1. Revision(ViewSnap) \in Nat BY ViewRevision DEF ConfigInv
  <2>2. (policy \in Snapshots /\ (cur # Null => cur.snap \in Snapshots))' BY DEF Stored, Ordered
  <2>3. ViewSnap' \in Snapshots BY <2>2 DEF ViewSnap
  <2>4. Revision(ViewSnap') \in Nat BY <2>3, SnapRevision
  <2> QED BY <2>1, <2>4 DEF Revision
<1> HIDE DEF Revision, ViewSnap
<1> QED BY <1>1 DEF ConfigInv, Ordered, Serving, Served

\* The steps that leave the store, the cycle and IPC alone.
LEMMA QuietSteps ==
  ASSUME ConfigInv, loop' # "save" \/ loop' = loop, UNCHANGED <<policy, cur, conn, told>>
  PROVE  ConfigInv'
  BY DEF ConfigInv, Stored, Ordered, Serving, Served, ViewSnap, Revision

LEMMA QuietNext ==
  ASSUME NotDue \/ RefreshConfig \/ FetchFails \/ SaveCache \/ World \/ UNCHANGED vars
  PROVE  UNCHANGED <<policy, cur, conn, told>> /\ (loop' # "save" \/ loop' = loop)
<1>1. CASE NotDue \/ FetchFails \/ SaveCache BY <1>1 DEF NotDue, FetchFails, SaveCache, ipc
<1>2. CASE RefreshConfig BY <1>2 DEF RefreshConfig, ipc
<1>3. CASE World BY <1>3 DEF World, Publish, Outage, Elapse, Clock, ipc
<1>4. CASE UNCHANGED vars BY <1>4 DEF vars, ipc
<1> QED BY <1>1, <1>2, <1>3, <1>4

\* What an answer may do to the store: nothing, confirm its document, or
\* replace it by a valid one whose revision is not lower.
LEMMA Answered ==
  ASSUME Stored, FetchAnswered
  PROVE  /\ UNCHANGED <<cache, cur, conn, told>>
         /\ policy' \in Snapshots
         /\ loop' = "save" => policy'.doc # Null
         /\ Revision(policy') >= Revision(policy)
         /\ \/ policy'.doc = policy.doc
            \/ /\ policy'.doc \in Valid
               /\ policy.doc # Null => Docs[policy'.doc].revision >= Docs[policy.doc].revision
<1> DEFINE t == published[Asked]
           same == [policy EXCEPT !.src = "remote"]
           new == [doc |-> t, stored |-> FALSE, src |-> "remote"]
<1>1. UNCHANGED <<cache, cur, conn, told>> BY DEF FetchAnswered, ipc
<1>2. \/ policy' = policy /\ loop' = "cycle"
      \/ Unchanged(t) /\ policy' = same
      \/ t # Null /\ Acceptable(t) /\ policy' = new
  BY DEF FetchAnswered
<1>3. policy \in Snapshots /\ Revision(policy) \in Nat BY SnapRevision DEF Stored
<1>4. CASE policy' = policy /\ loop' = "cycle" BY <1>1, <1>3, <1>4
<1>5. CASE Unchanged(t) /\ policy' = same
  <2>1. policy.doc # Null BY <1>5 DEF Unchanged
  <2>2. policy \in [doc : Tags, stored : BOOLEAN, src : {"cache", "remote"}]
    BY <1>3, <2>1 DEF Snapshots, Default
  <2>3. same \in Snapshots /\ same.doc = policy.doc BY <2>2 DEF Snapshots
  <2>4. Revision(same) = Revision(policy) BY <1>3, <2>1, <2>3, SnapRevision
  <2> QED BY <1>1, <1>3, <1>5, <2>1, <2>3, <2>4
<1>6. CASE t # Null /\ Acceptable(t) /\ policy' = new
  <2>1. t \in Tags /\ t \in Valid BY <1>6 DEF Acceptable, Valid
  <2>2. new \in Snapshots /\ new.doc = t BY <2>1 DEF Snapshots
  <2>3. Revision(new) \in Nat /\ Revision(new) = Docs[t].revision BY <1>6, <2>2, SnapRevision
  <2>4. policy.doc = Null => Revision(policy) = 0 BY <1>3, SnapRevision
  <2>5. policy.doc # Null => /\ Revision(policy) = Docs[policy.doc].revision
                             /\ Docs[t].revision >= Revision(policy)
    BY <1>3, <1>6, SnapRevision, SourcesHaveDocs DEF Acceptable
  <2>6. Revision(new) >= Revision(policy) BY <1>3, <2>3, <2>4, <2>5
  <2> QED BY <1>1, <1>6, <2>1, <2>2, <2>5, <2>6
<1> QED BY <1>2, <1>4, <1>5, <1>6

LEMMA AnsweredInv == ASSUME ConfigInv, FetchAnswered PROVE ConfigInv'
<1> USE DEF ConfigInv
<1>1. Stored' BY Answered DEF Stored
<1>2. policy \in Snapshots /\ policy' \in Snapshots BY <1>1 DEF Stored
<1>3. Revision(policy) \in Nat /\ Revision(policy') \in Nat BY <1>2, SnapRevision
<1>4. Revision(policy') >= Revision(policy) /\ cur' = cur /\ told' = told BY Answered
<1>5. Ordered'
  <2>1. CASE cur = Null BY <1>3, <1>4, <2>1 DEF Ordered, ViewSnap
  <2>2. CASE cur # Null
    <3>1. Revision(cur.snap) \in Nat BY <2>2, SnapRevision DEF Ordered
    <3> QED BY <1>3, <1>4, <2>2, <3>1 DEF Ordered, ViewSnap, Revision
  <2> QED BY <2>1, <2>2
<1>6. Revision(ViewSnap)' >= Revision(ViewSnap)
  <2>1. CASE cur = Null BY <1>3, <1>4, <2>1 DEF ViewSnap, Revision
  <2>2. CASE cur # Null
    <3>1. ViewSnap' = ViewSnap BY <1>4, <2>2 DEF ViewSnap
    <3>2. Revision(ViewSnap) \in Nat BY ViewRevision
    <3> QED BY <3>1, <3>2 DEF Revision
  <2> QED BY <2>1, <2>2
<1>7. Serving' BY <1>1, <1>5, <1>6, Answered, ServingKept
<1> QED BY <1>1, <1>5, <1>7

\* A cycle begins with the store's document.
LEMMA CycleInv == ASSUME ConfigInv, BeginCycle PROVE ConfigInv'
<1> USE DEF ConfigInv
<1>1. \E h : cur' = [snap |-> policy, host |-> h, now |-> now] BY DEF BeginCycle
<1>2. UNCHANGED <<policy, conn, told>> /\ loop' = "start" BY DEF BeginCycle, ipc
<1>3. Stored' BY <1>2 DEF Stored
<1>4. ViewSnap' = policy BY <1>1, <1>2 DEF ViewSnap
<1>5. cur'.snap = policy BY <1>1
<1>6. policy \in Snapshots /\ Revision(policy) \in Nat BY SnapRevision DEF Stored
<1>7. told <= Revision(policy) /\ told \in Nat
  <2>1. CASE cur = Null BY <2>1 DEF Ordered, ViewSnap
  <2>2. CASE cur # Null
    <3>1. Revision(cur.snap) \in Nat BY <2>2, SnapRevision DEF Ordered
    <3> QED BY <1>6, <2>2, <3>1 DEF Ordered, ViewSnap
  <2> QED BY <2>1, <2>2
<1>8. Revision(policy)' = Revision(policy) BY <1>2 DEF Revision
<1>9. Ordered' BY <1>2, <1>4, <1>5, <1>6, <1>7, <1>8 DEF Ordered, Revision
<1>10. Revision(ViewSnap) <= Revision(policy) BY <1>6 DEF Ordered, ViewSnap
<1>11. Revision(ViewSnap)' = Revision(policy) BY <1>4 DEF Revision
<1>12. Serving' BY <1>2, <1>3, <1>6, <1>9, <1>10, <1>11, ViewRevision, ServingKept
<1> QED BY <1>3, <1>9, <1>12

\* What an IPC step does to its own connection is all there is to show for it, and
\* that EMLy is told no more than the view.
LEMMA ServeStep ==
  ASSUME ConfigInv, NEW c \in Conns, NEW k, UNCHANGED <<policy, cur, loop>>,
         conn' = [conn EXCEPT ![c] = k],
         told' \in Nat, told <= told', told' <= Revision(ViewSnap),
         Served(k, told', Revision(ViewSnap))
  PROVE  ConfigInv'
<1> USE DEF ConfigInv
<1>1. Revision(ViewSnap) \in Nat /\ Revision(ViewSnap)' = Revision(ViewSnap)
  BY ViewRevision DEF Revision, ViewSnap
<1>2. Stored' BY DEF Stored
<1>3. Ordered' BY <1>1 DEF Ordered, Revision
<1>4. DOMAIN conn' = Conns BY DEF Serving
<1>5. ASSUME NEW d \in Conns PROVE Served(conn'[d], told', Revision(ViewSnap))
  <2>1. CASE d = c BY <2>1 DEF Serving
  <2>2. CASE d # c
    <3>1. conn'[d] = conn[d] BY <2>2 DEF Serving
    <3>2. Served(conn[d], told, Revision(ViewSnap)) BY DEF Serving
    <3> HIDE DEF Revision, ViewSnap
    <3> QED BY <3>1, <3>2 DEF Served, Ordered
  <2> QED BY <2>1, <2>2
<1>6. Serving' BY <1>1, <1>4, <1>5 DEF Serving
<1> QED BY <1>2, <1>3, <1>6

LEMMA ServeInv == ASSUME ConfigInv, Serve PROVE ConfigInv'
<1>1. PICK c \in Conns :
        Connect(c) \/ TurnAway(c) \/ CheckPeerVersion(c) \/ Dispatch(c) \/ WriteEnvelope(c)
  BY DEF Serve
<1> DEFINE top == Revision(ViewSnap)
           Fits(k) == /\ conn' = [conn EXCEPT ![c] = k]
                      /\ told' \in Nat /\ told <= told' /\ told' <= top
                      /\ Served(k, told', top)
<1>2. top \in Nat /\ told \in Nat /\ told <= top BY ViewRevision DEF ConfigInv, Ordered
<1>3. Served(conn[c], told, top) BY DEF ConfigInv, Serving
<1>4. UNCHANGED <<policy, cur, loop>>
  BY <1>1 DEF Connect, TurnAway, CheckPeerVersion, Dispatch, WriteEnvelope
<1>5. SUFFICES \E k : Fits(k) BY <1>4, <1>5, ServeStep
<1> HIDE DEF top
<1>6. \A high \in Nat : Served(NoConn, high, top) BY DEF Served, NoConn
<1>7. CASE Connect(c)
  <2>1. PICK v : conn' = [conn EXCEPT ![c] = [state |-> "open", version |-> v, answer |-> Null, floor |-> told]]
    BY <1>7 DEF Connect
  <2> DEFINE k == [state |-> "open", version |-> v, answer |-> Null, floor |-> told]
  <2>2. Served(k, told, top) BY <1>2 DEF Served
  <2>3. told' = told BY <1>7 DEF Connect
  <2> HIDE DEF k
  <2>4. Fits(k) BY <1>2, <2>1, <2>2, <2>3 DEF k
  <2> QED BY <2>4
<1>8. CASE TurnAway(c)
  <2>1. conn' = [conn EXCEPT ![c] = NoConn] /\ told' = told BY <1>8 DEF TurnAway
  <2>2. Fits(NoConn) BY <1>2, <1>6, <2>1
  <2> QED BY <2>2
<1>9. CASE CheckPeerVersion(c)
  <2> DEFINE k == IF Admits(View.doc.ipc, conn[c].version)
                  THEN [conn[c] EXCEPT !.state = "admitted"] ELSE NoConn
  <2>1. conn' = [conn EXCEPT ![c] = k] /\ told' = told BY <1>9 DEF CheckPeerVersion
  <2>2. Served([conn[c] EXCEPT !.state = "admitted"], told, top) BY <1>3 DEF Served
  <2>3. Served(k, told, top) BY <1>2, <1>6, <2>2
  <2> HIDE DEF k
  <2>4. Fits(k) BY <1>2, <2>1, <2>3
  <2> QED BY <2>4
<1>10. CASE Dispatch(c)
  <2> DEFINE given == IF Raw[View.snap.doc][FALSE].large THEN Null ELSE Revision(View.snap)
             k == [conn[c] EXCEPT !.state = "answering", !.answer = given]
  <2>1. View.snap = ViewSnap BY DEF View, ViewSnap
  <2>2. conn' = [conn EXCEPT ![c] = k] /\ told' = told BY <1>10 DEF Dispatch
  <2>3. given # Null => given = top BY <2>1 DEF top
  <2> HIDE DEF given
  <2>4. k.floor = conn[c].floor /\ k.answer \in {given, conn[c].answer} OBVIOUS
  <2> HIDE DEF k
  <2>5. Served(k, told, top) BY <1>2, <1>3, <2>3, <2>4 DEF Served
  <2>6. Fits(k) BY <1>2, <2>2, <2>5
  <2> QED BY <2>6
<1>11. CASE WriteEnvelope(c)
  <2>1. /\ conn' = [conn EXCEPT ![c] = NoConn]
        /\ \/ conn[c].answer # Null /\ conn[c].answer > told /\ told' = conn[c].answer
           \/ told' = told
    BY <1>11 DEF WriteEnvelope
  <2>2. told' \in Nat /\ told <= told' /\ told' <= top BY <1>2, <1>3, <2>1 DEF Served
  <2>3. Fits(NoConn) BY <1>6, <2>1, <2>2
  <2> QED BY <2>3
<1> QED BY <1>1, <1>7, <1>8, <1>9, <1>10, <1>11

\* A start begins with the saved document or with none, and tells nobody.
LEMMA RestartInv == ASSUME ConfigInv, Restart PROVE ConfigInv'
<1>1. PICK readable \in BOOLEAN : policy' = InitPolicy(readable) BY DEF Restart
<1>2. policy' \in Snapshots
  BY <1>1, DefaultSnap DEF InitPolicy, Loaded, Loads, Snapshots
<1>3. loop' = "start" /\ cur' = Null /\ told' = 0 /\ conn' = [c \in Conns |-> NoConn] BY DEF Restart
<1>4. Revision(policy') \in Nat BY <1>2, SnapRevision
<1>5. Stored' BY <1>2, <1>3 DEF Stored
<1>6. Ordered' BY <1>3, <1>4 DEF Ordered, ViewSnap, Revision
<1>7. Serving' BY <1>3 DEF Serving, Served, NoConn
<1> QED BY <1>5, <1>6, <1>7 DEF ConfigInv

\* The actions of Next, the quiet ones together.
LEMMA NextSteps ==
  ASSUME [Next]_vars
  PROVE  \/ NotDue \/ RefreshConfig \/ FetchFails \/ SaveCache \/ World \/ UNCHANGED vars
         \/ FetchAnswered \/ BeginCycle \/ Serve \/ Restart
  BY DEF Next, Loop

LEMMA ServeUnchanged == ASSUME Serve PROVE UNCHANGED <<policy, cache>>
  BY DEF Serve, Connect, TurnAway, CheckPeerVersion, Dispatch, WriteEnvelope

\* The inductive invariant: what the store holds, the order of the revisions of
\* store, cycle and client, and where the answers under way stand in it.
THEOREM ConfigInvariant == Spec => []ConfigInv
<1>1. ConfigInv /\ [Next]_vars => ConfigInv'
  BY NextSteps, QuietNext, QuietSteps, AnsweredInv, CycleInv, ServeInv, RestartInv
<1> QED BY <1>1, ConfigInit, PTL DEF Spec

\* Every step is one of the register's, or changes neither its document nor
\* its copy.
LEMMA RegisterStep ==
  ASSUME ConfigInv, [Next]_vars
  PROVE  [Register!Next]_(Register!vars)
<1> USE DEF ConfigInv, Register!vars
<1>1. CASE FetchAnswered
  <2>1. UNCHANGED cache BY <1>1, Answered
  <2>2. CASE policy'.doc = policy.doc BY <2>1, <2>2
  <2>3. CASE policy'.doc \in Valid /\ (policy.doc # Null => Docs[policy'.doc].revision >= Docs[policy.doc].revision)
    <3>1. policy'.doc \in Tags BY <2>3 DEF Valid
    <3>2. policy.doc # Null => policy.doc \in Tags BY SnapRevision DEF Stored
    <3>3. Register!Adopt(policy'.doc) BY <2>1, <2>3, <3>1, <3>2 DEF Register!Adopt
    <3> QED BY <2>3, <3>3 DEF Register!Next
  <2> QED BY <1>1, <2>2, <2>3, Answered
<1>2. CASE SaveCache
  <2>1. UNCHANGED policy /\ (cache' = policy.doc \/ UNCHANGED cache) /\ policy.doc # Null
    BY <1>2 DEF SaveCache, Stored
  <2> QED BY <2>1 DEF Register!Next, Register!Save
<1>3. CASE Restart
  <2>1. PICK readable, moved \in BOOLEAN :
          policy' = InitPolicy(readable) /\ cache' = Quarantined(readable, moved)
    BY <1>3 DEF Restart
  <2>2. policy'.doc \in {cache, Null} BY <2>1, DefaultSnap DEF InitPolicy
  <2>3. cache' \in {cache, Null} BY <2>1 DEF Quarantined
  <2> QED BY <2>2, <2>3 DEF Register!Next, Register!Restart
<1>4. CASE NotDue \/ RefreshConfig \/ FetchFails \/ BeginCycle
  BY <1>4 DEF NotDue, RefreshConfig, FetchFails, BeginCycle
<1>5. CASE Serve BY <1>5, ServeUnchanged
<1>6. CASE World \/ UNCHANGED vars
  BY <1>6 DEF World, Publish, Outage, Elapse, Clock, vars
<1> QED BY <1>1, <1>2, <1>3, <1>4, <1>5, <1>6, NextSteps

\* For any documents, servers, answers, faults and stops, the policy store and
\* its cache implement the register: no run goes back to an older document or
\* to an invalid one, and a start finds the saved document or none
\* (refreshConfig, acceptDocument, saveCache, initPolicy).
THEOREM StoreImplementsRegister == Spec => ImplementsRegister
<1>1. Init => Register!Init BY DefaultSnap DEF Init, Register!Init
<1>2. ConfigInv /\ [Next]_vars => [Register!Next]_(Register!vars) BY RegisterStep
<1> QED BY <1>1, <1>2, ConfigInvariant, PTL DEF Spec, ImplementsRegister, Register!Spec

\* For any number of connections, each with a goroutine of its own, and any
\* interleaving of cycles with their steps: an answer is not older than what EMLy
\* had been given, on any connection, when the question was put (handleConn,
\* dispatch, policyView).
THEOREM EMLyToldForward == Spec => []ToldForward
<1>1. ConfigInv => ToldForward BY DEF ConfigInv, Serving, Served, ToldForward
<1> QED BY <1>1, ConfigInvariant, PTL
-----------------------------------------------------------------------------
(* Overrides.  The dry run tries each override alone and all of them in     *)
(* order; a host may be selected by any others.                             *)

\* JSON's null is not an object.
NullIsNoObject == \A f : f = [k \in DOMAIN f |-> f[k]] => f # Null

LEMMA MergeIsObject == NullIsNoObject => \A target, patch : MergeFields(target, patch) # Null
<1> SUFFICES ASSUME NullIsNoObject, NEW target, NEW patch PROVE MergeFields(target, patch) # Null
  OBVIOUS
<1> DEFINE m == MergeFields(target, patch)
<1>1. m = [k \in DOMAIN m |-> m[k]] BY DEF MergeFields
<1> QED BY <1>1 DEF NullIsNoObject

LEMMA FieldOver ==
  ASSUME NEW d, NEW x, NEW f \in DOMAIN d
  PROVE  MergeFields(d, StripNulls(x))[f] = IF f \in DOMAIN x /\ x[f] # Null THEN x[f] ELSE d[f]
  BY DEF MergeFields, StripNulls

\* A field of a completed section is the one that was sent, or the default.
LEMMA CompleteField ==
  ASSUME NEW sections, NEW c \in MergedSections, NEW f \in DOMAIN DefaultsFromConfig[c]
  PROVE  Complete(sections)[c][f] =
           IF c \in DOMAIN sections /\ sections[c] # Null /\ f \in DOMAIN sections[c] /\ sections[c][f] # Null
             THEN sections[c][f] ELSE DefaultsFromConfig[c][f]
<1> DEFINE d == DefaultsFromConfig[c]
           sent == c \in DOMAIN sections /\ sections[c] # Null
<1>1. c \in PatchableSections BY DEF PatchableSections
<1> HIDE DEF d
<1>2. Complete(sections)[c] = IF sent THEN MergeFields(d, StripNulls(sections[c])) ELSE d
  BY <1>1 DEF Complete, d
<1>3. f \in DOMAIN d BY DEF d
<1>4. CASE sent BY <1>2, <1>3, <1>4, FieldOver DEF d
<1>5. CASE ~sent BY <1>2, <1>5 DEF d
<1> QED BY <1>4, <1>5

LEMMA MergedField ==
  ASSUME NEW target, NEW patch, NEW f
  PROVE  /\ f \in DOMAIN MergeFields(target, patch)
              <=> IF f \in DOMAIN patch THEN patch[f] # Null ELSE f \in DOMAIN target
         /\ f \in DOMAIN patch /\ patch[f] # Null => MergeFields(target, patch)[f] = patch[f]
         /\ f \notin DOMAIN patch /\ f \in DOMAIN target => MergeFields(target, patch)[f] = target[f]
  BY DEF MergeFields

\* What mergePatch makes of one section.
LEMMA MergedSection ==
  ASSUME NEW T, NEW p, NEW c \in MergedSections
  PROVE  /\ c \in DOMAIN MergePatch(T, p) <=> IF c \in DOMAIN p THEN p[c] # Null ELSE c \in DOMAIN T
         /\ c \notin DOMAIN p /\ c \in DOMAIN T => MergePatch(T, p)[c] = T[c]
         /\ c \in DOMAIN p /\ p[c] # Null
              => MergePatch(T, p)[c] = MergeFields(IF c \in DOMAIN T /\ T[c] # Null THEN T[c] ELSE <<>>, p[c])
<1> DEFINE kept == (DOMAIN T \cup DOMAIN p) \ {k \in DOMAIN p : p[k] = Null}
           value(k) == IF k \notin DOMAIN p THEN T[k]
                       ELSE IF k \in MergedSections
                            THEN MergeFields(IF k \in DOMAIN T /\ T[k] # Null THEN T[k] ELSE <<>>, p[k])
                       ELSE p[k]
<1>1. MergePatch(T, p) = [k \in kept |-> value(k)] BY DEF MergePatch
<1>2. c \in kept <=> IF c \in DOMAIN p THEN p[c] # Null ELSE c \in DOMAIN T OBVIOUS
<1>3. c \notin DOMAIN p => value(c) = T[c] OBVIOUS
<1>4. c \in DOMAIN p
        => value(c) = MergeFields(IF c \in DOMAIN T /\ T[c] # Null THEN T[c] ELSE <<>>, p[c])
  OBVIOUS
<1> HIDE DEF kept, value
<1> QED BY <1>1, <1>2, <1>3, <1>4

\* Once a patch is merged, a field has the value it had before, or the value
\* that the patch gives it on its own.
LEMMA FieldFromEither ==
  ASSUME NullIsNoObject, NEW S, NEW T, NEW p, NEW c \in MergedSections,
         NEW f \in DOMAIN DefaultsFromConfig[c]
  PROVE  \/ Complete(MergePatch(T, p))[c][f] = Complete(T)[c][f]
         \/ Complete(MergePatch(T, p))[c][f] = Complete(MergePatch(S, p))[c][f]
<1>1. CASE c \notin DOMAIN p BY <1>1, MergedSection, CompleteField
<1>2. CASE c \in DOMAIN p /\ p[c] = Null BY <1>2, MergedSection, CompleteField
<1>3. CASE c \in DOMAIN p /\ p[c] # Null
  <2> DEFINE old(X) == IF c \in DOMAIN X /\ X[c] # Null THEN X[c] ELSE <<>>
  <2>1. \A X : c \in DOMAIN MergePatch(X, p) /\ MergePatch(X, p)[c] = MergeFields(old(X), p[c])
    BY <1>3, MergedSection
  <2>2. \A X : MergePatch(X, p)[c] # Null BY <2>1, MergeIsObject
  <2>3. f \in DOMAIN old(T) <=> c \in DOMAIN T /\ T[c] # Null /\ f \in DOMAIN T[c] OBVIOUS
  <2>4. f \in DOMAIN old(T) => old(T)[f] = T[c][f] BY <2>3
  <2> HIDE DEF old
  <2>5. CASE f \in DOMAIN p[c]
    <3>1. \A X : f \in DOMAIN MergePatch(X, p)[c] <=> p[c][f] # Null BY <2>1, <2>5, MergedField
    <3>2. p[c][f] # Null => \A X : MergePatch(X, p)[c][f] = p[c][f] BY <2>1, <2>5, MergedField
    <3> QED BY <2>1, <2>2, <3>1, <3>2, CompleteField
  <2>6. CASE f \notin DOMAIN p[c]
    <3>1. f \in DOMAIN MergePatch(T, p)[c] <=> f \in DOMAIN old(T) BY <2>1, <2>6, MergedField
    <3>2. f \in DOMAIN old(T) => MergePatch(T, p)[c][f] = old(T)[f] BY <2>1, <2>6, MergedField
    <3> QED BY <2>1, <2>2, <2>3, <2>4, <3>1, <3>2, CompleteField
  <2> QED BY <2>5, <2>6
<1> QED BY <1>1, <1>2, <1>3

LEMMA ServerFromEither ==
  ASSUME NEW S, NEW T, NEW p, "defaultServer" \in DOMAIN Complete(T),
         "defaultServer" \in DOMAIN Complete(MergePatch(S, p))
  PROVE  /\ "defaultServer" \in DOMAIN Complete(MergePatch(T, p))
         /\ \/ Complete(MergePatch(T, p))["defaultServer"] = Complete(T)["defaultServer"]
            \/ Complete(MergePatch(T, p))["defaultServer"] = Complete(MergePatch(S, p))["defaultServer"]
<1> DEFINE D == "defaultServer"
<1>1. D \in PatchableSections /\ D \notin MergedSections BY DEF PatchableSections, MergedSections
<1>2. \A X : /\ D \in DOMAIN Complete(X) <=> D \in DOMAIN X /\ X[D] # Null
             /\ D \in DOMAIN Complete(X) => Complete(X)[D] = X[D]
  BY <1>1 DEF Complete
<1>3. \A X : /\ D \in DOMAIN MergePatch(X, p) <=> IF D \in DOMAIN p THEN p[D] # Null ELSE D \in DOMAIN X
             /\ D \in DOMAIN MergePatch(X, p) => MergePatch(X, p)[D] = IF D \in DOMAIN p THEN p[D] ELSE X[D]
  BY <1>1 DEF MergePatch
<1> HIDE DEF D
<1>4. CASE D \in DOMAIN p BY <1>2, <1>3, <1>4 DEF D
<1>5. CASE D \notin DOMAIN p BY <1>2, <1>3, <1>5 DEF D
<1> QED BY <1>4, <1>5

\* For any document and any accumulated sections: a patch that is valid on its
\* own keeps them valid.  It is the step from one set of overrides to a larger
\* one, and it rests on every rule being about one field (dryRunOverrides,
\* validateDocument, Effective).
THEOREM OverridesCompose ==
  ASSUME NullIsNoObject, NEW raw, NEW T, NEW p,
         ValidDocument(Build(raw, T)), ValidDocument(Build(raw, MergePatch(raw.sections, p)))
  PROVE  ValidDocument(Build(raw, MergePatch(T, p)))
<1> DEFINE S == raw.sections
           Both == MergePatch(T, p)
           Alone == MergePatch(S, p)
<1>1. \A X : /\ Build(raw, X).revision = raw.revision /\ Build(raw, X).servers = raw.servers
             /\ Build(raw, X).sites = raw.sites /\ Build(raw, X).ipc = Build(raw, T).ipc
             /\ Build(raw, X).sections = Complete(X)
  BY DEF Build
<1>2. "mode" \in DOMAIN DefaultsFromConfig["app"] /\ "attempts" \in DOMAIN DefaultsFromConfig["updater"]
  BY DEF DefaultsFromConfig
<1>3. "app" \in MergedSections /\ "updater" \in MergedSections BY DEF MergedSections
<1>4. \/ Complete(Both)["app"]["mode"] = Complete(T)["app"]["mode"]
      \/ Complete(Both)["app"]["mode"] = Complete(Alone)["app"]["mode"]
  BY <1>2, <1>3, FieldFromEither
<1>5. \/ Complete(Both)["updater"]["attempts"] = Complete(T)["updater"]["attempts"]
      \/ Complete(Both)["updater"]["attempts"] = Complete(Alone)["updater"]["attempts"]
  BY <1>2, <1>3, FieldFromEither
<1>6. "defaultServer" \in DOMAIN Complete(T) /\ "defaultServer" \in DOMAIN Complete(Alone)
  BY <1>1 DEF ValidDocument
<1>7. /\ "defaultServer" \in DOMAIN Complete(Both)
      /\ \/ Complete(Both)["defaultServer"] = Complete(T)["defaultServer"]
         \/ Complete(Both)["defaultServer"] = Complete(Alone)["defaultServer"]
  BY <1>6, ServerFromEither
<1> HIDE DEF S, Both, Alone
<1>8. ValidDocument(Build(raw, Both)) BY <1>1, <1>4, <1>5, <1>7 DEF ValidDocument, Alone, S
<1> QED BY <1>8 DEF Both

(* Induction.  The library's principle takes an operator, which the provers *)
(* cannot instantiate; that every set of naturals has a least element is    *)
(* the same principle about sets.                                           *)

LEMMA LeastElement ==
  ASSUME NEW T \in SUBSET Nat, T # {}
  PROVE  \E n \in T : \A m \in T : n <= m
<1> DEFINE R == OpToRel(<, Nat)
<1>1. PICK n \in T : \A m \in T : <<m, n>> \notin R
  <2>1. IsWellFoundedOn(R, Nat) BY NatLessThanWellFounded DEF OpToRel
  <2> HIDE DEF R
  <2> QED BY <2>1, WFMin
<1>2. \A m \in T : ~(m < n) BY <1>1 DEF OpToRel
<1> QED BY <1>2

LEMMA SetInduction ==
  ASSUME NEW S, 0 \in S, \A n \in Nat : n \in S => n + 1 \in S
  PROVE  Nat \subseteq S
<1> SUFFICES ASSUME Nat \ S # {} PROVE FALSE OBVIOUS
<1>1. PICK n \in Nat \ S : \A m \in Nat \ S : n <= m BY LeastElement
<1>2. n - 1 \in Nat OBVIOUS
<1>3. n - 1 \in S BY <1>1, <1>2
<1> QED BY <1>2, <1>3

\* The loop is well defined: the function that it accumulates exists, and each
\* of its values is made from the one before.
LEMMA AccumulatedSteps ==
  ASSUME NEW s, NEW o, NEW P, Len(o) \in Nat
  PROVE  /\ Accumulated(s, o, P)[0] = s
         /\ \A i \in 1 .. Len(o) :
              Accumulated(s, o, P)[i] = IF i \in P THEN MergePatch(Accumulated(s, o, P)[i - 1], o[i].patch)
                                                   ELSE Accumulated(s, o, P)[i - 1]
<1> DEFINE Step(g, i) == IF i = 0 THEN s
                         ELSE IF i \in P THEN MergePatch(g[i - 1], o[i].patch)
                         ELSE g[i - 1]
           Defined == {n \in Nat : \E g : g = [i \in 0 .. n |-> Step(g, i)]}
           A == Accumulated(s, o, P)
<1>1. \A g, h : \A i \in Nat : i = 0 \/ g[i - 1] = h[i - 1] => Step(g, i) = Step(h, i) OBVIOUS
<1>2. \A g : Step(g, 0) = s OBVIOUS
<1>3. A = CHOOSE g : g = [i \in 0 .. Len(o) |-> Step(g, i)] BY DEF Accumulated
<1>4. SUFFICES A = [i \in 0 .. Len(o) |-> Step(A, i)]
  <2>1. A[0] = Step(A, 0) /\ \A i \in 1 .. Len(o) : A[i] = Step(A, i) BY <1>4
  <2> HIDE DEF A
  <2> QED BY <2>1 DEF A
<1> HIDE DEF Step, A
<1>5. 0 \in Defined
  <2> DEFINE g == [i \in 0 .. 0 |-> s]
  <2>1. g = [i \in 0 .. 0 |-> Step(g, i)] BY <1>2
  <2> QED BY <2>1
<1>6. ASSUME NEW n \in Nat, n \in Defined PROVE n + 1 \in Defined
  <2>1. PICK g : g = [i \in 0 .. n |-> Step(g, i)] BY <1>6
  <2> DEFINE h == [i \in 0 .. n + 1 |-> IF i <= n THEN g[i] ELSE Step(g, i)]
  <2>2. \A i \in 0 .. n : g[i] = Step(g, i) BY <2>1
  <2>3. \A i \in 0 .. n + 1 : h[i] = Step(g, i) BY <2>2
  <2>4. \A i \in 0 .. n : h[i] = g[i] OBVIOUS
  <2>5. \A i \in 0 .. n + 1 : Step(h, i) = Step(g, i)
    <3> TAKE i \in 0 .. n + 1
    <3>1. i # 0 => i - 1 \in 0 .. n OBVIOUS
    <3>2. i # 0 => h[i - 1] = g[i - 1] BY <2>4, <3>1
    <3> HIDE DEF h
    <3> QED BY <1>1, <3>2
  <2>6. h = [i \in 0 .. n + 1 |-> h[i]] OBVIOUS
  <2> HIDE DEF h
  <2>7. h = [i \in 0 .. n + 1 |-> Step(h, i)] BY <2>3, <2>5, <2>6
  <2> QED BY <2>7
<1>7. \E g : g = [i \in 0 .. Len(o) |-> Step(g, i)]
  <2> HIDE DEF Defined
  <2>1. Len(o) \in Defined BY <1>5, <1>6, SetInduction
  <2> QED BY <2>1 DEF Defined
<1> QED BY <1>3, <1>7

\* A document that Parse accepts is valid for a host that any set of its
\* overrides selects, although the dry run has tried none of those sets but
\* the single overrides and all of them: the fallback to the global document
\* is never taken (dryRunOverrides, Effective).
THEOREM AnyOverridesValid ==
  ASSUME NullIsNoObject, NEW raw, Shaped(raw), Parses(raw), NEW P
  PROVE  ValidDocument(Build(raw, Applied(raw.sections, raw.overrides, P)))
<1> DEFINE N == Len(raw.overrides)
           A == Accumulated(raw.sections, raw.overrides, P)
           Good == {n \in Nat : n <= N => ValidDocument(Build(raw, A[n]))}
<1>1. N \in Nat /\ DOMAIN raw.overrides = 1 .. N BY DEF Shaped
<1>2. \A n \in 1 .. N : ValidDocument(Build(raw, MergePatch(raw.sections, raw.overrides[n].patch)))
  BY <1>1 DEF Parses, DryRunOverrides
<1>3. ValidDocument(Build(raw, raw.sections)) BY DEF Parses
<1>4. /\ A[0] = raw.sections
      /\ \A i \in 1 .. N : A[i] = IF i \in P THEN MergePatch(A[i - 1], raw.overrides[i].patch) ELSE A[i - 1]
  BY <1>1, AccumulatedSteps
<1> HIDE DEF A, N
<1>5. 0 \in Good BY <1>3, <1>4
<1>6. ASSUME NEW n \in Nat, n \in Good PROVE n + 1 \in Good
  <2> SUFFICES ASSUME n + 1 <= N PROVE ValidDocument(Build(raw, A[n + 1])) OBVIOUS
  <2>1. n + 1 \in 1 .. N /\ n <= N /\ (n + 1) - 1 = n BY <1>1
  <2>2. ValidDocument(Build(raw, A[n])) BY <1>6, <2>1
  <2>3. A[n + 1] = IF n + 1 \in P THEN MergePatch(A[n], raw.overrides[n + 1].patch) ELSE A[n]
    BY <1>4, <2>1
  <2>4. CASE n + 1 \notin P BY <2>2, <2>3, <2>4
  <2>5. CASE n + 1 \in P
    <3>1. ValidDocument(Build(raw, MergePatch(raw.sections, raw.overrides[n + 1].patch))) BY <1>2, <2>1
    <3>2. ValidDocument(Build(raw, MergePatch(A[n], raw.overrides[n + 1].patch)))
      BY <2>2, <3>1, OverridesCompose
    <3> QED BY <2>3, <2>5, <3>2
  <2> QED BY <2>4, <2>5
<1>7. N \in Good
  <2> HIDE DEF Good
  <2> QED BY <1>1, <1>5, <1>6, SetInduction
<1> QED BY <1>1, <1>7 DEF Applied, A, N
-----------------------------------------------------------------------------
(* The document in force is one that Parse accepted, in the form it is held *)
(* in: as it was sent, or as it reads back from the cache.                  *)

Accepted ==
  policy.doc # Null => policy.doc \in IF policy.stored THEN Loads ELSE Valid

LEMMA AcceptedStep ==
  ASSUME ConfigInv, Accepted, [Next]_vars
  PROVE  Accepted'
<1> USE DEF Accepted
<1>1. CASE UNCHANGED policy BY <1>1
<1>2. CASE FetchAnswered
  <2> DEFINE t == published[Asked]
             same == [policy EXCEPT !.src = "remote"]
             new == [doc |-> t, stored |-> FALSE, src |-> "remote"]
  <2>1. \/ policy' = policy
        \/ Unchanged(t) /\ policy' = same
        \/ Acceptable(t) /\ policy' = new
    BY <1>2 DEF FetchAnswered
  <2>2. CASE Unchanged(t) /\ policy' = same
    <3>1. policy \in [doc : Tags, stored : BOOLEAN, src : {"cache", "remote"}]
      BY <2>2 DEF ConfigInv, Stored, Snapshots, Default, Unchanged
    <3>2. same.doc = policy.doc /\ same.stored = policy.stored BY <3>1
    <3> QED BY <2>2, <3>2
  <2>3. CASE Acceptable(t) /\ policy' = new BY <2>3 DEF Acceptable
  <2> QED BY <1>1, <2>1, <2>2, <2>3
<1>3. CASE Restart
  <2>1. PICK readable \in BOOLEAN : policy' = InitPolicy(readable) BY <1>3 DEF Restart
  <2> QED BY <2>1, DefaultSnap DEF InitPolicy, Loaded
<1>4. CASE BeginCycle BY <1>1, <1>4 DEF BeginCycle
<1>5. CASE Serve BY <1>1, <1>5, ServeUnchanged
<1> QED BY <1>1, <1>2, <1>3, <1>4, <1>5, NextSteps, QuietNext

LEMMA AcceptedInvariant == Spec => []Accepted
<1>1. Init => Accepted BY DefaultSnap DEF Init, Accepted
<1> QED BY <1>1, AcceptedStep, ConfigInvariant, PTL DEF Spec

\* What config.ini stands for is a valid document.
DefaultIsValid == ValidDocument(Build(FromLegacy, FromLegacy.sections))

LEMMA DefaultOverridden ==
  ASSUME DefaultIsValid, NEW h, NEW n
  PROVE  ValidDocument(Overridden(FromLegacy, h, n))
<1>1. FromLegacy.overrides = <<>> BY DEF FromLegacy
<1>2. Len(FromLegacy.overrides) = 0 BY <1>1
<1>3. \A P : Applied(FromLegacy.sections, FromLegacy.overrides, P) = FromLegacy.sections
  BY <1>2, AccumulatedSteps DEF Applied
<1> QED BY <1>3 DEF Overridden, DefaultIsValid
-----------------------------------------------------------------------------
(* The cache.  What Marshal writes is another document; it keeps the parts  *)
(* that are not patched and selects the same hosts.                         *)

\* A selector in the cache selects as before: `all` is TRUE or not.
LEMMA TypedSelects ==
  ASSUME NEW sel, {"all", "lists"} \subseteq DOMAIN sel
  PROVE  /\ DOMAIN Typed(sel) = DOMAIN sel
         /\ \A host : Matches(Typed(sel), host) <=> Matches(sel, host)
<1>1. DOMAIN Typed(sel) = DOMAIN sel BY DEF Typed
<1>2. Typed(sel).all = (sel.all = TRUE) /\ Typed(sel).lists = sel.lists BY DEF Typed
<1> QED BY <1>1, <1>2 DEF Matches

TypedOverride(o) ==
  [o EXCEPT !.match = Typed(o.match),
            !.except = IF o.except = Null THEN Null ELSE Typed(o.except)]

LEMMA MarshalParts ==
  ASSUME NEW raw, Shaped(raw)
  PROVE  /\ DOMAIN Marshal(raw) = DOMAIN raw
         /\ Marshal(raw).revision = raw.revision
         /\ Marshal(raw).servers = raw.servers
         /\ Marshal(raw).sites = raw.sites
         /\ Marshal(raw).ipc = Build(raw, raw.sections).ipc
         /\ Marshal(raw).sections = Complete(raw.sections)
         /\ Marshal(raw).overrides = [i \in DOMAIN raw.overrides |-> TypedOverride(raw.overrides[i])]
<1> DEFINE a == Complete(raw.sections)
           b == Build(raw, raw.sections).ipc
           c == [i \in DOMAIN raw.overrides |-> TypedOverride(raw.overrides[i])]
<1>1. Marshal(raw) = [raw EXCEPT !.sections = a, !.ipc = b, !.overrides = c]
  BY DEF Marshal, TypedOverride
<1> HIDE DEF a, b, c
<1>2. {"revision", "servers", "sites", "ipc", "sections", "overrides"} \subseteq DOMAIN raw BY DEF Shaped
<1> QED BY <1>1, <1>2 DEF a, b, c

LEMMA TypedParts ==
  ASSUME NullIsNoObject, NEW o, {"match", "except", "until", "patch"} \subseteq DOMAIN o,
         {"all", "lists"} \subseteq DOMAIN o.match,
         o.except # Null => {"all", "lists"} \subseteq DOMAIN o.except
  PROVE  /\ DOMAIN TypedOverride(o) = DOMAIN o
         /\ TypedOverride(o).patch = o.patch
         /\ TypedOverride(o).until = o.until
         /\ TypedOverride(o).match = Typed(o.match)
         /\ o.except = Null => TypedOverride(o).except = Null
         /\ o.except # Null => TypedOverride(o).except = Typed(o.except) /\ Typed(o.except) # Null
<1>1. \A x, y : LET u == [o EXCEPT !.match = x, !.except = y]
                IN DOMAIN u = DOMAIN o /\ u.patch = o.patch /\ u.until = o.until /\ u.match = x /\ u.except = y
  OBVIOUS
<1>2. o.except # Null => Typed(o.except) # Null
  <2> DEFINE u == Typed(o.except)
  <2>1. u = [k \in DOMAIN u |-> u[k]] BY DEF Typed
  <2> QED BY <2>1 DEF NullIsNoObject
<1> QED BY <1>1, <1>2 DEF TypedOverride

\* It is a document again, with overrides that select the same hosts and carry
\* the same patches.
LEMMA MarshalShaped ==
  ASSUME NullIsNoObject, NEW raw, Shaped(raw)
  PROVE  /\ Shaped(Marshal(raw))
         /\ Len(Marshal(raw).overrides) = Len(raw.overrides)
         /\ \A i \in DOMAIN raw.overrides : Marshal(raw).overrides[i].patch = raw.overrides[i].patch
         /\ \A h, n : SelectedAt(Marshal(raw), h, n) = SelectedAt(raw, h, n)
<1> DEFINE O == raw.overrides
           Q == Marshal(raw).overrides
           N == Len(O)
<1>1. N \in Nat /\ DOMAIN O = 1 .. N BY DEF Shaped
<1>2. Q = [i \in 1 .. N |-> TypedOverride(O[i])] BY <1>1, MarshalParts
<1>3. DOMAIN Q = 1 .. N /\ Len(Q) = N
  <2> DEFINE E == {TypedOverride(O[i]) : i \in 1 .. N}
  <2>1. Q \in [1 .. N -> E] BY <1>2
  <2> HIDE DEF E, Q, N
  <2>2. Q \in Seq(E) BY <1>1, <2>1
  <2> QED BY <1>1, <2>1, <2>2
<1>4. ASSUME NEW i \in 1 .. N
      PROVE  /\ {"match", "except", "until", "patch"} \subseteq DOMAIN O[i]
             /\ {"all", "lists"} \subseteq DOMAIN O[i].match
             /\ O[i].except # Null => {"all", "lists"} \subseteq DOMAIN O[i].except
  BY <1>1 DEF Shaped
<1>5. ASSUME NEW i \in 1 .. N
      PROVE  /\ DOMAIN Q[i] = DOMAIN O[i]
             /\ Q[i].patch = O[i].patch /\ Q[i].until = O[i].until /\ Q[i].match = Typed(O[i].match)
             /\ O[i].except = Null => Q[i].except = Null
             /\ O[i].except # Null => Q[i].except = Typed(O[i].except) /\ Typed(O[i].except) # Null
  <2>1. Q[i] = TypedOverride(O[i]) BY <1>2
  <2> HIDE DEF O, Q
  <2> QED BY <1>4, <2>1, TypedParts
<1>6. ASSUME NEW i \in 1 .. N, NEW h, NEW n
      PROVE  Selected(Q[i], h, n) <=> Selected(O[i], h, n)
  <2>1. Matches(Q[i].match, h) <=> Matches(O[i].match, h) BY <1>4, <1>5, TypedSelects
  <2>2. O[i].except # Null => (Matches(Q[i].except, h) <=> Matches(O[i].except, h))
    BY <1>4, <1>5, TypedSelects
  <2> HIDE DEF O, Q
  <2> QED BY <1>5, <2>1, <2>2 DEF Selected
<1>7. Shaped(Marshal(raw))
  <2>1. {"revision", "servers", "sites", "ipc", "sections", "overrides"} \subseteq DOMAIN Marshal(raw)
    BY MarshalParts DEF Shaped
  <2>2. \A i \in 1 .. N : /\ {"match", "except", "until", "patch"} \subseteq DOMAIN Q[i]
                          /\ {"all", "lists"} \subseteq DOMAIN Q[i].match
                          /\ Q[i].except # Null => {"all", "lists"} \subseteq DOMAIN Q[i].except
    <3> TAKE i \in 1 .. N
    <3>1. DOMAIN Typed(O[i].match) = DOMAIN O[i].match BY <1>4, TypedSelects
    <3>2. O[i].except # Null => DOMAIN Typed(O[i].except) = DOMAIN O[i].except BY <1>4, TypedSelects
    <3> HIDE DEF O, Q
    <3> QED BY <1>4, <1>5, <3>1, <3>2
  <2> QED BY <1>1, <1>3, <2>1, <2>2 DEF Shaped
<1>8. \A h, n : SelectedAt(Marshal(raw), h, n) = SelectedAt(raw, h, n)
  BY <1>1, <1>3, <1>6 DEF SelectedAt
<1> QED BY <1>1, <1>3, <1>5, <1>7, <1>8

(* Sections that complete alike stay alike under patches, so that the        *)
(* defaults may be filled in before the overrides are applied as well as     *)
(* after.                                                                    *)

\* A field was sent: its section is there and its value is not null.
Sent(X, c, f) == c \in DOMAIN X /\ X[c] # Null /\ f \in DOMAIN X[c] /\ X[c][f] # Null

IsObject(f) == f = [k \in DOMAIN f |-> f[k]]

LEMMA DefaultSections ==
  ASSUME NEW c \in MergedSections
  PROVE  IsObject(DefaultsFromConfig[c])
<1>1. IsObject([enabled |-> TRUE, until |-> Null]) BY DEF IsObject
<1>2. IsObject([enabled |-> TRUE, mode |-> "normal", until |-> Null]) BY DEF IsObject
<1>3. IsObject([attempts |-> Config.attempts]) BY DEF IsObject
<1>4. /\ DefaultsFromConfig["control"] = [enabled |-> TRUE, until |-> Null]
      /\ DefaultsFromConfig["app"] = [enabled |-> TRUE, mode |-> "normal", until |-> Null]
      /\ DefaultsFromConfig["updater"] = [attempts |-> Config.attempts]
  BY DEF DefaultsFromConfig
<1>5. c \in {"control", "app", "updater"} BY DEF MergedSections
<1> QED BY <1>1, <1>2, <1>3, <1>4, <1>5

LEMMA OverDefaults ==
  ASSUME NEW d, NEW x
  PROVE  LET m == MergeFields(d, StripNulls(x))
         IN /\ IsObject(m)
            /\ \A f : f \in DOMAIN m <=> f \in DOMAIN d \/ (f \in DOMAIN x /\ x[f] # Null)
            /\ \A f \in DOMAIN m : m[f] = IF f \in DOMAIN x /\ x[f] # Null THEN x[f] ELSE d[f]
  BY DEF MergeFields, StripNulls, IsObject

\* A completed section, field by field.
LEMMA CompleteSection ==
  ASSUME NEW X, NEW c \in MergedSections
  PROVE  /\ IsObject(Complete(X)[c])
         /\ \A f : f \in DOMAIN Complete(X)[c] <=> f \in DOMAIN DefaultsFromConfig[c] \/ Sent(X, c, f)
         /\ \A f \in DOMAIN Complete(X)[c] :
              Complete(X)[c][f] = IF Sent(X, c, f) THEN X[c][f] ELSE DefaultsFromConfig[c][f]
<1> DEFINE d == DefaultsFromConfig[c]
           there == c \in DOMAIN X /\ X[c] # Null
<1>1. c \in PatchableSections BY DEF PatchableSections
<1>2. IsObject(d) BY DefaultSections
<1> HIDE DEF d
<1>3. Complete(X)[c] = IF there THEN MergeFields(d, StripNulls(X[c])) ELSE d
  BY <1>1 DEF Complete, d
<1>4. CASE there BY <1>3, <1>4, OverDefaults DEF Sent, d
<1>5. CASE ~there BY <1>2, <1>3, <1>5 DEF Sent, d
<1> QED BY <1>4, <1>5

\* A completed patch, field by field: it depends on the completed sections only.
LEMMA PatchedSection ==
  ASSUME NullIsNoObject, NEW T, NEW p, NEW c \in MergedSections
  PROVE  LET C == Complete(T)[c]
             M == Complete(MergePatch(T, p))[c]
             d == DefaultsFromConfig[c]
         IN /\ c \notin DOMAIN p => M = C
            /\ c \in DOMAIN p /\ p[c] = Null => M = d
            /\ c \in DOMAIN p /\ p[c] # Null =>
                 /\ \A f : f \in DOMAIN M <=> IF f \in DOMAIN p[c] THEN p[c][f] # Null \/ f \in DOMAIN d
                                                                  ELSE f \in DOMAIN C
                 /\ \A f \in DOMAIN M : M[f] = IF f \notin DOMAIN p[c] THEN C[f]
                                               ELSE IF p[c][f] # Null THEN p[c][f] ELSE d[f]
<1> DEFINE X == MergePatch(T, p)
           C == Complete(T)[c]
           M == Complete(X)[c]
           d == DefaultsFromConfig[c]
<1>1. /\ IsObject(M) /\ IsObject(C) /\ IsObject(d)
      /\ \A f : f \in DOMAIN M <=> f \in DOMAIN d \/ Sent(X, c, f)
      /\ \A f : f \in DOMAIN C <=> f \in DOMAIN d \/ Sent(T, c, f)
      /\ \A f \in DOMAIN M : M[f] = IF Sent(X, c, f) THEN X[c][f] ELSE d[f]
      /\ \A f \in DOMAIN C : C[f] = IF Sent(T, c, f) THEN T[c][f] ELSE d[f]
  BY CompleteSection, DefaultSections
<1>2. /\ c \in DOMAIN X <=> IF c \in DOMAIN p THEN p[c] # Null ELSE c \in DOMAIN T
      /\ c \notin DOMAIN p /\ c \in DOMAIN T => X[c] = T[c]
      /\ c \in DOMAIN p /\ p[c] # Null
           => X[c] = MergeFields(IF c \in DOMAIN T /\ T[c] # Null THEN T[c] ELSE <<>>, p[c])
  BY MergedSection
<1> SUFFICES /\ c \notin DOMAIN p => M = C
             /\ c \in DOMAIN p /\ p[c] = Null => M = d
             /\ c \in DOMAIN p /\ p[c] # Null =>
                  /\ \A f : f \in DOMAIN M <=> IF f \in DOMAIN p[c] THEN p[c][f] # Null \/ f \in DOMAIN d
                                                                   ELSE f \in DOMAIN C
                  /\ \A f \in DOMAIN M : M[f] = IF f \notin DOMAIN p[c] THEN C[f]
                                                ELSE IF p[c][f] # Null THEN p[c][f] ELSE d[f]
  OBVIOUS
<1> HIDE DEF X, C, M, d
<1>3. ASSUME c \notin DOMAIN p PROVE M = C
  <2>1. \A f : Sent(X, c, f) <=> Sent(T, c, f) BY <1>2, <1>3 DEF Sent
  <2>2. \A f : Sent(X, c, f) => X[c][f] = T[c][f] BY <1>2, <1>3 DEF Sent
  <2>3. DOMAIN M = DOMAIN C BY <1>1, <2>1
  <2>4. \A f \in DOMAIN M : M[f] = C[f] BY <1>1, <2>1, <2>2, <2>3
  <2> QED BY <1>1, <2>3, <2>4 DEF IsObject
<1>4. ASSUME c \in DOMAIN p, p[c] = Null PROVE M = d
  <2>1. \A f : ~Sent(X, c, f) BY <1>2, <1>4 DEF Sent
  <2>2. DOMAIN M = DOMAIN d BY <1>1, <2>1
  <2>3. \A f \in DOMAIN M : M[f] = d[f] BY <1>1, <2>1, <2>2
  <2> QED BY <1>1, <2>2, <2>3 DEF IsObject
<1>5. ASSUME c \in DOMAIN p, p[c] # Null
      PROVE  /\ \A f : f \in DOMAIN M <=> IF f \in DOMAIN p[c] THEN p[c][f] # Null \/ f \in DOMAIN d
                                                               ELSE f \in DOMAIN C
             /\ \A f \in DOMAIN M : M[f] = IF f \notin DOMAIN p[c] THEN C[f]
                                           ELSE IF p[c][f] # Null THEN p[c][f] ELSE d[f]
  <2> DEFINE old == IF c \in DOMAIN T /\ T[c] # Null THEN T[c] ELSE <<>>
  <2>1. c \in DOMAIN X /\ X[c] = MergeFields(old, p[c]) BY <1>2, <1>5
  <2>2. X[c] # Null BY <2>1, MergeIsObject
  <2>3. \A f : f \in DOMAIN old <=> c \in DOMAIN T /\ T[c] # Null /\ f \in DOMAIN T[c] OBVIOUS
  <2>4. \A f \in DOMAIN old : old[f] = T[c][f] BY <2>3
  <2> HIDE DEF old
  <2>5. \A f : f \in DOMAIN p[c] => (Sent(X, c, f) <=> p[c][f] # Null)
    BY <2>1, <2>2, MergedField DEF Sent
  <2>6. \A f : f \in DOMAIN p[c] /\ p[c][f] # Null => X[c][f] = p[c][f] BY <2>1, MergedField
  <2>7. \A f : f \notin DOMAIN p[c] => (Sent(X, c, f) <=> Sent(T, c, f))
    BY <2>1, <2>2, <2>3, <2>4, MergedField DEF Sent
  <2>8. \A f : f \notin DOMAIN p[c] /\ Sent(T, c, f) => X[c][f] = T[c][f]
    BY <2>1, <2>3, <2>4, MergedField DEF Sent
  <2>9. \A f : f \in DOMAIN M <=> IF f \in DOMAIN p[c] THEN p[c][f] # Null \/ f \in DOMAIN d ELSE f \in DOMAIN C
    BY <1>1, <2>5, <2>7
  <2>10. ASSUME NEW f \in DOMAIN M
         PROVE  M[f] = IF f \notin DOMAIN p[c] THEN C[f] ELSE IF p[c][f] # Null THEN p[c][f] ELSE d[f]
    <3>1. CASE f \in DOMAIN p[c] BY <1>1, <2>5, <2>6, <3>1
    <3>2. CASE f \notin DOMAIN p[c]
      <4>1. f \in DOMAIN C BY <2>9, <3>2
      <4> QED BY <1>1, <2>7, <2>8, <3>2, <4>1
    <3> QED BY <3>1, <3>2
  <2> QED BY <2>9, <2>10
<1> QED BY <1>3, <1>4, <1>5

LEMMA CompleteShape ==
  ASSUME NEW X
  PROVE  LET D == "defaultServer"
         IN /\ IsObject(Complete(X))
            /\ DOMAIN Complete(X) = MergedSections \cup {k \in {D} : k \in DOMAIN X /\ X[k] # Null}
            /\ D \in DOMAIN Complete(X) => Complete(X)[D] = X[D]
<1> DEFINE D == "defaultServer"
<1>1. D \notin MergedSections /\ PatchableSections = MergedSections \cup {D}
  BY DEF PatchableSections, MergedSections
<1> QED BY <1>1 DEF Complete, IsObject

LEMMA SameComplete ==
  ASSUME NEW X, NEW Y,
         LET D == "defaultServer"
         IN /\ D \in DOMAIN Complete(X) <=> D \in DOMAIN Complete(Y)
            /\ D \in DOMAIN Complete(X) => Complete(X)[D] = Complete(Y)[D],
         \A c \in MergedSections : Complete(X)[c] = Complete(Y)[c]
  PROVE  Complete(X) = Complete(Y)
<1> DEFINE D == "defaultServer"
<1>1. /\ IsObject(Complete(X)) /\ IsObject(Complete(Y))
      /\ DOMAIN Complete(X) = MergedSections \cup {k \in {D} : k \in DOMAIN X /\ X[k] # Null}
      /\ DOMAIN Complete(Y) = MergedSections \cup {k \in {D} : k \in DOMAIN Y /\ Y[k] # Null}
  BY CompleteShape
<1>2. D \notin MergedSections BY DEF MergedSections
<1> HIDE DEF D
<1>3. D \in DOMAIN Complete(X) <=> D \in DOMAIN Complete(Y) BY DEF D
<1>4. DOMAIN Complete(X) = DOMAIN Complete(Y) BY <1>1, <1>2, <1>3
<1>5. \A k \in DOMAIN Complete(X) : k = D \/ k \in MergedSections BY <1>1
<1>6. \A k \in DOMAIN Complete(X) : Complete(X)[k] = Complete(Y)[k] BY <1>5 DEF D
<1> QED BY <1>1, <1>4, <1>6 DEF IsObject

\* Completing twice is completing once.
LEMMA CompleteTwice ==
  ASSUME NullIsNoObject, NEW X
  PROVE  Complete(Complete(X)) = Complete(X)
<1> DEFINE D == "defaultServer"
           Y == Complete(X)
<1>1. /\ D \in DOMAIN Complete(Y) <=> D \in DOMAIN Y
      /\ D \in DOMAIN Y => Complete(Y)[D] = Y[D]
  <2>1. D \notin MergedSections BY DEF MergedSections
  <2>2. D \in DOMAIN Y <=> D \in DOMAIN X /\ X[D] # Null BY <2>1, CompleteShape
  <2>3. D \in DOMAIN Y => Y[D] = X[D] BY CompleteShape
  <2>4. D \in DOMAIN Complete(Y) <=> D \in DOMAIN Y /\ Y[D] # Null BY <2>1, CompleteShape
  <2>5. D \in DOMAIN Complete(Y) => Complete(Y)[D] = Y[D] BY CompleteShape
  <2> HIDE DEF D, Y
  <2> QED BY <2>2, <2>3, <2>4, <2>5
<1>2. ASSUME NEW c \in MergedSections PROVE Complete(Y)[c] = Y[c]
  <2> DEFINE d == DefaultsFromConfig[c]
             C == Complete(Y)[c]
  <2>1. c \in DOMAIN Y BY CompleteShape
  <2>2. /\ IsObject(Y[c]) /\ IsObject(C)
        /\ \A f : f \in DOMAIN Y[c] <=> f \in DOMAIN d \/ Sent(X, c, f)
        /\ \A f : f \in DOMAIN C <=> f \in DOMAIN d \/ Sent(Y, c, f)
        /\ \A f \in DOMAIN Y[c] : Y[c][f] = IF Sent(X, c, f) THEN X[c][f] ELSE d[f]
        /\ \A f \in DOMAIN C : C[f] = IF Sent(Y, c, f) THEN Y[c][f] ELSE d[f]
    BY CompleteSection
  <2>3. Y[c] # Null BY <2>2 DEF NullIsNoObject, IsObject
  <2> HIDE DEF Y, C, d
  <2>4. \A f : Sent(Y, c, f) <=> f \in DOMAIN Y[c] /\ Y[c][f] # Null BY <2>1, <2>3 DEF Sent
  <2>5. \A f : Sent(X, c, f) => Sent(Y, c, f) BY <2>2, <2>4 DEF Sent
  <2>6. DOMAIN C = DOMAIN Y[c] BY <2>2, <2>4, <2>5
  <2>7. \A f \in DOMAIN C : C[f] = Y[c][f] BY <2>2, <2>4, <2>5, <2>6
  <2>8. C = Y[c] BY <2>2, <2>6, <2>7 DEF IsObject
  <2> QED BY <2>8 DEF C
<1> QED BY <1>1, <1>2, SameComplete

\* A patch keeps sections alike that complete alike.
LEMMA PatchedAlike ==
  ASSUME NullIsNoObject, NEW T, NEW U, NEW p, Complete(T) = Complete(U)
  PROVE  Complete(MergePatch(T, p)) = Complete(MergePatch(U, p))
<1> DEFINE D == "defaultServer"
           X == MergePatch(T, p)
           Y == MergePatch(U, p)
<1>1. /\ D \in DOMAIN Complete(X) <=> D \in DOMAIN Complete(Y)
      /\ D \in DOMAIN Complete(X) => Complete(X)[D] = Complete(Y)[D]
  <2>1. D \notin MergedSections BY DEF MergedSections
  <2>2. \A Z : /\ D \in DOMAIN Complete(Z) <=> D \in DOMAIN Z /\ Z[D] # Null
               /\ D \in DOMAIN Complete(Z) => Complete(Z)[D] = Z[D]
    BY <2>1, CompleteShape
  <2>3. \A Z : /\ D \in DOMAIN MergePatch(Z, p) <=> IF D \in DOMAIN p THEN p[D] # Null ELSE D \in DOMAIN Z
               /\ D \in DOMAIN MergePatch(Z, p) => MergePatch(Z, p)[D] = IF D \in DOMAIN p THEN p[D] ELSE Z[D]
    BY <2>1 DEF MergePatch
  <2> HIDE DEF D
  <2>4. CASE D \in DOMAIN p BY <2>2, <2>3, <2>4
  <2>5. CASE D \notin DOMAIN p BY <2>2, <2>3, <2>5
  <2> QED BY <2>4, <2>5
<1>2. ASSUME NEW c \in MergedSections PROVE Complete(X)[c] = Complete(Y)[c]
  <2> DEFINE C == Complete(T)[c]
             d == DefaultsFromConfig[c]
             M == Complete(X)[c]
             N == Complete(Y)[c]
  <2>1. C = Complete(U)[c] OBVIOUS
  <2>2. /\ c \notin DOMAIN p => M = C /\ N = C
        /\ c \in DOMAIN p /\ p[c] = Null => M = d /\ N = d
    BY <2>1, PatchedSection
  <2>3. IsObject(M) /\ IsObject(N) BY CompleteSection
  <2>4. ASSUME c \in DOMAIN p, p[c] # Null PROVE M = N
    <3>1. /\ \A f : f \in DOMAIN M <=> IF f \in DOMAIN p[c] THEN p[c][f] # Null \/ f \in DOMAIN d
                                                            ELSE f \in DOMAIN C
          /\ \A f \in DOMAIN M : M[f] = IF f \notin DOMAIN p[c] THEN C[f]
                                        ELSE IF p[c][f] # Null THEN p[c][f] ELSE d[f]
      BY <2>4, PatchedSection
    <3>2. /\ \A f : f \in DOMAIN N <=> IF f \in DOMAIN p[c] THEN p[c][f] # Null \/ f \in DOMAIN d
                                                            ELSE f \in DOMAIN C
          /\ \A f \in DOMAIN N : N[f] = IF f \notin DOMAIN p[c] THEN C[f]
                                        ELSE IF p[c][f] # Null THEN p[c][f] ELSE d[f]
      BY <2>1, <2>4, PatchedSection
    <3> HIDE DEF M, N, C, d
    <3>3. DOMAIN M = DOMAIN N BY <3>1, <3>2
    <3>4. \A f \in DOMAIN M : M[f] = N[f] BY <3>1, <3>2, <3>3
    <3> QED BY <2>3, <3>3, <3>4 DEF IsObject
  <2> HIDE DEF C, d
  <2> QED BY <2>2, <2>4
<1> QED BY <1>1, <1>2, SameComplete

LEMMA AppliedAlike ==
  ASSUME NullIsNoObject, NEW S, NEW O, NEW Q, NEW P,
         Len(O) \in Nat, Len(Q) = Len(O), \A i \in 1 .. Len(O) : Q[i].patch = O[i].patch
  PROVE  Complete(Applied(Complete(S), Q, P)) = Complete(Applied(S, O, P))
<1> DEFINE A == Accumulated(S, O, P)
           B == Accumulated(Complete(S), Q, P)
           N == Len(O)
           Alike == {n \in Nat : n <= N => Complete(B[n]) = Complete(A[n])}
<1>1. /\ A[0] = S
      /\ \A i \in 1 .. N : A[i] = IF i \in P THEN MergePatch(A[i - 1], O[i].patch) ELSE A[i - 1]
  BY AccumulatedSteps
<1>2. /\ B[0] = Complete(S)
      /\ \A i \in 1 .. N : B[i] = IF i \in P THEN MergePatch(B[i - 1], Q[i].patch) ELSE B[i - 1]
  BY AccumulatedSteps
<1> HIDE DEF A, B
<1>3. 0 \in Alike BY <1>1, <1>2, CompleteTwice
<1>4. ASSUME NEW n \in Nat, n \in Alike PROVE n + 1 \in Alike
  <2> SUFFICES ASSUME n + 1 <= N PROVE Complete(B[n + 1]) = Complete(A[n + 1]) OBVIOUS
  <2>1. n + 1 \in 1 .. N /\ n <= N /\ (n + 1) - 1 = n OBVIOUS
  <2>2. Complete(B[n]) = Complete(A[n]) BY <1>4, <2>1
  <2>3. A[n + 1] = IF n + 1 \in P THEN MergePatch(A[n], O[n + 1].patch) ELSE A[n] BY <1>1, <2>1
  <2>4. B[n + 1] = IF n + 1 \in P THEN MergePatch(B[n], O[n + 1].patch) ELSE B[n] BY <1>2, <2>1
  <2>5. CASE n + 1 \in P BY <2>2, <2>3, <2>4, <2>5, PatchedAlike
  <2>6. CASE n + 1 \notin P BY <2>2, <2>3, <2>4, <2>6
  <2> QED BY <2>5, <2>6
<1>5. N \in Alike
  <2> HIDE DEF Alike
  <2> QED BY <1>3, <1>4, SetInduction
<1> QED BY <1>5 DEF Applied, A, B

\* The cache means what was sent: for any document, host and time, the document
\* that Marshal writes gives the policy of the one that was fetched, although
\* the defaults are filled in before the overrides and not after them
\* (saveCache, Parse, Effective).
THEOREM StoredMeansTheSame ==
  ASSUME NullIsNoObject, NEW raw, Shaped(raw), NEW h, NEW n
  PROVE  /\ Overridden(Marshal(raw), h, n) = Overridden(raw, h, n)
         /\ Effective(Marshal(raw), h, n) = Effective(raw, h, n)
<1> DEFINE M == Marshal(raw)
<1>1. /\ M.revision = raw.revision /\ M.servers = raw.servers /\ M.sites = raw.sites
      /\ M.ipc = Build(raw, raw.sections).ipc /\ M.sections = Complete(raw.sections)
  BY MarshalParts
<1>2. /\ Len(M.overrides) = Len(raw.overrides)
      /\ \A i \in DOMAIN raw.overrides : M.overrides[i].patch = raw.overrides[i].patch
      /\ SelectedAt(M, h, n) = SelectedAt(raw, h, n)
  BY MarshalShaped
<1>3. Len(raw.overrides) \in Nat /\ DOMAIN raw.overrides = 1 .. Len(raw.overrides) BY DEF Shaped
<1> HIDE DEF M
<1>4. ASSUME NEW X, NEW Y, Complete(X) = Complete(Y) PROVE Build(M, X) = Build(raw, Y)
  <2>1. (IF M.ipc = Null THEN CompiledIPCProtocol ELSE M.ipc)
          = (IF raw.ipc = Null THEN CompiledIPCProtocol ELSE raw.ipc)
    BY <1>1 DEF Build
  <2> QED BY <1>1, <1>4, <2>1 DEF Build
<1>5. \A P : Complete(Applied(M.sections, M.overrides, P)) = Complete(Applied(raw.sections, raw.overrides, P))
  BY <1>1, <1>2, <1>3, AppliedAlike
<1>6. Overridden(M, h, n) = Overridden(raw, h, n) BY <1>2, <1>4, <1>5 DEF Overridden
<1>7. Build(M, M.sections) = Build(raw, raw.sections) BY <1>1, <1>4, CompleteTwice
<1>8. Effective(M, h, n) = Effective(raw, h, n) BY <1>6, <1>7 DEF Effective
<1> QED BY <1>6, <1>8 DEF M

\* A document read from the cache and saved again, as a 304 has it, is written
\* as it was (saveCache).
THEOREM MarshalTwice ==
  ASSUME NullIsNoObject, NEW raw, Shaped(raw)
  PROVE  Marshal(Marshal(raw)) = Marshal(raw)
<1> DEFINE M == Marshal(raw)
           MM == Marshal(M)
           O == raw.overrides
<1>1. Shaped(M) BY MarshalShaped
<1>2. /\ DOMAIN M = DOMAIN raw
      /\ M.ipc = Build(raw, raw.sections).ipc
      /\ M.sections = Complete(raw.sections)
      /\ M.overrides = [i \in DOMAIN O |-> TypedOverride(O[i])]
  BY MarshalParts
<1>3. /\ DOMAIN MM = DOMAIN M
      /\ MM.ipc = Build(M, M.sections).ipc
      /\ MM.sections = Complete(M.sections)
      /\ MM.overrides = [i \in DOMAIN M.overrides |-> TypedOverride(M.overrides[i])]
  BY <1>1, MarshalParts
<1>4. MM.sections = M.sections BY <1>2, <1>3, CompleteTwice
<1>5. MM.ipc = M.ipc
  <2> HIDE DEF M, MM
  <2> QED BY <1>2, <1>3 DEF Build
<1>6. ASSUME NEW i \in DOMAIN O PROVE TypedOverride(TypedOverride(O[i])) = TypedOverride(O[i])
  <2> DEFINE o == O[i]
             t == TypedOverride(o)
             tt == TypedOverride(t)
  <2>1. /\ {"match", "except", "until", "patch"} \subseteq DOMAIN o
        /\ {"all", "lists"} \subseteq DOMAIN o.match
        /\ o.except # Null => {"all", "lists"} \subseteq DOMAIN o.except
    BY DEF Shaped
  <2>2. \A sel : {"all", "lists"} \subseteq DOMAIN sel => Typed(Typed(sel)) = Typed(sel)
    BY DEF Typed
  <2>3. /\ DOMAIN t = DOMAIN o /\ t.match = Typed(o.match)
        /\ o.except = Null => t.except = Null
        /\ o.except # Null => t.except = Typed(o.except) /\ Typed(o.except) # Null
    BY <2>1, TypedParts
  <2>4. Typed(t.match) = t.match BY <2>1, <2>2, <2>3
  <2>5. (IF t.except = Null THEN Null ELSE Typed(t.except)) = t.except BY <2>1, <2>2, <2>3
  <2>6. tt = [t EXCEPT !.match = t.match, !.except = t.except] BY <2>4, <2>5 DEF TypedOverride
  <2>7. t = [k \in DOMAIN t |-> t[k]] BY DEF TypedOverride
  <2> HIDE DEF t, tt
  <2>8. tt = t BY <2>6, <2>7
  <2> QED BY <2>8 DEF t, tt
<1>7. MM.overrides = M.overrides
  <2> HIDE DEF M, MM
  <2> QED BY <1>2, <1>3, <1>6
<1>8. MM = [M EXCEPT !.sections = M.sections, !.ipc = M.ipc, !.overrides = M.overrides]
  <2>1. MM = [M EXCEPT !.sections = MM.sections, !.ipc = MM.ipc, !.overrides = MM.overrides]
    <3> HIDE DEF M
    <3>1. MM = [M EXCEPT !.sections = Complete(M.sections),
                         !.ipc = Build(M, M.sections).ipc,
                         !.overrides = [i \in DOMAIN M.overrides |-> TypedOverride(M.overrides[i])]]
      BY DEF Marshal, TypedOverride
    <3> QED BY <1>3, <3>1
  <2> QED BY <1>4, <1>5, <1>7, <2>1
<1>9. M = [k \in DOMAIN M |-> M[k]] BY DEF Marshal
<1> HIDE DEF M, MM
<1>10. MM = M BY <1>8, <1>9
<1> QED BY <1>10 DEF M, MM
-----------------------------------------------------------------------------
\* For any documents, hosts and times: whatever document is in force, the
\* overrides that select this machine make a valid one of it, so that Effective
\* never falls back (dryRunOverrides, Effective).
THEOREM OverridesAlwaysCovered ==
  ASSUME NullIsNoObject, DefaultIsValid
  PROVE  Spec => []SubsetsCovered
<1>1. ConfigInv /\ Accepted => SubsetsCovered
  <2> SUFFICES ASSUME ConfigInv, Accepted PROVE SubsetsCovered OBVIOUS
  <2> DEFINE t == policy.doc
             st == policy.stored
  <2>1. t \in Tags \cup {Null} /\ st \in BOOLEAN
    <3>1. CASE policy = Default BY <3>1 DEF Default
    <3>2. CASE policy \in [doc : Tags, stored : BOOLEAN, src : {"cache", "remote"}] BY <3>2
    <3> QED BY <3>1, <3>2 DEF ConfigInv, Stored, Snapshots
  <2>2. ASSUME NEW h \in Hosts, NEW n \in 0 .. MaxNow PROVE ValidDocument(Overridden(Raw[t][st], h, n))
    <3>1. Raw[t][st] = IF t = Null THEN FromLegacy ELSE IF st THEN Marshal(Docs[t]) ELSE Docs[t]
      BY <2>1 DEF Raw
    <3>2. CASE t = Null BY <3>1, <3>2, DefaultOverridden
    <3>3. CASE t # Null
      <4>1. t \in Tags BY <2>1, <3>3
      <4>2. Shaped(Docs[t]) BY <4>1, RemoteConfigAssumption DEF Tags
      <4>3. Shaped(Raw[t][st]) BY <3>1, <3>3, <4>2, MarshalShaped
      <4>4. Parses(Raw[t][st])
        <5>1. ParsesOf[t][st] BY <2>1, <3>3 DEF Accepted, Loads, Valid
        <5> QED BY <2>1, <4>1, <5>1 DEF ParsesOf
      <4> HIDE DEF t, st
      <4> QED BY <4>3, <4>4, AnyOverridesValid DEF Overridden
    <3> QED BY <3>2, <3>3
  <2>3. NeverInvalid[t][st]
    <3> HIDE DEF t, st
    <3> QED BY <2>1, <2>2 DEF NeverInvalid
  <2> QED BY <2>3 DEF SubsetsCovered
<1> QED BY <1>1, ConfigInvariant, AcceptedInvariant, PTL

\* For any documents, hosts and times: a cache that loads stands for the
\* document that was fetched (saveCache, initPolicy).
THEOREM CacheMeansTheSame ==
  ASSUME NullIsNoObject
  PROVE  Spec => []RoundTrip
<1>1. RoundTrip
  <2> SUFFICES ASSUME cache \in Loads PROVE SameWhenStored[cache] BY DEF RoundTrip
  <2>1. cache \in Tags BY DEF Loads
  <2>2. cache # Null /\ Shaped(Docs[cache]) BY <2>1, RemoteConfigAssumption DEF Tags
  <2>3. Raw[cache][TRUE] = Marshal(Docs[cache]) /\ Raw[cache][FALSE] = Docs[cache]
    BY <2>1, <2>2 DEF Raw
  <2>4. ASSUME NEW h \in Hosts, NEW n \in 0 .. MaxNow
        PROVE  EffectiveOf[cache][TRUE][h][n] = EffectiveOf[cache][FALSE][h][n]
    <3>1. \A st \in BOOLEAN : EffectiveOf[cache][st][h][n] = Effective(Raw[cache][st], h, n)
      BY <2>1 DEF EffectiveOf
    <3> QED BY <2>2, <2>3, <3>1, StoredMeansTheSame
  <2> QED BY <2>1, <2>4 DEF SameWhenStored
<1> QED BY <1>1, PTL
=============================================================================
