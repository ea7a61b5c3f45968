--------------------------- MODULE PolicyDocument ---------------------------
(***************************************************************************)
(* The remote configuration document as package policy evaluates it:       *)
(* defaults and merge patches, validation, the cache's encoding, the       *)
(* overrides of one host, and what the updater and the IPC server read     *)
(* from the result.                                                        *)
(*                                                                         *)
(* A raw document is what was sent.  Sections stand for the merged ones:   *)
(* "control" and "app" are control.updater and control.app, "updater" is   *)
(* any section with a range rule (its field attempts must be at least 1).  *)
(* A section is a function from the fields sent to their values; Null is   *)
(* JSON's null.  Everything lexical (JSON syntax, schemaVersion, URLs,     *)
(* timestamps, CIDR blocks, semantic versions) is the flag readable.  The  *)
(* ETag identifies the content; large is a document of more than 64 KiB.   *)
(***************************************************************************)
EXTENDS Integers, Sequences

CONSTANTS
  Null,
  Config       \* config.ini: [urls, sites, primaryInternal, attempts, endpoints]

ProtocolVersion == 1
MinCompatible == 2        \* MinCompatibleEMLyVersion, on the scale of EMLy's releases

MergedSections == {"control", "app", "updater"}
PatchableSections == MergedSections \cup {"defaultServer"}

\* The shape of a raw document and of its overrides.
Shaped(raw) ==
  /\ {"revision", "servers", "sites", "ipc", "sections", "overrides"} \subseteq DOMAIN raw
  /\ Len(raw.overrides) \in Nat /\ DOMAIN raw.overrides = 1 .. Len(raw.overrides)
  /\ \A i \in DOMAIN raw.overrides :
       LET o == raw.overrides[i]
       IN /\ {"match", "except", "until", "patch"} \subseteq DOMAIN o
          /\ {"all", "lists"} \subseteq DOMAIN o.match
          /\ o.except # Null => {"all", "lists"} \subseteq DOMAIN o.except

-----------------------------------------------------------------------------
\* Merge patches (merge.go)

\* A patch's fields over a target's: null deletes, anything else replaces.
MergeFields(target, patch) ==
  LET kept == (DOMAIN target \cup DOMAIN patch) \ {k \in DOMAIN patch : patch[k] = Null}
  IN [k \in kept |-> IF k \in DOMAIN patch THEN patch[k] ELSE target[k]]

\* mergePatch one level up: a section that is an object merges, a scalar replaces.
MergePatch(target, patch) ==
  LET kept == (DOMAIN target \cup DOMAIN patch) \ {k \in DOMAIN patch : patch[k] = Null}
      old(k) == IF k \in DOMAIN target /\ target[k] # Null THEN target[k] ELSE <<>>
  IN [k \in kept |-> IF k \notin DOMAIN patch THEN target[k]
                     ELSE IF k \in MergedSections THEN MergeFields(old(k), patch[k])
                     ELSE patch[k]]

StripNulls(section) ==
  [k \in {f \in DOMAIN section : section[f] # Null} |-> section[k]]

-----------------------------------------------------------------------------
\* The default policy (legacy.go)

DefaultsFromConfig ==
  [control |-> [enabled |-> TRUE, until |-> Null],
   app     |-> [enabled |-> TRUE, mode |-> "normal", until |-> Null],
   updater |-> [attempts |-> Config.attempts]]

CompiledIPCProtocol ==
  [versions |-> [v \in {ProtocolVersion} |-> [enabled |-> TRUE, min |-> MinCompatible]],
   default  |-> ProtocolVersion]

\* [source] of config.ini in the document's shape.
FromLegacy ==
  LET names == {n \in {"external", "internal", "internalBackup"} : Config.urls[n] # Null}
      backups == SelectSeq(<<"internalBackup", "external">>, LAMBDA n : n \in names)
      toInternal == \/ "external" \notin names
                    \/ "internal" \in names /\ Config.sites = <<>> /\ Config.primaryInternal
      site(dc) == [lan |-> Config.sites[dc], base |-> "internal", backups |-> backups, enabled |-> TRUE]
  IN [revision  |-> 0,
      etag      |-> Null,
      readable  |-> TRUE,
      servers   |-> [n \in names |-> Config.urls[n]],
      sites     |-> IF "internal" \in names THEN [dc \in DOMAIN Config.sites |-> site(dc)] ELSE <<>>,
      ipc       |-> CompiledIPCProtocol,
      sections  |-> [k \in PatchableSections |->
                       IF k = "defaultServer" THEN IF toInternal THEN "internal" ELSE "external"
                                              ELSE DefaultsFromConfig[k]],
      overrides |-> <<>>,
      large     |-> FALSE]

-----------------------------------------------------------------------------
\* Building and validating (parse.go)

\* complete: the merged sections over the defaults; defaultServer as sent.
Complete(sections) ==
  LET sent(k) == k \in DOMAIN sections /\ sections[k] # Null
  IN [k \in {s \in PatchableSections : s \in MergedSections \/ sent(s)} |->
        IF k \notin MergedSections THEN sections[k]
        ELSE IF sent(k) THEN MergeFields(DefaultsFromConfig[k], StripNulls(sections[k]))
        ELSE DefaultsFromConfig[k]]

\* build: the typed document, no override applied.  ipcProtocol is not merged
\* but replaced whole.
Build(raw, sections) ==
  [revision |-> raw.revision,
   servers  |-> raw.servers,
   sites    |-> raw.sites,
   ipc      |-> IF raw.ipc = Null THEN CompiledIPCProtocol ELSE raw.ipc,
   sections |-> Complete(sections)]

ValidDocument(doc) ==
  LET known(s) == s \in DOMAIN doc.servers
  IN /\ doc.revision >= 0
     /\ DOMAIN doc.servers # {}
     /\ "defaultServer" \in DOMAIN doc.sections /\ known(doc.sections.defaultServer)
     /\ \A v \in DOMAIN doc.ipc.versions : v > 0
     /\ doc.ipc.default \in DOMAIN doc.ipc.versions /\ doc.ipc.versions[doc.ipc.default].enabled
     /\ \A dc \in DOMAIN doc.sites :
          /\ doc.sites[dc].lan # {}
          /\ known(doc.sites[dc].base)
          /\ \A i \in DOMAIN doc.sites[dc].backups : known(doc.sites[dc].backups[i])
     /\ doc.sections.app.mode \in {"normal", "readonly", "maintenance"}
     /\ doc.sections.updater.attempts >= 1

\* `all` only in match and with no list beside it, not even an empty one, or at
\* least one list that is not empty.  The lists are the keys that are not null.
ValidSelector(sel, allowAll) ==
  IF sel.all # Null THEN allowAll /\ sel.all = TRUE /\ DOMAIN sel.lists = {}
                    ELSE \E k \in DOMAIN sel.lists : sel.lists[k] # {}

ValidOverrides(overrides) ==
  /\ \A i, j \in DOMAIN overrides : overrides[i].id = overrides[j].id => i = j
  /\ \A i \in DOMAIN overrides :
       LET o == overrides[i]
       IN /\ ValidSelector(o.match, TRUE)
          /\ o.except # Null => ValidSelector(o.except, FALSE)
          /\ DOMAIN o.patch \subseteq PatchableSections

\* The loop over the overrides: acc[i] is what the first i of them have made of
\* the sections, when those at the positions in picked are applied.
Accumulated(sections, overrides, picked) ==
  LET acc[i \in 0 .. Len(overrides)] ==
        IF i = 0 THEN sections
        ELSE IF i \in picked THEN MergePatch(acc[i - 1], overrides[i].patch)
        ELSE acc[i - 1]
  IN acc

Applied(sections, overrides, picked) ==
  Accumulated(sections, overrides, picked)[Len(overrides)]

AllApplied(raw) == Applied(raw.sections, raw.overrides, DOMAIN raw.overrides)

\* Mutant: only all of them in order.
DryRunTogether(raw) == ValidDocument(Build(raw, AllApplied(raw)))

\* Each override alone, then all of them in order.
DryRunOverrides(raw) ==
  /\ \A i \in DOMAIN raw.overrides :
       ValidDocument(Build(raw, MergePatch(raw.sections, raw.overrides[i].patch)))
  /\ Len(raw.overrides) > 1 => ValidDocument(Build(raw, AllApplied(raw)))

\* Parse accepts the document; it is accepted whole or not at all.
Parses(raw) ==
  /\ raw.readable
  /\ ValidDocument(Build(raw, raw.sections))
  /\ ValidOverrides(raw.overrides)
  /\ DryRunOverrides(raw)

\* What json.Marshal writes for Parsed.Global: the completed sections, and every
\* selector with its `all`, which has no omitempty.
Typed(sel) == [sel EXCEPT !.all = (sel.all = TRUE)]
\* Mutant: the nulls of a patch are lost on the way.
MarshalStripped(raw) ==
  LET stripped(o) == [o EXCEPT !.patch = [k \in DOMAIN o.patch |->
                                            IF k \in MergedSections THEN StripNulls(o.patch[k]) ELSE o.patch[k]]]
  IN [raw EXCEPT !.overrides = [i \in DOMAIN raw.overrides |-> stripped(raw.overrides[i])]]

Marshal(raw) ==
  LET typed(o) == [o EXCEPT !.match = Typed(o.match),
                            !.except = IF o.except = Null THEN Null ELSE Typed(o.except)]
  IN [raw EXCEPT !.sections = Complete(raw.sections),
                 !.ipc = Build(raw, raw.sections).ipc,
                 !.overrides = [i \in DOMAIN raw.overrides |-> typed(raw.overrides[i])]]

-----------------------------------------------------------------------------
\* One host's policy (match.go).  A host is its facts: [hwids, dcs, nets], each
\* a set that is empty when the fact is unknown.

Expired(until, now) == until # Null /\ now >= until

Matches(sel, host) ==
  \/ sel.all = TRUE
  \/ \A k \in DOMAIN sel.lists : sel.lists[k] # {} => sel.lists[k] \cap host[k] # {}

Selected(o, host, now) ==
  /\ ~Expired(o.until, now)
  /\ Matches(o.match, host)
  /\ o.except # Null => ~Matches(o.except, host)

SelectedAt(raw, host, now) ==
  {i \in DOMAIN raw.overrides : Selected(raw.overrides[i], host, now)}

Overridden(raw, host, now) ==
  Build(raw, Applied(raw.sections, raw.overrides, SelectedAt(raw, host, now)))

\* Effective: the global document when the overrides make an invalid one.
Effective(raw, host, now) ==
  IF ValidDocument(Overridden(raw, host, now))
  THEN Overridden(raw, host, now)
  ELSE Build(raw, raw.sections)

\* Site and Chain, as URLs: base server and backups of the site this host is at.
Chain(doc, host) ==
  LET at == {dc \in DOMAIN doc.sites : /\ dc \in host.dcs
                                       /\ doc.sites[dc].enabled
                                       /\ doc.sites[dc].lan \cap host.nets # {}}
      names == IF at = {} THEN <<doc.sections.defaultServer>>
               ELSE LET s == doc.sites[CHOOSE dc \in at : TRUE] IN <<s.base>> \o s.backups
  IN [i \in DOMAIN names |-> doc.servers[names[i]]]

\* Mutant: a block never expires.
UpdaterEnabledForever(doc, now) == doc.sections.control.enabled

UpdaterEnabled(doc, now) ==
  doc.sections.control.enabled \/ Expired(doc.sections.control.until, now)

AppControl(doc, now) ==
  IF Expired(doc.sections.app.until, now)
  THEN [enabled |-> TRUE, mode |-> "normal"]
  ELSE [enabled |-> doc.sections.app.enabled, mode |-> doc.sections.app.mode]

-----------------------------------------------------------------------------
\* Which EMLy may ask over IPC (ipc/version.go)

\* The document narrows what is compiled in; a version it does not list stays.
EffectiveCompat(ipc) ==
  IF ProtocolVersion \notin DOMAIN ipc.versions THEN CompiledIPCProtocol.versions[ProtocolVersion]
  ELSE LET entry == ipc.versions[ProtocolVersion]
       IN [enabled |-> entry.enabled,
           min     |-> IF entry.min # Null /\ entry.min > MinCompatible THEN entry.min ELSE MinCompatible]

\* checkPeerVersion; a missing or unparseable version is Null.
Admits(ipc, version) ==
  LET compat == EffectiveCompat(ipc)
  IN compat.enabled /\ version # Null /\ version >= compat.min
=============================================================================
