--------------------------- MODULE MCRemoteConfig ---------------------------
(***************************************************************************)
(* Small instances of RemoteConfig: a site server and a public one, and    *)
(* documents that use what the schema has: defaults and nulls, the kill    *)
(* switch with its expiry, overrides for everyone and for a site, an       *)
(* exception, and an override that is invalid on its own.                  *)
(***************************************************************************)
EXTENDS RemoteConfig, TLC

Symmetry == Permutations(Conns)

MCConfig ==
  [urls |-> [external |-> "pub", internal |-> "lan", internalBackup |-> Null],
   sites |-> [dc1 |-> {"n1"}], primaryInternal |-> FALSE, attempts |-> 3,
   endpoints |-> <<"pub">>]

Away == [hwids |-> {"pc"}, dcs |-> {}, nets |-> {}]
AtSite == [hwids |-> {"pc"}, dcs |-> {"dc1"}, nets |-> {"n1"}]
MCHosts == {Away, AtSite}
MCMachine == {"pc"}

Everyone == [all |-> TRUE, lists |-> <<>>]
Site1 == [all |-> Null, lists |-> [dcs |-> {"dc1"}, hwids |-> {}]]

Plain ==
  [revision |-> 1, etag |-> "e1", readable |-> TRUE,
   servers |-> [pub |-> "pub", lan |-> "lan"],
   sites |-> [dc1 |-> [lan |-> {"n1"}, base |-> "lan", backups |-> <<"pub">>, enabled |-> TRUE]],
   ipc |-> Null,
   sections |-> [defaultServer |-> "pub", control |-> Null, updater |-> [attempts |-> Null]],
   overrides |-> <<>>, large |-> FALSE]

Override(id, match, except, until, patch) ==
  [id |-> id, match |-> match, except |-> except, until |-> until, patch |-> patch]

\* The updater is switched off until 1, protocol version 1 for good; then three
\* overrides for everyone, of which the second puts a default back.  From 1 on the
\* second and the third apply, a pair that the dry run has not tried.
Off ==
  [Plain EXCEPT !.revision = 2, !.etag = "e2",
     !.ipc = [versions |-> [v \in 1 .. 2 |-> [enabled |-> v = 2, min |-> 3]], default |-> 2],
     !.sections = [defaultServer |-> "pub", control |-> [enabled |-> FALSE, until |-> 1],
                   updater |-> [attempts |-> 2]],
     !.overrides = <<Override("o1", Everyone, Null, 1, [updater |-> [attempts |-> 1]]),
                     Override("o2", Everyone, Null, Null, [updater |-> [attempts |-> Null],
                                                           app |-> [mode |-> "readonly"]]),
                     Override("o3", Everyone, Null, Null, [app |-> [mode |-> Null], defaultServer |-> "lan"])>>]

\* The site is switched off by a list selector.
SiteOff ==
  [Plain EXCEPT !.revision = 3, !.etag = "e3",
     !.overrides = <<Override("o1", Site1, Null, Null, [control |-> [enabled |-> FALSE, until |-> 1]])>>]

\* Another document of that revision: large, with an override that leaves the
\* site out.
Large ==
  [Plain EXCEPT !.revision = 3, !.etag = "e3b", !.large = TRUE,
     !.overrides = <<Override("o1", Everyone, Site1, Null, [defaultServer |-> "lan"])>>]

\* Valid with both overrides, invalid with the first alone.
Alone ==
  [Plain EXCEPT !.revision = 4, !.etag = "e4",
     !.overrides = <<Override("o1", Everyone, Null, Null, [updater |-> [attempts |-> 0]]),
                     Override("o2", Site1, Null, Null, [updater |-> [attempts |-> 2]])>>]

ByTag(docs) == [t \in {d.etag : d \in docs} |-> CHOOSE d \in docs : d.etag = t]
MCDocs == ByTag({Off, SiteOff, Large, Alone})
RollbackDocs == ByTag({Plain, SiteOff})
TellDocs == ByTag({Plain, Off, SiteOff, Large})
=============================================================================
