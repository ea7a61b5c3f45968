----------------------------- MODULE MCPresence -----------------------------
(***************************************************************************)
(* Small instances of Presence: a site with a base server and a backup,    *)
(* the public server for a machine that is elsewhere, and the channel      *)
(* switched off.                                                           *)
(***************************************************************************)
EXTENDS Presence

CONSTANTS base, backup

AtSite == [chain |-> <<base, backup>>, enabled |-> TRUE]
Away == [chain |-> <<backup>>, enabled |-> TRUE]
OnlyBase == [chain |-> <<base>>, enabled |-> TRUE]
Off == [chain |-> <<base, backup>>, enabled |-> FALSE]
MCPolicies == {AtSite, Away, OnlyBase, Off}
=============================================================================
