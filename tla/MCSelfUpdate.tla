---------------------------- MODULE MCSelfUpdate ----------------------------
(***************************************************************************)
(* Small instances of SelfUpdate: the constants are numbers and sets of    *)
(* numbers, given in the configurations.                                   *)
(***************************************************************************)
EXTENDS SelfUpdate
=============================================================================
