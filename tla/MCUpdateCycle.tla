--------------------------- MODULE MCUpdateCycle ---------------------------
(***************************************************************************)
(* Small instances of UpdateCycle: builds a and b of versions 1 and 2, and *)
(* c, version 2 published again.                                           *)
(***************************************************************************)
EXTENDS UpdateCycle

CONSTANTS a, b, c

MCVersionOf == [x \in Builds |-> IF x = a THEN 1 ELSE 2]
MCFirstOffer == [build |-> a, critical |-> FALSE, min |-> 0]
=============================================================================
