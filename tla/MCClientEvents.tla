--------------------------- MODULE MCClientEvents ---------------------------
(***************************************************************************)
(* Small instances of ClientEvents: two connections at once, one or two    *)
(* versions on offer, one failure, and servers that accept everything or   *)
(* neither service.started nor the version on offer.                       *)
(***************************************************************************)
EXTENDS ClientEvents, TLC

CONSTANTS g1, g2, a1, a2, f1, s, st

MCWelcomes == {{}, {st, a1}}

\* Connections are interchangeable (not under a liveness property).
Symmetry == Permutations(Gens)

OneEach == [e \in Emitters |-> 1]
TwoOne == [e \in Emitters |-> IF e = Poll THEN 2 ELSE 1]
=============================================================================
