---------------------------- MODULE CommandRing ----------------------------
(***************************************************************************)
(* The dedupe ring of the client channel: commandRing of                   *)
(* internal/service/clientcmd.go.  The Go type holds the ids in arrival    *)
(* order and two maps keyed by id.  Here the domain of the map `results'   *)
(* is the set `seen', the ids whose entry is a non-nil *Result are the set *)
(* `stored', and the domain of the map `refusals' is the set `refused'.    *)
(* Each operator is one critical section of ring.mu, as a function from    *)
(* the ring before it to the ring after it.                                *)
(***************************************************************************)
EXTENDS Naturals, Sequences, FiniteSets, SequencesExt

CONSTANTS
  Ids,       \* the ids a command can carry
  RingSize   \* commandRingSize

ASSUME RingAssumption == RingSize \in Nat \ {0} /\ IsFiniteSet(Ids)

Ring == [order : Seq(Ids), seen : SUBSET Ids, stored : SUBSET Ids,
         refused : SUBSET Ids]

\* The zero value of commandRing: no ids, nil maps.
EmptyRing == [order |-> <<>>, seen |-> {}, stored |-> {}, refused |-> {}]

\* Mutant of RingAdd: eviction trims the order but forgets the maps.
RingAddLeaky(r, id) ==
  LET order == Append(r.order, id)
  IN [order   |-> IF Len(order) > RingSize THEN Tail(order) ELSE order,
      seen    |-> r.seen \cup {id},
      stored  |-> r.stored \ {id},
      refused |-> r.refused]

\* add: append the id, reset its result, then drop the oldest id (and both
\* its entries) when the ring has grown past its size.
RingAdd(r, id) ==
  LET order  == Append(r.order, id)
      seen   == r.seen \cup {id}
      stored == r.stored \ {id}
      oldest == Head(order)
  IN IF Len(order) > RingSize
     THEN [order   |-> Tail(order),
           seen    |-> seen \ {oldest},
           stored  |-> stored \ {oldest},
           refused |-> r.refused \ {oldest}]
     ELSE [order |-> order, seen |-> seen, stored |-> stored,
           refused |-> r.refused]

\* store: keep a result, only for an id the ring still knows.
RingStore(r, id) ==
  IF id \in r.seen THEN [r EXCEPT !.stored = @ \cup {id}] ELSE r

\* refuse: remember that the id was refused, whether or not the ring still
\* knows it.
RingRefuse(r, id) == [r EXCEPT !.refused = @ \cup {id}]

\* seedCommandRing: add, one after the other, of the ids of a list without
\* duplicates to an empty ring.
RingSeed(ids) ==
  LET n    == Len(ids)
      kept == IF n > RingSize THEN SubSeq(ids, n - RingSize + 1, n) ELSE ids
  IN [EmptyRing EXCEPT !.order = kept, !.seen = Range(kept)]
=============================================================================
