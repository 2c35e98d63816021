--------------------------- MODULE ConsistentHash ---------------------------
(***************************************************************************)
(* The load balancer's ring, consistent_hash.h: a map from 32-bit hash     *)
(* values to physical nodes.  Each node has virtual nodes, and at[n] is    *)
(* the set of points they hash to; points of two nodes may coincide.       *)
(* Every operation of the class holds its mutex from end to end, so each   *)
(* is an operator on the ring as a value.                                  *)
(***************************************************************************)
EXTENDS Naturals, SequencesExt

CONSTANTS
  Nodes,      \* physical nodes
  LastPoint,  \* hash values are 0..LastPoint
  Nobody      \* what is found on an empty ring, no node

Points == 0..LastPoint
Rings == [Points -> Nodes \cup {Nobody}]

EmptyRing == [x \in Points |-> Nobody]

Taken(ring) == {x \in Points : ring[x] # Nobody}

\* A virtual node takes its point over from whoever had it.
AddNode(at, ring, n) == [x \in Points |-> IF x \in at[n] THEN n ELSE ring[x]]

\* A faulty variant of GetNode: past the last point there is nothing.
GetNodeNoWrap(ring, x) ==
  LET above == {y \in Taken(ring) : y > x}
  IN IF above = {} THEN Nobody ELSE ring[Min(above)]

\* upper_bound: the first point above x, or the first of all.
GetNode(ring, x) ==
  LET above == {y \in Taken(ring) : y > x}
  IN CASE Taken(ring) = {} -> Nobody
       [] above # {} -> ring[Min(above)]
       [] OTHER -> ring[Min(Taken(ring))]

\* The ring after the nodes of a list were added in its order.
AddAll(at, nodes) ==
  LET after[i \in 0..Len(nodes)] ==
        IF i = 0 THEN EmptyRing ELSE AddNode(at, after[i - 1], nodes[i])
  IN after[Len(nodes)]
=============================================================================
