--------------------------- MODULE SessionMemory ---------------------------
(***************************************************************************)
(* One shard of the gateway's session memory, sharded_lru.hpp: a list of   *)
(* key and value, the most recently used first.  Get and Put hold the      *)
(* shard's mutex from end to end, so each is an operator on the list; the  *)
(* map beside it in the code only finds an entry's place.                  *)
(***************************************************************************)
EXTENDS Naturals, SequencesExt

CONSTANT Capacity   \* entries in a shard, 62 in the gateway

ASSUME CapacityAssumption == Capacity \in Nat \ {0}

Null == <<>>

Entry(key, value) == [key |-> key, value |-> value]
Keys(cache) == {cache[i].key : i \in DOMAIN cache}
Place(cache, key) == CHOOSE i \in DOMAIN cache : cache[i].key = key

\* The value under a key, or null.
Find(cache, key) ==
  IF key \in Keys(cache) THEN cache[Place(cache, key)].value ELSE Null

\* The list without the entry of a key it has.
Others(cache, key) == RemoveAt(cache, Place(cache, key))

\* Get also moves the entry it finds to the front.
Touch(cache, key) ==
  IF key \in Keys(cache)
  THEN <<Entry(key, Find(cache, key))>> \o Others(cache, key)
  ELSE cache

\* (A faulty Put: an entry that is there is moved, its value not replaced.)
PutIfNew(cache, key, value) ==
  IF key \in Keys(cache) THEN Touch(cache, key)
  ELSE <<Entry(key, value)>> \o (IF Len(cache) >= Capacity THEN Front(cache) ELSE cache)

Put(cache, key, value) ==
  LET kept == IF key \in Keys(cache) THEN Others(cache, key)
              ELSE IF Len(cache) >= Capacity THEN Front(cache) ELSE cache
  IN <<Entry(key, value)>> \o kept
=============================================================================
