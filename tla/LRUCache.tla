------------------------------ MODULE LRUCache ------------------------------
(***************************************************************************)
(* LRUCache: a map from keys to values, the list lru_keys of the keys, the *)
(* most recently used first, and in every entry of the map an iterator to  *)
(* its element of the list.  Every operation holds the mutex of the cache  *)
(* from its first statement to its last, so each is one step.              *)
(*                                                                         *)
(* A list element is a node of the heap, so that an iterator left behind   *)
(* is seen: erasing an element frees its node, and pushing one takes any   *)
(* free node, the one freed last included.                                 *)
(***************************************************************************)
EXTENDS Integers, Sequences, FiniteSets

CONSTANTS
  Key, Val,    \* keys and values
  NoVal,       \* no value: a get that failed leaves its argument alone
  Node,        \* the addresses of the elements of lru_keys (a bound)
  Capacity     \* capacity

(* A cache of capacity 0 would pop an element off an empty list, and both  *)
(* constructors that the program calls pass CACHE_SIZE.                    *)
ASSUME CacheAssumption ==
  /\ Capacity \in Nat \ {0}
  /\ NoVal \notin Val
  /\ Key # {}

VARIABLES
  cache,       \* the map: an entry has a value and an iterator
  lru_keys,    \* the list: where each element is and the key it holds
  size,        \* size
  ret          \* what the last call returned, and left in val

vars == <<cache, lru_keys, size, ret>>

Entry == [val : Val, iter : Node]
Element == [at : Node, key : Key]
Nodes(list) == {list[i].at : i \in DOMAIN list}

TypeOK ==
  /\ DOMAIN cache \subseteq Key
  /\ \A k \in DOMAIN cache : cache[k] \in Entry
  /\ lru_keys \in Seq(Element)
  /\ size \in Nat
  /\ ret \in [ok : BOOLEAN, val : Val \cup {NoVal}]

Init ==
  /\ cache = [k \in {} |-> NoVal]
  /\ lru_keys = <<>>
  /\ size = 0
  /\ ret = [ok |-> FALSE, val |-> NoVal]

-----------------------------------------------------------------------------
(* list::erase, pop_back and push_front.                                   *)

Position(list, n) == CHOOSE i \in DOMAIN list : list[i].at = n
RemoveNth(list, i) ==
  [j \in 1 .. Len(list) - 1 |-> IF j < i THEN list[j] ELSE list[j + 1]]
Unlinked(list, n) == RemoveNth(list, Position(list, n))

Pushed(list, n, k) ==
  [j \in 1 .. Len(list) + 1 |-> IF j = 1 THEN [at |-> n, key |-> k] ELSE list[j - 1]]

(* list, with key k before it in a node n that is free.                    *)
PushFront(list, n, k) ==
  /\ n \notin Nodes(list)
  /\ lru_keys' = Pushed(list, n, k)

(* The entry of k is erased from the list and pushed to the front, and the *)
(* map learns where it is.                                                 *)
Touch_Mutant(k, v) ==
  \E n \in Node :
    /\ PushFront(Unlinked(lru_keys, cache[k].iter), n, k)
    /\ cache' = [cache EXCEPT ![k].val = v]
Touch(k, v) ==
  \E n \in Node :
    /\ PushFront(Unlinked(lru_keys, cache[k].iter), n, k)
    /\ cache' = [cache EXCEPT ![k] = [val |-> v, iter |-> n]]

With(map, k, entry) ==
  [l \in DOMAIN map \cup {k} |-> IF l = k THEN entry ELSE map[l]]
Without(map, k) == [l \in DOMAIN map \ {k} |-> map[l]]

-----------------------------------------------------------------------------
(* The operations.                                                         *)

PutPresent(k, v) ==
  /\ k \in DOMAIN cache
  /\ Touch(k, v)
  /\ ret' = [ok |-> TRUE, val |-> v]
  /\ UNCHANGED size

PutNew(k, v) ==
  /\ k \notin DOMAIN cache
  /\ size # Capacity
  /\ \E n \in Node :
       /\ PushFront(lru_keys, n, k)
       /\ cache' = With(cache, k, [val |-> v, iter |-> n])
  /\ size' = size + 1
  /\ ret' = [ok |-> FALSE, val |-> v]

Victim_Mutant(list) == list[1]
Victim(list) == list[Len(list)]

(* The cache is full: the key at the back of the list makes room.          *)
PutEvict(k, v) ==
  /\ k \notin DOMAIN cache
  /\ size = Capacity
  /\ LET last == Victim(lru_keys) IN
     \E n \in Node :
       /\ PushFront(Unlinked(lru_keys, last.at), n, k)
       /\ cache' = With(Without(cache, last.key), k, [val |-> v, iter |-> n])
  /\ ret' = [ok |-> FALSE, val |-> v]
  /\ UNCHANGED size

put(k, v) == PutPresent(k, v) \/ PutNew(k, v) \/ PutEvict(k, v)

get(k) ==
  \/ /\ k \in DOMAIN cache
     /\ Touch(k, cache[k].val)
     /\ ret' = [ok |-> TRUE, val |-> cache[k].val]
     /\ UNCHANGED size
  \/ /\ k \notin DOMAIN cache
     /\ ret' = [ok |-> FALSE, val |-> NoVal]
     /\ UNCHANGED <<cache, lru_keys, size>>

del(k) ==
  /\ \/ /\ k \in DOMAIN cache
        /\ lru_keys' = Unlinked(lru_keys, cache[k].iter)
        /\ cache' = Without(cache, k)
        /\ size' = size - 1
     \/ /\ k \notin DOMAIN cache
        /\ UNCHANGED <<cache, lru_keys, size>>
  /\ ret' = [ok |-> FALSE, val |-> NoVal]

Next ==
  \E k \in Key :
    \/ \E v \in Val : put(k, v)
    \/ get(k)
    \/ del(k)

Spec == Init /\ [][Next]_vars

-----------------------------------------------------------------------------
(* An iterator in the map points to an element of the list that holds the  *)
(* key of its entry; no two elements are the same node.  An operation that *)
(* left an iterator behind would make a later one erase a freed element.   *)
IteratorsValid ==
  /\ \A k \in DOMAIN cache :
       \E i \in DOMAIN lru_keys : lru_keys[i] = [at |-> cache[k].iter, key |-> k]
  /\ \A i, j \in DOMAIN lru_keys : lru_keys[i].at = lru_keys[j].at => i = j

(* The map and the list hold the same keys, each once: an eviction, which takes its   *)
(* victim from the list, always removes an entry of the map.               *)
SameKeys ==
  /\ {lru_keys[i].key : i \in DOMAIN lru_keys} = DOMAIN cache
  /\ \A i, j \in DOMAIN lru_keys : lru_keys[i].key = lru_keys[j].key => i = j

(* size counts the elements, and never passes the capacity: put evicts     *)
(* only when they are equal, so a cache that got larger would stay so.     *)
SizeBounded == size = Len(lru_keys) /\ size <= Capacity

(* The three hang together, and are inductive.                             *)
WellFormed == TypeOK /\ IteratorsValid /\ SameKeys /\ SizeBounded

(* What the map holds, and the pairs of listed keys whose first was used before its second. *)
Values(map) == [k \in DOMAIN map |-> map[k].val]
Older(list) ==
  {<<list[p[1]].key, list[p[2]].key>> :
     p \in {q \in (DOMAIN list) \X (DOMAIN list) : q[1] > q[2]}}

(* The cache implements the abstract one: what get returns is what was put *)
(* last, and what put evicts is the key used least recently.               *)
Abstract == INSTANCE LRUStore WITH content <- Values(cache), older <- Older(lru_keys)

ImplementsLRU == Abstract!Spec
=============================================================================
