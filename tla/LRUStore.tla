------------------------------ MODULE LRUStore ------------------------------
(***************************************************************************)
(* What LRUCache promises, without lists and iterators: the entries that   *)
(* were put and not deleted, at most Capacity of them; when another one is *)
(* put into a full cache the entry leaves that was used least recently.    *)
(* A put or a successful get is a use.                                     *)
(***************************************************************************)
EXTENDS FiniteSets, Naturals

CONSTANTS Key, Val, Capacity, NoVal

VARIABLES
  content,   \* the cached keys and their values
  older,     \* the pairs <<k, l>> of cached keys where k was used before l
  ret        \* what the last call returned

vars == <<content, older, ret>>

Cached == DOMAIN content

(* The keys S remain, and k is used now.                                   *)
Use(S, k) ==
  older' = {p \in older : {p[1], p[2]} \subseteq S \ {k}} \cup ((S \ {k}) \X {k})

Oldest(k) == k \in Cached /\ \A l \in Cached \ {k} : <<k, l>> \in older

Store(S, k, v) ==
  /\ content' = [l \in S \cup {k} |-> IF l = k THEN v ELSE content[l]]
  /\ Use(S, k)

Overwrite(k, v) ==
  /\ k \in Cached
  /\ Store(Cached, k, v)
  /\ ret' = [ok |-> TRUE, val |-> v]

Insert(k, v) ==
  /\ k \notin Cached
  /\ \/ Cardinality(Cached) < Capacity /\ Store(Cached, k, v)
     \/ /\ Cardinality(Cached) = Capacity
        /\ \E l \in Cached : Oldest(l) /\ Store(Cached \ {l}, k, v)
  /\ ret' = [ok |-> FALSE, val |-> v]

Hit(k) ==
  /\ k \in Cached
  /\ Use(Cached, k)
  /\ ret' = [ok |-> TRUE, val |-> content[k]]
  /\ UNCHANGED content

Miss(k) ==
  /\ k \notin Cached
  /\ ret' = [ok |-> FALSE, val |-> NoVal]
  /\ UNCHANGED <<content, older>>

Delete(k) ==
  /\ content' = [l \in Cached \ {k} |-> content[l]]
  /\ older' = {p \in older : k \notin {p[1], p[2]}}
  /\ ret' = [ok |-> FALSE, val |-> NoVal]

Init ==
  /\ content = [k \in {} |-> NoVal]
  /\ older = {}
  /\ ret = [ok |-> FALSE, val |-> NoVal]

Next ==
  \E k \in Key :
    \/ \E v \in Val : Overwrite(k, v) \/ Insert(k, v)
    \/ Hit(k) \/ Miss(k) \/ Delete(k)

Spec == Init /\ [][Next]_vars
=============================================================================
