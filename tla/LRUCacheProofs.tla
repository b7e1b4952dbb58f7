--------------------------- MODULE LRUCacheProofs ---------------------------
(* Theorems about LRUCache, for every capacity and any keys and values.    *)
EXTENDS LRUCache, FiniteSetTheorems, TLAPS

(* list holds the keys of map, each once, in different nodes, and every    *)
(* iterator of map points to the element of its key.                       *)
Listing(list, map) ==
  /\ list \in Seq(Element)
  /\ DOMAIN map \subseteq Key
  /\ \A k \in DOMAIN map : map[k] \in Entry
  /\ \A i, j \in DOMAIN list : list[i].at = list[j].at => i = j
  /\ \A i, j \in DOMAIN list : list[i].key = list[j].key => i = j
  /\ {list[i].key : i \in DOMAIN list} = DOMAIN map
  /\ \A k \in DOMAIN map :
       \E i \in DOMAIN list : list[i] = [at |-> map[k].iter, key |-> k]

LEMMA ListingInv ==
  WellFormed <=> /\ Listing(lru_keys, cache) /\ SizeBounded
                 /\ size \in Nat /\ ret \in [ok : BOOLEAN, val : Val \cup {NoVal}]
  BY DEF WellFormed, TypeOK, IteratorsValid, SameKeys, Listing

(* An entry and its element point to each other.                           *)
LEMMA ElementOfKey ==
  ASSUME NEW list, NEW map, Listing(list, map), NEW i \in DOMAIN list
  PROVE  /\ list[i].key \in DOMAIN map
         /\ map[list[i].key].iter = list[i].at
<1>1. list[i] \in Element /\ list[i].key \in DOMAIN map
  BY DEF Listing
<1>2. PICK j \in DOMAIN list :
        list[j] = [at |-> map[list[i].key].iter, key |-> list[i].key]
  BY <1>1 DEF Listing
<1>3. list[j].key = list[i].key /\ list[j].at = map[list[i].key].iter
  BY <1>2
<1>4. j = i
  BY <1>3 DEF Listing
<1> QED
  BY <1>1, <1>3, <1>4

LEMMA RemoveNthProperties ==
  ASSUME NEW S, NEW list \in Seq(S), NEW i \in DOMAIN list
  PROVE  /\ RemoveNth(list, i) \in Seq(S)
         /\ Len(RemoveNth(list, i)) = Len(list) - 1
         /\ DOMAIN RemoveNth(list, i) = 1 .. Len(list) - 1
         /\ \A j \in 1 .. Len(list) - 1 :
              RemoveNth(list, i)[j] = IF j < i THEN list[j] ELSE list[j + 1]
  BY DEF RemoveNth

(* l is list without its element i.                                        *)
IsRemoved(list, i, l) ==
  /\ l \in Seq(Element) /\ Len(l) = Len(list) - 1
  /\ DOMAIN l = 1 .. Len(list) - 1
  /\ \A j \in DOMAIN l : l[j] = IF j < i THEN list[j] ELSE list[j + 1]

(* Erasing through the iterator of a key: its element goes, and the others *)
(* keep their order.                                                       *)
LEMMA UnlinkShape ==
  ASSUME NEW list, NEW map, Listing(list, map), NEW k \in DOMAIN map
  PROVE  \E i \in DOMAIN list : /\ list[i].key = k
                                /\ IsRemoved(list, i, Unlinked(list, map[k].iter))
<1> DEFINE n == map[k].iter
           i == Position(list, n)
           l == RemoveNth(list, i)
<1>1. list \in Seq(Element)
  BY DEF Listing
<1>2. i \in DOMAIN list /\ list[i].at = n
  <2>1. \E j \in DOMAIN list : list[j].at = n
    BY DEF Listing
  <2> QED
    BY <2>1 DEF Position
<1>3. list[i].key = k
  <2>1. PICK j \in DOMAIN list : list[j] = [at |-> n, key |-> k]
    BY DEF Listing
  <2>2. j = i
    BY <1>2, <2>1 DEF Listing
  <2> QED
    BY <2>1, <2>2
<1> HIDE DEF i
<1>4. IsRemoved(list, i, l)
  BY <1>1, <1>2, RemoveNthProperties DEF IsRemoved
<1>5. l = Unlinked(list, map[k].iter)
  BY DEF Unlinked, i
<1> HIDE DEF l, n
<1> QED
  BY <1>2, <1>3, <1>4, <1>5

(* Erasing the element of a key through its iterator, and the key.         *)
LEMMA UnlinkListing ==
  ASSUME NEW list, NEW map, Listing(list, map), NEW k \in DOMAIN map
  PROVE  /\ Listing(Unlinked(list, map[k].iter), Without(map, k))
         /\ Len(Unlinked(list, map[k].iter)) = Len(list) - 1
         /\ Len(list) > 0
<1> DEFINE l == Unlinked(list, map[k].iter)
           m == Without(map, k)
<1>1. list \in Seq(Element) /\ DOMAIN list = 1 .. Len(list) /\ Len(list) \in Nat
  BY DEF Listing
<1>2. PICK i \in DOMAIN list : list[i].key = k /\ IsRemoved(list, i, l)
  BY UnlinkShape
<1>3. list[i].key = k
  BY <1>2
<1>4. /\ l \in Seq(Element) /\ Len(l) = Len(list) - 1
      /\ DOMAIN l = 1 .. Len(list) - 1
      /\ \A j \in DOMAIN l : l[j] = IF j < i THEN list[j] ELSE list[j + 1]
  BY <1>2 DEF IsRemoved
<1> HIDE DEF l
<1> DEFINE src(j) == IF j < i THEN j ELSE j + 1
<1>5. \A j \in DOMAIN l : src(j) \in DOMAIN list \ {i} /\ l[j] = list[src(j)]
  BY <1>1, <1>2, <1>4
<1>6. \A j, h \in DOMAIN l : src(j) = src(h) => j = h
  BY <1>1, <1>2, <1>4
<1>7. \A h \in DOMAIN list \ {i} : \E j \in DOMAIN l : src(j) = h
  <2> TAKE h \in DOMAIN list \ {i}
  <2>1. CASE h < i
    BY <1>1, <1>2, <1>4, <2>1
  <2>2. CASE h > i
    <3>1. h - 1 \in DOMAIN l /\ src(h - 1) = h
      BY <1>1, <1>2, <1>4, <2>2
    <3> QED
      BY <3>1
  <2> QED
    BY <1>1, <1>2, <2>1, <2>2
<1> HIDE DEF src
<1>8. DOMAIN m = DOMAIN map \ {k} /\ \A h \in DOMAIN m : m[h] = map[h]
  BY DEF Without
<1> HIDE DEF m
<1>9. \A j, h \in DOMAIN l : l[j].at = l[h].at \/ l[j].key = l[h].key => j = h
  BY <1>5, <1>6 DEF Listing
<1>10. {l[j].key : j \in DOMAIN l} = DOMAIN m
  <2>1. ASSUME NEW j \in DOMAIN l PROVE l[j].key \in DOMAIN m
    <3>1. list[src(j)].key \in DOMAIN map /\ list[src(j)].key # k
      BY <1>2, <1>3, <1>5 DEF Listing
    <3> QED
      BY <1>5, <1>8, <3>1
  <2>2. ASSUME NEW h \in DOMAIN m PROVE \E j \in DOMAIN l : l[j].key = h
    <3>1. PICK x \in DOMAIN list : list[x].key = h
      BY <1>8 DEF Listing
    <3>2. x # i
      BY <1>3, <1>8, <3>1
    <3> QED
      BY <1>5, <1>7, <3>1, <3>2
  <2> QED
    BY <2>1, <2>2
<1>11. \A h \in DOMAIN m : \E j \in DOMAIN l : l[j] = [at |-> m[h].iter, key |-> h]
  <2> TAKE h \in DOMAIN m
  <2>1. PICK x \in DOMAIN list : list[x] = [at |-> map[h].iter, key |-> h]
    BY <1>8 DEF Listing
  <2>2. x # i
    BY <1>3, <1>8, <2>1
  <2>3. PICK j \in DOMAIN l : src(j) = x
    BY <1>7, <2>2
  <2> QED
    BY <1>5, <1>8, <2>1, <2>3
<1>12. Listing(l, m)
  BY <1>4, <1>8, <1>9, <1>10, <1>11 DEF Listing
<1> QED
  BY <1>1, <1>2, <1>4, <1>12 DEF l, m

(* Pushing a key that is not listed, and entering it in the map.           *)
LEMMA PushListing ==
  ASSUME NEW list, NEW map, Listing(list, map), NEW k \in Key \ DOMAIN map,
         NEW v \in Val, NEW n \in Node \ Nodes(list)
  PROVE  /\ Listing(Pushed(list, n, k), With(map, k, [val |-> v, iter |-> n]))
         /\ Len(Pushed(list, n, k)) = Len(list) + 1
<1> DEFINE e == [at |-> n, key |-> k]
           l == Pushed(list, n, k)
           m == With(map, k, [val |-> v, iter |-> n])
<1>1. list \in Seq(Element) /\ DOMAIN list = 1 .. Len(list) /\ Len(list) \in Nat
  BY DEF Listing
<1>2. e \in Element /\ e.at = n /\ e.key = k
  BY DEF Element
<1>3. /\ DOMAIN l = 1 .. Len(list) + 1
      /\ l[1] = e
      /\ \A j \in DOMAIN l \ {1} : j - 1 \in DOMAIN list /\ l[j] = list[j - 1]
  BY <1>1 DEF Pushed
<1>4. \A j \in DOMAIN l : l[j] \in Element
  BY <1>1, <1>2, <1>3
<1>5. l \in Seq(Element) /\ Len(l) = Len(list) + 1
  <2>1. l \in [1 .. Len(list) + 1 -> Element]
    BY <1>3, <1>4 DEF Pushed
  <2> HIDE DEF l
  <2> QED
    BY <1>1, <2>1
<1>6. \A j \in DOMAIN list : j + 1 \in DOMAIN l \ {1} /\ l[j + 1] = list[j]
  BY <1>1, <1>3
<1> HIDE DEF l
<1>7. /\ DOMAIN m = DOMAIN map \cup {k} /\ m[k] = [val |-> v, iter |-> n]
      /\ \A h \in DOMAIN map : m[h] = map[h]
  BY DEF With
<1> HIDE DEF m
<1>8. \A h \in DOMAIN m : m[h] \in Entry
  BY <1>7 DEF Listing, Entry
<1>9. \A j \in DOMAIN list : list[j].at # n /\ list[j].key # k
  BY DEF Listing, Nodes
<1> HIDE DEF e
<1>10. \A i, j \in DOMAIN l : l[i].at = l[j].at \/ l[i].key = l[j].key => i = j
  <2> TAKE i, j \in DOMAIN l
  <2>1. CASE i = 1 /\ j # 1
    BY <1>2, <1>3, <1>9, <2>1
  <2>2. CASE i # 1 /\ j = 1
    BY <1>2, <1>3, <1>9, <2>2
  <2>3. CASE i # 1 /\ j # 1
    <3>1. list[i - 1].at = list[j - 1].at \/ list[i - 1].key = list[j - 1].key
            => i - 1 = j - 1
      BY <1>3, <2>3 DEF Listing
    <3> QED
      BY <1>1, <1>3, <2>3, <3>1
  <2> QED
    BY <2>1, <2>2, <2>3
<1>11. {l[j].key : j \in DOMAIN l} = DOMAIN m
  <2>1. ASSUME NEW j \in DOMAIN l PROVE l[j].key \in DOMAIN m
    BY <1>2, <1>3, <1>7 DEF Listing
  <2>2. ASSUME NEW h \in DOMAIN m PROVE \E j \in DOMAIN l : l[j].key = h
    <3>1. CASE h = k
      BY <1>1, <1>2, <1>3, <3>1
    <3>2. CASE h # k
      <4>1. PICK j \in DOMAIN list : list[j].key = h
        BY <1>7, <3>2 DEF Listing
      <4> QED
        BY <1>6, <4>1
    <3> QED
      BY <3>1, <3>2
  <2> QED
    BY <2>1, <2>2
<1>12. \A h \in DOMAIN m : \E j \in DOMAIN l : l[j] = [at |-> m[h].iter, key |-> h]
  <2> TAKE h \in DOMAIN m
  <2>1. CASE h = k
    BY <1>1, <1>3, <1>7, <2>1 DEF e
  <2>2. CASE h # k
    <3>1. PICK j \in DOMAIN list : list[j] = [at |-> map[h].iter, key |-> h]
      BY <1>7, <2>2 DEF Listing
    <3>2. j + 1 \in DOMAIN l /\ l[j + 1] = [at |-> m[h].iter, key |-> h]
      BY <1>6, <1>7, <2>2, <3>1
    <3> QED
      BY <3>2
  <2> QED
    BY <2>1, <2>2
<1>13. Listing(l, m)
  BY <1>5, <1>7, <1>8, <1>10, <1>11, <1>12 DEF Listing
<1> QED
  BY <1>5, <1>13 DEF l, m

(* Moving a key to the front of the list.                                  *)
LEMMA TouchListing ==
  ASSUME Listing(lru_keys, cache), NEW k \in DOMAIN cache, NEW v \in Val, Touch(k, v)
  PROVE  Listing(lru_keys', cache') /\ Len(lru_keys') = Len(lru_keys)
<1> DEFINE list == Unlinked(lru_keys, cache[k].iter)
           map == Without(cache, k)
<1>1. /\ Listing(list, map) /\ Len(list) = Len(lru_keys) - 1
      /\ k \in Key \ DOMAIN map /\ Len(lru_keys) \in Nat
  <2>1. Listing(list, map) /\ Len(list) = Len(lru_keys) - 1
    BY UnlinkListing
  <2>2. k \in Key \ DOMAIN map
    BY DEF Listing, Without
  <2>3. Len(lru_keys) \in Nat
    BY DEF Listing
  <2> QED
    BY <2>1, <2>2, <2>3
<1>2. PICK n \in Node : /\ n \notin Nodes(list)
                        /\ lru_keys' = Pushed(list, n, k)
                        /\ cache' = [cache EXCEPT ![k] = [val |-> v, iter |-> n]]
  BY DEF Touch, PushFront
<1>3. cache' = With(map, k, [val |-> v, iter |-> n])
  BY <1>2 DEF With, Without
<1> HIDE DEF list, map
<1>4. Listing(lru_keys', cache') /\ Len(lru_keys') = Len(list) + 1
  <2>1. /\ Listing(Pushed(list, n, k), With(map, k, [val |-> v, iter |-> n]))
        /\ Len(Pushed(list, n, k)) = Len(list) + 1
    BY <1>1, <1>2, PushListing
  <2> QED
    BY <1>2, <1>3, <2>1
<1> QED
  BY <1>1, <1>4

-----------------------------------------------------------------------------

LEMMA InitWellFormed == Init => WellFormed
<1> SUFFICES ASSUME Init PROVE WellFormed
  OBVIOUS
<1>1. DOMAIN cache = {} /\ lru_keys = <<>> /\ DOMAIN lru_keys = {} /\ Len(lru_keys) = 0
  BY DEF Init
<1>2. Listing(lru_keys, cache)
  BY <1>1 DEF Listing
<1>3. SizeBounded
  BY <1>1, CacheAssumption DEF Init, SizeBounded
<1> QED
  BY <1>2, <1>3, ListingInv DEF Init

LEMMA NextWellFormed == WellFormed /\ [Next]_vars => WellFormed'
<1> SUFFICES ASSUME WellFormed, [Next]_vars PROVE WellFormed'
  OBVIOUS
<1> DEFINE Fine == /\ Listing(lru_keys, cache) /\ SizeBounded
                   /\ size \in Nat /\ ret \in [ok : BOOLEAN, val : Val \cup {NoVal}]
<1>a. Fine
  BY ListingInv
<1>b. Fine' => WellFormed'
  BY DEF WellFormed, TypeOK, IteratorsValid, SameKeys, Listing
<1>c. Capacity \in Nat \ {0} /\ size = Len(lru_keys) /\ size <= Capacity
  BY <1>a, CacheAssumption DEF SizeBounded
<1>1. ASSUME NEW k \in Key, NEW v \in Val, PutPresent(k, v) PROVE Fine'
  <2>1. Listing(lru_keys, cache)' /\ Len(lru_keys') = Len(lru_keys)
    BY <1>a, <1>1, TouchListing DEF PutPresent
  <2> QED
    BY <1>1, <1>a, <2>1 DEF PutPresent, SizeBounded
<1>2. ASSUME NEW k \in Key, NEW v \in Val, PutNew(k, v) PROVE Fine'
  <2>1. PICK n \in Node : /\ n \notin Nodes(lru_keys)
                          /\ lru_keys' = Pushed(lru_keys, n, k)
                          /\ cache' = With(cache, k, [val |-> v, iter |-> n])
    BY <1>2 DEF PutNew, PushFront
  <2>2. Listing(lru_keys, cache)' /\ Len(lru_keys') = Len(lru_keys) + 1
    BY <1>a, <1>2, <2>1, PushListing DEF PutNew
  <2>3. size' = size + 1 /\ size # Capacity /\ ret' = [ok |-> FALSE, val |-> v]
    BY <1>2 DEF PutNew
  <2> QED
    BY <1>a, <1>c, <2>2, <2>3 DEF SizeBounded
<1>3. ASSUME NEW k \in Key, NEW v \in Val, PutEvict(k, v) PROVE Fine'
  <2> DEFINE last == Victim(lru_keys)
             list == Unlinked(lru_keys, last.at)
             map == Without(cache, last.key)
  <2>1. last = lru_keys[Len(lru_keys)] /\ Len(lru_keys) \in DOMAIN lru_keys
    BY <1>3, <1>a, <1>c DEF PutEvict, Victim, Listing
  <2>2. last.key \in DOMAIN cache /\ cache[last.key].iter = last.at
    BY <1>a, <2>1, ElementOfKey
  <2>3. Listing(list, map) /\ Len(list) = Len(lru_keys) - 1
    BY <1>a, <2>2, UnlinkListing
  <2>4. PICK n \in Node : /\ n \notin Nodes(list)
                          /\ lru_keys' = Pushed(list, n, k)
                          /\ cache' = With(map, k, [val |-> v, iter |-> n])
    BY <1>3 DEF PutEvict, PushFront
  <2>5. k \in Key \ DOMAIN map
    BY <1>3 DEF PutEvict, Without
  <2> HIDE DEF list, map
  <2>6. Listing(lru_keys, cache)' /\ Len(lru_keys') = Len(list) + 1
    BY <2>3, <2>4, <2>5, PushListing
  <2>7. Len(lru_keys') = Len(lru_keys)
    BY <1>c, <2>3, <2>6
  <2> QED
    BY <1>3, <1>a, <2>6, <2>7 DEF PutEvict, SizeBounded
<1>4. ASSUME NEW k \in Key, get(k) PROVE Fine'
  <2>1. CASE k \in DOMAIN cache
    <3>1. cache[k].val \in Val
      BY <1>a, <2>1 DEF Listing, Entry
    <3>2. Listing(lru_keys, cache)' /\ Len(lru_keys') = Len(lru_keys)
      BY <1>a, <1>4, <2>1, <3>1, TouchListing DEF get
    <3>3. size' = size /\ ret' = [ok |-> TRUE, val |-> cache[k].val]
      BY <1>4, <2>1 DEF get
    <3> QED
      BY <1>a, <3>1, <3>2, <3>3 DEF SizeBounded
  <2>2. CASE k \notin DOMAIN cache
    <3>1. /\ cache' = cache /\ lru_keys' = lru_keys /\ size' = size
          /\ ret' = [ok |-> FALSE, val |-> NoVal]
      BY <1>4, <2>2 DEF get
    <3> QED
      BY <1>a, <3>1 DEF SizeBounded
  <2> QED
    BY <2>1, <2>2
<1>5. ASSUME NEW k \in Key, del(k) PROVE Fine'
  <2>1. CASE k \in DOMAIN cache
    <3>1. /\ Listing(lru_keys, cache)' /\ Len(lru_keys') = Len(lru_keys) - 1
          /\ Len(lru_keys) > 0
      BY <1>5, <1>a, <2>1, UnlinkListing DEF del
    <3> QED
      BY <1>5, <1>a, <1>c, <2>1, <3>1 DEF del, SizeBounded
  <2>2. CASE k \notin DOMAIN cache
    BY <1>5, <1>a, <2>2 DEF del, SizeBounded
  <2> QED
    BY <2>1, <2>2
<1>6. CASE UNCHANGED vars
  <2>1. cache' = cache /\ lru_keys' = lru_keys /\ size' = size /\ ret' = ret
    BY <1>6 DEF vars
  <2> QED
    BY <1>a, <1>b, <2>1 DEF SizeBounded
<1> QED
  BY <1>b, <1>1, <1>2, <1>3, <1>4, <1>5, <1>6 DEF Next, put

(* The map, the list and the counter of the cache always agree, and no     *)
(* iterator is left behind.                                                *)
THEOREM CacheWellFormed == Spec => []WellFormed
  BY InitWellFormed, NextWellFormed, PTL DEF Spec

-----------------------------------------------------------------------------
(* The order of use, which the abstract cache keeps as pairs of keys.      *)

LEMMA OlderPairs ==
  ASSUME NEW list, NEW q
  PROVE  q \in Older(list) <=> \E i, j \in DOMAIN list :
                                 i > j /\ q = <<list[i].key, list[j].key>>
<1>1. ASSUME q \in Older(list)
      PROVE  \E i, j \in DOMAIN list : i > j /\ q = <<list[i].key, list[j].key>>
  BY <1>1 DEF Older
<1>2. ASSUME NEW i \in DOMAIN list, NEW j \in DOMAIN list,
             i > j, q = <<list[i].key, list[j].key>>
      PROVE  q \in Older(list)
  <2> DEFINE p == <<i, j>>
  <2>1. p \in (DOMAIN list) \X (DOMAIN list) /\ p[1] = i /\ p[2] = j
    OBVIOUS
  <2> HIDE DEF p
  <2>2. q = <<list[p[1]].key, list[p[2]].key>> /\ p[1] > p[2]
    BY <1>2, <2>1
  <2> QED
    BY <2>1, <2>2 DEF Older
<1> QED
  BY <1>1, <1>2

(* Erasing a key leaves the order of the others.                           *)
LEMMA OlderUnlinked ==
  ASSUME NEW list, NEW map, Listing(list, map), NEW k \in DOMAIN map
  PROVE  Older(Unlinked(list, map[k].iter)) = {p \in Older(list) : k \notin {p[1], p[2]}}
<1> DEFINE l == Unlinked(list, map[k].iter)
<1>1. list \in Seq(Element) /\ DOMAIN list = 1 .. Len(list) /\ Len(list) \in Nat
  BY DEF Listing
<1>2. PICK i \in DOMAIN list : list[i].key = k /\ IsRemoved(list, i, l)
  BY UnlinkShape
<1>3. \A h \in DOMAIN list : list[h].key = k => h = i
  BY <1>2 DEF Listing
<1> HIDE DEF l
<1>4. /\ DOMAIN l = 1 .. Len(list) - 1
      /\ \A j \in DOMAIN l : l[j] = IF j < i THEN list[j] ELSE list[j + 1]
  BY <1>2 DEF IsRemoved
<1>5. ASSUME NEW q \in Older(l) PROVE q \in Older(list) /\ k \notin {q[1], q[2]}
  <2>1. PICK x, y \in DOMAIN l : x > y /\ q = <<l[x].key, l[y].key>>
    BY OlderPairs
  <2>2. PICK a, b \in DOMAIN list : a > b /\ a # i /\ b # i /\ l[x] = list[a] /\ l[y] = list[b]
    <3>1. CASE x < i
      BY <1>1, <1>2, <1>4, <2>1, <3>1
    <3>2. CASE x >= i /\ y < i
      <4>1. /\ x + 1 \in DOMAIN list /\ y \in DOMAIN list /\ x + 1 > y /\ x + 1 # i /\ y # i
            /\ l[x] = list[x + 1] /\ l[y] = list[y]
        BY <1>1, <1>2, <1>4, <2>1, <3>2
      <4> QED
        BY <4>1
    <3>3. CASE y >= i
      <4>1. /\ x + 1 \in DOMAIN list /\ y + 1 \in DOMAIN list
            /\ x + 1 > y + 1 /\ x + 1 # i /\ y + 1 # i
            /\ l[x] = list[x + 1] /\ l[y] = list[y + 1]
        BY <1>1, <1>2, <1>4, <2>1, <3>3
      <4> QED
        BY <4>1
    <3> QED
      BY <1>1, <1>4, <3>1, <3>2, <3>3
  <2>3. q = <<list[a].key, list[b].key>>
    BY <2>1, <2>2
  <2>4. q \in Older(list)
    BY <2>2, <2>3, OlderPairs
  <2>5. list[a].key # k /\ list[b].key # k
    BY <1>3, <2>2
  <2> QED
    BY <2>3, <2>4, <2>5
<1>6. ASSUME NEW q \in Older(list), k \notin {q[1], q[2]} PROVE q \in Older(l)
  <2>1. PICK a, b \in DOMAIN list : a > b /\ q = <<list[a].key, list[b].key>>
    BY OlderPairs
  <2>2. a # i /\ b # i
    BY <1>2, <1>6, <2>1
  <2>3. PICK x, y \in DOMAIN l : x > y /\ l[x] = list[a] /\ l[y] = list[b]
    <3>1. CASE a < i
      BY <1>1, <1>2, <1>4, <2>1, <3>1
    <3>2. CASE a > i /\ b < i
      <4>1. /\ a - 1 \in DOMAIN l /\ b \in DOMAIN l /\ a - 1 > b
            /\ l[a - 1] = list[a] /\ l[b] = list[b]
        BY <1>1, <1>2, <1>4, <2>1, <3>2
      <4> QED
        BY <4>1
    <3>3. CASE b > i
      <4>1. /\ a - 1 \in DOMAIN l /\ b - 1 \in DOMAIN l /\ a - 1 > b - 1
            /\ l[a - 1] = list[a] /\ l[b - 1] = list[b]
        BY <1>1, <1>2, <1>4, <2>1, <3>3
      <4> QED
        BY <4>1
    <3> QED
      BY <1>1, <1>2, <2>1, <2>2, <3>1, <3>2, <3>3
  <2> QED
    BY <2>1, <2>3, OlderPairs
<1> QED
  BY <1>5, <1>6 DEF l

(* A key pushed to the front is used after all the others.                 *)
LEMMA OlderPushed ==
  ASSUME NEW list, NEW map, Listing(list, map), NEW k, NEW n
  PROVE  Older(Pushed(list, n, k)) = Older(list) \cup ((DOMAIN map) \X {k})
<1> DEFINE l == Pushed(list, n, k)
<1>1. DOMAIN list = 1 .. Len(list) /\ Len(list) \in Nat
  BY DEF Listing
<1>2. /\ DOMAIN l = 1 .. Len(list) + 1
      /\ l[1].key = k
      /\ \A j \in DOMAIN l \ {1} : j - 1 \in DOMAIN list /\ l[j] = list[j - 1]
      /\ \A j \in DOMAIN list : j + 1 \in DOMAIN l \ {1} /\ l[j + 1] = list[j]
  BY <1>1 DEF Pushed
<1> HIDE DEF l
<1>3. ASSUME NEW q \in Older(l) PROVE q \in Older(list) \cup ((DOMAIN map) \X {k})
  <2>1. PICK x, y \in DOMAIN l : x > y /\ q = <<l[x].key, l[y].key>>
    BY OlderPairs
  <2>2. x # 1 /\ x - 1 \in DOMAIN list /\ l[x] = list[x - 1]
    BY <1>1, <1>2, <2>1
  <2>3. CASE y = 1
    <3>1. l[x].key \in DOMAIN map /\ l[y].key = k
      BY <1>2, <2>2, <2>3 DEF Listing
    <3> QED
      BY <2>1, <3>1
  <2>4. CASE y # 1
    <3>1. y - 1 \in DOMAIN list /\ x - 1 > y - 1 /\ l[y] = list[y - 1]
      BY <1>1, <1>2, <2>1, <2>4
    <3> QED
      BY <2>1, <2>2, <3>1, OlderPairs
  <2> QED
    BY <2>3, <2>4
<1>4. ASSUME NEW q \in Older(list) PROVE q \in Older(l)
  <2>1. PICK a, b \in DOMAIN list : a > b /\ q = <<list[a].key, list[b].key>>
    BY OlderPairs
  <2>2. /\ a + 1 \in DOMAIN l /\ b + 1 \in DOMAIN l /\ a + 1 > b + 1
        /\ q = <<l[a + 1].key, l[b + 1].key>>
    BY <1>1, <1>2, <2>1
  <2> QED
    BY <2>2, OlderPairs
<1>5. ASSUME NEW h \in DOMAIN map PROVE <<h, k>> \in Older(l)
  <2>1. PICK a \in DOMAIN list : list[a].key = h
    BY DEF Listing
  <2>2. /\ a + 1 \in DOMAIN l /\ 1 \in DOMAIN l /\ a + 1 > 1
        /\ <<h, k>> = <<l[a + 1].key, l[1].key>>
    BY <1>1, <1>2, <2>1
  <2> QED
    BY <2>2, OlderPairs
<1> QED
  BY <1>3, <1>4, <1>5 DEF l

(* The order relates cached keys.                                          *)
LEMMA OlderCached ==
  ASSUME NEW list, NEW map, Listing(list, map), NEW q \in Older(list)
  PROVE  q = <<q[1], q[2]>> /\ q[1] \in DOMAIN map /\ q[2] \in DOMAIN map
<1>1. PICK i, j \in DOMAIN list : i > j /\ q = <<list[i].key, list[j].key>>
  BY OlderPairs
<1> QED
  BY <1>1 DEF Listing

(* A cache with n elements in its list holds n keys.                       *)
LEMMA CachedCount ==
  ASSUME NEW list, NEW map, Listing(list, map)
  PROVE  IsFiniteSet(DOMAIN map) /\ Cardinality(DOMAIN map) = Len(list)
<1> DEFINE f == [i \in 1 .. Len(list) |-> list[i].key]
<1>1. DOMAIN list = 1 .. Len(list) /\ Len(list) \in Nat
  BY DEF Listing
<1>2. f \in Bijection(1 .. Len(list), DOMAIN map)
  <2>1. f \in [1 .. Len(list) -> DOMAIN map]
    BY <1>1 DEF Listing
  <2>2. \A i, j \in 1 .. Len(list) : f[i] = f[j] => i = j
    BY <1>1 DEF Listing
  <2>3. \A k \in DOMAIN map : \E i \in 1 .. Len(list) : f[i] = k
    BY <1>1 DEF Listing
  <2> HIDE DEF f
  <2> QED
    BY <2>1, <2>2, <2>3 DEF Bijection, Injection, Surjection, IsInjective
<1> HIDE DEF f
<1>3. ExistsBijection(1 .. Len(list), DOMAIN map)
  BY <1>2 DEF ExistsBijection
<1>4. PICK n \in Nat : n = Len(list)
  BY <1>1
<1>5. ExistsBijection(1 .. n, DOMAIN map)
  BY <1>3, <1>4
<1>6. IsFiniteSet(DOMAIN map)
  BY <1>5, FS_NatBijection
<1>7. Cardinality(DOMAIN map) = n
  BY <1>5, FS_CountingElements
<1> QED
  BY <1>4, <1>6, <1>7

(* Erasing key d and pushing key k, which may be d: the other keys stay in *)
(* their order, and k is used last.                                        *)
LEMMA OlderMoved ==
  ASSUME NEW list, NEW map, Listing(list, map), NEW d \in DOMAIN map, NEW n, NEW k
  PROVE  Older(Pushed(Unlinked(list, map[d].iter), n, k)) =
           {p \in Older(list) : {p[1], p[2]} \subseteq DOMAIN map \ {d}}
             \cup ((DOMAIN map \ {d}) \X {k})
<1> DEFINE l == Unlinked(list, map[d].iter)
           m == Without(map, d)
<1>1. Listing(l, m) /\ DOMAIN m = DOMAIN map \ {d}
  BY UnlinkListing DEF Without
<1>2. Older(l) = {p \in Older(list) : d \notin {p[1], p[2]}}
  BY OlderUnlinked
<1>3. \A p \in Older(list) : p[1] \in DOMAIN map /\ p[2] \in DOMAIN map
  BY OlderCached
<1> HIDE DEF l, m
<1>4. Older(Pushed(l, n, k)) = Older(l) \cup ((DOMAIN m) \X {k})
  BY <1>1, OlderPushed
<1>5. {p \in Older(list) : d \notin {p[1], p[2]}} =
        {p \in Older(list) : {p[1], p[2]} \subseteq DOMAIN map \ {d}}
  BY <1>3
<1>6. Older(Pushed(l, n, k)) =
        {p \in Older(list) : {p[1], p[2]} \subseteq DOMAIN map \ {d}}
             \cup ((DOMAIN map \ {d}) \X {k})
  BY <1>1, <1>2, <1>4, <1>5
<1> QED
  BY <1>6 DEF l

LEMMA TouchUses ==
  ASSUME Listing(lru_keys, cache), NEW k \in DOMAIN cache, NEW v \in Val, Touch(k, v)
  PROVE  /\ Abstract!Store(Abstract!Cached, k, v)
         /\ v = cache[k].val => Values(cache)' = Values(cache)
<1>1. PICK n \in Node : /\ lru_keys' = Pushed(Unlinked(lru_keys, cache[k].iter), n, k)
                        /\ cache' = [cache EXCEPT ![k] = [val |-> v, iter |-> n]]
  BY DEF Touch, PushFront
<1>2. /\ DOMAIN cache' = DOMAIN cache /\ cache'[k].val = v
      /\ \A h \in DOMAIN cache \ {k} : cache'[h] = cache[h]
  BY <1>1
<1>3. Abstract!Cached = DOMAIN cache /\ DOMAIN cache \cup {k} = DOMAIN cache
  BY DEF Abstract!Cached, Values
<1>4. Values(cache)' = [h \in DOMAIN cache |-> IF h = k THEN v ELSE Values(cache)[h]]
  BY <1>2 DEF Values
<1>5. Older(lru_keys') =
        {p \in Older(lru_keys) : {p[1], p[2]} \subseteq DOMAIN cache \ {k}}
          \cup ((DOMAIN cache \ {k}) \X {k})
  <2>1. Older(Pushed(Unlinked(lru_keys, cache[k].iter), n, k)) =
          {p \in Older(lru_keys) : {p[1], p[2]} \subseteq DOMAIN cache \ {k}}
            \cup ((DOMAIN cache \ {k}) \X {k})
    BY OlderMoved
  <2> QED
    BY <1>1, <2>1
<1>6. Abstract!Store(Abstract!Cached, k, v)
  BY <1>3, <1>4, <1>5 DEF Abstract!Store, Abstract!Use
<1>7. ASSUME v = cache[k].val PROVE Values(cache)' = Values(cache)
  BY <1>2, <1>7 DEF Values
<1> QED
  BY <1>6, <1>7

(* The element at the back holds the key that was used before all others.  *)
LEMMA VictimIsOldest ==
  ASSUME Listing(lru_keys, cache), Len(lru_keys) > 0
  PROVE  /\ Victim(lru_keys).key \in DOMAIN cache
         /\ cache[Victim(lru_keys).key].iter = Victim(lru_keys).at
         /\ Abstract!Oldest(Victim(lru_keys).key)
<1> DEFINE last == Len(lru_keys)
<1>1. DOMAIN lru_keys = 1 .. last /\ last \in Nat /\ last \in DOMAIN lru_keys
  BY DEF Listing
<1>2. Victim(lru_keys) = lru_keys[last]
  BY DEF Victim
<1>3. /\ lru_keys[last].key \in DOMAIN cache
      /\ cache[lru_keys[last].key].iter = lru_keys[last].at
  BY <1>1, ElementOfKey
<1>4. ASSUME NEW h \in DOMAIN cache, h # lru_keys[last].key
      PROVE  <<lru_keys[last].key, h>> \in Older(lru_keys)
  <2>1. PICK i \in DOMAIN lru_keys : lru_keys[i].key = h
    BY DEF Listing
  <2>2. last > i
    BY <1>1, <1>4, <2>1
  <2> QED
    BY <1>1, <2>1, <2>2, OlderPairs
<1>5. Abstract!Cached = DOMAIN cache
  BY DEF Abstract!Cached, Values
<1> HIDE DEF last
<1> QED
  BY <1>2, <1>3, <1>4, <1>5 DEF Abstract!Oldest

LEMMA SameCardinality == \A S : Abstract!Cardinality(S) = Cardinality(S)
  BY DEF Abstract!Cardinality, Cardinality

(* Every operation of the cache is one of the abstract cache.              *)
LEMMA NextImplemented == WellFormed /\ [Next]_vars => [Abstract!Next]_(Abstract!vars)
<1> SUFFICES ASSUME WellFormed, [Next]_vars PROVE [Abstract!Next]_(Abstract!vars)
  OBVIOUS
<1>a. Listing(lru_keys, cache) /\ size = Len(lru_keys) /\ size <= Capacity
  BY ListingInv DEF SizeBounded
<1>b. Capacity \in Nat \ {0}
  BY CacheAssumption
<1>c. Abstract!Cached = DOMAIN cache
  BY DEF Abstract!Cached, Values
<1>d. Cardinality(Abstract!Cached) = size
  BY <1>a, <1>c, CachedCount
<1>1. ASSUME NEW k \in Key, NEW v \in Val, PutPresent(k, v) PROVE Abstract!Overwrite(k, v)
  <2>1. k \in DOMAIN cache /\ Touch(k, v) /\ ret' = [ok |-> TRUE, val |-> v]
    BY <1>1 DEF PutPresent
  <2>2. Abstract!Store(Abstract!Cached, k, v)
    BY <1>a, <2>1, TouchUses
  <2> QED
    BY <1>c, <2>1, <2>2 DEF Abstract!Overwrite
<1>2. ASSUME NEW k \in Key, NEW v \in Val, PutNew(k, v) PROVE Abstract!Insert(k, v)
  <2>1. /\ k \notin DOMAIN cache /\ size # Capacity
        /\ ret' = [ok |-> FALSE, val |-> v]
    BY <1>2 DEF PutNew
  <2>2. PICK n \in Node : /\ lru_keys' = Pushed(lru_keys, n, k)
                          /\ cache' = With(cache, k, [val |-> v, iter |-> n])
    BY <1>2 DEF PutNew, PushFront
  <2>3. size < Capacity
    <3>1. Len(lru_keys) \in Nat
      BY <1>a DEF Listing
    <3> QED
      BY <1>a, <1>b, <2>1, <3>1
  <2>4. Older(lru_keys') = Older(lru_keys) \cup ((DOMAIN cache) \X {k})
    BY <1>a, <2>2, OlderPushed
  <2>5. /\ DOMAIN cache \ {k} = DOMAIN cache
        /\ Older(lru_keys) = {p \in Older(lru_keys) : {p[1], p[2]} \subseteq DOMAIN cache}
    <3>1. \A p \in Older(lru_keys) : p[1] \in DOMAIN cache /\ p[2] \in DOMAIN cache
      BY <1>a, OlderCached
    <3> QED
      BY <2>1, <3>1
  <2>6. Values(cache)' =
          [h \in DOMAIN cache \cup {k} |-> IF h = k THEN v ELSE Values(cache)[h]]
    BY <2>2 DEF Values, With
  <2>7. Abstract!Store(Abstract!Cached, k, v)
    BY <1>c, <2>4, <2>5, <2>6 DEF Abstract!Store, Abstract!Use
  <2>8. Cardinality(Abstract!Cached) < Capacity
    BY <1>d, <2>3
  <2> QED
    BY <1>c, <2>1, <2>7, <2>8, SameCardinality DEF Abstract!Insert
<1>3. ASSUME NEW k \in Key, NEW v \in Val, PutEvict(k, v) PROVE Abstract!Insert(k, v)
  <2> DEFINE last == Victim(lru_keys)
  <2>1. k \notin DOMAIN cache /\ size = Capacity /\ ret' = [ok |-> FALSE, val |-> v]
    BY <1>3 DEF PutEvict
  <2>2. PICK n \in Node :
          /\ lru_keys' = Pushed(Unlinked(lru_keys, last.at), n, k)
          /\ cache' = With(Without(cache, last.key), k, [val |-> v, iter |-> n])
    BY <1>3 DEF PutEvict, PushFront
  <2>3. /\ last.key \in DOMAIN cache /\ cache[last.key].iter = last.at
        /\ Abstract!Oldest(last.key)
    BY <1>a, <1>b, <2>1, VictimIsOldest
  <2> HIDE DEF last
  <2>4. PICK d \in DOMAIN cache : d = last.key
    BY <2>3
  <2>5. Older(lru_keys') =
          {p \in Older(lru_keys) : {p[1], p[2]} \subseteq DOMAIN cache \ {d}}
            \cup ((DOMAIN cache \ {d}) \X {k})
    <3>1. lru_keys' = Pushed(Unlinked(lru_keys, cache[d].iter), n, k)
      BY <2>2, <2>3, <2>4
    <3> QED
      BY <1>a, <2>1, <3>1, OlderMoved
  <2>6. (DOMAIN cache \ {d}) \ {k} = DOMAIN cache \ {d}
    BY <2>1
  <2>7. Values(cache)' =
          [h \in (DOMAIN cache \ {d}) \cup {k} |-> IF h = k THEN v ELSE Values(cache)[h]]
    BY <2>2, <2>4 DEF Values, With, Without
  <2>8. Abstract!Store(Abstract!Cached \ {d}, k, v)
    BY <1>c, <2>5, <2>6, <2>7 DEF Abstract!Store, Abstract!Use
  <2>9. Cardinality(Abstract!Cached) = Capacity /\ Abstract!Oldest(d)
    BY <1>d, <2>1, <2>3, <2>4
  <2> QED
    BY <1>c, <2>1, <2>8, <2>9, SameCardinality DEF Abstract!Insert
<1>4. ASSUME NEW k \in Key, get(k) PROVE Abstract!Hit(k) \/ Abstract!Miss(k)
  <2>1. CASE k \in DOMAIN cache
    <3>1. Touch(k, cache[k].val) /\ ret' = [ok |-> TRUE, val |-> cache[k].val]
      BY <1>4, <2>1 DEF get
    <3>2. cache[k].val \in Val
      BY <1>a, <2>1 DEF Listing, Entry
    <3>3. /\ Abstract!Store(Abstract!Cached, k, cache[k].val)
          /\ Values(cache)' = Values(cache)
      BY <1>a, <2>1, <3>1, <3>2, TouchUses
    <3>4. Values(cache)[k] = cache[k].val
      BY <2>1 DEF Values
    <3> QED
      BY <1>c, <2>1, <3>1, <3>3, <3>4 DEF Abstract!Hit, Abstract!Store
  <2>2. CASE k \notin DOMAIN cache
    <3>1. /\ cache' = cache /\ lru_keys' = lru_keys
          /\ ret' = [ok |-> FALSE, val |-> NoVal]
      BY <1>4, <2>2 DEF get
    <3> QED
      BY <1>c, <2>2, <3>1 DEF Abstract!Miss
  <2> QED
    BY <2>1, <2>2
<1>5. ASSUME NEW k \in Key, del(k) PROVE Abstract!Delete(k)
  <2>1. ret' = [ok |-> FALSE, val |-> NoVal]
    BY <1>5 DEF del
  <2>2. CASE k \in DOMAIN cache
    <3>1. lru_keys' = Unlinked(lru_keys, cache[k].iter) /\ cache' = Without(cache, k)
      BY <1>5, <2>2 DEF del
    <3>2. Older(lru_keys') = {p \in Older(lru_keys) : k \notin {p[1], p[2]}}
      BY <1>a, <2>2, <3>1, OlderUnlinked
    <3>3. Values(cache)' = [h \in DOMAIN cache \ {k} |-> Values(cache)[h]]
      BY <3>1 DEF Values, Without
    <3> QED
      BY <1>c, <2>1, <3>2, <3>3 DEF Abstract!Delete
  <2>3. CASE k \notin DOMAIN cache
    <3>1. cache' = cache /\ lru_keys' = lru_keys
      BY <1>5, <2>3 DEF del
    <3>2. \A p \in Older(lru_keys) : k \notin {p[1], p[2]}
      BY <1>a, <2>3, OlderCached
    <3>3. Older(lru_keys') = {p \in Older(lru_keys) : k \notin {p[1], p[2]}}
      BY <3>1, <3>2
    <3>4. Values(cache)' = [h \in DOMAIN cache \ {k} |-> Values(cache)[h]]
      BY <2>3, <3>1 DEF Values
    <3> QED
      BY <1>c, <2>1, <3>3, <3>4 DEF Abstract!Delete
  <2> QED
    BY <2>2, <2>3
<1>6. CASE UNCHANGED vars
  BY <1>6 DEF vars, Abstract!vars
<1> QED
  BY <1>1, <1>2, <1>3, <1>4, <1>5, <1>6 DEF Next, put, Abstract!Next

LEMMA InitImplemented == Init => Abstract!Init
<1> SUFFICES ASSUME Init PROVE Abstract!Init
  OBVIOUS
<1>1. DOMAIN cache = {} /\ DOMAIN lru_keys = {} /\ ret = [ok |-> FALSE, val |-> NoVal]
  BY DEF Init
<1>2. Older(lru_keys) = {}
  BY <1>1, OlderPairs
<1>3. Values(cache) = [k \in {} |-> NoVal]
  BY <1>1 DEF Values
<1> QED
  BY <1>1, <1>2, <1>3 DEF Abstract!Init

(* The cache implements the abstract one, for any capacity, keys and       *)
(* values: get returns what was put last, and a put into a full cache      *)
(* evicts the key that was used least recently, whatever nodes of the heap *)
(* the list takes.                                                         *)
THEOREM CacheImplemented == Spec => ImplementsLRU
<1>1. Init => Abstract!Init
  BY InitImplemented
<1>2. WellFormed /\ [Next]_vars => [Abstract!Next]_(Abstract!vars)
  BY NextImplemented
<1>3. Spec => []WellFormed
  BY CacheWellFormed
<1> QED
  BY <1>1, <1>2, <1>3, PTL DEF Spec, ImplementsLRU, Abstract!Spec


=============================================================================
