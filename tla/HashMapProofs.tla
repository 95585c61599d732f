---------------------------- MODULE HashMapProofs ----------------------------
(***************************************************************************)
(* What the operations of the hash map that index.c uses keep of its       *)
(* chains: hm_create, hm_get, hm_store of a key that is not there, the     *)
(* iterator and hm_destroy, for any keys, hash, buckets and nodes.  A      *)
(* program that removes keys keeps none of it (see HashRemoved.cfg), so    *)
(* these are facts about steps; module IndexerProofs puts them together    *)
(* for the program that makes them.                                        *)
(***************************************************************************)
EXTENDS HashMapProperties, WellFoundedInduction, TLAPS

Home(n) == Bucket(key[n])       \* the bucket a node belongs in

MapTypes ==
    /\ hm \in BOOLEAN
    /\ lists \in [Buckets -> Nodes \cup {NULL}]
    /\ nodes \subseteq Nodes
    /\ key \in [Nodes -> Keys \cup {NoKey}]
    /\ value \in [Nodes -> Int]
    /\ next \in [Nodes -> Nodes \cup {NULL}]
    /\ \A n \in nodes : key[n] \in Keys
    /\ \A n \in Nodes : n \notin nodes => next[n] = NULL

(* The places of the nodes in their chains, from 0: the head is at 0, the  *)
(* next node one further, nothing is behind a gap or beside another node,  *)
(* and top is behind them all.                                             *)
Placed(place, top) ==
    /\ place \in [nodes -> Nat] /\ top \in Nat
    /\ \A n \in nodes : place[n] < top
    /\ \A b \in Buckets : lists[b] # NULL =>
          /\ lists[b] \in nodes /\ Home(lists[b]) = b /\ place[lists[b]] = 0
    /\ \A n \in nodes : place[n] = 0 => lists[Home(n)] = n
    /\ \A n \in nodes : next[n] # NULL =>
          /\ next[n] \in nodes /\ Home(next[n]) = Home(n)
          /\ place[next[n]] = place[n] + 1
    /\ \A n \in nodes : place[n] > 0 => \E m \in nodes : next[m] = n
    /\ \A m, n \in nodes : Home(m) = Home(n) /\ place[m] = place[n] => m = n
Chained == \E place, top : Placed(place, top)

MapInv ==
    /\ MapTypes /\ Chained
    /\ \A m, n \in nodes : key[m] = key[n] => m = n
    /\ ~hm => nodes = {}

-----------------------------------------------------------------------------
(* A set of naturals that is not empty has a least element.                *)
LEMMA LeastNatural ==
    ASSUME NEW T, T \subseteq Nat, T # {}
    PROVE  \E m \in T : \A k \in T : m <= k
<1> DEFINE R == OpToRel(<, Nat)
<1>1. IsWellFoundedOn(R, Nat)
  BY NatLessThanWellFounded
<1>2. \A a, b \in Nat : a < b => <<a, b>> \in R
  BY DEF OpToRel
<1> HIDE DEF R
<1>3. PICK m \in T : \A k \in T : ~(<<k, m>> \in R)
  BY <1>1, WFMin
<1>4. ASSUME NEW k \in T PROVE m <= k
  <2>1. k \in Nat /\ m \in Nat /\ ~(k < m)
    BY <1>2, <1>3
  <2> QED
    BY <2>1
<1> QED
  BY <1>4

(* A key's bucket is one of the map's.                                     *)
LEMMA BucketInMap == \A k \in Keys : Bucket(k) \in Buckets
BY MapAssumption DEF Bucket, Buckets

(* Behind the last node of a chain there is none in its bucket.            *)
LEMMA LastIsLast ==
    ASSUME NEW place, NEW top, Placed(place, top), NULL \notin nodes,
           NEW m \in nodes, NEW k \in nodes, Home(k) = Home(m), place[m] < place[k]
    PROVE  next[m] # NULL
<1> DEFINE T == {p \in Nat : \E j \in nodes : /\ Home(j) = Home(m)
                                           /\ place[m] < place[j] /\ p = place[j]}
<1>1. T \subseteq Nat /\ place[k] \in T
  BY DEF Placed
<1>2. PICK p \in T : \A q \in T : p <= q
  BY <1>1, LeastNatural
<1>3. PICK j \in nodes : Home(j) = Home(m) /\ place[m] < place[j] /\ p = place[j]
  BY <1>2
<1>4. place[j] \in Nat /\ place[m] \in Nat
  BY DEF Placed
<1>5. PICK i \in nodes : next[i] = j
  BY <1>3, <1>4 DEF Placed
<1>6. Home(i) = Home(m) /\ place[j] = place[i] + 1 /\ place[i] \in Nat
  BY <1>3, <1>5 DEF Placed
<1>7. ~(place[m] < place[i])
  BY <1>2, <1>3, <1>4, <1>6
<1>8. place[i] = place[m]
  BY <1>3, <1>4, <1>6, <1>7
<1>9. i = m
  BY <1>6, <1>8 DEF Placed
<1> QED
  BY <1>5, <1>9

(* The chain from a node is the node and those placed behind it in its     *)
(* bucket.                                                                 *)
LEMMA ChainIs ==
    ASSUME MapTypes, NEW place, NEW top, Placed(place, top)
    PROVE  /\ Chain(NULL) = {}
           /\ \A m \in nodes :
                Chain(m) = {k \in nodes : Home(k) = Home(m) /\ place[m] <= place[k]}
<1> DEFINE All == nodes \cup {NULL}
           After(m) == {k \in nodes : Home(k) = Home(m) /\ place[m] <= place[k]}
           good == [m \in All |-> IF m = NULL THEN {} ELSE After(m)]
           from == CHOOSE f : f = [m \in All |-> IF m = NULL THEN {}
                                                 ELSE {m} \cup f[next[m]]]
<1>1. NULL \notin nodes /\ \A m \in nodes : m # NULL /\ next[m] \in All
  BY DEF MapTypes, Placed, Nodes, NULL
<1>2. ASSUME NEW m \in nodes
      PROVE  After(m) = {m} \cup (IF next[m] = NULL THEN {} ELSE After(next[m]))
  <2>1. \A k \in nodes : place[k] \in Nat
    BY DEF Placed
  <2>2. CASE next[m] = NULL
    <3>1. \A k \in After(m) : k = m
      <4>1. ASSUME NEW k \in After(m) PROVE k = m
        <5>1. ~(place[m] < place[k])
          BY <1>1, <2>2, LastIsLast
        <5> QED
          BY <2>1, <5>1 DEF Placed
      <4> QED
        BY <4>1
    <3> QED
      BY <2>1, <2>2, <3>1
  <2>3. CASE next[m] # NULL
    <3>1. /\ next[m] \in nodes /\ Home(next[m]) = Home(m)
          /\ place[next[m]] = place[m] + 1
      BY <2>3 DEF Placed
    <3>2. \A k \in nodes : Home(k) = Home(m) /\ place[k] = place[m] => k = m
      BY DEF Placed
    <3> QED
      BY <2>1, <2>3, <3>1, <3>2
  <2> QED
    BY <2>2, <2>3
<1>3. good = [m \in All |-> IF m = NULL THEN {} ELSE {m} \cup good[next[m]]]
  <2>1. ASSUME NEW m \in nodes PROVE After(m) = {m} \cup good[next[m]]
    BY <1>1, <1>2
  <2> QED
    BY <1>1, <2>1
<1>4. from = [m \in All |-> IF m = NULL THEN {} ELSE {m} \cup from[next[m]]]
  BY <1>3
<1> HIDE DEF from, good
<1>5. from[NULL] = {} /\ \A m \in nodes : from[m] = {m} \cup from[next[m]]
  BY <1>1, <1>4
<1>6. good[NULL] = {} /\ \A m \in nodes : good[m] = {m} \cup good[next[m]]
  BY <1>1, <1>3
<1>7. \A m \in nodes : from[m] = good[m]
  <2> DEFINE Bad == {m \in nodes : from[m] # good[m]}
             T == {i \in Nat : \E m \in Bad : i = top - place[m]}
  <2>1. SUFFICES ASSUME NEW b \in Bad PROVE FALSE
    OBVIOUS
  <2>2. \A m \in nodes : place[m] \in Nat /\ top \in Nat /\ top - place[m] \in Nat
    BY DEF Placed
  <2>3. T \subseteq Nat /\ top - place[b] \in T
    BY <2>2
  <2>4. PICK i \in T : \A j \in T : i <= j
    BY <2>3, LeastNatural
  <2>5. PICK m \in Bad : i = top - place[m]
    BY <2>4
  <2> HIDE DEF T
  <2>6. m \in nodes /\ from[m] # good[m]
    BY <2>5
  <2>7. from[m] = {m} \cup from[next[m]] /\ good[m] = {m} \cup good[next[m]]
    BY <1>5, <1>6, <2>6
  <2>8. from[next[m]] # good[next[m]]
    BY <2>6, <2>7
  <2>9. next[m] # NULL /\ next[m] \in nodes
    BY ONLY <1>1, <1>5, <1>6, <2>6, <2>8
  <2>10. place[next[m]] = place[m] + 1
    BY <2>9 DEF Placed
  <2>11. next[m] \in Bad
    BY <2>9, <2>8
  <2>12. top - place[next[m]] \in T
    BY <2>2, <2>9, <2>11 DEF T
  <2>13. i <= top - place[next[m]]
    BY <2>4, <2>12
  <2> QED
    BY ONLY <2>2, <2>5, <2>9, <2>10, <2>13
<1>8. \A m \in nodes : good[m] = After(m)
  BY <1>1 DEF good
<1>9. \A m \in All : Chain(m) = from[m]
  BY DEF Chain, from
<1> QED
  BY <1>5, <1>7, <1>8, <1>9

(* Down a chain: a node's is the node and the chain of the next, which is  *)
(* of the same bucket and leads back to none before it; a bucket's is all  *)
(* the nodes of the bucket.                                                *)
LEMMA Chains ==
    ASSUME MapInv
    PROVE  /\ Chain(NULL) = {} /\ NULL \notin nodes
           /\ \A n \in nodes :
                /\ next[n] \in nodes \cup {NULL}
                /\ n \notin Chain(next[n])
                /\ Chain(n) = {n} \cup Chain(next[n])
                /\ \A m \in Chain(n) : m \in nodes /\ Home(m) = Home(n)
           /\ \A b \in Buckets : /\ lists[b] \in nodes \cup {NULL}
                                 /\ Chain(lists[b]) = {n \in nodes : Home(n) = b}
<1>1. MapTypes /\ NULL \notin nodes
  BY DEF MapInv, MapTypes, Nodes, NULL
<1>2. PICK place, top : Placed(place, top)
  BY DEF MapInv, Chained
<1>3. \A m \in nodes : place[m] \in Nat
  BY <1>2 DEF Placed
<1>4. /\ Chain(NULL) = {}
      /\ \A m \in nodes :
           Chain(m) = {k \in nodes : Home(k) = Home(m) /\ place[m] <= place[k]}
  BY <1>1, <1>2, ChainIs
<1>5. ASSUME NEW n \in nodes
      PROVE  /\ next[n] \in nodes \cup {NULL}
             /\ n \notin Chain(next[n])
             /\ Chain(n) = {n} \cup Chain(next[n])
             /\ \A m \in Chain(n) : m \in nodes /\ Home(m) = Home(n)
  <2>1. \A k \in nodes : Home(k) = Home(n) /\ place[k] = place[n] => k = n
    BY <1>2 DEF Placed
  <2>2. CASE next[n] = NULL
    <3>1. \A k \in nodes : Home(k) = Home(n) => ~(place[n] < place[k])
      BY <1>1, <1>2, <2>2, LastIsLast
    <3> QED
      BY <1>3, <1>4, <2>1, <2>2, <3>1
  <2>3. CASE next[n] # NULL
    <3>1. /\ next[n] \in nodes /\ Home(next[n]) = Home(n)
          /\ place[next[n]] = place[n] + 1
      BY <1>2, <2>3 DEF Placed
    <3> QED
      BY <1>3, <1>4, <2>1, <3>1
  <2> QED
    BY <2>2, <2>3
<1>6. ASSUME NEW b \in Buckets
      PROVE  /\ lists[b] \in nodes \cup {NULL}
             /\ Chain(lists[b]) = {n \in nodes : Home(n) = b}
  <2>1. CASE lists[b] = NULL
    <3>1. ASSUME NEW n \in nodes, Home(n) = b PROVE FALSE
      <4> DEFINE T == {p \in Nat : \E j \in nodes : Home(j) = b /\ p = place[j]}
      <4>1. T \subseteq Nat /\ place[n] \in T
        BY <1>3, <3>1
      <4>2. PICK p \in T : \A q \in T : p <= q
        BY <4>1, LeastNatural
      <4>3. PICK j \in nodes : Home(j) = b /\ p = place[j]
        BY <4>2
      <4>4. place[j] # 0
        BY <1>1, <1>2, <2>1, <4>3 DEF Placed
      <4>5. PICK i \in nodes : next[i] = j
        BY <1>2, <1>3, <4>4 DEF Placed
      <4>6. Home(i) = b /\ place[j] = place[i] + 1
        BY <1>1, <1>2, <4>3, <4>5 DEF Placed
      <4>7. p <= place[i]
        BY <1>3, <4>2, <4>6
      <4> QED
        BY <1>3, <4>3, <4>6, <4>7
    <3> QED
      BY <1>4, <2>1, <3>1
  <2>2. CASE lists[b] # NULL
    <3>1. lists[b] \in nodes /\ Home(lists[b]) = b /\ place[lists[b]] = 0
      BY <1>2, <2>2 DEF Placed
    <3> QED
      BY <1>3, <1>4, <3>1
  <2> QED
    BY <2>1, <2>2
<1> QED
  BY <1>1, <1>4, <1>5, <1>6

-----------------------------------------------------------------------------
(* An empty map is sound.                                                  *)
LEMMA EmptyIsSound == MapTypes /\ nodes = {} /\ lists = [b \in Buckets |-> NULL] => MapInv
<1> SUFFICES ASSUME MapTypes, nodes = {}, lists = [b \in Buckets |-> NULL]
             PROVE  MapInv
  OBVIOUS
<1>1. PICK place : place = [n \in nodes |-> 0]
  OBVIOUS
<1>2. Placed(place, 0)
  BY <1>1 DEF Placed
<1> QED
  BY <1>2 DEF MapInv, Chained

LEMMA MapStarts == InitMap => MapInv
<1>1. InitMap => MapTypes
  <2> SUFFICES ASSUME InitMap PROVE MapTypes
    OBVIOUS
  <2>1. hm \in BOOLEAN /\ nodes \subseteq Nodes /\ lists \in [Buckets -> Nodes \cup {NULL}]
    BY DEF InitMap
  <2>2. key \in [Nodes -> Keys \cup {NoKey}] /\ value \in [Nodes -> Int]
    BY DEF InitMap
  <2>3. next \in [Nodes -> Nodes \cup {NULL}] /\ \A n \in Nodes : next[n] = NULL
    BY DEF InitMap
  <2>4. nodes = {}
    BY DEF InitMap
  <2> QED
    BY <2>1, <2>2, <2>3, <2>4 DEF MapTypes
<1> QED
  BY <1>1, EmptyIsSound DEF InitMap

(* A step that leaves the chains and the keys as they are keeps them sound. *)
LEMMA ChainsStand ==
    ASSUME MapInv, UNCHANGED <<hm, lists, nodes, key, next>>, value' \in [Nodes -> Int]
    PROVE  MapInv'
<1>1. MapTypes'
  BY DEF MapInv, MapTypes
<1>2. PICK place, top : Placed(place, top)
  BY DEF MapInv, Chained
<1>3. Placed(place, top)'
  BY <1>2 DEF Placed, Home, Bucket
<1> QED
  BY <1>1, <1>3 DEF MapInv, Chained

LEMMA CreateKeeps ==
    ASSUME MapInv, hm_create
    PROVE  MapInv' /\ nodes' = {} /\ hm'
<1>1. nodes' = {} /\ lists' = [b \in Buckets |-> NULL] /\ MapTypes' /\ hm'
  BY DEF hm_create, MapInv, MapTypes
<1>2. PICK place : place = [n \in nodes' |-> 0]
  OBVIOUS
<1>3. Placed(place, 0)'
  BY <1>1, <1>2 DEF Placed
<1> QED
  BY <1>1, <1>3 DEF MapInv, Chained

(* hm_destroy frees every node.                                            *)
LEMMA DestroyKeeps ==
    ASSUME MapInv, hm_destroy
    PROVE  MapInv' /\ nodes' = {} /\ ~hm'
<1> DEFINE gone == UNION {Whole(b) : b \in Buckets}
<1>1. ASSUME NEW n \in nodes PROVE n \in gone
  <2>1. Home(n) \in Buckets
    BY BucketInMap DEF MapInv, MapTypes, Home
  <2>2. \A b \in Buckets : Chain(lists[b]) = {m \in nodes : Home(m) = b}
    BY Chains
  <2>3. n \in Chain(lists[Home(n)])
    BY ONLY <2>1, <2>2, n \in nodes
  <2> QED
    BY <2>1, <2>3 DEF Whole
<1>2. /\ nodes' = nodes \ gone
      /\ key' = [n \in Nodes |-> IF n \in gone THEN NoKey ELSE key[n]]
      /\ value' = [n \in Nodes |-> IF n \in gone THEN 0 ELSE value[n]]
      /\ next' = [n \in Nodes |-> IF n \in gone THEN NULL ELSE next[n]]
      /\ hm' = FALSE /\ lists' = [b \in Buckets |-> NULL]
  BY DEF hm_destroy, Freed
<1>3. nodes' = {}
  BY <1>1, <1>2
<1> HIDE DEF gone
<1>4. MapTypes'
  <2>1. /\ hm' \in BOOLEAN /\ lists' \in [Buckets -> Nodes \cup {NULL}]
        /\ nodes' \subseteq Nodes
        /\ \A n \in nodes' : key'[n] \in Keys
    BY <1>2, <1>3
  <2>2. /\ key \in [Nodes -> Keys \cup {NoKey}] /\ value \in [Nodes -> Int]
        /\ next \in [Nodes -> Nodes \cup {NULL}]
        /\ \A n \in Nodes : n \notin nodes => next[n] = NULL
    BY DEF MapInv, MapTypes
  <2>3. key' \in [Nodes -> Keys \cup {NoKey}] /\ value' \in [Nodes -> Int]
    BY <1>2, <2>2
  <2>4. next' \in [Nodes -> Nodes \cup {NULL}]
    BY <1>2, <2>2
  <2>5. \A n \in Nodes : next'[n] = NULL
    BY <1>1, <1>2, <2>2 DEF gone
  <2> QED
    BY <2>1, <2>3, <2>4, <2>5 DEF MapTypes
<1>5. PICK place : place = [n \in nodes' |-> 0]
  OBVIOUS
<1>6. Placed(place, 0)'
  BY <1>2, <1>3, <1>5 DEF Placed
<1> QED
  BY <1>2, <1>3, <1>4, <1>6 DEF MapInv, Chained

(* A new key's node is put behind the last of its bucket.                  *)
AtEnd(node, bucket) ==
    IF node = NULL THEN lists[bucket] = NULL
    ELSE node \in nodes /\ Home(node) = bucket /\ next[node] = NULL

LEMMA StoredKeeps ==
    ASSUME MapInv, Stored, hm, nodes # Nodes,
           arg \in Keys, val \in Int, \A n \in nodes : key[n] # arg,
           AtEnd(prev, Bucket(arg))
    PROVE  /\ MapInv' /\ hm'
           /\ \E n \in Nodes \ nodes :
                 /\ nodes' = nodes \cup {n}
                 /\ key' = [key EXCEPT ![n] = arg]
                 /\ value' = [value EXCEPT ![n] = val]
<1>0. PICK n : n = CHOOSE free \in Nodes \ nodes : TRUE
  OBVIOUS
<1>1. n \in Nodes /\ n \notin nodes
  BY <1>0 DEF MapInv, MapTypes
<1>2. /\ nodes' = nodes \cup {n} /\ hm' = hm
      /\ key' = [key EXCEPT ![n] = arg] /\ value' = [value EXCEPT ![n] = val]
      /\ AsLast(n)
  BY <1>0 DEF Stored
<1>3. /\ MapTypes /\ NULL \notin Nodes
      /\ \A i, j \in nodes : key[i] = key[j] => i = j
  BY DEF MapInv, Nodes, NULL
<1>4. PICK place, top : Placed(place, top)
  BY DEF MapInv, Chained
<1>5. Bucket(arg) \in Buckets
  BY BucketInMap
<1>6. /\ key'[n] = arg /\ value'[n] = val
      /\ \A m \in nodes : key'[m] = key[m] /\ m # n /\ m \in Nodes /\ m # NULL
  BY <1>1, <1>2, <1>3 DEF MapTypes
<1>7. /\ prev = NULL => /\ lists'[Bucket(arg)] = n /\ next' = next
                        /\ \A b \in Buckets : b # Bucket(arg) => lists'[b] = lists[b]
      /\ prev # NULL => /\ lists' = lists /\ prev \in nodes /\ next'[prev] = n
                        /\ \A m \in Nodes : m # prev => next'[m] = next[m]
  BY <1>2, <1>3, <1>5 DEF AsLast, AtEnd, MapTypes
<1>8. MapTypes'
  <2>1. hm' \in BOOLEAN /\ nodes' \subseteq Nodes
    BY <1>1, <1>2, <1>3 DEF MapTypes
  <2>2. key' \in [Nodes -> Keys \cup {NoKey}] /\ value' \in [Nodes -> Int]
    BY <1>1, <1>2, <1>3 DEF MapTypes
  <2>3. lists' \in [Buckets -> Nodes \cup {NULL}] /\ next' \in [Nodes -> Nodes \cup {NULL}]
    BY <1>1, <1>2, <1>3, <1>5 DEF MapTypes, AsLast, AtEnd
  <2>4. \A m \in nodes' : key'[m] \in Keys
    BY <1>2, <1>3, <1>6 DEF MapTypes
  <2>5. \A m \in Nodes : m \notin nodes' => next'[m] = NULL
    BY <1>2, <1>3, <1>7 DEF MapTypes
  <2> QED
    BY <2>1, <2>2, <2>3, <2>4, <2>5 DEF MapTypes
<1>9. PICK at : at = IF prev = NULL THEN 0 ELSE place[prev] + 1
  OBVIOUS
<1>10. PICK p : p = [m \in nodes' |-> IF m = n THEN at ELSE place[m]]
  OBVIOUS
<1>11. p[n] = at /\ \A m \in nodes : p[m] = place[m]
  BY <1>2, <1>6, <1>10
<1>12. /\ top \in Nat /\ at \in Nat /\ at < top + 1
       /\ \A m \in nodes : place[m] \in Nat /\ place[m] < top
  BY <1>4, <1>7, <1>9 DEF Placed
<1>13. /\ Home(n)' = Bucket(arg)
       /\ \A m \in nodes : Home(m)' = Home(m) /\ Home(m) \in Buckets
  BY <1>3, <1>6, BucketInMap DEF Home, Bucket, MapTypes
<1>14. next'[n] = NULL
  BY <1>1, <1>3, <1>7 DEF MapTypes
<1>15. ASSUME NEW k \in nodes, Home(k) = Bucket(arg) PROVE place[k] < at
  <2>1. CASE prev = NULL
    <3>1. lists[Bucket(arg)] = NULL
      BY <2>1 DEF AtEnd
    <3>2. /\ Chain(NULL) = {}
          /\ \A b \in Buckets : Chain(lists[b]) = {m \in nodes : Home(m) = b}
      BY Chains
    <3> QED
      BY ONLY <1>5, <1>15, <3>1, <3>2
  <2>2. CASE prev # NULL
    <3>1. prev \in nodes /\ Home(prev) = Bucket(arg) /\ next[prev] = NULL
      BY <2>2 DEF AtEnd
    <3>2. ~(place[prev] < place[k])
      BY <1>3, <1>4, <1>15, <1>6, <3>1, LastIsLast
    <3> QED
      BY <1>9, <1>12, <2>2, <3>1, <3>2
  <2> QED
    BY <2>1, <2>2
<1>16. Placed(p, top + 1)'
  <2>1. p \in [nodes' -> Nat] /\ top + 1 \in Nat
    BY <1>10, <1>2, <1>12
  <2>2. \A m \in nodes' : p[m] < top + 1
    BY <1>2, <1>11, <1>12
  <2>3. ASSUME NEW b \in Buckets, lists'[b] # NULL
        PROVE  lists'[b] \in nodes' /\ Home(lists[b])' = b /\ p[lists'[b]] = 0
    <3>1. CASE prev = NULL /\ b = Bucket(arg)
      BY <1>2, <1>7, <1>9, <1>11, <1>13, <3>1
    <3>2. CASE ~(prev = NULL /\ b = Bucket(arg))
      <4>1. lists'[b] = lists[b]
        BY <1>7, <3>2
      <4>2. lists[b] \in nodes /\ Home(lists[b]) = b /\ place[lists[b]] = 0
        BY <1>4, <2>3, <4>1 DEF Placed
      <4>3. key'[lists'[b]] = key[lists[b]]
        BY <1>6, <4>1, <4>2
      <4>4. Home(lists[b])' = b
        BY <4>2, <4>3 DEF Home, Bucket
      <4> QED
        BY <1>2, <1>11, <4>1, <4>2, <4>4
    <3> QED
      BY <3>1, <3>2
  <2>4. ASSUME NEW m \in nodes', p[m] = 0 PROVE lists'[Home(m)'] = m
    <3>1. CASE m = n
      <4>1. prev = NULL
        <5>1. ASSUME prev # NULL PROVE FALSE
          <6>1. at = place[prev] + 1 /\ place[prev] \in Nat
            BY <1>7, <1>9, <1>12, <5>1
          <6> QED
            BY <1>11, <2>4, <3>1, <6>1
        <5> QED
          BY <5>1
      <4> QED
        BY <1>7, <1>13, <3>1, <4>1
    <3>2. CASE m # n
      <4>1. m \in nodes /\ place[m] = 0
        BY <1>2, <1>11, <2>4, <3>2
      <4>2. lists[Home(m)] = m
        BY <1>4, <4>1 DEF Placed
      <4>3. ~(prev = NULL /\ Home(m) = Bucket(arg))
        BY <1>6, <4>1, <4>2 DEF AtEnd
      <4>4. lists'[Home(m)] = lists[Home(m)]
        BY <1>7, <1>13, <4>1, <4>3
      <4> QED
        BY <1>13, <4>1, <4>2, <4>4
    <3> QED
      BY <3>1, <3>2
  <2>5. ASSUME NEW m \in nodes', next'[m] # NULL
        PROVE  /\ next'[m] \in nodes' /\ Home(next[m])' = Home(m)'
               /\ p[next'[m]] = p[m] + 1
    <3>1. m \in nodes
      BY <1>2, <1>14, <2>5
    <3>2. CASE prev # NULL /\ m = prev
      <4>1. next'[m] = n /\ Home(m) = Bucket(arg)
        BY <1>7, <3>2 DEF AtEnd
      <4>2. Home(next[m])' = Home(m)'
        BY <1>6, <1>13, <3>1, <4>1 DEF Home, Bucket
      <4> QED
        BY <1>2, <1>9, <1>11, <3>1, <3>2, <4>1, <4>2
    <3>3. CASE ~(prev # NULL /\ m = prev)
      <4>1. next'[m] = next[m]
        BY <1>6, <1>7, <3>1, <3>3
      <4>2. /\ next[m] \in nodes /\ Home(next[m]) = Home(m)
            /\ place[next[m]] = place[m] + 1
        BY <1>4, <2>5, <3>1, <4>1 DEF Placed
      <4>3. key'[next'[m]] = key[next[m]] /\ key'[m] = key[m]
        BY <1>6, <3>1, <4>1, <4>2
      <4>4. Home(next[m])' = Home(m)'
        BY <4>2, <4>3 DEF Home, Bucket
      <4> QED
        BY <1>2, <1>11, <3>1, <4>1, <4>2, <4>4
    <3> QED
      BY <3>2, <3>3
  <2>6. ASSUME NEW m \in nodes', p[m] > 0 PROVE \E i \in nodes' : next'[i] = m
    <3>1. CASE m = n
      <4>1. prev # NULL
        BY <1>9, <1>11, <2>6, <3>1
      <4> QED
        BY <1>2, <1>7, <3>1, <4>1
    <3>2. CASE m # n
      <4>1. m \in nodes /\ place[m] > 0
        BY <1>2, <1>11, <2>6, <3>2
      <4>2. PICK i \in nodes : next[i] = m
        BY <1>4, <4>1 DEF Placed
      <4>3. prev # NULL => i # prev
        BY <1>6, <4>1, <4>2 DEF AtEnd
      <4>4. next'[i] = next[i]
        BY <1>6, <1>7, <4>2, <4>3
      <4> QED
        BY <1>2, <4>2, <4>4
    <3> QED
      BY <3>1, <3>2
  <2>7. ASSUME NEW i \in nodes', NEW j \in nodes', Home(i)' = Home(j)', p[i] = p[j]
        PROVE  i = j
    <3>1. CASE i \in nodes /\ j \in nodes
      <4>1. Home(i) = Home(j) /\ place[i] = place[j]
        BY <1>11, <1>13, <2>7, <3>1
      <4> QED
        BY <1>4, <3>1, <4>1 DEF Placed
    <3>2. CASE i = n /\ j \in nodes
      <4>1. Home(j) = Bucket(arg)
        BY <1>13, <2>7, <3>2
      <4>2. place[j] < at /\ place[j] = at
        BY <1>11, <1>15, <2>7, <3>2, <4>1
      <4> QED
        BY <1>12, <3>2, <4>2
    <3>3. CASE j = n /\ i \in nodes
      <4>1. Home(i) = Bucket(arg)
        BY <1>13, <2>7, <3>3
      <4>2. place[i] < at /\ place[i] = at
        BY <1>11, <1>15, <2>7, <3>3, <4>1
      <4> QED
        BY <1>12, <3>3, <4>2
    <3> QED
      BY <1>2, <3>1, <3>2, <3>3
  <2> QED
    BY ONLY <2>1, <2>2, <2>3, <2>4, <2>5, <2>6, <2>7 DEF Placed
<1>17. \A i, j \in nodes' : key'[i] = key'[j] => i = j
  BY <1>2, <1>3, <1>6
<1>18. MapInv' /\ hm'
  BY <1>2, <1>8, <1>16, <1>17 DEF MapInv, Chained
<1> QED
  BY <1>1, <1>2, <1>18

-----------------------------------------------------------------------------
(* What MapInv says of the chains is what ChainsAreSound says.             *)
LEMMA InvIsSound == MapInv => ChainsAreSound
<1> SUFFICES ASSUME MapInv PROVE ChainsAreSound
  OBVIOUS
<1>1. \A n \in nodes : Home(n) \in Buckets
  BY BucketInMap DEF MapInv, MapTypes, Home
<1>2. \A b \in Buckets : Chain(lists[b]) = {n \in nodes : Home(n) = b}
  BY Chains
<1>3. \A n \in nodes : n \in Chain(lists[Home(n)])
  BY ONLY <1>1, <1>2
<1>4. \A b \in Buckets : \A n \in Chain(lists[b]) : Home(n) = b
  BY ONLY <1>2
<1> QED
  BY <1>3, <1>4 DEF ChainsAreSound, MapInv, Home
=============================================================================
