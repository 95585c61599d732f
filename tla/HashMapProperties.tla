------------------------- MODULE HashMapProperties -------------------------
(* What makes the hash map of module HashMap correct, and what its header  *)
(* says of it.                                                             *)
EXTENDS HashMap

(* Every node hangs in exactly the chain of its key's bucket, once, and no *)
(* two hold the same key, whatever collides.                               *)
ChainsAreSound ==
    /\ \A n \in nodes : n \in Chain(lists[Bucket(key[n])])
    /\ \A b \in Buckets : \A n \in Chain(lists[b]) : Bucket(key[n]) = b
    /\ \A m, n \in nodes : key[m] = key[n] => m = n
    /\ ~hm => nodes = {}

-----------------------------------------------------------------------------
(* hashmap.h:2, "uses seperate chaining technique to solve collisions":    *)
(* the chains lead from one stored entry to the next.                      *)
ChainsLeadToEntries ==
    /\ \A b \in Buckets : lists[b] \in nodes \cup {NULL}
    /\ \A n \in nodes : next[n] \in nodes \cup {NULL}
=============================================================================
