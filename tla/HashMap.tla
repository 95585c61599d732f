------------------------------ MODULE HashMap ------------------------------
(***************************************************************************)
(* The hash map of Indexer/src/hashmap.c: separate chaining, a new node at *)
(* the end of its chain, an iterator that walks the buckets in order.      *)
(*                                                                         *)
(* One thread; a loop over a chain takes one node per step, the iterator   *)
(* one bucket.  A node is a node_t and its map_t.  A value is the integer  *)
(* it points to.  The fields of a freed node are cleared.  Which free node *)
(* malloc returns makes no difference: nobody compares addresses.          *)
(***************************************************************************)
EXTENDS Integers

CONSTANTS
    Keys,       \* positive integers
    Size,       \* buckets
    Hash,       \* the hash of each key
    MaxNodes    \* bound: nodes in use at a time

ASSUME MapAssumption ==
    /\ Keys \subseteq Nat \ {0}
    /\ Size \in Nat \ {0} /\ MaxNodes \in Nat
    /\ Hash \in [Keys -> Nat]

NULL    == 0
Nodes   == 1 .. MaxNodes
Buckets == 0 .. Size - 1
NoKey   == 0

VARIABLES
    hm,                         \* the map exists
    lists,                      \* the first node of each chain
    nodes, key, value, next,    \* allocated nodes and their fields
    op, arg, val, curr, prev,   \* the call in progress
    result,                     \* of the last call: a node, or 1 or 0
    index_no, current_node      \* the iterator

memory   == <<hm, lists, nodes, key, value, next>>
call     == <<op, arg, val, curr, prev, result>>
iterator == <<index_no, current_node>>
mapvars  == <<memory, call, iterator>>

InitMap ==
    /\ hm = FALSE
    /\ lists = [b \in Buckets |-> NULL]
    /\ nodes = {}
    /\ key = [n \in Nodes |-> NoKey]
    /\ value = [n \in Nodes |-> 0]
    /\ next = [n \in Nodes |-> NULL]
    /\ op = "idle" /\ arg = NoKey /\ val = 0
    /\ curr = NULL /\ prev = NULL /\ result = 0
    /\ index_no = -1 /\ current_node = NULL

Bucket(k) == Hash[k] % Size

Call(what, k, v) ==
    /\ op = "idle" /\ hm
    /\ op' = what /\ arg' = k /\ val' = v
    /\ curr' = lists[Bucket(k)] /\ prev' = NULL /\ result' = 0
    /\ UNCHANGED <<memory, iterator>>

Return(r) ==
    /\ op' = "idle" /\ arg' = NoKey /\ val' = 0
    /\ curr' = NULL /\ prev' = NULL /\ result' = r

hm_create ==
    /\ op = "idle" /\ ~hm
    /\ hm' = TRUE
    /\ lists' = [b \in Buckets |-> NULL]
    /\ UNCHANGED <<nodes, key, value, next, call, iterator>>

(* The loops of hm_store, hm_get and hm_remove.                            *)
Walk ==
    /\ op \in {"get", "store", "remove"}
    /\ curr # NULL /\ key[curr] # arg
    /\ prev' = curr /\ curr' = next[curr]
    /\ UNCHANGED <<memory, op, arg, val, result, iterator>>

Found   == curr # NULL /\ key[curr] = arg
Missing == curr = NULL

-----------------------------------------------------------------------------
hm_get(k) == Call("get", k, 0)

Got ==
    /\ op = "get" /\ (Found \/ Missing)
    /\ Return(curr)
    /\ UNCHANGED <<memory, iterator>>

hm_store(k, v) == nodes # Nodes /\ Call("store", k, v)

(* Mutant: the new node becomes the chain.                                 *)
AsFirst(n) == lists' = [lists EXCEPT ![Bucket(arg)] = n] /\ UNCHANGED next
AsLast(n) ==
    IF prev = NULL
    THEN lists' = [lists EXCEPT ![Bucket(arg)] = n] /\ UNCHANGED next
    ELSE next' = [next EXCEPT ![prev] = n] /\ UNCHANGED lists

Stored ==
    /\ op = "store" /\ Missing
    /\ LET n == CHOOSE free \in Nodes \ nodes : TRUE
       IN  /\ nodes' = nodes \cup {n}
           /\ key' = [key EXCEPT ![n] = arg]
           /\ value' = [value EXCEPT ![n] = val]
           /\ AsLast(n)
    /\ Return(1)
    /\ UNCHANGED <<hm, iterator>>

StoreRefused ==
    /\ op = "store" /\ Found
    /\ Return(0)
    /\ UNCHANGED <<memory, iterator>>

Freed(gone) ==
    /\ nodes' = nodes \ gone
    /\ key' = [n \in Nodes |-> IF n \in gone THEN NoKey ELSE key[n]]
    /\ value' = [n \in Nodes |-> IF n \in gone THEN 0 ELSE value[n]]
    /\ next' = [n \in Nodes |-> IF n \in gone THEN NULL ELSE next[n]]

hm_remove(k) == Call("remove", k, 0)

RemoveUnfound ==
    /\ op = "remove" /\ Missing
    /\ Return(0)
    /\ UNCHANGED <<memory, iterator>>

(* The first node's successor becomes the head.  For another node the code *)
(* assigns to its variable prev, not to prev->next: the chain still leads  *)
(* to the node it frees.                                                   *)
Removed ==
    /\ op = "remove" /\ Found
    /\ lists' = IF prev = NULL THEN [lists EXCEPT ![Bucket(arg)] = next[curr]]
                ELSE lists
    /\ Freed({curr})
    /\ Return(value[curr])
    /\ UNCHANGED <<hm, iterator>>

-----------------------------------------------------------------------------
(* The iterator                                                            *)

(* Mutant: it begins in the first bucket, which hmi_get then leaves.       *)
FirstBucket == 0
NoBucket == -1

hm_create_iterator ==
    /\ op = "idle" /\ hm
    /\ index_no' = NoBucket
    /\ current_node' = NULL
    /\ UNCHANGED <<memory, call>>

(* Mutant: it stays at its node. *)
SameNode(n) == n
NextNode(n) == IF n = NULL THEN NULL ELSE next[n]

hmi_get_next ==
    /\ op = "idle" /\ hm
    /\ op' = "iterate"
    /\ current_node' = NextNode(current_node)
    /\ UNCHANGED <<memory, arg, val, curr, prev, result, index_no>>

hmi_get ==
    /\ op = "iterate"
    /\ IF current_node = NULL /\ index_no # Size - 1
       THEN /\ index_no' = index_no + 1
            /\ current_node' = lists[index_no + 1]
            /\ UNCHANGED call
       ELSE Return(current_node) /\ UNCHANGED iterator
    /\ UNCHANGED memory

-----------------------------------------------------------------------------
(* A node and those behind it.                                             *)
Chain(n) ==
    LET from[m \in nodes \cup {NULL}] == IF m = NULL THEN {} ELSE {m} \cup from[next[m]]
    IN  from[n]

(* Mutant: only the heads of the chains are freed.                         *)
Heads(b) == {lists[b]} \ {NULL}
Whole(b) == Chain(lists[b])

hm_destroy ==
    /\ op = "idle" /\ hm
    /\ Freed(UNION {Whole(b) : b \in Buckets})
    /\ hm' = FALSE
    /\ lists' = [b \in Buckets |-> NULL]
    /\ UNCHANGED <<call, iterator>>

(* The steps of a program that stores only keys it has looked for, and     *)
(* removes none, as index.c does; and the others.                          *)
MapStep == Walk \/ Got \/ Stored \/ hmi_get
OtherStep == StoreRefused \/ RemoveUnfound \/ Removed

(* A program that makes any call at any time.                              *)
NextMap ==
    \/ hm_create \/ hm_destroy
    \/ \E k \in Keys : hm_get(k) \/ hm_store(k, 1) \/ hm_remove(k)
    \/ MapStep \/ OtherStep
    \/ hm_create_iterator \/ hmi_get_next

SpecMap == InitMap /\ [][NextMap]_mapvars
=============================================================================
