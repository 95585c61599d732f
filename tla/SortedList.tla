----------------------------- MODULE SortedList -----------------------------
(***************************************************************************)
(* The sorted list of SortedList/src/sorted-list.c, which the indexer      *)
(* copies: a singly linked list in descending order, and iterators that    *)
(* outlive the removal of the item they are at.  A node counts the         *)
(* pointers to it (list, iterators, other nodes) and is freed when the     *)
(* last one goes.                                                          *)
(*                                                                         *)
(* The program is one thread; the loops and the recursion of nodeDestroy   *)
(* take one node per step.  An object is its value, and compare() is the   *)
(* order of integers.  The fields of a freed node are cleared, for nobody  *)
(* may read them.  listed, at and due are history: the nodes the list      *)
(* should have, the item each iterator returned last, and the items in the *)
(* list since the iterator's creation that it has not returned yet.        *)
(***************************************************************************)
EXTENDS Integers, FiniteSets

CONSTANTS
    Items,       \* values of the objects, natural numbers
    Nodes,       \* bound: what malloc may return for a node; no
                 \* insertion is called when all are in use
    Iterators,   \* bound: iterators in use at a time
    Null,        \* the null pointer
    NoIterator   \* where a call is not one of an iterator

ASSUME ListAssumption ==
    /\ Items \subseteq Nat
    /\ IsFiniteSet(Nodes) /\ IsFiniteSet(Iterators)
    /\ Null \notin Nodes /\ NoIterator \notin Iterators

NoItem == -1

VARIABLES
    list, first,                   \* the list exists; its first node
    nodes, data, next, ptrCount,   \* allocated nodes and their fields
    open, current,                 \* iterators that exist; their nodes
    op, obj, who, curr, prev,      \* the call in progress
    answer,                        \* 1 or 0 of the last insertion or removal
    listed, at, due                \* history

memory == <<nodes, data, next, ptrCount>>
iters  == <<open, current>>
call   == <<op, obj, who, curr, prev, answer>>
past   == <<listed, at, due>>
vars   == <<list, first, memory, iters, call, past>>

Ops == {"idle", "insert", "remove", "destroy",
        "freeRemoved", "freePassed", "freeClosed"}

Init ==
    /\ list = FALSE
    /\ first = Null
    /\ nodes = {}
    /\ data = [n \in Nodes |-> NoItem]
    /\ next = [n \in Nodes |-> Null]
    /\ ptrCount = [n \in Nodes |-> 0]
    /\ open = {}
    /\ current = [i \in Iterators |-> Null]
    /\ op = "idle"
    /\ obj = NoItem
    /\ who = NoIterator
    /\ curr = Null
    /\ prev = Null
    /\ answer = -1
    /\ listed = {}
    /\ at = [i \in Iterators |-> NoItem]
    /\ due = [i \in Iterators |-> {}]

Call(what, x, i, from) ==
    /\ op = "idle"
    /\ op' = what /\ obj' = x /\ who' = i /\ curr' = from /\ prev' = Null
    /\ answer' = -1

Return(a) ==
    /\ op' = "idle" /\ obj' = NoItem /\ who' = NoIterator
    /\ curr' = Null /\ prev' = Null /\ answer' = a

(* The cursor of a loop over the list goes one node on.                    *)
(* Mutant: it does not.                                                    *)
Standing(n) == n
Onward(n) == next[n]

StepOn ==
    /\ prev' = curr
    /\ curr' = Onward(curr)
    /\ UNCHANGED <<list, first, memory, iters, op, obj, who, answer, past>>

SLCreate ==
    /\ op = "idle" /\ ~list
    /\ list' = TRUE
    /\ first' = Null
    /\ UNCHANGED <<memory, iters, call, past>>

-----------------------------------------------------------------------------
(* SLInsert                                                                *)

CallInsert(x) ==
    /\ list
    /\ nodes # Nodes
    /\ Call("insert", x, NoIterator, first)
    /\ UNCHANGED <<list, first, memory, iters, past>>

(* Mutant: an equal item is passed by. *)
PassesEqual(n) == data[n] >= obj
Passes(n) == data[n] > obj

(* A new node between two neighbours; before = Null is the list's head.    *)
(* The pointer of the node before moves from the one after to the new one, *)
(* and the new one's next takes its place.                                 *)
Link(before, after) ==
    \E n \in Nodes \ nodes :
        /\ nodes' = nodes \cup {n}
        /\ data' = [data EXCEPT ![n] = obj]
        /\ ptrCount' = [ptrCount EXCEPT ![n] = 1]
        /\ next' = [m \in Nodes |-> IF m = n THEN after
                                    ELSE IF m = before THEN n ELSE next[m]]
        /\ first' = IF before = Null THEN n ELSE first
        /\ listed' = listed \cup {n}
        /\ Return(1)
        /\ UNCHANGED <<list, iters, at, due>>

InsertNext ==
    /\ op = "insert" /\ curr # Null
    /\ Passes(curr)
    /\ next[curr] # Null
    /\ StepOn

InsertAtEnd ==
    /\ op = "insert"
    /\ IF curr = Null THEN TRUE ELSE Passes(curr) /\ next[curr] = Null
    /\ Link(curr, Null)

InsertBetween ==
    /\ op = "insert" /\ curr # Null
    /\ ~Passes(curr) /\ data[curr] # obj
    /\ Link(prev, curr)

InsertRefused ==
    /\ op = "insert" /\ curr # Null
    /\ ~Passes(curr) /\ data[curr] = obj
    /\ Return(0)
    /\ UNCHANGED <<list, first, memory, iters, past>>

-----------------------------------------------------------------------------
(* SLRemove                                                                *)

CallRemove(x) ==
    /\ list
    /\ Call("remove", x, NoIterator, first)
    /\ UNCHANGED <<list, first, memory, iters, past>>

RemoveNext ==
    /\ op = "remove" /\ curr # Null
    /\ data[curr] # obj
    /\ StepOn

RemoveUnfound ==
    /\ op = "remove" /\ curr = Null
    /\ Return(0)
    /\ UNCHANGED <<list, first, memory, iters, past>>

(* The node leaves the list; its item is nothing an iterator has to find.  *)
Unlisted(n) ==
    /\ listed' = listed \ {n}
    /\ due' = [i \in Iterators |-> due[i] \ {data[n]}]
    /\ UNCHANGED at

(* Freed nodes hold nothing.  Others may point to a freed one: they are    *)
(* freed next or rewritten before they are read.                           *)
Free(n) ==
    /\ nodes' = nodes \ {n}
    /\ data' = [data EXCEPT ![n] = NoItem]
    /\ next' = [next EXCEPT ![n] = Null]

(* Mutant: a freed node's pointer to its successor stays counted. *)
GainsAnyway(n) == 1
Gains(n) == IF ptrCount[n] = 1 THEN 0 ELSE 1

(* The first node: its successor gains the list's pointer and, when the    *)
(* node is freed, loses the node's own.                                    *)
DropFirst ==
    LET succ == next[first]
    IN  /\ first' = succ
        /\ ptrCount' = [n \in Nodes |->
                IF n = first THEN ptrCount[n] - 1
                ELSE IF n = succ THEN ptrCount[n] + Gains(first)
                ELSE ptrCount[n]]
        /\ IF ptrCount[first] = 1 THEN Free(first)
           ELSE UNCHANGED <<nodes, data, next>>
        /\ Unlisted(first)

RemoveFirst ==
    /\ op = "remove" /\ curr # Null
    /\ data[curr] = obj /\ prev = Null
    /\ DropFirst
    /\ Return(1)
    /\ UNCHANGED <<list, iters>>

(* Mutant: the removed node is cut off from its successor. *)
CutOff == [next EXCEPT ![prev] = next[curr], ![curr] = Null]
Bridged == [next EXCEPT ![prev] = next[curr]]

(* Another node: the node before it points past it; nodeDestroy gives up   *)
(* the pointer the node before had.                                        *)
RemoveMiddle ==
    /\ op = "remove" /\ curr # Null
    /\ data[curr] = obj /\ prev # Null
    /\ next' = Bridged
    /\ ptrCount' = [n \in Nodes |-> IF n = next[curr] THEN ptrCount[n] + 1
                                    ELSE ptrCount[n]]
    /\ Unlisted(curr)
    /\ op' = "freeRemoved"
    /\ UNCHANGED <<list, first, nodes, data, iters, obj, who, curr, prev, answer>>

-----------------------------------------------------------------------------
(* SLDestroy removes the first item until there is none: SLRemove finds    *)
(* list->first->data at once.                                              *)

CallDestroy ==
    /\ list
    /\ Call("destroy", NoItem, NoIterator, Null)
    /\ UNCHANGED <<list, first, memory, iters, past>>

DestroyNext ==
    /\ op = "destroy" /\ first # Null
    /\ DropFirst
    /\ UNCHANGED <<list, iters, call>>

DestroyEnd ==
    /\ op = "destroy" /\ first = Null
    /\ list' = FALSE
    /\ Return(-1)
    /\ UNCHANGED <<first, memory, iters, past>>

-----------------------------------------------------------------------------
(* Iterators                                                               *)

(* Mutant: the iterator's pointer is not counted. *)
Uncounted(n) == UNCHANGED ptrCount
Counted(n) == ptrCount' = [m \in Nodes |-> IF m = n THEN ptrCount[m] + 1 ELSE ptrCount[m]]

(* The item at a node, and what is due below it.                           *)
Item(n) == IF n = Null THEN NoItem ELSE data[n]
ReachedBy(i, n) ==
    /\ at' = [at EXCEPT ![i] = Item(n)]
    /\ due' = [due EXCEPT ![i] = @ \ {Item(n)}]
    /\ UNCHANGED listed

SLCreateIterator(i) ==
    /\ op = "idle" /\ list
    /\ i \notin open
    /\ open' = open \cup {i}
    /\ current' = [current EXCEPT ![i] = first]
    /\ Counted(first)
    /\ at' = [at EXCEPT ![i] = Item(first)]
    /\ due' = [due EXCEPT ![i] = {data[n] : n \in listed} \ {Item(first)}]
    /\ UNCHANGED <<list, first, nodes, data, next, call, listed>>

(* SLNextItem: somebody else points to the current node; it stays.         *)
NextShared(i) ==
    /\ op = "idle"
    /\ i \in open /\ current[i] # Null
    /\ ptrCount[current[i]] # 1
    /\ LET succ == next[current[i]]
       IN  /\ current' = [current EXCEPT ![i] = succ]
           /\ ptrCount' = [n \in Nodes |->
                    IF n = current[i] THEN ptrCount[n] - 1
                    ELSE IF n = succ THEN ptrCount[n] + 1
                    ELSE ptrCount[n]]
           /\ ReachedBy(i, succ)
    /\ UNCHANGED <<list, first, nodes, data, next, open, call>>

(* SLNextItem: nobody else does; it is freed.                              *)
CallNextLast(i) ==
    /\ i \in open /\ current[i] # Null
    /\ ptrCount[current[i]] = 1
    /\ Call("freePassed", NoItem, i, current[i])
    /\ UNCHANGED <<list, first, memory, iters, past>>

CallDestroyIterator(i) ==
    /\ i \in open
    /\ Call("freeClosed", NoItem, i, current[i])
    /\ UNCHANGED <<list, first, memory, iters, past>>

-----------------------------------------------------------------------------
(* nodeDestroy: the pointer to curr is given up.  A node with no other     *)
(* pointer is freed, and with it its pointer to the next one.              *)

Freeing == op \in {"freeRemoved", "freePassed", "freeClosed"}

(* Mutant: only one node is freed. *)
NoFurther(n) == Null
Further(n) == next[n]

FreeOne ==
    /\ Freeing /\ curr # Null
    /\ ptrCount[curr] = 1
    /\ Free(curr)
    /\ ptrCount' = [ptrCount EXCEPT ![curr] = 0]
    /\ curr' = Further(curr)
    /\ UNCHANGED <<list, first, iters, op, obj, who, prev, answer, past>>

(* The first node somebody else points to loses this pointer.              *)
Stops == IF curr = Null THEN TRUE ELSE ptrCount[curr] # 1
Uncount == ptrCount' = [n \in Nodes |-> IF n = curr THEN ptrCount[n] - 1 ELSE ptrCount[n]]

FreedRemoved ==
    /\ op = "freeRemoved" /\ Stops
    /\ Uncount
    /\ Return(1)
    /\ UNCHANGED <<list, first, nodes, data, next, iters, past>>

(* The iterator takes over the pointer: down by one, and up by one.        *)
FreedPassed ==
    /\ op = "freePassed" /\ Stops
    /\ current' = [current EXCEPT ![who] = curr]
    /\ ReachedBy(who, curr)
    /\ Return(-1)
    /\ UNCHANGED <<list, first, memory, open>>

FreedClosed ==
    /\ op = "freeClosed" /\ Stops
    /\ Uncount
    /\ open' = open \ {who}
    /\ current' = [current EXCEPT ![who] = Null]
    /\ at' = [at EXCEPT ![who] = NoItem]
    /\ due' = [due EXCEPT ![who] = {}]
    /\ Return(-1)
    /\ UNCHANGED <<list, first, nodes, data, next, listed>>

-----------------------------------------------------------------------------
Insert == InsertNext \/ InsertAtEnd \/ InsertBetween \/ InsertRefused
Remove == RemoveNext \/ RemoveUnfound \/ RemoveFirst \/ RemoveMiddle
Destroy == DestroyNext \/ DestroyEnd
NodeDestroy == FreeOne \/ FreedRemoved \/ FreedPassed \/ FreedClosed

Next ==
    \/ SLCreate \/ CallDestroy
    \/ \E x \in Items : CallInsert(x) \/ CallRemove(x)
    \/ \E i \in Iterators : SLCreateIterator(i) \/ NextShared(i)
                                \/ CallNextLast(i) \/ CallDestroyIterator(i)
    \/ Insert \/ Remove \/ Destroy \/ NodeDestroy

Spec == Init /\ [][Next]_vars

(* A call that was made runs.  Nobody has to make one.                     *)
FairSpec == Spec /\ WF_vars(Insert \/ Remove \/ Destroy \/ NodeDestroy)
=============================================================================
