------------------------ MODULE SortedListProperties ------------------------
(* What makes the list of module SortedList correct.                       *)
EXTENDS SortedList

(* The counts are exact: a node's ptrCount is the number of pointers to it *)
(* from the list, from nodes and from iterators; the pointer nodeDestroy   *)
(* is giving up counts in place of the iterator's.  The first node, a      *)
(* middle one and an iterator's are counted by three pieces of code that   *)
(* must agree (SLRemove's two branches and nodeDestroy).                   *)
Holders(n) == {i \in open : current[i] = n /\ ~(Freeing /\ i = who)}
CountsAreExact ==
    \A n \in nodes :
        ptrCount[n] = Cardinality({m \in nodes : next[m] = n})
                        + Cardinality(Holders(n))
                        + (IF first = n THEN 1 ELSE 0)
                        + (IF Freeing /\ curr = n THEN 1 ELSE 0)

(* The list is the nodes it should have, strictly descending, and each     *)
(* leads to the next listed one, or is the last.  A removed node somebody  *)
(* still holds leads to a smaller node that exists, listed or not, or      *)
(* nowhere; what an iterator finds on its way from there is what           *)
(* KeepsPromises is about.                                                 *)
Next1(n, succ) ==
    IF succ = Null THEN \A m \in listed : data[m] >= data[n]
    ELSE succ \in listed /\ \A m \in listed : data[m] < data[n] => data[m] <= data[succ]
ListIsSorted ==
    /\ \A n, m \in listed : data[n] = data[m] => n = m
    /\ \A n \in listed : Next1(n, next[n])
    /\ \A n \in nodes : next[n] # Null => next[n] \in nodes /\ data[next[n]] < data[n]
    /\ first = Null <=> listed = {}
    /\ first # Null => first \in listed /\ \A m \in listed : data[m] <= data[first]

(* The pointers that may be followed; nodeDestroy is giving up who's.      *)
Pointers == nodes \cup {Null}
InUse == IF Freeing THEN open \ {who} ELSE open

(* The nodes of S hold whatever the list and the iterators lead to.        *)
HoldsAll(S) ==
    /\ {first} \cup {current[i] : i \in open} \subseteq S \cup {Null}
    /\ \A n \in S : next[n] \in S \cup {Null}

(* No node is lost, none is kept too long and none is freed too early: no  *)
(* pointer a call or an iterator may follow is to a freed node, and        *)
(* outside a call a node exists exactly as long as the list or an iterator *)
(* leads to it, for no smaller set holds all they lead to.                 *)
NothingLeaks ==
    /\ {first, curr, prev} \cup {current[i] : i \in InUse} \subseteq Pointers
    /\ op = "idle" => HoldsAll(nodes) /\ \A S \in SUBSET nodes : HoldsAll(S) => S = nodes

(* SLGetItem gives what SLNextItem returned last (sorted-list.h:119-121),  *)
(* or, before the first SLNextItem, the item that was first when the       *)
(* iterator was made (testplan.txt:34, 43), whatever was inserted, removed *)
(* or destroyed since, by whomever.                                        *)
ItemStays ==
    \A i \in open : ~(Freeing /\ i = who) => Item(current[i]) = at[i]

(* Every call returns: the list has no cycle, nor do the removed nodes an  *)
(* iterator frees.                                                         *)
EveryCallReturns == op # "idle" ~> op = "idle"

(* The list is a set with cursors: what is inserted is in it until it is   *)
(* removed, and an iterator goes strictly down from the first item, where  *)
(* SLCreateIterator leaves it, and misses nothing below that stays.  That  *)
(* the first SLNextItem returns the second item is the code's behaviour    *)
(* and its test plan's (testplan.txt:34, 43-44); sorted-list.h:73-77 says  *)
(* that calls of SLNextItem alone walk all of the list.                    *)
Promised == INSTANCE OrderedSet WITH
    Cursors <- Iterators,
    End     <- NoItem,
    members <- {data[n] : n \in listed},
    cursor  <- at
KeepsPromises == Promised!Spec
=============================================================================
