-------------------------- MODULE SortedListProofs --------------------------
(***************************************************************************)
(* Proofs that the sorted list and its iterators are correct for any       *)
(* items, any finite supply of nodes and any finite number of iterators.   *)
(*                                                                         *)
(* The pointers are never followed for more than one node.  Where an       *)
(* iterator may still come to is a set of nodes, its way: the listed nodes *)
(* are on it, the pointers stay on it, and none of them leads past an item *)
(* that is due.                                                            *)
(***************************************************************************)
EXTENDS SortedListProperties, FiniteSetTheorems, WellFoundedInduction, TLAPS

TypeOK ==
    /\ list \in BOOLEAN /\ first \in Nodes \cup {Null}
    /\ nodes \subseteq Nodes /\ listed \subseteq nodes
    /\ data \in [Nodes -> Items \cup {NoItem}]
    /\ \A n \in nodes : data[n] \in Items
    /\ next \in [Nodes -> Nodes \cup {Null}]
    /\ ptrCount \in [Nodes -> Nat]
    /\ \A n \in nodes : ptrCount[n] > 0
    /\ open \subseteq Iterators
    /\ current \in [Iterators -> Nodes \cup {Null}]
    /\ op \in Ops
    /\ obj \in Items \cup {NoItem}
    /\ who \in Iterators \cup {NoIterator}
    /\ curr \in Nodes \cup {Null} /\ prev \in Nodes \cup {Null}
    /\ at \in [Iterators -> Items \cup {NoItem}]
    /\ due \in [Iterators -> SUBSET Items]

(* The loops of SLInsert and SLRemove: prev is listed and before curr.     *)
Loop ==
    op \in {"insert", "remove"} =>
        /\ obj \in Items
        /\ prev = Null => curr = first
        /\ prev # Null => prev \in listed /\ next[prev] = curr
        /\ op = "insert" /\ prev # Null => curr # Null /\ data[prev] > obj

(* The other calls.                                                        *)
Calls ==
    /\ ~list => first = Null /\ op \notin {"insert", "remove", "destroy"}
    /\ op \in {"idle", "destroy"} => curr = Null
    /\ op \notin {"insert", "remove", "freeRemoved"} => prev = Null
    /\ Freeing => curr \in nodes \cup {Null}
    /\ op = "freeRemoved" => prev \in listed
    /\ IF op \in {"freePassed", "freeClosed"} THEN who \in open
       ELSE who = NoIterator
    /\ op = "freePassed" =>
          \/ Item(curr) < at[who]
          \/ curr \in nodes /\ data[curr] = at[who] /\ ptrCount[curr] = 1

(* Every listed node is the first or has one before it.                    *)
Linked == \A n \in listed : n = first \/ \E m \in listed : next[m] = n

(* Where an iterator is: the one that gives up its pointer is at curr.     *)
Place(i) == IF Freeing /\ i = who THEN curr ELSE current[i]
InPlace  == \A i \in open : Place(i) \in nodes \cup {Null}

(* S holds the nodes iterator i may come to, and they lead it past nothing *)
(* that is due; what is removed is not due.                                *)
Way(i, S) ==
    /\ listed \subseteq S
    /\ \A n \in S :
        /\ next[n] \in S \cup {Null}
        /\ \A y \in due[i] : y < data[n] => y <= Item(next[n])
        /\ n \notin listed => data[n] \notin due[i]
    /\ Place(i) \in S \cup {Null}
    /\ \A y \in due[i] : y < at[i] /\ y <= Item(Place(i))
Ways ==
    \A i \in open : /\ due[i] \subseteq {data[n] : n \in listed}
                    /\ \E S \in SUBSET nodes : Way(i, S)

Shape == ListIsSorted /\ Linked
IInv  == TypeOK /\ Loop /\ Calls /\ Shape /\ CountsAreExact /\ InPlace
            /\ ItemStays /\ Ways

-----------------------------------------------------------------------------
(* Counting                                                                *)

(* Every set of natural numbers that has an element has a least one.       *)
LEMMA LeastNatural ==
    ASSUME NEW T, T \subseteq Nat, T # {}
    PROVE  \E m \in T : \A k \in T : m <= k
<1> DEFINE R == OpToRel(<, Nat)
<1>1. IsWellFoundedOn(R, Nat)
  BY NatLessThanWellFounded
<1>2. \A a, b \in Nat : a < b => <<a, b>> \in R
  BY DEF OpToRel
<1> HIDE DEF R
<1>3. PICK m \in T : \A k \in T : ~(<<k, m>> \in R)
  BY <1>1, WFMin
<1>4. ASSUME NEW k \in T PROVE m <= k
  <2>1. k \in Nat /\ m \in Nat /\ ~(k < m)
    BY <1>2, <1>3
  <2> QED
    BY <2>1
<1> QED
  BY <1>4

(* Counting one element more, one less, and none.                          *)
LEMMA Counting ==
    ASSUME NEW S, IsFiniteSet(S)
    PROVE  /\ Cardinality(S) \in Nat
           /\ Cardinality(S) = 0 => S = {}
           /\ \A x : x \notin S => Cardinality(S \cup {x}) = Cardinality(S) + 1
           /\ \A x : x \in S => Cardinality(S \ {x}) = Cardinality(S) - 1
<1>1. Cardinality(S) \in Nat
  BY FS_CardinalityType
<1>2. Cardinality(S) = 0 => S = {}
  BY FS_EmptySet
<1>3. \A x : x \notin S => Cardinality(S \cup {x}) = Cardinality(S) + 1
  BY FS_AddElement
<1>4. \A x : x \in S => Cardinality(S \ {x}) = Cardinality(S) - 1
  BY FS_RemoveElement
<1> QED
  BY <1>1, <1>2, <1>3, <1>4

(* The pointers to a node.                                                 *)
Preds(n) == {m \in nodes : next[m] = n}
Ends(n)  == (IF first = n THEN 1 ELSE 0) + (IF Freeing /\ curr = n THEN 1 ELSE 0)

LEMMA Pointing ==
    ASSUME TypeOK, NEW n
    PROVE  /\ IsFiniteSet(Preds(n)) /\ IsFiniteSet(Holders(n))
           /\ Cardinality(Preds(n)) \in Nat /\ Cardinality(Holders(n)) \in Nat
           /\ Ends(n) \in Nat
<1>1. Preds(n) \in SUBSET Nodes /\ Holders(n) \in SUBSET Iterators
  BY DEF Preds, Holders, TypeOK
<1>2. IsFiniteSet(Preds(n)) /\ IsFiniteSet(Holders(n))
  BY <1>1, ListAssumption, FS_Subset
<1>3. Cardinality(Preds(n)) \in Nat /\ Cardinality(Holders(n)) \in Nat
  BY <1>2, FS_CardinalityType
<1>4. Ends(n) \in Nat
  BY DEF Ends
<1> QED
  BY <1>2, <1>3, <1>4

(* The counts, term by term.                                               *)
LEMMA Counts ==
    ASSUME TypeOK
    PROVE  CountsAreExact <=> \A n \in nodes :
              ptrCount[n] = Cardinality(Preds(n)) + Cardinality(Holders(n)) + Ends(n)
<1>1. ASSUME NEW n
      PROVE  Cardinality(Preds(n)) + Cardinality(Holders(n))
                + (IF first = n THEN 1 ELSE 0) + (IF Freeing /\ curr = n THEN 1 ELSE 0)
               = Cardinality(Preds(n)) + Cardinality(Holders(n)) + Ends(n)
  <2>1. Cardinality(Preds(n)) \in Nat /\ Cardinality(Holders(n)) \in Nat
    BY Pointing
  <2> QED
    BY <2>1 DEF Ends
<1>2. CountsAreExact <=> \A n \in nodes :
         ptrCount[n] = Cardinality(Preds(n)) + Cardinality(Holders(n))
            + (IF first = n THEN 1 ELSE 0) + (IF Freeing /\ curr = n THEN 1 ELSE 0)
  BY DEF CountsAreExact, Preds
<1> QED
  BY <1>1, <1>2

LEMMA CountsNext ==
    ASSUME TypeOK', \A n \in nodes' :
              ptrCount'[n] = Cardinality(Preds(n)') + Cardinality(Holders(n)') + Ends(n)'
    PROVE  CountsAreExact'
<1>1. ASSUME NEW n
      PROVE  Cardinality(Preds(n)') + Cardinality(Holders(n)')
                + (IF first' = n THEN 1 ELSE 0) + (IF Freeing' /\ curr' = n THEN 1 ELSE 0)
               = Cardinality(Preds(n)') + Cardinality(Holders(n)') + Ends(n)'
  <2>1. Preds(n)' \in SUBSET Nodes /\ Holders(n)' \in SUBSET Iterators
    BY DEF Preds, Holders, TypeOK
  <2>2. IsFiniteSet(Preds(n)') /\ IsFiniteSet(Holders(n)')
    BY <2>1, ListAssumption, FS_Subset
  <2>3. Cardinality(Preds(n)') \in Nat /\ Cardinality(Holders(n)') \in Nat
    BY <2>2, FS_CardinalityType
  <2> QED
    BY <2>3 DEF Ends
<1>2. CountsAreExact' <=> \A n \in nodes' :
         ptrCount'[n] = Cardinality(Preds(n)') + Cardinality(Holders(n)')
            + (IF first' = n THEN 1 ELSE 0) + (IF Freeing' /\ curr' = n THEN 1 ELSE 0)
  BY DEF CountsAreExact, Preds
<1> QED
  BY <1>1, <1>2

(* A count of one that the list's pointer, or the one nodeDestroy gives    *)
(* up, accounts for leaves no other pointer.                               *)
LEMMA Alone ==
    ASSUME IInv, NEW n \in nodes, ptrCount[n] = 1, first = n \/ (Freeing /\ curr = n)
    PROVE  /\ \A m \in nodes : next[m] # n
           /\ \A i \in open : current[i] = n => Freeing /\ i = who
           /\ ~(first = n /\ Freeing /\ curr = n)
<1>1. 1 = Cardinality(Preds(n)) + Cardinality(Holders(n)) + Ends(n)
  BY Counts DEF IInv
<1>2. /\ IsFiniteSet(Preds(n)) /\ IsFiniteSet(Holders(n))
      /\ Cardinality(Preds(n)) \in Nat /\ Cardinality(Holders(n)) \in Nat
  BY Pointing DEF IInv
<1>3. \/ Ends(n) = 1
      \/ Ends(n) = 2 /\ first = n /\ Freeing /\ curr = n
  BY DEF Ends
<1>4. Ends(n) = 1 /\ Cardinality(Preds(n)) = 0 /\ Cardinality(Holders(n)) = 0
  BY <1>1, <1>2, <1>3
<1>5. Preds(n) = {} /\ Holders(n) = {}
  BY <1>2, <1>4, Counting
<1>6. ~(first = n /\ Freeing /\ curr = n)
  BY <1>4 DEF Ends
<1> QED
  BY <1>5, <1>6 DEF Preds, Holders

-----------------------------------------------------------------------------
(* Init: no list, no node, no iterator.                                    *)
LEMMA InitIInv == Init => IInv
<1> SUFFICES ASSUME Init PROVE IInv
  OBVIOUS
<1> USE ListAssumption DEF Init
<1>1. TypeOK
  BY DEF TypeOK, Ops, NoItem
<1>2. Loop /\ Calls /\ InPlace /\ Ways /\ ItemStays
  BY DEF Loop, Calls, InPlace, Ways, ItemStays, Freeing
<1>3. Shape
  BY DEF Shape, ListIsSorted, Linked
<1>4. CountsAreExact
  BY DEF CountsAreExact
<1> QED
  BY <1>1, <1>2, <1>3, <1>4 DEF IInv

(* What is read off the invariant again and again.                         *)
LEMMA Basics ==
    ASSUME TypeOK, Shape
    PROVE  /\ Null \notin nodes /\ NoItem = -1
           /\ \A n \in nodes : data[n] \in Nat
           /\ first \in listed \cup {Null} /\ (first = Null => listed = {})
           /\ \A m \in listed : first # Null /\ data[m] <= data[first]
           /\ \A n \in nodes : /\ next[n] \in nodes \cup {Null} /\ next[n] # n
                               /\ next[n] # Null => data[next[n]] < data[n]
                               /\ Item(next[n]) < data[n]
           /\ \A n \in listed : next[n] \in listed \cup {Null}
           /\ \A n, m \in listed : data[m] < data[n] => data[m] <= Item(next[n])
           /\ \A n, m \in listed : data[m] = data[n] => m = n
<1> USE ListAssumption DEF TypeOK
<1>1. Null \notin nodes /\ NoItem = -1 /\ \A n \in nodes : data[n] \in Nat
  BY DEF NoItem
<1>2. /\ first \in listed \cup {Null} /\ (first = Null => listed = {})
      /\ \A m \in listed : first # Null /\ data[m] <= data[first]
      /\ \A n \in nodes : next[n] # Null => next[n] \in nodes /\ data[next[n]] < data[n]
      /\ \A n, m \in listed : data[m] = data[n] => m = n
  BY DEF Shape, ListIsSorted
<1>3. \A n \in nodes : next[n] # n /\ Item(next[n]) < data[n]
  BY <1>1, <1>2 DEF Item
<1>4. ASSUME NEW n \in listed
      PROVE  /\ next[n] \in listed \cup {Null}
             /\ \A m \in listed : data[m] < data[n] => data[m] <= Item(next[n])
  <2>1. Next1(n, next[n])
    BY DEF Shape, ListIsSorted
  <2>2. CASE next[n] = Null
    BY <1>1, <2>1, <2>2 DEF Next1
  <2>3. CASE next[n] # Null
    BY <1>1, <2>1, <2>3 DEF Next1, Item
  <2> QED
    BY <2>2, <2>3
<1> QED
  BY <1>1, <1>2, <1>3, <1>4

(* The other way round: what makes the list sorted after a step.           *)
LEMMA SortedBy ==
    ASSUME NoItem = -1, Null \notin nodes', listed' \subseteq nodes',
           \A n \in nodes' : data'[n] \in Nat,
           \A n, m \in listed' : data'[m] = data'[n] => m = n,
           \A n \in listed' : next'[n] \in listed' \cup {Null},
           \A n, m \in listed' : data'[m] < data'[n] => data'[m] <= (Item(next[n]))',
           \A n \in nodes' : next'[n] # Null =>
                next'[n] \in nodes' /\ data'[next'[n]] < data'[n],
           first' = Null <=> listed' = {},
           first' # Null => first' \in listed' /\ \A m \in listed' : data'[m] <= data'[first']
    PROVE  ListIsSorted'
<1>1. ASSUME NEW n \in listed' PROVE Next1(n, next[n])'
  <2>1. CASE next'[n] = Null
    <3>1. ASSUME NEW m \in listed' PROVE data'[m] >= data'[n]
      <4>1. (Item(next[n]))' = -1 /\ data'[m] \in Nat /\ data'[n] \in Nat
        BY <2>1 DEF Item
      <4>2. ~(data'[m] < data'[n])
        BY <4>1
      <4> QED
        BY <4>1, <4>2
    <3> QED
      BY <2>1, <3>1 DEF Next1
  <2>2. CASE next'[n] # Null
    BY <2>2 DEF Next1, Item
  <2> QED
    BY <2>1, <2>2
<1> QED
  BY <1>1 DEF ListIsSorted

(* Gap: where SLInsert puts obj.  Nothing listed is between, and nothing   *)
(* listed is equal.                                                        *)
Gap(before, after) ==
    /\ op = "insert" /\ obj \in Items
    /\ before = Null => after = first
    /\ before # Null => before \in listed /\ next[before] = after /\ data[before] > obj
    /\ after # Null => after \in listed /\ data[after] < obj

LEMMA Apart ==
    ASSUME TypeOK, Shape, NEW before, NEW after, Gap(before, after), NEW m \in listed
    PROVE  \/ data[m] > obj /\ before # Null /\ data[m] >= data[before]
           \/ data[m] < obj /\ after # Null /\ data[m] <= data[after]
<1>1. obj \in Nat /\ data[m] \in Nat /\ NoItem = -1
  BY Basics, ListAssumption DEF Gap, TypeOK
<1>2. CASE before = Null
  BY <1>1, <1>2, Basics DEF Gap, TypeOK
<1>3. CASE before # Null
  <2>1. before \in listed /\ next[before] = after /\ data[before] > obj /\ data[before] \in Nat
    BY <1>3, Basics DEF Gap, TypeOK
  <2>2. CASE data[m] >= data[before]
    BY <1>1, <1>3, <2>1, <2>2
  <2>3. CASE data[m] < data[before]
    <3>1. data[m] <= Item(after)
      BY <2>1, <2>3, Basics
    <3>2. after # Null /\ data[m] <= data[after]
      BY <1>1, <3>1 DEF Item
    <3>3. data[after] < obj /\ data[after] \in Nat
      BY <3>2, Basics DEF Gap, TypeOK
    <3> QED
      BY <1>1, <3>2, <3>3
  <2> QED
    BY <1>1, <2>1, <2>2, <2>3
<1> QED
  BY <1>2, <1>3

(* The loop of SLInsert ends at a gap.                                     *)
LEMMA InsertFindsGap ==
    ASSUME IInv
    PROVE  /\ InsertAtEnd => Gap(curr, Null) /\ Link(curr, Null)
           /\ InsertBetween => Gap(prev, curr) /\ Link(prev, curr)
<1>1. TypeOK /\ Shape /\ Loop
  BY DEF IInv
<1>2. ASSUME op = "insert", curr # Null PROVE curr \in listed /\ data[curr] \in Nat
  BY <1>1, <1>2, Basics DEF Loop, TypeOK
<1>3. ASSUME InsertAtEnd PROVE Gap(curr, Null)
  <2>1. op = "insert" /\ obj \in Items /\ obj \in Nat
    BY <1>1, <1>3, ListAssumption DEF InsertAtEnd, Loop
  <2>2. CASE curr = Null
    BY <1>1, <2>1, <2>2 DEF Loop, Gap
  <2>3. CASE curr # Null
    BY <1>2, <1>3, <2>1, <2>3 DEF InsertAtEnd, Passes, Gap
  <2> QED
    BY <2>2, <2>3
<1>4. ASSUME InsertBetween PROVE Gap(prev, curr)
  <2>1. op = "insert" /\ obj \in Items /\ obj \in Nat /\ curr # Null
    BY <1>1, <1>4, ListAssumption DEF InsertBetween, Loop
  <2>2. curr \in listed /\ data[curr] \in Nat /\ data[curr] < obj
    BY <1>2, <1>4, <2>1 DEF InsertBetween, Passes
  <2> QED
    BY <1>1, <2>1, <2>2 DEF Loop, Gap
<1> QED
  BY <1>3, <1>4 DEF InsertAtEnd, InsertBetween

-----------------------------------------------------------------------------
(* SLInsert                                                                *)

(* What Link makes of the nodes: n is the new one.                         *)
Linking(n, before, after) ==
    /\ TypeOK /\ Shape /\ Gap(before, after)
    /\ n \in Nodes \ nodes /\ n # Null
    /\ before \in listed \cup {Null} /\ after \in listed \cup {Null}
    /\ nodes' = nodes \cup {n} /\ listed' = listed \cup {n}
    /\ data'[n] = obj /\ next'[n] = after /\ ptrCount'[n] = 1
    /\ before # Null => next'[before] = n
    /\ \A m \in nodes : /\ data'[m] = data[m] /\ ptrCount'[m] = ptrCount[m]
                        /\ m # before => next'[m] = next[m]
    /\ first' = IF before = Null THEN n ELSE first
    /\ obj \in Nat /\ NoItem = -1

LEMMA LinkFacts ==
    ASSUME IInv, NEW before, NEW after, Gap(before, after), Link(before, after)
    PROVE  \E n : Linking(n, before, after)
<1>1. TypeOK /\ Shape
  BY DEF IInv
<1>2. PICK n \in Nodes \ nodes :
        /\ nodes' = nodes \cup {n}
        /\ data' = [data EXCEPT ![n] = obj]
        /\ ptrCount' = [ptrCount EXCEPT ![n] = 1]
        /\ next' = [m \in Nodes |-> IF m = n THEN after
                                    ELSE IF m = before THEN n ELSE next[m]]
        /\ first' = IF before = Null THEN n ELSE first
        /\ listed' = listed \cup {n}
  BY DEF Link
<1>3. obj \in Nat /\ NoItem = -1
  BY <1>1, Basics, ListAssumption DEF Gap
<1>4. /\ before \in listed \cup {Null} /\ after \in listed \cup {Null}
      /\ listed \subseteq nodes /\ nodes \subseteq Nodes /\ n # Null
  BY <1>1, Basics, ListAssumption DEF Gap, TypeOK
<1>5. data'[n] = obj /\ ptrCount'[n] = 1
      /\ \A m \in nodes : data'[m] = data[m] /\ ptrCount'[m] = ptrCount[m]
  BY <1>1, <1>2 DEF TypeOK
<1>6. /\ next'[n] = after
      /\ before # Null => next'[before] = n
      /\ \A m \in nodes : m # before => next'[m] = next[m]
  BY <1>2, <1>4
<1> QED
  BY <1>1, <1>2, <1>3, <1>4, <1>5, <1>6 DEF Linking

(* The new item is below the one before and above the one after: the list  *)
(* is sorted, with no two equal items.                                     *)
LEMMA LinkShape ==
    ASSUME NEW n, NEW before, NEW after, Linking(n, before, after)
    PROVE  Shape'
<1> USE DEF Linking
<1>1. /\ Null \notin nodes /\ listed \subseteq nodes
      /\ \A m \in nodes : data[m] \in Nat
      /\ \A m \in nodes : /\ next[m] \in nodes \cup {Null}
                          /\ next[m] # Null => data[next[m]] < data[m]
      /\ \A m \in listed : next[m] \in listed \cup {Null}
      /\ \A m, k \in listed : data[k] < data[m] => data[k] <= Item(next[m])
      /\ \A m, k \in listed : data[k] = data[m] => k = m
      /\ first \in listed \cup {Null} /\ (first = Null => listed = {})
      /\ \A m \in listed : first # Null /\ data[m] <= data[first]
  BY Basics DEF TypeOK
<1>2. \A m \in listed : \/ data[m] > obj /\ before # Null /\ data[m] >= data[before]
                        \/ data[m] < obj /\ after # Null /\ data[m] <= data[after]
  BY Apart
<1>3. /\ before # Null => next[before] = after /\ data[before] > obj
      /\ after # Null => data[after] < obj
      /\ before = Null => after = first
  BY DEF Gap
<1>4. \A m \in nodes \cup {Null} : Item(m)' = Item(m)
  BY <1>1 DEF Item
<1>5. Item(n)' = obj
  BY DEF Item
<1>6. Null \notin nodes' /\ listed' \subseteq nodes' /\ \A m \in nodes' : data'[m] \in Nat
  BY <1>1
<1>7. \A m, k \in listed' : data'[k] = data'[m] => k = m
  BY <1>1, <1>2
<1>8. \A m \in listed' : next'[m] \in listed' \cup {Null}
  BY <1>1
<1>9. \A m \in nodes' : next'[m] # Null => next'[m] \in nodes' /\ data'[next'[m]] < data'[m]
  <2> SUFFICES ASSUME NEW m \in nodes', next'[m] # Null
               PROVE  next'[m] \in nodes' /\ data'[next'[m]] < data'[m]
    OBVIOUS
  <2>1. CASE m = n
    BY <1>1, <1>3, <2>1
  <2>2. CASE m = before /\ before # Null
    BY <1>1, <1>3, <2>2
  <2>3. CASE m \in nodes /\ m # before
    BY <1>1, <2>3
  <2> QED
    BY <1>1, <2>1, <2>2, <2>3
<1>10. ASSUME NEW m \in listed', NEW k \in listed', data'[k] < data'[m]
       PROVE  data'[k] <= (Item(next[m]))'
  <2>1. (Item(next[m]))' = IF next'[m] = Null THEN NoItem ELSE data'[next'[m]]
    BY DEF Item
  <2>2. CASE m = n
    <3>1. k \in listed /\ data[k] < obj
      BY <1>1, <1>10, <2>2
    <3>2. after # Null /\ data[k] <= data[after]
      BY <1>1, <1>2, <3>1
    <3> QED
      BY <1>1, <2>1, <2>2, <3>1, <3>2
  <2>3. CASE m = before /\ before # Null
    <3>1. (Item(next[m]))' = obj
      BY <2>1, <2>3
    <3>2. k = n \/ (k \in listed /\ data[k] < data[before])
      BY <1>1, <1>10, <2>3
    <3> QED
      BY <1>1, <1>2, <3>1, <3>2
  <2>4. CASE m \in listed /\ m # before
    <3>1. (Item(next[m]))' = Item(next[m]) /\ next[m] \in listed \cup {Null}
      BY <1>1, <2>1, <2>4 DEF Item
    <3>2. CASE k \in listed
      BY <1>1, <1>10, <2>4, <3>1, <3>2
    <3>3. CASE k = n
      <4>1. obj < data[m] /\ before # Null /\ data[m] >= data[before]
        BY <1>1, <1>2, <1>10, <2>4, <3>3
      <4>2. data[before] < data[m] /\ before \in listed
        BY <1>1, <2>4, <4>1
      <4>3. data[before] <= Item(next[m])
        BY <1>1, <2>4, <4>2
      <4> QED
        BY <1>1, <1>3, <3>1, <3>3, <4>1, <4>3 DEF Item
    <3> QED
      BY <3>2, <3>3
  <2> QED
    BY <1>1, <2>2, <2>3, <2>4
<1>11. first' = Null <=> listed' = {}
  BY <1>1
<1>12. first' \in listed' /\ \A m \in listed' : data'[m] <= data'[first']
  <2>1. CASE before = Null
    BY <1>1, <1>2, <2>1
  <2>2. CASE before # Null
    <3>1. /\ first \in listed /\ first' = first
          /\ data[before] <= data[first] /\ obj <= data[first]
      BY <1>1, <1>3, <2>2
    <3> QED
      BY <1>1, <3>1
  <2> QED
    BY <2>1, <2>2
<1>13. Linked'
  <2> SUFFICES ASSUME NEW m \in listed' PROVE m = first' \/ \E k \in listed' : next'[k] = m
    BY DEF Linked
  <2>1. CASE m = n
    BY <1>1, <2>1
  <2>2. CASE m \in listed
    <3>1. m = first \/ \E k \in listed : next[k] = m
      BY <2>2 DEF Shape, Linked
    <3>2. CASE m = after
      BY <3>2
    <3>3. CASE m # after
      <4>1. m = first => before # Null
        BY <1>3, <3>3
      <4>2. \A k \in listed : next[k] = m => k # before
        BY <1>1, <1>3, <3>3
      <4> QED
        BY <1>1, <3>1, <4>1, <4>2
    <3> QED
      BY <3>2, <3>3
  <2> QED
    BY <2>1, <2>2
<1>14. ListIsSorted'
  <2>1. NoItem = -1
    OBVIOUS
  <2> HIDE DEF Linking
  <2> QED
    BY <1>6, <1>7, <1>8, <1>9, <1>10, <1>11, <1>12, <2>1, SortedBy
<1> QED
  BY <1>13, <1>14 DEF Shape

(* The new node has one pointer; the node after it has the new one's in    *)
(* place of the one it had from before.                                    *)
LEMMA LinkCounts ==
    ASSUME IInv, NEW n, NEW before, NEW after, Linking(n, before, after),
           TypeOK', op' = "idle", UNCHANGED iters
    PROVE  CountsAreExact'
<1> USE DEF Linking
<1>1. /\ TypeOK /\ Shape /\ InPlace /\ CountsAreExact /\ op = "insert"
      /\ ~Freeing /\ ~Freeing'
  BY DEF IInv, Gap, Freeing
<1>2. /\ Null \notin nodes /\ listed \subseteq nodes
      /\ \A m \in nodes : next[m] \in nodes \cup {Null}
      /\ before # Null => next[before] = after
      /\ before = Null => after = first
      /\ first \in listed \cup {Null}
      /\ before # Null => before # after
  BY <1>1, Basics DEF TypeOK, Gap
<1>3. \A m \in nodes : ptrCount[m] = Cardinality(Preds(m)) + Cardinality(Holders(m)) + Ends(m)
  BY <1>1, Counts
<1>4. \A m \in nodes : Holders(m)' = Holders(m)
  BY <1>1 DEF Holders, iters
<1>5. Holders(n)' = {}
  BY <1>1 DEF Holders, iters, InPlace, Place
<1>6. ASSUME NEW m \in nodes'
      PROVE  ptrCount'[m] = Cardinality(Preds(m)') + Cardinality(Holders(m)') + Ends(m)'
  <2>1. CASE m = n
    <3>1. Preds(n)' = IF before = Null THEN {} ELSE {before}
      BY <1>2 DEF Preds
    <3>2. Ends(n)' = IF before = Null THEN 1 ELSE 0
      BY <1>1, <1>2 DEF Ends
    <3>3. Cardinality({}) = 0 /\ Cardinality({before}) = 1
      BY FS_EmptySet, FS_Singleton
    <3> QED
      BY <1>5, <2>1, <3>1, <3>2, <3>3
  <2>2. CASE m \in nodes /\ m # after
    <3>1. Preds(m)' = Preds(m)
      BY <1>2, <2>2 DEF Preds
    <3>2. Ends(m)' = Ends(m)
      BY <1>1, <1>2, <2>2 DEF Ends
    <3> QED
      BY <1>3, <1>4, <2>2, <3>1, <3>2
  <2>3. CASE m \in nodes /\ m = after
    <3>1. /\ IsFiniteSet(Preds(m)) /\ Cardinality(Preds(m)) \in Nat
          /\ Cardinality(Holders(m)) \in Nat /\ Ends(m) \in Nat
      BY <1>1, Pointing
    <3>2. n \notin Preds(m)
      BY DEF Preds
    <3>3. CASE before = Null
      <4>1. Preds(m)' = Preds(m) \cup {n}
        BY <1>2, <2>3, <3>3 DEF Preds
      <4>2. Cardinality(Preds(m)') = Cardinality(Preds(m)) + 1
        BY <3>1, <3>2, <4>1, Counting
      <4>3. Ends(m) = 1 /\ Ends(m)' = 0
        BY <1>1, <1>2, <2>3, <3>3 DEF Ends
      <4> QED
        BY <1>3, <1>4, <2>3, <3>1, <4>2, <4>3
    <3>4. CASE before # Null
      <4>1. before \in Preds(m)
        BY <1>2, <2>3, <3>4 DEF Preds
      <4>2. Preds(m)' = (Preds(m) \ {before}) \cup {n}
        BY <1>2, <2>3, <3>4 DEF Preds
      <4>3. Cardinality(Preds(m) \ {before}) = Cardinality(Preds(m)) - 1
        BY <3>1, <4>1, Counting
      <4>4. IsFiniteSet(Preds(m) \ {before})
        BY <3>1, FS_RemoveElement
      <4>5. Cardinality(Preds(m)') = Cardinality(Preds(m) \ {before}) + 1
        BY <3>2, <4>2, <4>4, Counting
      <4>6. Ends(m)' = Ends(m)
        BY <1>1, <3>4 DEF Ends
      <4> QED
        BY <1>3, <1>4, <2>3, <3>1, <4>3, <4>5, <4>6
    <3> QED
      BY <3>3, <3>4
  <2> QED
    BY <2>1, <2>2, <2>3
<1> QED
  BY <1>6, CountsNext

(* The new item is put where a way may lead over it, and never past it     *)
(* when it is due: what is inserted is not.                                *)
LEMMA LinkWays ==
    ASSUME IInv, NEW n, NEW before, NEW after, Linking(n, before, after),
           op' = "idle", UNCHANGED <<iters, at, due>>
    PROVE  InPlace' /\ ItemStays' /\ Ways'
<1> USE DEF Linking
<1>1. /\ TypeOK /\ Shape /\ InPlace /\ ItemStays /\ Ways /\ ~Freeing /\ ~Freeing'
  BY DEF IInv, Gap, Freeing
<1>2. \A i \in open : current[i] \in nodes \cup {Null}
  BY <1>1 DEF InPlace, Place
<1>3. InPlace'
  BY <1>1, <1>2 DEF InPlace, Place, iters
<1>4. \A m \in nodes \cup {Null} : Item(m)' = Item(m)
  BY DEF Item, TypeOK
<1>5. ItemStays'
  BY <1>1, <1>2, <1>4 DEF ItemStays, iters, Item
<1>6. ASSUME NEW i \in open
      PROVE  /\ due'[i] \subseteq {data'[m] : m \in listed'}
             /\ \E S \in SUBSET nodes' : Way(i, S)'
  <2>1. PICK S \in SUBSET nodes : Way(i, S)
    BY <1>1, <1>6 DEF Ways
  <2>2. /\ due[i] \subseteq {data[m] : m \in listed} /\ due'[i] = due[i]
        /\ due[i] \subseteq Nat
    BY <1>1, <1>6, ListAssumption DEF Ways, TypeOK
  <2>3. due'[i] \subseteq {data'[m] : m \in listed'}
    BY <2>2 DEF TypeOK
  <2>4. /\ listed \subseteq S /\ current[i] \in S \cup {Null}
        /\ \A m \in S : /\ next[m] \in S \cup {Null}
                        /\ \A y \in due[i] : y < data[m] => y <= Item(next[m])
                        /\ m \notin listed => data[m] \notin due[i]
        /\ \A y \in due[i] : y < at[i] /\ y <= Item(current[i])
    BY <1>1, <2>1 DEF Way, Place
  <2>5. \A y \in due[i] : y < obj => y <= Item(after)
    <3> SUFFICES ASSUME NEW y \in due[i], y < obj PROVE y <= Item(after)
      OBVIOUS
    <3>1. PICK m \in listed : y = data[m]
      BY <2>2
    <3>2. ~(data[m] > obj) /\ after # Null => Item(after) = data[after]
      BY <2>2, <3>1 DEF Item
    <3> QED
      BY <3>1, <3>2, <1>1, <2>2, Apart DEF Item
  <2>6. ASSUME NEW m \in S \cup {n}
        PROVE  /\ next'[m] \in S \cup {n, Null}
               /\ \A y \in due[i] : y < data'[m] => y <= (Item(next[m]))'
               /\ m \notin listed' => data'[m] \notin due[i]
    <3>1. (Item(next[m]))' = IF next'[m] = Null THEN NoItem ELSE data'[next'[m]]
      BY DEF Item
    <3>2. CASE m = n
      <4>1. (Item(next[m]))' = Item(after)
        BY <3>1, <3>2 DEF Item, TypeOK
      <4> QED
        BY <2>4, <2>5, <3>2, <4>1
    <3>3. CASE m \in S /\ m = before
      <4>1. (Item(next[m]))' = obj /\ m # Null /\ next[m] = after /\ data'[m] = data[m]
        BY <1>1, <3>1, <3>3, Basics DEF Gap
      <4>2. \A y \in due[i] : y < data[m] => y <= Item(after)
        BY <2>4, <3>3, <4>1
      <4>3. Item(after) < obj /\ Item(after) \in Int
        BY <1>1, Basics DEF Gap, Item, TypeOK
      <4> QED
        BY <2>2, <2>4, <3>3, <4>1, <4>2, <4>3
    <3>4. CASE m \in S /\ m # before
      <4>1. next'[m] = next[m] /\ data'[m] = data[m] /\ next[m] \in S \cup {Null}
        BY <2>4, <3>4
      <4>2. (Item(next[m]))' = Item(next[m])
        BY <3>1, <4>1 DEF Item
      <4> QED
        BY <2>4, <3>4, <4>1, <4>2
    <3> QED
      BY <3>2, <3>3, <3>4
  <2>7. Way(i, S \cup {n})'
    <3>1. Place(i)' = current[i] /\ (Item(Place(i)))' = Item(current[i])
      BY <1>1, <1>2, <1>4, <1>6 DEF Place, iters, Item
    <3>2. listed' \subseteq S \cup {n}
      BY <2>4
    <3> QED
      BY <2>2, <2>4, <2>6, <3>1, <3>2 DEF Way
  <2> QED
    BY <2>3, <2>7
<1> QED
  BY <1>3, <1>5, <1>6 DEF Ways, iters

(* A step of a call that is not freeing and leaves the nodes and the       *)
(* iterators alone.                                                        *)
LEMMA QuietIInv ==
    ASSUME IInv, ~Freeing, ~Freeing', UNCHANGED <<first, memory, iters, past>>,
           TypeOK', Loop', Calls'
    PROVE  IInv'
<1> USE DEF memory, iters, past
<1>1. Shape'
  BY DEF IInv, Shape, ListIsSorted, Linked, Next1
<1>2. CountsAreExact'
  <2>1. \A n : Holders(n)' = Holders(n)
    BY DEF Holders
  <2>2. \A n : Ends(n)' = Ends(n) /\ Preds(n)' = Preds(n)
    BY DEF Ends, Preds
  <2>3. \A n \in nodes : ptrCount[n] = Cardinality(Preds(n)) + Cardinality(Holders(n)) + Ends(n)
    BY Counts DEF IInv
  <2> QED
    BY <2>1, <2>2, <2>3, CountsNext
<1>3. InPlace' /\ ItemStays'
  BY DEF IInv, InPlace, ItemStays, Place, Item
<1>4. Ways'
  <2>1. \A i \in open, S \in SUBSET nodes : Way(i, S)' <=> Way(i, S)
    BY DEF Way, Place, Item
  <2> QED
    BY <2>1 DEF IInv, Ways
<1> QED
  BY <1>1, <1>2, <1>3, <1>4 DEF IInv

LEMMA InsertIInv == ASSUME IInv, Insert PROVE IInv'
<1> USE ListAssumption
<1>1. TypeOK /\ Loop /\ Calls /\ Shape /\ op = "insert" /\ ~Freeing
  BY DEF IInv, Insert, InsertNext, InsertAtEnd, InsertBetween, InsertRefused, Freeing
<1>2. CASE InsertNext
  <2>1. /\ curr # Null /\ curr \in listed /\ next[curr] # Null /\ data[curr] > obj
        /\ next[curr] \in listed
    BY <1>1, <1>2, Basics DEF InsertNext, Loop, TypeOK, Passes
  <2>2. /\ prev' = curr /\ curr' = next[curr] /\ op' = op /\ obj' = obj /\ list' = list
        /\ UNCHANGED <<first, memory, iters, who, answer, past>>
    BY <1>2 DEF InsertNext, StepOn, Onward
  <2>3. TypeOK'
    BY <1>1, <2>1, <2>2 DEF TypeOK, memory, iters, past
  <2>4. Loop' /\ Calls' /\ ~Freeing'
    BY <1>1, <2>1, <2>2 DEF Loop, Calls, memory, iters, past, Freeing, TypeOK
  <2> QED
    BY <1>1, <2>2, <2>3, <2>4, QuietIInv
<1>3. CASE InsertRefused
  <2>1. /\ op' = "idle" /\ obj' = NoItem /\ who' = NoIterator /\ curr' = Null
        /\ prev' = Null /\ UNCHANGED <<list, first, memory, iters, past>>
    BY <1>3 DEF InsertRefused, Return
  <2>2. TypeOK'
    BY <1>1, <2>1 DEF TypeOK, memory, iters, past, Ops
  <2>3. Loop' /\ Calls' /\ ~Freeing'
    BY <1>1, <2>1 DEF Loop, Calls, memory, iters, past, Freeing
  <2> QED
    BY <1>1, <2>1, <2>2, <2>3, QuietIInv
<1>4. CASE InsertAtEnd \/ InsertBetween
  <2>1. PICK before, after : Gap(before, after) /\ Link(before, after)
    BY <1>4, InsertFindsGap
  <2>2. PICK n : Linking(n, before, after)
    BY <2>1, LinkFacts
  <2>3. /\ op' = "idle" /\ obj' = NoItem /\ who' = NoIterator /\ curr' = Null
        /\ prev' = Null /\ UNCHANGED <<list, iters, at, due>>
    BY <2>1 DEF Link, Return
  <2>4. TypeOK'
    <3>1. PICK k \in Nodes \ nodes :
            /\ data' = [data EXCEPT ![k] = obj]
            /\ ptrCount' = [ptrCount EXCEPT ![k] = 1]
            /\ next' = [m \in Nodes |-> IF m = k THEN after
                                        ELSE IF m = before THEN k ELSE next[m]]
      BY <2>1 DEF Link
    <3>2. obj \in Items /\ after \in Nodes \cup {Null}
      BY <1>1, <2>1, <2>2 DEF Gap, Linking, TypeOK
    <3>3. data' \in [Nodes -> Items \cup {NoItem}] /\ ptrCount' \in [Nodes -> Nat]
      BY <1>1, <3>1, <3>2 DEF TypeOK
    <3>4. next' \in [Nodes -> Nodes \cup {Null}]
      BY <1>1, <3>1, <3>2 DEF TypeOK
    <3>5. /\ nodes' \subseteq Nodes /\ listed' \subseteq nodes' /\ first' \in Nodes \cup {Null}
          /\ \A m \in nodes' : data'[m] \in Items /\ ptrCount'[m] > 0
      BY <1>1, <2>2, <3>2 DEF Linking, TypeOK
    <3> QED
      BY <1>1, <2>3, <3>3, <3>4, <3>5 DEF TypeOK, iters, Ops
  <2>5. Shape'
    BY <2>2, LinkShape
  <2>6. CountsAreExact'
    BY <2>2, <2>3, <2>4, LinkCounts
  <2>7. InPlace' /\ ItemStays' /\ Ways'
    BY <2>2, <2>3, LinkWays
  <2>8. Loop' /\ Calls'
    <3>1. list
      BY <1>1 DEF Loop, Calls
    <3> QED
      BY <2>3, <3>1 DEF Loop, Calls, Freeing
  <2> QED
    BY <2>4, <2>5, <2>6, <2>7, <2>8 DEF IInv
<1> QED
  BY <1>2, <1>3, <1>4 DEF Insert

-----------------------------------------------------------------------------
(* SLRemove and SLDestroy                                                  *)

(* What DropFirst makes of the nodes: f was the first one, and is freed    *)
(* when nothing else points to it.                                         *)
Dropping(f, succ) ==
    /\ f = first /\ f \in listed /\ succ = next[f] /\ f # succ
    /\ succ \in listed \cup {Null} /\ f # Null
    /\ first' = succ /\ listed' = listed \ {f}
    /\ nodes' = IF ptrCount[f] = 1 THEN nodes \ {f} ELSE nodes
    /\ \A n \in nodes' : data'[n] = data[n] /\ next'[n] = next[n]
    /\ \A n \in nodes' : ptrCount'[n] = IF n = f THEN ptrCount[n] - 1
                                        ELSE IF n = succ /\ ptrCount[f] # 1
                                        THEN ptrCount[n] + 1
                                        ELSE ptrCount[n]
    /\ due' = [i \in Iterators |-> due[i] \ {data[f]}]
    /\ at' = at
    /\ ptrCount[f] = 1 => /\ \A n \in nodes : next[n] # f
                          /\ \A i \in open : current[i] # f
    /\ \A n \in nodes' : next[n] \in nodes' \cup {Null}
    /\ succ \in nodes' \cup {Null}

LEMMA DropFacts ==
    ASSUME IInv, ~Freeing, first # Null, DropFirst
    PROVE  \E f, succ : Dropping(f, succ)
<1>0. PICK f, succ : f = first /\ succ = next[f]
  OBVIOUS
<1>1. TypeOK /\ Shape
  BY DEF IInv
<1>2. /\ f \in listed /\ f \in nodes /\ f # succ /\ succ \in listed \cup {Null} /\ f # Null
      /\ listed \subseteq nodes /\ nodes \subseteq Nodes /\ Null \notin nodes
      /\ \A n \in nodes : next[n] \in nodes \cup {Null}
  BY <1>0, <1>1, Basics DEF TypeOK
<1>8. /\ ptrCount' = [n \in Nodes |->
                IF n = f THEN ptrCount[n] - 1
                ELSE IF n = succ THEN ptrCount[n] + Gains(f)
                ELSE ptrCount[n]]
      /\ IF ptrCount[f] = 1 THEN Free(f)
           ELSE UNCHANGED <<nodes, data, next>>
  BY <1>0 DEF DropFirst
<1>3. /\ first' = succ
      /\ listed' = listed \ {f} /\ at' = at
      /\ due' = [i \in Iterators |-> due[i] \ {data[f]}]
  BY <1>0 DEF DropFirst, Unlisted
<1>4. ptrCount[f] = 1 => /\ \A n \in nodes : next[n] # f
                         /\ \A i \in open : current[i] # f
  BY <1>0, <1>2, Alone
<1>5. /\ nodes' = IF ptrCount[f] = 1 THEN nodes \ {f} ELSE nodes
      /\ \A n \in nodes' : data'[n] = data[n] /\ next'[n] = next[n]
  BY <1>1, <1>2, <1>8 DEF Free, TypeOK
<1>6. \A n \in nodes' : ptrCount'[n] = IF n = f THEN ptrCount[n] - 1
                                       ELSE IF n = succ /\ ptrCount[f] # 1
                                       THEN ptrCount[n] + 1
                                       ELSE ptrCount[n]
  <2>1. Gains(f) = IF ptrCount[f] = 1 THEN 0 ELSE 1
    BY DEF Gains
  <2>2. nodes' \subseteq Nodes /\ \A n \in Nodes : ptrCount[n] \in Nat
    BY <1>1, <1>2, <1>5 DEF TypeOK
  <2> QED
    BY <1>8, <2>1, <2>2
<1>7. /\ \A n \in nodes' : next[n] \in nodes' \cup {Null}
      /\ succ \in nodes' \cup {Null}
  <2>1. CASE ptrCount[f] = 1
    BY <1>2, <1>4, <1>5, <2>1
  <2>2. CASE ptrCount[f] # 1
    BY <1>2, <1>5, <2>2
  <2> QED
    BY <2>1, <2>2
<1>9. Dropping(f, succ)
  <2>1. /\ f = first /\ f \in listed /\ succ = next[f] /\ f # succ
        /\ succ \in listed \cup {Null} /\ f # Null
    BY <1>0, <1>2
  <2> QED
    BY ONLY <2>1, <1>3, <1>4, <1>5, <1>6, <1>7 DEF Dropping
<1> QED
  BY <1>9

LEMMA DropTyped ==
    ASSUME IInv, ~Freeing, first # Null, DropFirst
    PROVE  /\ nodes' \subseteq Nodes /\ listed' \subseteq nodes' /\ first' \in Nodes \cup {Null}
           /\ data' \in [Nodes -> Items \cup {NoItem}]
           /\ next' \in [Nodes -> Nodes \cup {Null}]
           /\ ptrCount' \in [Nodes -> Nat]
           /\ \A n \in nodes' : data'[n] \in Items /\ ptrCount'[n] > 0
           /\ at' = at /\ due' \in [Iterators -> SUBSET Items]
<1>1. TypeOK /\ Shape
  BY DEF IInv
<1>2. PICK f, succ : Dropping(f, succ)
  BY DropFacts
<1>3. /\ nodes' \subseteq Nodes /\ listed' \subseteq nodes' /\ first' \in Nodes \cup {Null}
      /\ at' = at /\ due' \in [Iterators -> SUBSET Items]
  BY <1>1, <1>2 DEF Dropping, TypeOK
<1>4. /\ data' \in [Nodes -> Items \cup {NoItem}]
      /\ next' \in [Nodes -> Nodes \cup {Null}]
  BY <1>1 DEF DropFirst, Free, TypeOK
<1>5. first \in nodes /\ first \in Nodes
  BY <1>1, Basics DEF TypeOK
<1>6. ptrCount' \in [Nodes -> Nat]
  BY <1>1, <1>5 DEF DropFirst, Gains, TypeOK
<1>7. \A n \in nodes' : data'[n] \in Items /\ ptrCount'[n] > 0
  <2> SUFFICES ASSUME NEW n \in nodes' PROVE data'[n] \in Items /\ ptrCount'[n] > 0
    OBVIOUS
  <2>1. n \in nodes /\ ptrCount[n] \in Nat /\ ptrCount[n] > 0 /\ data[n] \in Items
    BY <1>1, <1>2 DEF Dropping, TypeOK
  <2>2. n = f => ptrCount[n] # 1
    BY <1>2 DEF Dropping
  <2> QED
    BY <1>2, <2>1, <2>2 DEF Dropping
<1> QED
  BY <1>3, <1>4, <1>6, <1>7

LEMMA DropShape ==
    ASSUME IInv, NEW f, NEW succ, Dropping(f, succ)
    PROVE  Shape'
<1> USE DEF Dropping
<1>1. TypeOK /\ Shape
  BY DEF IInv
<1>2. /\ NoItem = -1 /\ Null \notin nodes /\ listed \subseteq nodes
      /\ \A m \in nodes : data[m] \in Nat
      /\ \A m \in nodes : next[m] # Null => data[next[m]] < data[m]
      /\ \A m \in listed : next[m] \in listed \cup {Null}
      /\ \A m, k \in listed : data[k] < data[m] => data[k] <= Item(next[m])
      /\ \A m, k \in listed : data[k] = data[m] => k = m
      /\ \A m \in listed : data[m] <= data[f]
  BY <1>1, Basics DEF TypeOK
<1>3. /\ nodes' \subseteq nodes /\ listed' \subseteq nodes' /\ listed' \subseteq listed
      /\ Null \notin nodes'
  BY <1>2
<1>4. \A n \in listed' : next'[n] \in listed' \cup {Null}
  <2> SUFFICES ASSUME NEW n \in listed', next[n] # Null
               PROVE  next[n] \in listed /\ next[n] # f
    BY <1>3
  <2> QED
    BY <1>2, <1>3
<1>5. ASSUME NEW n \in nodes' PROVE (Item(next[n]))' = Item(next[n])
  <2>1. (Item(next[n]))' = IF next'[n] = Null THEN NoItem ELSE data'[next'[n]]
    BY DEF Item
  <2> QED
    BY <1>3, <1>5, <2>1 DEF Item
<1>6. \A n, m \in listed' : data'[m] < data'[n] => data'[m] <= (Item(next[n]))'
  BY <1>2, <1>3, <1>5
<1>7. \A n \in nodes' : /\ data'[n] \in Nat
                        /\ next'[n] # Null => next'[n] \in nodes' /\ data'[next'[n]] < data'[n]
  BY <1>2, <1>3
<1>8. \A n, m \in listed' : data'[m] = data'[n] => m = n
  BY <1>2, <1>3
<1>9. \A m \in listed' : data[m] <= Item(succ)
  BY <1>2, <1>3
<1>10. first' = Null <=> listed' = {}
  BY <1>2, <1>3, <1>9 DEF Item
<1>11. first' # Null => first' \in listed' /\ \A m \in listed' : data'[m] <= data'[first']
  BY <1>2, <1>3, <1>9 DEF Item
<1>12. Linked'
  BY <1>1, <1>3 DEF Shape, Linked
<1> HIDE DEF Dropping
<1>13. ListIsSorted'
  BY <1>2, <1>3, <1>4, <1>6, <1>7, <1>8, <1>10, <1>11, SortedBy
<1> QED
  BY <1>12, <1>13 DEF Shape

(* The successor has the list's pointer for the one of the node freed, or  *)
(* one more when that node stays.                                          *)
LEMMA DropCounts ==
    ASSUME IInv, ~Freeing, ~Freeing', TypeOK', UNCHANGED iters,
           NEW f, NEW succ, Dropping(f, succ)
    PROVE  CountsAreExact'
<1> USE DEF Dropping
<1>1. TypeOK /\ Shape /\ CountsAreExact
  BY DEF IInv
<1>2. Null \notin nodes /\ nodes' \subseteq nodes /\ f \in nodes
  BY <1>1, Basics DEF TypeOK
<1>3. \A m \in nodes : ptrCount[m] = Cardinality(Preds(m)) + Cardinality(Holders(m)) + Ends(m)
  BY <1>1, Counts
<1>4. \A m : Holders(m)' = Holders(m)
  BY DEF Holders, iters
<1>5. ASSUME NEW m \in nodes'
      PROVE  ptrCount'[m] = Cardinality(Preds(m)') + Cardinality(Holders(m)') + Ends(m)'
  <2>1. /\ IsFiniteSet(Preds(m)) /\ Cardinality(Preds(m)) \in Nat
        /\ Cardinality(Holders(m)) \in Nat /\ Ends(m) \in Nat
    BY <1>1, Pointing
  <2>2. CASE m # f /\ m # succ
    <3>1. Preds(m)' = Preds(m)
      BY <1>2, <2>2 DEF Preds
    <3>2. Ends(m)' = 0 /\ Ends(m) = 0
      BY <2>2 DEF Ends
    <3> QED
      BY <1>2, <1>3, <1>4, <2>1, <2>2, <3>1, <3>2
  <2>3. CASE m = f
    <3>1. Preds(m)' = Preds(m) /\ ptrCount[f] # 1
      BY <1>2, <1>5, <2>3 DEF Preds
    <3>2. Ends(m)' = 0 /\ Ends(m) = 1
      BY <2>3 DEF Ends
    <3> QED
      BY <1>2, <1>3, <1>4, <2>1, <2>3, <3>1, <3>2
  <2>4. CASE m = succ
    <3>1. Ends(m)' = 1 /\ Ends(m) = 0
      BY <2>4 DEF Ends
    <3>2. CASE ptrCount[f] = 1
      <4>1. Preds(m)' = Preds(m) \ {f} /\ f \in Preds(m)
        BY <1>2, <2>4, <3>2 DEF Preds
      <4>2. Cardinality(Preds(m)') = Cardinality(Preds(m)) - 1
        BY <2>1, <4>1, Counting
      <4> QED
        BY <1>2, <1>3, <1>4, <2>1, <2>4, <3>1, <3>2, <4>2
    <3>3. CASE ptrCount[f] # 1
      <4>1. Preds(m)' = Preds(m)
        BY <1>2, <2>4, <3>3 DEF Preds
      <4> QED
        BY <1>2, <1>3, <1>4, <2>1, <2>4, <3>1, <3>3, <4>1
    <3> QED
      BY <3>2, <3>3
  <2> QED
    BY <2>2, <2>3, <2>4
<1> QED
  BY <1>5, CountsNext

LEMMA DropWays ==
    ASSUME IInv, ~Freeing, ~Freeing', UNCHANGED iters,
           NEW f, NEW succ, Dropping(f, succ)
    PROVE  InPlace' /\ ItemStays' /\ Ways'
<1> USE DEF Dropping
<1>1. TypeOK /\ Shape /\ InPlace /\ ItemStays /\ Ways
  BY DEF IInv
<1>2. \A i \in open : current[i] \in nodes' \cup {Null}
  BY <1>1 DEF InPlace, Place
<1>3. InPlace'
  BY <1>2 DEF InPlace, Place, iters
<1>4. \A m \in nodes' \cup {Null} : Item(m)' = Item(m)
  BY DEF Item
<1>5. ItemStays'
  BY <1>1, <1>2, <1>4 DEF ItemStays, iters, Item
<1>6. ASSUME NEW i \in open
      PROVE  /\ due'[i] \subseteq {data'[m] : m \in listed'}
             /\ \E S \in SUBSET nodes' : Way(i, S)'
  <2>1. PICK S \in SUBSET nodes : Way(i, S)
    BY <1>1, <1>6 DEF Ways
  <2>2. /\ due[i] \subseteq {data[m] : m \in listed}
        /\ due'[i] = due[i] \ {data[f]}
    BY <1>1, <1>6 DEF Ways, TypeOK
  <2>3. due'[i] \subseteq {data'[m] : m \in listed'}
    <3>1. listed' \subseteq nodes'
      BY <1>1 DEF TypeOK
    <3> QED
      BY <2>2, <3>1
  <2>4. /\ listed \subseteq S /\ current[i] \in S \cup {Null}
        /\ \A m \in S : /\ next[m] \in S \cup {Null}
                        /\ \A y \in due[i] : y < data[m] => y <= Item(next[m])
                        /\ m \notin listed => data[m] \notin due[i]
        /\ \A y \in due[i] : y < at[i] /\ y <= Item(current[i])
    BY <2>1 DEF Way, Place
  <2>5. PICK T : T = S \cap nodes'
    OBVIOUS
  <2>6. T \in SUBSET nodes' /\ listed' \subseteq T /\ current[i] \in T \cup {Null}
    BY <1>1, <1>2, <1>6, <2>4, <2>5 DEF TypeOK
  <2>7. ASSUME NEW m \in T
        PROVE  /\ next'[m] \in T \cup {Null}
               /\ \A y \in due'[i] : y < data'[m] => y <= (Item(next[m]))'
               /\ m \notin listed' => data'[m] \notin due'[i]
    <3>1. (Item(next[m]))' = IF next'[m] = Null THEN NoItem ELSE data'[next'[m]]
      BY DEF Item
    <3>2. (Item(next[m]))' = Item(next[m])
      BY <2>5, <3>1 DEF Item
    <3> QED
      BY <2>2, <2>4, <2>5, <3>2
  <2>8. Way(i, T)'
    <3>1. Place(i)' = current[i] /\ (Item(Place(i)))' = Item(current[i])
      BY <1>2, <1>4, <1>6 DEF Place, iters, Item
    <3> QED
      BY <2>2, <2>4, <2>6, <2>7, <3>1 DEF Way
  <2> QED
    BY <2>3, <2>6, <2>8
<1> QED
  BY <1>3, <1>5, <1>6 DEF Ways, iters

(* The first item is removed, by SLRemove or by SLDestroy.                 *)
LEMMA DropIInv ==
    ASSUME IInv, ~Freeing, ~Freeing', first # Null, DropFirst, UNCHANGED iters,
           Loop', Calls', list' = list, op' \in Ops, obj' \in Items \cup {NoItem},
           who' \in Iterators \cup {NoIterator},
           curr' \in Nodes \cup {Null}, prev' \in Nodes \cup {Null}
    PROVE  IInv'
<1>1. PICK f, succ : Dropping(f, succ)
  BY DropFacts
<1>2. TypeOK'
  BY DropTyped DEF IInv, TypeOK, iters
<1>3. Shape' /\ CountsAreExact' /\ InPlace' /\ ItemStays' /\ Ways'
  BY <1>1, <1>2, DropShape, DropCounts, DropWays
<1> QED
  BY <1>2, <1>3 DEF IInv

(* What RemoveMiddle makes of the nodes: p points past c, to s.            *)
Bypassing(p, c, s) ==
    /\ p \in listed /\ c \in listed /\ p # c /\ c # Null /\ s # c /\ s # p
    /\ next[p] = c /\ s = next[c] /\ s \in listed \cup {Null}
    /\ first' = first /\ first # c
    /\ nodes' = nodes /\ data' = data /\ listed' = listed \ {c}
    /\ \A n \in nodes : next'[n] = IF n = p THEN s ELSE next[n]
    /\ \A n \in nodes : ptrCount'[n] = IF n = s THEN ptrCount[n] + 1 ELSE ptrCount[n]
    /\ due' = [i \in Iterators |-> due[i] \ {data[c]}]
    /\ at' = at
    /\ op' = "freeRemoved" /\ curr' = c /\ prev' = p
    /\ UNCHANGED <<list, iters, obj, who>>

LEMMA BypassFacts ==
    ASSUME IInv, RemoveMiddle
    PROVE  \E p, c, s : Bypassing(p, c, s)
<1>0. PICK p, c, s : p = prev /\ c = curr /\ s = next[c]
  OBVIOUS
<1>1. TypeOK /\ Shape /\ Loop
  BY DEF IInv
<1>2. /\ p \in listed /\ c # Null /\ next[p] = c /\ p # Null
      /\ listed \subseteq nodes /\ nodes \subseteq Nodes
  BY <1>0, <1>1, Basics DEF RemoveMiddle, Loop, TypeOK
<1>3. /\ c \in listed /\ s \in listed \cup {Null} /\ p # c /\ s # c
      /\ data[p] \in Nat /\ data[c] \in Nat /\ data[c] < data[p]
  BY <1>0, <1>1, <1>2, Basics
<1>4. s # p /\ first # c
  <2>1. s = Null \/ (data[s] < data[c] /\ data[s] \in Nat)
    BY <1>0, <1>1, <1>2, <1>3, Basics
  <2>2. data[p] <= data[first]
    BY <1>1, <1>2, Basics
  <2>3. s # p
    BY <1>2, <1>3, <2>1, Basics, <1>1
  <2> QED
    BY <1>3, <2>2, <2>3
<1>5. /\ next' = [next EXCEPT ![p] = s]
      /\ ptrCount' = [n \in Nodes |-> IF n = s THEN ptrCount[n] + 1 ELSE ptrCount[n]]
      /\ op' = "freeRemoved"
      /\ UNCHANGED <<list, first, nodes, data, iters, obj, who, curr, prev, answer>>
  BY <1>0 DEF RemoveMiddle, Bridged
<1>6. /\ listed' = listed \ {c} /\ at' = at
      /\ due' = [i \in Iterators |-> due[i] \ {data[c]}]
  BY <1>0 DEF RemoveMiddle, Unlisted
<1>7. /\ \A n \in nodes : next'[n] = IF n = p THEN s ELSE next[n]
      /\ \A n \in nodes : ptrCount'[n] = IF n = s THEN ptrCount[n] + 1 ELSE ptrCount[n]
  BY <1>1, <1>2, <1>5 DEF TypeOK
<1>8. Bypassing(p, c, s)
  <2>1. curr' = c /\ prev' = p /\ op' = "freeRemoved" /\ first' = first
        /\ nodes' = nodes /\ data' = data /\ UNCHANGED <<list, iters, obj, who>>
    BY <1>0, <1>5
  <2>2. s = next[c]
    BY <1>0
  <2> QED
    BY ONLY <1>2, <1>3, <1>4, <1>6, <1>7, <2>1, <2>2 DEF Bypassing
<1> QED
  BY <1>8

(* Only the node before c points to c from the list.                       *)
LEMMA BypassShape ==
    ASSUME IInv, NEW p, NEW c, NEW s, Bypassing(p, c, s)
    PROVE  Shape'
<1> USE DEF Bypassing
<1>1. TypeOK /\ Shape
  BY DEF IInv
<1>2. /\ NoItem = -1 /\ Null \notin nodes /\ listed \subseteq nodes
      /\ \A m \in nodes : data[m] \in Nat
      /\ \A m \in nodes : next[m] # Null => next[m] \in nodes /\ data[next[m]] < data[m]
      /\ \A m \in listed : next[m] \in listed \cup {Null}
      /\ \A m, k \in listed : data[k] < data[m] => data[k] <= Item(next[m])
      /\ \A m, k \in listed : data[k] = data[m] => k = m
      /\ first \in listed \cup {Null} /\ (first = Null => listed = {})
      /\ \A m \in listed : first # Null /\ data[m] <= data[first]
  BY <1>1, Basics DEF TypeOK
<1>3. Null \notin nodes' /\ listed' \subseteq nodes' /\ listed' \subseteq listed
      /\ \A n \in nodes' : data'[n] \in Nat
  BY <1>2
<1>4. ASSUME NEW n \in listed', n # p PROVE next[n] # c
  <2> SUFFICES ASSUME next[n] = c PROVE FALSE
    OBVIOUS
  <2>1. /\ data[c] < data[n] /\ data[c] < data[p] /\ data[n] # data[p]
        /\ data[c] \in Nat /\ data[n] \in Nat /\ data[p] \in Nat
        /\ Item(c) = data[c]
    BY <1>2, <1>4 DEF Item
  <2>2. data[n] < data[p] => data[n] <= data[c]
    BY <1>2, <1>3, <2>1
  <2>3. data[p] < data[n] => data[p] <= data[c]
    BY <1>2, <1>3, <2>1
  <2> QED
    BY <2>1, <2>2, <2>3
<1>5. \A n \in listed' : next'[n] \in listed' \cup {Null}
  BY <1>2, <1>3, <1>4
<1>6. ASSUME NEW n \in listed', NEW m \in listed', data'[m] < data'[n]
      PROVE  data'[m] <= (Item(next[n]))'
  <2>1. (Item(next[n]))' = IF next'[n] = Null THEN NoItem ELSE data'[next'[n]]
    BY DEF Item
  <2>2. CASE n # p
    <3>1. (Item(next[n]))' = Item(next[n])
      BY <1>3, <2>1, <2>2 DEF Item
    <3> QED
      BY <1>2, <1>3, <1>6, <3>1
  <2>3. CASE n = p
    <3>1. (Item(next[n]))' = Item(s) /\ Item(c) = data[c]
      BY <1>2, <2>1, <2>3 DEF Item
    <3>2. data[m] <= data[c] /\ m # c /\ m \in listed
      BY <1>2, <1>3, <1>6, <2>3, <3>1
    <3>3. data[m] < data[c]
      BY <1>2, <3>2
    <3>4. data[m] <= Item(s)
      BY <1>2, <3>2, <3>3
    <3> QED
      BY <3>1, <3>4
  <2> QED
    BY <2>2, <2>3
<1>7. \A n \in nodes' : next'[n] # Null => next'[n] \in nodes' /\ data'[next'[n]] < data'[n]
  <2> SUFFICES ASSUME NEW n \in nodes', next'[n] # Null
               PROVE  next'[n] \in nodes' /\ data'[next'[n]] < data'[n]
    OBVIOUS
  <2>1. CASE n # p
    BY <1>2, <2>1
  <2>2. CASE n = p
    <3>1. s \in nodes /\ data[s] < data[c] /\ data[c] < data[p]
      BY <1>2, <2>2
    <3> QED
      BY <1>2, <2>2, <3>1
  <2> QED
    BY <2>1, <2>2
<1>8. \A n, m \in listed' : data'[m] = data'[n] => m = n
  BY <1>2, <1>3
<1>9. /\ first' = Null <=> listed' = {}
      /\ first' # Null => first' \in listed' /\ \A m \in listed' : data'[m] <= data'[first']
  BY <1>2, <1>3
<1>10. Linked'
  <2> SUFFICES ASSUME NEW m \in listed', m # first'
               PROVE  \E k \in listed' : next'[k] = m
    BY DEF Linked
  <2>1. PICK k \in listed : next[k] = m
    BY <1>1, <1>3 DEF Shape, Linked
  <2>2. CASE k = c
    BY <1>2, <2>1, <2>2
  <2>3. CASE k # c
    BY <1>2, <2>1, <2>3
  <2> QED
    BY <2>2, <2>3
<1>11. ListIsSorted'
  <2>1. NoItem = -1
    BY <1>2
  <2> HIDE DEF Bypassing
  <2> QED
    BY <2>1, <1>3, <1>5, <1>6, <1>7, <1>8, <1>9, SortedBy
<1> QED
  BY <1>10, <1>11 DEF Shape

(* The removed node has lost the pointer of the one before it, which       *)
(* nodeDestroy is about to give up; its successor has one more.            *)
LEMMA BypassCounts ==
    ASSUME IInv, op = "remove", TypeOK',
           NEW p, NEW c, NEW s, Bypassing(p, c, s)
    PROVE  CountsAreExact'
<1> USE DEF Bypassing
<1>1. TypeOK /\ Shape /\ CountsAreExact /\ ~Freeing /\ Freeing' /\ who = NoIterator
  BY DEF IInv, Calls, Freeing
<1>2. Null \notin nodes /\ p \in nodes /\ c \in nodes
  BY <1>1, Basics DEF TypeOK
<1>3. \A m \in nodes : ptrCount[m] = Cardinality(Preds(m)) + Cardinality(Holders(m)) + Ends(m)
  BY <1>1, Counts
<1>4. \A m : Holders(m)' = Holders(m)
  BY <1>1, ListAssumption DEF Holders, iters, TypeOK
<1>5. ASSUME NEW m \in nodes'
      PROVE  ptrCount'[m] = Cardinality(Preds(m)') + Cardinality(Holders(m)') + Ends(m)'
  <2>1. /\ IsFiniteSet(Preds(m)) /\ Cardinality(Preds(m)) \in Nat
        /\ Cardinality(Holders(m)) \in Nat /\ Ends(m) \in Nat
    BY <1>1, Pointing
  <2>2. CASE m # c /\ m # s
    <3>1. Preds(m)' = Preds(m)
      BY <1>2, <2>2 DEF Preds
    <3>2. Ends(m)' = Ends(m)
      BY <1>1, <2>2 DEF Ends
    <3> QED
      BY <1>3, <1>4, <2>1, <2>2, <3>1, <3>2
  <2>3. CASE m = c
    <3>1. Preds(m)' = Preds(m) \ {p} /\ p \in Preds(m)
      BY <1>2, <2>3 DEF Preds
    <3>2. Cardinality(Preds(m)') = Cardinality(Preds(m)) - 1
      BY <2>1, <3>1, Counting
    <3>3. Ends(m)' = 1 /\ Ends(m) = 0
      BY <1>1, <2>3 DEF Ends
    <3> QED
      BY <1>3, <1>4, <2>1, <2>3, <3>2, <3>3
  <2>4. CASE m = s
    <3>1. Preds(m)' = Preds(m) \cup {p} /\ p \notin Preds(m)
      BY <1>2, <2>4 DEF Preds
    <3>2. Cardinality(Preds(m)') = Cardinality(Preds(m)) + 1
      BY <2>1, <3>1, Counting
    <3>3. Ends(m)' = Ends(m)
      BY <1>1, <2>4 DEF Ends
    <3> QED
      BY <1>3, <1>4, <2>1, <2>4, <3>2, <3>3
  <2> QED
    BY <2>2, <2>3, <2>4
<1> QED
  BY <1>5, CountsNext

LEMMA BypassWays ==
    ASSUME IInv, op = "remove", TypeOK',
           NEW p, NEW c, NEW s, Bypassing(p, c, s)
    PROVE  InPlace' /\ ItemStays' /\ Ways'
<1> USE DEF Bypassing
<1>1. /\ TypeOK /\ Shape /\ InPlace /\ ItemStays /\ Ways
      /\ ~Freeing /\ Freeing' /\ who = NoIterator
  BY DEF IInv, Calls, Freeing
<1>2. \A i \in open : /\ Place(i) = current[i] /\ Place(i)' = current[i]
                      /\ current[i] \in nodes \cup {Null} /\ i # who
  BY <1>1, ListAssumption DEF InPlace, Place, iters, TypeOK
<1>3. InPlace'
  BY <1>2 DEF InPlace, iters
<1>4. \A m : Item(m)' = Item(m)
  BY DEF Item
<1>5. ItemStays'
  BY <1>1, <1>2, <1>4 DEF ItemStays, iters, Item
<1>6. ASSUME NEW i \in open
      PROVE  /\ due'[i] \subseteq {data'[m] : m \in listed'}
             /\ \E S \in SUBSET nodes' : Way(i, S)'
  <2>1. PICK S \in SUBSET nodes : Way(i, S)
    BY <1>1, <1>6 DEF Ways
  <2>2. /\ due[i] \subseteq {data[m] : m \in listed}
        /\ due'[i] = due[i] \ {data[c]} /\ due[i] \subseteq Nat
    BY <1>1, <1>6, ListAssumption DEF Ways, TypeOK
  <2>3. due'[i] \subseteq {data'[m] : m \in listed'}
    BY <2>2
  <2>4. /\ listed \subseteq S /\ current[i] \in S \cup {Null}
        /\ \A m \in S : /\ next[m] \in S \cup {Null}
                        /\ \A y \in due[i] : y < data[m] => y <= Item(next[m])
                        /\ m \notin listed => data[m] \notin due[i]
        /\ \A y \in due[i] : y < at[i] /\ y <= Item(current[i])
    BY <1>2, <2>1 DEF Way
  <2>5. ASSUME NEW m \in S
        PROVE  /\ next'[m] \in S \cup {Null}
               /\ \A y \in due'[i] : y < data'[m] => y <= (Item(next[m]))'
               /\ m \notin listed' => data'[m] \notin due'[i]
    <3>1. (Item(next[m]))' = IF next'[m] = Null THEN NoItem ELSE data'[next'[m]]
      BY DEF Item
    <3>2. CASE m # p
      <4>1. next'[m] = next[m] /\ (Item(next[m]))' = Item(next[m])
        BY <3>1, <3>2 DEF Item
      <4> QED
        BY <2>2, <2>4, <4>1
    <3>3. CASE m = p
      <4>1. next'[m] = s /\ (Item(next[m]))' = Item(s) /\ Item(c) = data[c] /\ data[c] \in Nat
        BY <1>1, <3>1, <3>3, Basics DEF Item, TypeOK
      <4>2. ASSUME NEW y \in due'[i], y < data[m] PROVE y <= Item(s)
        <5>1. y <= data[c] /\ y # data[c] /\ y \in Nat
          BY <2>2, <2>4, <3>3, <4>1, <4>2
        <5> QED
          BY <2>2, <2>4, <4>1, <5>1
      <4> QED
        BY <2>4, <3>3, <4>1, <4>2
    <3> QED
      BY <3>2, <3>3
  <2>6. Way(i, S)'
    <3>1. (Item(Place(i)))' = Item(current[i]) /\ Place(i)' \in S \cup {Null}
      BY <1>2, <1>4, <1>6, <2>4 DEF Item
    <3>2. listed' \subseteq S /\ at' = at
      BY <2>4
    <3> QED
      BY <2>2, <2>4, <2>5, <3>1, <3>2 DEF Way
  <2> QED
    BY <2>3, <2>6
<1> QED
  BY <1>3, <1>5, <1>6 DEF Ways, iters

LEMMA RemoveIInv == ASSUME IInv, Remove PROVE IInv'
<1> USE ListAssumption
<1>1. TypeOK /\ Loop /\ Calls /\ Shape /\ op = "remove" /\ ~Freeing
  BY DEF IInv, Remove, RemoveNext, RemoveUnfound, RemoveFirst, RemoveMiddle, Freeing
<1>2. CASE RemoveNext
  <2>1. curr # Null /\ curr \in listed /\ next[curr] \in listed \cup {Null}
    BY <1>1, <1>2, Basics DEF RemoveNext, Loop, TypeOK
  <2>2. /\ prev' = curr /\ curr' = next[curr] /\ op' = op /\ obj' = obj /\ list' = list
        /\ UNCHANGED <<first, memory, iters, who, answer, past>>
    BY <1>2 DEF RemoveNext, StepOn, Onward
  <2>3. TypeOK'
    BY <1>1, <2>1, <2>2 DEF TypeOK, memory, iters, past
  <2>4. Loop' /\ Calls' /\ ~Freeing'
    BY <1>1, <2>1, <2>2 DEF Loop, Calls, memory, iters, past, Freeing, TypeOK
  <2> QED
    BY <1>1, <2>1, <2>2, <2>3, <2>4, QuietIInv
<1>3. CASE RemoveUnfound
  <2>1. /\ op' = "idle" /\ obj' = NoItem /\ who' = NoIterator /\ curr' = Null
        /\ prev' = Null /\ UNCHANGED <<list, first, memory, iters, past>>
    BY <1>3 DEF RemoveUnfound, Return
  <2>2. TypeOK'
    BY <1>1, <2>1 DEF TypeOK, memory, iters, past, Ops
  <2>3. Loop' /\ Calls' /\ ~Freeing'
    BY <1>1, <2>1 DEF Loop, Calls, memory, iters, past, Freeing
  <2> QED
    BY <1>1, <2>1, <2>2, <2>3, QuietIInv
<1>4. CASE RemoveFirst
  <2>1. /\ op' = "idle" /\ obj' = NoItem /\ who' = NoIterator /\ curr' = Null
        /\ prev' = Null /\ UNCHANGED <<list, iters>> /\ DropFirst
    BY <1>4 DEF RemoveFirst, Return
  <2>2. first # Null
    BY <1>1, <1>4 DEF RemoveFirst, Loop
  <2>3. Loop' /\ Calls' /\ ~Freeing' /\ op' \in Ops
    BY <1>1, <2>1 DEF Loop, Calls, Freeing, Ops
  <2> QED
    BY <1>1, <2>1, <2>2, <2>3, DropIInv
<1>5. CASE RemoveMiddle
  <2>1. PICK p, c, s : Bypassing(p, c, s)
    BY <1>5, BypassFacts
  <2>2. /\ op' = "freeRemoved" /\ curr' = c /\ prev' = p /\ UNCHANGED <<list, iters, obj, who>>
        /\ p \in listed' /\ c \in nodes' /\ listed' \subseteq nodes' /\ first' = first
        /\ c \in Nodes /\ p \in Nodes
    BY <1>1, <2>1 DEF Bypassing, TypeOK
  <2>3. TypeOK'
    <3>1. /\ next' \in [Nodes -> Nodes \cup {Null}] /\ ptrCount' \in [Nodes -> Nat]
      BY <1>1, <1>5 DEF RemoveMiddle, Bridged, TypeOK
    <3>2. \A n \in nodes' : data'[n] \in Items /\ ptrCount'[n] > 0
      BY <1>1, <2>1 DEF Bypassing, TypeOK
    <3>3. /\ nodes' \subseteq Nodes /\ data' \in [Nodes -> Items \cup {NoItem}]
          /\ at' \in [Iterators -> Items \cup {NoItem}] /\ due' \in [Iterators -> SUBSET Items]
      BY <1>1, <2>1 DEF Bypassing, TypeOK
    <3> QED
      BY <1>1, <2>2, <3>1, <3>2, <3>3 DEF TypeOK, iters, Ops
  <2>4. Shape' /\ CountsAreExact' /\ InPlace' /\ ItemStays' /\ Ways'
    BY <1>1, <2>1, <2>3, BypassShape, BypassCounts, BypassWays
  <2>5. Loop' /\ Calls'
    BY <1>1, <2>2 DEF Loop, Calls, Freeing
  <2> QED
    BY <2>3, <2>4, <2>5 DEF IInv
<1> QED
  BY <1>2, <1>3, <1>4, <1>5 DEF Remove

LEMMA DestroyIInv == ASSUME IInv, Destroy PROVE IInv'
<1> USE ListAssumption
<1>1. TypeOK /\ Loop /\ Calls /\ Shape /\ op = "destroy" /\ ~Freeing
  BY DEF IInv, Destroy, DestroyNext, DestroyEnd, Freeing
<1>2. CASE DestroyNext
  <2>1. first # Null /\ DropFirst /\ UNCHANGED <<list, iters, op, obj, who, curr, prev>>
    BY <1>2 DEF DestroyNext, call
  <2>2. prev' \in nodes' \cup {Null}
    <3>1. prev = Null
      BY <1>1 DEF Calls
    <3> QED
      BY <2>1, <3>1
  <2>3. Loop' /\ Calls' /\ ~Freeing'
    BY <1>1, <2>1, <2>2 DEF Loop, Calls, Freeing
  <2> QED
    BY <1>1, <2>1, <2>3, DropIInv DEF TypeOK
<1>3. CASE DestroyEnd
  <2>1. /\ op' = "idle" /\ obj' = NoItem /\ who' = NoIterator /\ curr' = Null /\ list' = FALSE
        /\ prev' = Null /\ first = Null /\ UNCHANGED <<first, memory, iters, past>>
    BY <1>3 DEF DestroyEnd, Return
  <2>2. TypeOK'
    BY <1>1, <2>1 DEF TypeOK, memory, iters, past, Ops
  <2>3. Loop' /\ Calls' /\ ~Freeing'
    BY <1>1, <2>1 DEF Loop, Calls, memory, iters, past, Freeing
  <2> QED
    BY <1>1, <2>1, <2>2, <2>3, QuietIInv
<1> QED
  BY <1>2, <1>3 DEF Destroy

(* The calls that start.                                                   *)
LEMMA CallIInv ==
    ASSUME IInv, \/ SLCreate \/ CallDestroy
                 \/ \E x \in Items : CallInsert(x) \/ CallRemove(x)
    PROVE  IInv'
<1> USE ListAssumption
<1>1. TypeOK /\ Loop /\ Calls /\ Shape /\ op = "idle" /\ ~Freeing
  BY DEF IInv, SLCreate, CallDestroy, CallInsert, CallRemove, Call, Freeing
<1>2. CASE SLCreate
  <2>1. list' = TRUE /\ first' = Null /\ UNCHANGED <<memory, iters, call, past>> /\ first = Null
    BY <1>1, <1>2 DEF SLCreate, Calls
  <2>2. TypeOK'
    BY <1>1, <2>1 DEF TypeOK, memory, iters, past, call
  <2>3. Loop' /\ Calls' /\ ~Freeing'
    BY <1>1, <2>1 DEF Loop, Calls, memory, iters, past, call, Freeing
  <2> QED
    BY <1>1, <2>1, <2>2, <2>3, QuietIInv
<1>3. CASE CallDestroy
  <2>1. /\ op' = "destroy" /\ obj' = NoItem /\ who' = NoIterator /\ curr' = Null /\ list
        /\ prev' = Null /\ UNCHANGED <<list, first, memory, iters, past>>
    BY <1>3 DEF CallDestroy, Call
  <2>2. TypeOK'
    BY <1>1, <2>1 DEF TypeOK, memory, iters, past, Ops
  <2>3. Loop' /\ Calls' /\ ~Freeing'
    BY <1>1, <2>1 DEF Loop, Calls, memory, iters, past, Freeing
  <2> QED
    BY <1>1, <2>1, <2>2, <2>3, QuietIInv
<1>4. ASSUME NEW x \in Items, CallInsert(x) \/ CallRemove(x) PROVE IInv'
  <2>1. /\ op' \in {"insert", "remove"} /\ obj' = x /\ who' = NoIterator /\ curr' = first
        /\ prev' = Null /\ list /\ UNCHANGED <<list, first, memory, iters, past>>
    BY <1>4 DEF CallInsert, CallRemove, Call
  <2>2. TypeOK'
    BY <1>1, <2>1 DEF TypeOK, memory, iters, past, Ops
  <2>3. Loop' /\ Calls' /\ ~Freeing'
    BY <1>1, <2>1 DEF Loop, Calls, memory, iters, past, Freeing
  <2> QED
    BY <1>1, <2>1, <2>2, <2>3, QuietIInv
<1> QED
  BY <1>2, <1>3, <1>4

-----------------------------------------------------------------------------
(* Iterators                                                               *)

(* A step that leaves the nodes, the list and all iterators but i alone.   *)
LEMMA OthersStay ==
    ASSUME IInv, TypeOK', UNCHANGED <<first, nodes, data, next, listed>>, NEW i,
           \A j \in open' : j # i =>
                /\ j \in open /\ ~(Freeing /\ j = who) /\ ~(Freeing' /\ j = who')
                /\ current'[j] = current[j] /\ at'[j] = at[j] /\ due'[j] = due[j],
           i \in open' =>
                /\ Place(i)' \in nodes \cup {Null}
                /\ ~(Freeing' /\ i = who') => (Item(current[i]))' = at'[i]
                /\ due'[i] \subseteq {data[n] : n \in listed}
                /\ \E S \in SUBSET nodes : Way(i, S)'
    PROVE  Shape' /\ InPlace' /\ ItemStays' /\ Ways'
<1>1. TypeOK /\ Shape /\ InPlace /\ ItemStays /\ Ways
  BY DEF IInv
<1>2. Shape'
  BY <1>1 DEF Shape, ListIsSorted, Linked, Next1
<1>3. ASSUME NEW j \in open', j # i
      PROVE  /\ Place(j)' = current[j] /\ Place(j) = current[j] /\ j \in open
             /\ (Item(current[j]))' = Item(current[j])
             /\ at'[j] = at[j] /\ due'[j] = due[j]
  BY <1>3 DEF Place, Item
<1>4. InPlace'
  BY <1>1, <1>3 DEF InPlace
<1>5. ItemStays'
  BY <1>1, <1>3 DEF ItemStays
<1>6. ASSUME NEW j \in open'
      PROVE  /\ due'[j] \subseteq {data'[n] : n \in listed'}
             /\ \E S \in SUBSET nodes' : Way(j, S)'
  <2>1. CASE j = i
    BY <2>1
  <2>2. CASE j # i
    <3>1. /\ due[j] \subseteq {data[n] : n \in listed}
          /\ \E S \in SUBSET nodes : Way(j, S)
      BY <1>1, <1>3, <2>2 DEF Ways
    <3>2. ASSUME NEW S \in SUBSET nodes, Way(j, S) PROVE Way(j, S)'
      <4>1. \A n : Item(n)' = Item(n)
        BY DEF Item
      <4>2. (Item(Place(j)))' = Item(Place(j)) /\ \A n : (Item(next[n]))' = Item(next[n])
        BY <1>3, <2>2 DEF Item
      <4> QED
        BY <1>3, <2>2, <3>2, <4>2 DEF Way
    <3> QED
      BY <1>3, <2>2, <3>1, <3>2
  <2> QED
    BY <2>1, <2>2
<1> QED
  BY <1>2, <1>4, <1>5, <1>6 DEF Ways

(* A new iterator may come to all that is listed, and no more.             *)
LEMMA CreateIInv ==
    ASSUME IInv, NEW i \in Iterators, SLCreateIterator(i) PROVE IInv'
<1> USE ListAssumption
<1>1. TypeOK /\ Loop /\ Calls /\ Shape /\ CountsAreExact /\ InPlace /\ ItemStays /\ Ways
  BY DEF IInv
<1>2. /\ op = "idle" /\ list /\ i \notin open /\ ~Freeing /\ ~Freeing'
      /\ open' = open \cup {i}
      /\ current' = [current EXCEPT ![i] = first]
      /\ ptrCount' = [m \in Nodes |-> IF m = first THEN ptrCount[m] + 1 ELSE ptrCount[m]]
      /\ at' = [at EXCEPT ![i] = Item(first)]
      /\ due' = [due EXCEPT ![i] = {data[n] : n \in listed} \ {Item(first)}]
      /\ UNCHANGED <<list, first, nodes, data, next, call, listed>>
  BY DEF SLCreateIterator, Counted, Freeing, call
<1>3. Item(first) \in Items \cup {NoItem} /\ \A n \in listed : data[n] \in Items
  BY <1>1 DEF Item, TypeOK, Shape, ListIsSorted
<1>4. TypeOK'
  <2>1. ptrCount' \in [Nodes -> Nat] /\ \A n \in nodes : ptrCount'[n] > 0
    BY <1>1, <1>2 DEF TypeOK
  <2>2. due' \in [Iterators -> SUBSET Items] /\ at' \in [Iterators -> Items \cup {NoItem}]
    BY <1>1, <1>2, <1>3 DEF TypeOK
  <2> QED
    BY <1>1, <1>2, <2>1, <2>2 DEF TypeOK, call
<1>5. Loop' /\ Calls'
  BY <1>1, <1>2 DEF Loop, Calls, call, Freeing
<1>6. CountsAreExact'
  <2>1. \A m \in nodes : ptrCount[m] = Cardinality(Preds(m)) + Cardinality(Holders(m)) + Ends(m)
    BY <1>1, Counts
  <2>2. ASSUME NEW m \in nodes'
        PROVE  ptrCount'[m] = Cardinality(Preds(m)') + Cardinality(Holders(m)') + Ends(m)'
    <3>1. /\ IsFiniteSet(Holders(m)) /\ Cardinality(Preds(m)) \in Nat
          /\ Cardinality(Holders(m)) \in Nat /\ Ends(m) \in Nat
      BY <1>1, Pointing
    <3>2. Preds(m)' = Preds(m) /\ Ends(m)' = Ends(m) /\ m \in nodes /\ m \in Nodes
      BY <1>1, <1>2 DEF Preds, Ends, TypeOK
    <3>3. Holders(m)' = IF m = first THEN Holders(m) \cup {i} ELSE Holders(m)
      BY <1>1, <1>2 DEF Holders, TypeOK
    <3>4. i \notin Holders(m)
      BY <1>2 DEF Holders
    <3>5. m = first => Cardinality(Holders(m)') = Cardinality(Holders(m)) + 1
      BY <3>1, <3>3, <3>4, Counting
    <3>6. ptrCount'[m] = IF m = first THEN ptrCount[m] + 1 ELSE ptrCount[m]
      BY <1>2, <3>2
    <3> QED
      BY <2>1, <3>1, <3>2, <3>3, <3>5, <3>6
  <2> QED
    BY <1>4, <2>2, CountsNext
<1>7. /\ current'[i] = first /\ at'[i] = Item(first)
      /\ due'[i] = {data[n] : n \in listed} \ {Item(first)}
      /\ \A j \in open' : j # i =>
            j \in open /\ current'[j] = current[j] /\ at'[j] = at[j] /\ due'[j] = due[j]
  BY <1>1, <1>2 DEF TypeOK
<1>8. Way(i, listed)'
  <2>1. /\ Place(i)' = first /\ (Item(Place(i)))' = Item(first)
        /\ \A n : (Item(next[n]))' = Item(next[n])
    BY <1>2, <1>7 DEF Place, Item
  <2>2. \A y \in due'[i] : y < Item(first) /\ y <= Item(first)
    <3> SUFFICES ASSUME NEW n \in listed, data[n] # Item(first)
                 PROVE  data[n] < Item(first) /\ data[n] <= Item(first)
      BY <1>7
    <3>1. /\ first # Null /\ data[n] <= data[first] /\ data[n] \in Nat
          /\ data[first] \in Nat
      BY <1>1, Basics DEF TypeOK
    <3> QED
      BY <3>1 DEF Item
  <2>3. \A n \in listed : /\ next[n] \in listed \cup {Null}
                          /\ \A y \in due'[i] : y < data[n] => y <= Item(next[n])
    BY <1>1, <1>7, Basics
  <2>4. first \in listed \cup {Null}
    BY <1>1, Basics
  <2> QED
    BY <1>2, <1>7, <2>1, <2>2, <2>3, <2>4 DEF Way
<1>9. Shape' /\ InPlace' /\ ItemStays' /\ Ways'
  <2>1. first \in nodes \cup {Null} /\ listed \in SUBSET nodes
    BY <1>1, Basics DEF TypeOK
  <2>2. Place(i)' = first /\ (Item(current[i]))' = at'[i]
    BY <1>2, <1>7 DEF Place, Item
  <2>3. due'[i] \subseteq {data[n] : n \in listed}
    BY <1>7
  <2> QED
    BY <1>2, <1>4, <1>7, <1>8, <2>1, <2>2, <2>3, OthersStay
<1> QED
  BY <1>4, <1>5, <1>6, <1>9 DEF IInv

(* The iterator goes on along its way, and passes nothing that is due.     *)
LEMMA NextSharedIInv ==
    ASSUME IInv, NEW i \in Iterators, NextShared(i) PROVE IInv'
<1> USE ListAssumption
<1>1. TypeOK /\ Loop /\ Calls /\ Shape /\ CountsAreExact /\ InPlace /\ ItemStays /\ Ways
  BY DEF IInv
<1>0. PICK c, succ : c = current[i] /\ succ = next[c]
  OBVIOUS
<1>2. /\ op = "idle" /\ i \in open /\ c # Null /\ ptrCount[c] # 1 /\ ~Freeing /\ ~Freeing'
      /\ current' = [current EXCEPT ![i] = succ]
      /\ ptrCount' = [n \in Nodes |->
                    IF n = c THEN ptrCount[n] - 1
                    ELSE IF n = succ THEN ptrCount[n] + 1
                    ELSE ptrCount[n]]
      /\ at' = [at EXCEPT ![i] = Item(succ)]
      /\ due' = [due EXCEPT ![i] = @ \ {Item(succ)}]
      /\ UNCHANGED <<list, first, nodes, data, next, open, call, listed>>
  BY <1>0 DEF NextShared, ReachedBy, Freeing, call
<1>3. /\ c \in nodes /\ succ \in nodes \cup {Null} /\ succ # c /\ data[c] \in Nat
      /\ Item(succ) < data[c] /\ Item(succ) \in Items \cup {NoItem} /\ NoItem = -1
      /\ Place(i) = c /\ at[i] = data[c]
  <2>1. c \in nodes /\ Place(i) = c /\ at[i] = data[c]
    BY <1>0, <1>1, <1>2 DEF InPlace, Place, ItemStays, Item
  <2> QED
    BY <1>0, <1>1, <2>1, Basics DEF Item, TypeOK
<1>4. TypeOK'
  <2>1. ptrCount' \in [Nodes -> Nat] /\ \A n \in nodes : ptrCount'[n] > 0
    <3> SUFFICES ASSUME NEW n \in Nodes
                 PROVE  ptrCount'[n] \in Nat /\ (n \in nodes => ptrCount'[n] > 0)
      BY <1>1, <1>2 DEF TypeOK
    <3>1. ptrCount[n] \in Nat /\ (n \in nodes => ptrCount[n] > 0)
      BY <1>1 DEF TypeOK
    <3> QED
      BY <1>2, <1>3, <3>1
  <2>2. due' \in [Iterators -> SUBSET Items] /\ at' \in [Iterators -> Items \cup {NoItem}]
    BY <1>1, <1>2, <1>3 DEF TypeOK
  <2>3. current' \in [Iterators -> Nodes \cup {Null}]
    BY <1>1, <1>2, <1>3 DEF TypeOK
  <2> QED
    BY <1>1, <1>2, <2>1, <2>2, <2>3 DEF TypeOK, call
<1>5. Loop' /\ Calls'
  BY <1>1, <1>2 DEF Loop, Calls, call, Freeing
<1>6. CountsAreExact'
  <2>1. \A m \in nodes : ptrCount[m] = Cardinality(Preds(m)) + Cardinality(Holders(m)) + Ends(m)
    BY <1>1, Counts
  <2>2. ASSUME NEW m \in nodes'
        PROVE  ptrCount'[m] = Cardinality(Preds(m)') + Cardinality(Holders(m)') + Ends(m)'
    <3>1. /\ IsFiniteSet(Holders(m)) /\ Cardinality(Preds(m)) \in Nat
          /\ Cardinality(Holders(m)) \in Nat /\ Ends(m) \in Nat
      BY <1>1, Pointing
    <3>2. Preds(m)' = Preds(m) /\ Ends(m)' = Ends(m) /\ m \in nodes /\ m \in Nodes
      BY <1>1, <1>2 DEF Preds, Ends, TypeOK
    <3>3. Holders(m)' = IF m = succ THEN Holders(m) \cup {i} ELSE Holders(m) \ {i}
      BY <1>1, <1>2 DEF Holders, TypeOK
    <3>4. i \in Holders(m) <=> m = c
      BY <1>0, <1>2 DEF Holders
    <3>6. ptrCount'[m] = IF m = c THEN ptrCount[m] - 1
                         ELSE IF m = succ THEN ptrCount[m] + 1 ELSE ptrCount[m]
      BY <1>2, <3>2
    <3>7. CASE m = c
      <4>1. Cardinality(Holders(m)') = Cardinality(Holders(m)) - 1
        BY <1>3, <3>1, <3>3, <3>4, <3>7, Counting
      <4> QED
        BY <2>1, <3>1, <3>2, <3>6, <3>7, <4>1
    <3>8. CASE m = succ
      <4>1. Cardinality(Holders(m)') = Cardinality(Holders(m)) + 1
        BY <1>3, <3>1, <3>3, <3>4, <3>8, Counting
      <4> QED
        BY <1>3, <2>1, <3>1, <3>2, <3>6, <3>8, <4>1
    <3>9. CASE m # c /\ m # succ
      <4>1. Holders(m)' = Holders(m)
        BY <3>3, <3>4, <3>9
      <4> QED
        BY <2>1, <3>1, <3>2, <3>6, <3>9, <4>1
    <3> QED
      BY <3>7, <3>8, <3>9
  <2> QED
    BY <1>4, <2>2, CountsNext
<1>7. /\ current'[i] = succ /\ at'[i] = Item(succ) /\ due'[i] = due[i] \ {Item(succ)}
      /\ \A j \in open' : j # i =>
            j \in open /\ current'[j] = current[j] /\ at'[j] = at[j] /\ due'[j] = due[j]
  BY <1>1, <1>2 DEF TypeOK
<1>8. /\ due[i] \subseteq {data[n] : n \in listed} /\ due[i] \subseteq Nat
      /\ \E S \in SUBSET nodes : Way(i, S)
  BY <1>1, <1>2 DEF Ways, TypeOK
<1>9. ASSUME NEW S \in SUBSET nodes, Way(i, S) PROVE Way(i, S)'
  <2>1. /\ Place(i)' = succ /\ (Item(Place(i)))' = Item(succ)
        /\ \A n : (Item(next[n]))' = Item(next[n])
    BY <1>2, <1>7 DEF Place, Item
  <2>2. /\ listed \subseteq S /\ c \in S
        /\ \A n \in S : /\ next[n] \in S \cup {Null}
                        /\ \A y \in due[i] : y < data[n] => y <= Item(next[n])
                        /\ n \notin listed => data[n] \notin due[i]
        /\ \A y \in due[i] : y < data[c]
    BY <1>2, <1>3, <1>9 DEF Way
  <2>3. \A y \in due'[i] : y < Item(succ) /\ y <= Item(succ)
    <3> SUFFICES ASSUME NEW y \in due[i], y # Item(succ)
                 PROVE  y < Item(succ) /\ y <= Item(succ)
      BY <1>7
    <3>1. y < data[c] /\ c \in S /\ succ = next[c]
      BY <1>0, <2>2
    <3>2. y <= Item(succ)
      BY <2>2, <3>1
    <3>3. y \in Nat
      BY <1>8
    <3>4. Item(succ) \in Int
      <4>0. Items \subseteq Int
        OBVIOUS
      <4>1. CASE Item(succ) \in Items
        BY ONLY <4>0, <4>1
      <4>2. CASE Item(succ) = -1
        BY <4>2
      <4> QED
        BY <1>3, <4>1, <4>2
    <3> QED
      BY <3>2, <3>3, <3>4
  <2> QED
    BY <1>0, <1>2, <1>7, <2>1, <2>2, <2>3 DEF Way
<1>10. Shape' /\ InPlace' /\ ItemStays' /\ Ways'
  <2>2. Place(i)' = succ /\ (Item(current[i]))' = at'[i]
    BY <1>2, <1>7 DEF Place, Item
  <2>3. due'[i] \subseteq {data[n] : n \in listed}
    BY <1>7, <1>8
  <2>4. \E S \in SUBSET nodes : Way(i, S)'
    BY <1>8, <1>9
  <2> QED
    BY <1>2, <1>3, <1>4, <1>7, <2>2, <2>3, <2>4, OthersStay
<1> QED
  BY <1>4, <1>5, <1>6, <1>10 DEF IInv

(* nodeDestroy is called for an iterator's node: its pointer counts at     *)
(* curr from now on.                                                       *)
LEMMA CallFreeIInv ==
    ASSUME IInv, NEW i \in Iterators, CallNextLast(i) \/ CallDestroyIterator(i)
    PROVE  IInv'
<1> USE ListAssumption
<1>1. TypeOK /\ Loop /\ Calls /\ Shape /\ CountsAreExact /\ InPlace /\ ItemStays /\ Ways
  BY DEF IInv
<1>2. /\ op = "idle" /\ i \in open /\ ~Freeing /\ Freeing'
      /\ op' \in {"freePassed", "freeClosed"}
      /\ op' = "freePassed" => current[i] # Null /\ ptrCount[current[i]] = 1
      /\ obj' = NoItem /\ who' = i /\ curr' = current[i] /\ prev' = Null
      /\ UNCHANGED <<list, first, memory, iters, past>>
  BY DEF CallNextLast, CallDestroyIterator, Call, Freeing
<1> USE DEF memory, iters, past
<1>3. /\ current[i] \in nodes \cup {Null} /\ Place(i) = current[i]
      /\ Item(current[i]) = at[i]
  BY <1>1, <1>2 DEF InPlace, Place, ItemStays
<1>4. TypeOK'
  BY <1>1, <1>2 DEF TypeOK, Ops
<1>5. Loop' /\ Calls'
  <2>1. op' = "freePassed" => data[current[i]] = at[i]
    BY <1>2, <1>3 DEF Item
  <2> QED
    BY <1>1, <1>2, <1>3, <2>1 DEF Loop, Calls, Freeing
<1>6. CountsAreExact'
  <2>1. \A m \in nodes : ptrCount[m] = Cardinality(Preds(m)) + Cardinality(Holders(m)) + Ends(m)
    BY <1>1, Counts
  <2>2. ASSUME NEW m \in nodes'
        PROVE  ptrCount'[m] = Cardinality(Preds(m)') + Cardinality(Holders(m)') + Ends(m)'
    <3>1. /\ IsFiniteSet(Holders(m)) /\ Cardinality(Preds(m)) \in Nat
          /\ Cardinality(Holders(m)) \in Nat /\ Ends(m) \in Nat
      BY <1>1, Pointing
    <3>2. Preds(m)' = Preds(m) /\ m \in nodes
      BY <1>2 DEF Preds
    <3>3. /\ Holders(m)' = Holders(m) \ {i}
          /\ i \in Holders(m) <=> m = current[i]
          /\ Ends(m)' = Ends(m) + IF m = current[i] THEN 1 ELSE 0
      BY <1>2 DEF Holders, Ends
    <3>4. CASE m = current[i]
      <4>1. Cardinality(Holders(m)') = Cardinality(Holders(m)) - 1
        BY <3>1, <3>3, <3>4, Counting
      <4> QED
        BY <1>2, <2>1, <3>1, <3>2, <3>3, <3>4, <4>1
    <3>5. CASE m # current[i]
      <4>1. Holders(m)' = Holders(m) /\ Ends(m)' = Ends(m)
        BY <3>1, <3>3, <3>5
      <4> QED
        BY <1>2, <2>1, <3>2, <4>1
    <3> QED
      BY <3>4, <3>5
  <2> QED
    BY <1>4, <2>2, CountsNext
<1>7. ASSUME NEW S \in SUBSET nodes, Way(i, S) PROVE Way(i, S)'
  <2>1. /\ Place(i)' = Place(i) /\ (Item(Place(i)))' = Item(Place(i))
        /\ \A n : (Item(next[n]))' = Item(next[n])
    BY <1>2, <1>3 DEF Place, Item
  <2> QED
    BY <1>2, <1>7, <2>1 DEF Way
<1>8. Shape' /\ InPlace' /\ ItemStays' /\ Ways'
  <2>1. Place(i)' = current[i]
    BY <1>2 DEF Place
  <2>2. /\ due'[i] \subseteq {data[n] : n \in listed}
        /\ \E S \in SUBSET nodes : Way(i, S)'
    BY <1>1, <1>2, <1>7 DEF Ways
  <2> QED
    BY <1>2, <1>3, <1>4, <2>1, <2>2, OthersStay
<1> QED
  BY <1>4, <1>5, <1>6, <1>8 DEF IInv

-----------------------------------------------------------------------------
(* nodeDestroy                                                             *)

(* What FreeOne makes of the nodes: c is freed, and s is next.             *)
Clearing(c, s) ==
    /\ Freeing /\ Freeing' /\ c = curr /\ c \in nodes /\ s = next[c] /\ s # c
    /\ curr' = s /\ s \in nodes' \cup {Null}
    /\ nodes' = nodes \ {c} /\ c \notin listed /\ first # c
    /\ \A n \in nodes' : /\ data'[n] = data[n] /\ next'[n] = next[n]
                         /\ ptrCount'[n] = ptrCount[n]
                         /\ next[n] \in nodes' \cup {Null}
    /\ \A j \in open : current[j] = c => j = who
    /\ UNCHANGED <<list, first, iters, op, obj, who, prev, answer, past>>

LEMMA ClearFacts ==
    ASSUME IInv, FreeOne
    PROVE  \E c, s : Clearing(c, s)
<1>0. PICK c, s : c = curr /\ s = next[c]
  OBVIOUS
<1>1. TypeOK /\ Shape /\ Calls
  BY DEF IInv
<1>2. /\ Freeing /\ c # Null /\ ptrCount[c] = 1
      /\ nodes' = nodes \ {c}
      /\ data' = [data EXCEPT ![c] = NoItem]
      /\ next' = [next EXCEPT ![c] = Null]
      /\ ptrCount' = [ptrCount EXCEPT ![c] = 0]
      /\ curr' = s
      /\ UNCHANGED <<list, first, iters, op, obj, who, prev, answer, past>>
  BY <1>0 DEF FreeOne, Free, Further
<1>3. c \in nodes /\ s \in nodes \cup {Null} /\ s # c /\ Null \notin nodes
  BY <1>0, <1>1, <1>2, Basics DEF Calls
<1>4. /\ \A m \in nodes : next[m] # c
      /\ \A j \in open : current[j] = c => j = who
      /\ first # c
  BY <1>0, <1>2, <1>3, Alone
<1>5. c \notin listed /\ listed \subseteq nodes
  BY <1>1, <1>4 DEF Shape, Linked, TypeOK
<1>6. \A n \in nodes' : /\ data'[n] = data[n] /\ next'[n] = next[n]
                        /\ ptrCount'[n] = ptrCount[n]
                        /\ next[n] \in nodes' \cup {Null}
  BY <1>1, <1>2, <1>4, Basics DEF TypeOK
<1>7. Freeing' /\ s \in nodes' \cup {Null}
  BY <1>2, <1>3 DEF Freeing
<1>8. Clearing(c, s)
  BY <1>0, <1>2, <1>3, <1>4, <1>5, <1>6, <1>7 DEF Clearing
<1> QED
  BY <1>8

LEMMA ClearShape ==
    ASSUME IInv, TypeOK', NEW c, NEW s, Clearing(c, s)
    PROVE  Shape' /\ Calls'
<1> USE DEF Clearing
<1>1. TypeOK /\ Shape /\ Calls
  BY DEF IInv
<1>2. /\ NoItem = -1 /\ Null \notin nodes /\ listed \subseteq nodes
      /\ \A m \in nodes : data[m] \in Nat /\ Item(next[m]) < data[m]
      /\ \A m \in nodes : next[m] # Null => next[m] \in nodes /\ data[next[m]] < data[m]
      /\ \A m \in listed : next[m] \in listed \cup {Null}
      /\ \A m, k \in listed : data[k] < data[m] => data[k] <= Item(next[m])
      /\ \A m, k \in listed : data[k] = data[m] => k = m
      /\ first \in listed \cup {Null} /\ (first = Null => listed = {})
      /\ \A m \in listed : first # Null /\ data[m] <= data[first]
  BY <1>1, Basics DEF TypeOK
<1>3. listed' = listed /\ first' = first /\ listed \subseteq nodes' /\ nodes' \subseteq nodes
  BY <1>2 DEF past
<1>4. \A n \in nodes' : (Item(next[n]))' = Item(next[n])
  <2> SUFFICES ASSUME NEW n \in nodes' PROVE (Item(next[n]))' = Item(next[n])
    OBVIOUS
  <2>1. (Item(next[n]))' = IF next'[n] = Null THEN NoItem ELSE data'[next'[n]]
    BY DEF Item
  <2> QED
    BY <2>1 DEF Item
<1>5. Linked'
  BY <1>1, <1>3 DEF Shape, Linked
<1>6. ListIsSorted'
  <2>1. \A n \in nodes' : data'[n] = data[n] /\ next'[n] = next[n] /\ next[n] \in nodes' \cup {Null}
    OBVIOUS
  <2>2. Null \notin nodes' /\ \A n \in nodes' : data'[n] \in Nat
    BY <1>2, <1>3
  <2>3. \A n, m \in listed' : data'[m] = data'[n] => m = n
    BY <1>2, <1>3
  <2>4. \A n \in listed' : next'[n] \in listed' \cup {Null}
    BY <1>2, <1>3
  <2>5. \A n, m \in listed' : data'[m] < data'[n] => data'[m] <= (Item(next[n]))'
    BY <1>2, <1>3, <1>4
  <2>6. \A n \in nodes' : next'[n] # Null => next'[n] \in nodes' /\ data'[next'[n]] < data'[n]
    BY <1>2, <1>3
  <2>7. /\ first' = Null <=> listed' = {}
        /\ first' # Null => first' \in listed' /\ \A m \in listed' : data'[m] <= data'[first']
    BY <1>2, <1>3
  <2> HIDE DEF Clearing
  <2> QED
    BY <1>2, <1>3, <2>2, <2>3, <2>4, <2>5, <2>6, <2>7, SortedBy
<1>7. op = "freePassed" => (Item(curr))' < at'[who']
  <2> SUFFICES ASSUME op = "freePassed" PROVE (Item(curr))' < at'[who']
    OBVIOUS
  <2>1. (Item(curr))' = Item(s) /\ at'[who'] = at[who]
    BY DEF Item, past
  <2>2. Item(c) = data[c] /\ data[c] \in Nat /\ Item(s) < data[c]
    BY <1>2 DEF Item
  <2>3. data[c] <= at[who]
    <3>1. who \in open /\ (Item(c) < at[who] \/ data[c] = at[who])
      BY <1>1 DEF Calls
    <3>2. at[who] \in Items \cup {NoItem}
      BY <1>1, <3>1 DEF TypeOK
    <3>3. CASE at[who] \in Items
      <4>1. at[who] \in Nat
        BY <3>3, ListAssumption
      <4> QED
        BY <2>2, <3>1, <4>1
    <3>4. CASE at[who] = -1
      BY <2>2, <3>1, <3>4
    <3> QED
      BY <1>2, <3>2, <3>3, <3>4
  <2>4. Item(s) \in Int /\ at[who] \in Int
    <3>1. who \in Iterators /\ s \in nodes \cup {Null}
      BY <1>1, <1>3 DEF Calls, TypeOK
    <3>2. Item(s) \in Int
      BY <1>2, <3>1 DEF Item
    <3>3. Items \cup {NoItem} \subseteq Int
      BY <1>2, ListAssumption
    <3>4. at[who] \in Items \cup {NoItem}
      BY <1>1, <3>1 DEF TypeOK
    <3> QED
      BY ONLY <3>2, <3>3, <3>4
  <2> QED
    BY ONLY <2>1, <2>2, <2>3, <2>4
<1>8. Calls'
  <2>1. /\ UNCHANGED <<list, first, op, who, prev, listed, open>>
        /\ Freeing /\ curr' \in nodes' \cup {Null}
    BY DEF iters, past
  <2>2. op \notin {"idle", "destroy"}
    BY <2>1 DEF Freeing
  <2> HIDE DEF Clearing
  <2> QED
    BY <1>1, <1>7, <2>1, <2>2 DEF Calls
<1> QED
  BY <1>5, <1>6, <1>8 DEF Shape

(* The pointer that went with the freed node is the next to be given up.   *)
LEMMA ClearCounts ==
    ASSUME IInv, TypeOK', NEW c, NEW s, Clearing(c, s)
    PROVE  CountsAreExact'
<1> USE DEF Clearing
<1>1. TypeOK /\ Shape /\ CountsAreExact
  BY DEF IInv
<1>2. Null \notin nodes
  BY <1>1, Basics
<1>3. \A m \in nodes : ptrCount[m] = Cardinality(Preds(m)) + Cardinality(Holders(m)) + Ends(m)
  BY <1>1, Counts
<1>4. ASSUME NEW m \in nodes'
      PROVE  ptrCount'[m] = Cardinality(Preds(m)') + Cardinality(Holders(m)') + Ends(m)'
  <2>1. /\ IsFiniteSet(Preds(m)) /\ Cardinality(Preds(m)) \in Nat
        /\ Cardinality(Holders(m)) \in Nat /\ Ends(m) \in Nat
    BY <1>1, Pointing
  <2>2. Holders(m)' = Holders(m) /\ ptrCount'[m] = ptrCount[m] /\ m \in nodes /\ m # c
    BY DEF Holders, iters
  <2>3. Preds(m)' = Preds(m) \ {c}
    BY DEF Preds
  <2>4. CASE m = s
    <3>1. c \in Preds(m)
      BY <2>4 DEF Preds
    <3>2. Cardinality(Preds(m)') = Cardinality(Preds(m)) - 1
      BY <2>1, <2>3, <3>1, Counting
    <3>3. Ends(m)' = Ends(m) + 1
      BY <2>2, <2>4 DEF Ends
    <3> QED
      BY <1>3, <2>1, <2>2, <3>2, <3>3
  <2>5. CASE m # s
    <3>1. Preds(m)' = Preds(m)
      BY <2>3, <2>5 DEF Preds
    <3>2. Ends(m)' = Ends(m)
      BY <2>2, <2>5 DEF Ends
    <3> QED
      BY <1>3, <2>2, <3>1, <3>2
  <2> QED
    BY <2>4, <2>5
<1> QED
  BY <1>4, CountsNext

LEMMA ClearWays ==
    ASSUME IInv, TypeOK', NEW c, NEW s, Clearing(c, s)
    PROVE  InPlace' /\ ItemStays' /\ Ways'
<1> USE DEF Clearing
<1>1. /\ TypeOK /\ Shape /\ InPlace /\ ItemStays /\ Ways
  BY DEF IInv
<1>2. /\ UNCHANGED <<open, current, who, listed, at, due>>
      /\ NoItem = -1 /\ Null \notin nodes /\ \A n \in nodes : data[n] \in Nat
  BY <1>1, Basics DEF iters, past
<1>3. ASSUME NEW i \in open
      PROVE  /\ i = who => Place(i) = c /\ Place(i)' = s
             /\ i # who => Place(i) = current[i] /\ Place(i)' = current[i]
             /\ Place(i)' \in nodes' \cup {Null}
             /\ i # who => (Item(current[i]))' = Item(current[i])
  <2>1. CASE i = who
    BY <1>2, <2>1 DEF Place
  <2>2. CASE i # who
    <3>1. Place(i) = current[i] /\ Place(i)' = current[i]
      BY <1>2, <2>2 DEF Place
    <3>2. current[i] \in nodes' \cup {Null}
      BY <1>1, <2>2, <3>1 DEF InPlace
    <3> QED
      BY <1>2, <2>2, <3>1, <3>2 DEF Item
  <2> QED
    BY <2>1, <2>2
<1>4. InPlace'
  BY <1>2, <1>3 DEF InPlace
<1>5. ItemStays'
  BY <1>1, <1>2, <1>3 DEF ItemStays
<1>6. ASSUME NEW i \in open
      PROVE  /\ due'[i] \subseteq {data'[m] : m \in listed'}
             /\ \E S \in SUBSET nodes' : Way(i, S)'
  <2>1. PICK S \in SUBSET nodes : Way(i, S)
    BY <1>1, <1>6 DEF Ways
  <2>2. due[i] \subseteq {data[m] : m \in listed} /\ due[i] \subseteq Nat /\ listed \subseteq nodes'
    BY <1>1, <1>6, ListAssumption DEF Ways, TypeOK
  <2>3. due'[i] \subseteq {data'[m] : m \in listed'}
    BY <1>2, <2>2
  <2>4. /\ listed \subseteq S /\ Place(i) \in S \cup {Null}
        /\ \A m \in S : /\ next[m] \in S \cup {Null}
                        /\ \A y \in due[i] : y < data[m] => y <= Item(next[m])
                        /\ m \notin listed => data[m] \notin due[i]
        /\ \A y \in due[i] : y < at[i] /\ y <= Item(Place(i))
    BY <2>1 DEF Way
  <2>5. PICK T : T = S \ {c}
    OBVIOUS
  <2>6. T \in SUBSET nodes' /\ listed \subseteq T /\ Place(i)' \in T \cup {Null}
    <3>1. T \subseteq nodes \ {c}
      BY <2>5
    <3>2. listed \subseteq T
      BY <2>4, <2>5
    <3>3. Place(i)' \in S \cup {Null}
      <4>1. CASE i = who
        BY <1>2, <1>3, <1>6, <2>4, <4>1
      <4>2. CASE i # who
        BY <1>3, <1>6, <2>4, <4>2
      <4> QED
        BY <4>1, <4>2
    <3>4. Place(i)' \in nodes' \cup {Null}
      BY <1>3, <1>6
    <3>5. Place(i)' \in T \cup {Null}
      BY <1>2, <2>5, <3>3, <3>4
    <3> QED
      BY <3>1, <3>2, <3>5
  <2>7. ASSUME NEW m \in T
        PROVE  /\ next'[m] \in T \cup {Null}
               /\ \A y \in due'[i] : y < data'[m] => y <= (Item(next[m]))'
               /\ m \notin listed' => data'[m] \notin due'[i]
    <3>1. (Item(next[m]))' = IF next'[m] = Null THEN NoItem ELSE data'[next'[m]]
      BY DEF Item
    <3>2. (Item(next[m]))' = Item(next[m])
      BY <2>5, <3>1 DEF Item
    <3> QED
      BY <1>2, <2>4, <2>5, <3>2
  <2>8. \A y \in due[i] : y <= (Item(Place(i)))'
    <3> SUFFICES ASSUME NEW y \in due[i] PROVE y <= (Item(Place(i)))'
      OBVIOUS
    <3>1. CASE i # who
      <4>1. (Item(Place(i)))' = Item(Place(i))
        BY <1>3, <1>6, <3>1 DEF Item
      <4> QED
        BY <2>4, <4>1
    <3>2. CASE i = who
      <4>1. (Item(Place(i)))' = Item(s)
        BY <1>3, <1>6, <3>2 DEF Item
      <4>2. y <= data[c] /\ data[c] # y /\ y \in Nat /\ data[c] \in Nat /\ c \in S
        BY <1>2, <1>3, <1>6, <2>2, <2>4, <3>2 DEF Item
      <4>3. y < data[c]
        BY <4>2
      <4> QED
        BY <2>4, <4>1, <4>2, <4>3
    <3> QED
      BY <3>1, <3>2
  <2>9. Way(i, T)'
    BY <1>2, <2>4, <2>6, <2>7, <2>8 DEF Way
  <2> QED
    BY <2>3, <2>6, <2>9
<1> QED
  BY <1>2, <1>4, <1>5, <1>6 DEF Ways

LEMMA FreeOneIInv == ASSUME IInv, FreeOne PROVE IInv'
<1>1. PICK c, s : Clearing(c, s)
  BY ClearFacts
<1>2. TypeOK
  BY DEF IInv
<1>3. TypeOK'
  <2>1. /\ nodes' \subseteq nodes /\ listed' \subseteq nodes' /\ curr' \in Nodes \cup {Null}
        /\ \A n \in nodes' : data'[n] \in Items /\ ptrCount'[n] > 0
        /\ UNCHANGED <<list, first, iters, op, obj, who, prev, past>>
    BY <1>1, <1>2 DEF Clearing, TypeOK, past
  <2>2. /\ data' \in [Nodes -> Items \cup {NoItem}]
        /\ next' \in [Nodes -> Nodes \cup {Null}]
        /\ ptrCount' \in [Nodes -> Nat]
    BY <1>2 DEF FreeOne, Free, TypeOK
  <2> QED
    BY <1>2, <2>1, <2>2 DEF TypeOK, iters, past
<1>4. Loop'
  BY <1>1 DEF Clearing, Freeing, Loop
<1> QED
  BY <1>1, <1>3, <1>4, ClearShape, ClearCounts, ClearWays DEF IInv

(* The last pointer given up was one of several: the node stays, and the   *)
(* pointer is the iterator's again or is gone.                             *)
LEMMA FreedIInv ==
    ASSUME IInv, FreedRemoved \/ FreedPassed \/ FreedClosed PROVE IInv'
<1> USE ListAssumption
<1>1. TypeOK /\ Loop /\ Calls /\ Shape /\ CountsAreExact /\ InPlace /\ ItemStays /\ Ways
  BY DEF IInv
<1>2. /\ op \in {"freeRemoved", "freePassed", "freeClosed"} /\ Freeing /\ ~Freeing' /\ Stops
      /\ op' = "idle" /\ obj' = NoItem /\ who' = NoIterator /\ curr' = Null /\ prev' = Null
      /\ UNCHANGED <<list, first, nodes, data, next, listed>>
  BY DEF FreedRemoved, FreedPassed, FreedClosed, Return, ReachedBy, Freeing, memory, iters, past
<1>3. Item(curr) \in Items \cup {NoItem} /\ curr \in nodes \cup {Null} /\ Null \notin nodes
  BY <1>1, <1>2, Basics DEF Item, Calls, TypeOK
<1>4. ASSUME NEW k \in {0, 1},
             ptrCount' = [n \in Nodes |-> IF n = curr THEN ptrCount[n] - k ELSE ptrCount[n]],
             TypeOK',
             \A m \in nodes : Cardinality(Holders(m)') =
                Cardinality(Holders(m)) + IF m = curr /\ k = 0 THEN 1 ELSE 0
      PROVE  CountsAreExact'
  <2>1. \A m \in nodes : ptrCount[m] = Cardinality(Preds(m)) + Cardinality(Holders(m)) + Ends(m)
    BY <1>1, Counts
  <2>2. ASSUME NEW m \in nodes'
        PROVE  ptrCount'[m] = Cardinality(Preds(m)') + Cardinality(Holders(m)') + Ends(m)'
    <3>1. /\ Cardinality(Preds(m)) \in Nat
          /\ Cardinality(Holders(m)) \in Nat /\ Ends(m) \in Nat
      BY <1>1, Pointing
    <3>2. Preds(m)' = Preds(m) /\ m \in nodes /\ m \in Nodes /\ ptrCount[m] \in Nat
      BY <1>1, <1>2 DEF Preds, TypeOK
    <3>3. Ends(m)' = IF m = curr THEN Ends(m) - 1 ELSE Ends(m)
      BY <1>2 DEF Ends
    <3>4. ptrCount'[m] = IF m = curr THEN ptrCount[m] - k ELSE ptrCount[m]
      BY <1>4, <3>2
    <3>5. CASE m # curr
      <4>1. Cardinality(Holders(m)') = Cardinality(Holders(m)) + 0
        BY <1>4, <3>2, <3>5
      <4> QED
        BY <2>1, <3>1, <3>2, <3>3, <3>4, <3>5, <4>1
    <3>6. CASE m = curr /\ k = 0
      <4>1. Cardinality(Holders(m)') = Cardinality(Holders(m)) + 1
        BY <1>4, <3>2, <3>6
      <4>2. ptrCount'[m] = ptrCount[m] /\ Ends(m)' = Ends(m) - 1
        BY <3>2, <3>3, <3>4, <3>6
      <4> QED
        BY <2>1, <3>1, <3>2, <4>1, <4>2
    <3>7. CASE m = curr /\ k = 1
      <4>1. Cardinality(Holders(m)') = Cardinality(Holders(m)) + 0
        BY <1>4, <3>2, <3>7
      <4>2. ptrCount'[m] = ptrCount[m] - 1 /\ Ends(m)' = Ends(m) - 1
        BY <3>3, <3>4, <3>7
      <4> QED
        BY <2>1, <3>1, <3>2, <4>1, <4>2
    <3> QED
      BY <3>5, <3>6, <3>7
  <2> QED
    BY <1>4, <2>2, CountsNext
<1>5. Loop' /\ Calls'
  <2>1. ~list => first = Null
    BY <1>1 DEF Calls
  <2> QED
    BY <1>2, <2>1 DEF Loop, Calls, Freeing
<1>6. ASSUME Uncount PROVE ptrCount' \in [Nodes -> Nat] /\ \A n \in nodes : ptrCount'[n] > 0
  <2> SUFFICES ASSUME NEW n \in Nodes
               PROVE  ptrCount'[n] \in Nat /\ (n \in nodes => ptrCount'[n] > 0)
    BY <1>1, <1>6 DEF TypeOK, Uncount
  <2>1. ptrCount[n] \in Nat /\ (n \in nodes => ptrCount[n] > 0)
    BY <1>1 DEF TypeOK
  <2>2. n = curr => n \in nodes /\ ptrCount[n] # 1
    BY <1>2, <1>3 DEF Stops
  <2> QED
    BY <1>6, <2>1, <2>2 DEF Uncount
<1>7. CASE FreedRemoved
  <2>1. /\ Uncount /\ UNCHANGED <<open, current, at, due>> /\ who = NoIterator
    BY <1>1, <1>7 DEF FreedRemoved, iters, past, Calls
  <2>2. TypeOK'
    BY <1>1, <1>2, <1>6, <2>1 DEF TypeOK, Ops
  <2>3. CountsAreExact'
    <3>1. \A m : Holders(m)' = Holders(m)
      BY <1>1, <1>2, <2>1 DEF Holders, TypeOK
    <3>2. \A m \in nodes : Cardinality(Holders(m)) \in Nat
      BY <1>1, Pointing
    <3>3. \A m \in nodes : Cardinality(Holders(m)') =
             Cardinality(Holders(m)) + IF m = curr /\ 1 = 0 THEN 1 ELSE 0
      BY <3>1, <3>2
    <3> QED
      BY <1>4, <2>1, <2>2, <3>3 DEF Uncount
  <2>4. Shape' /\ InPlace' /\ ItemStays' /\ Ways'
    <3>1. NoIterator \notin open' /\ \A j \in open : j # NoIterator
      BY <1>1, <2>1 DEF TypeOK
    <3> QED
      BY <1>2, <2>1, <2>2, <3>1, OthersStay
  <2> QED
    BY <1>5, <2>2, <2>3, <2>4 DEF IInv
<1>8. CASE FreedPassed
  <2>1. /\ who \in open /\ who \in Iterators /\ current' = [current EXCEPT ![who] = curr]
        /\ at' = [at EXCEPT ![who] = Item(curr)]
        /\ due' = [due EXCEPT ![who] = @ \ {Item(curr)}]
        /\ ptrCount' = ptrCount /\ open' = open
    BY <1>1, <1>8 DEF FreedPassed, ReachedBy, memory, Calls, TypeOK
  <2>2. TypeOK'
    <3>1. due' \in [Iterators -> SUBSET Items] /\ at' \in [Iterators -> Items \cup {NoItem}]
      BY <1>1, <1>3, <2>1 DEF TypeOK
    <3>2. current' \in [Iterators -> Nodes \cup {Null}]
      BY <1>1, <1>3, <2>1 DEF TypeOK
    <3> QED
      BY <1>1, <1>2, <2>1, <3>1, <3>2 DEF TypeOK, Ops
  <2>3. PICK i : i = who
    OBVIOUS
  <2>4. /\ current'[i] = curr /\ at'[i] = Item(curr) /\ due'[i] = due[i] \ {Item(curr)}
        /\ \A j \in open' : j # i =>
              j \in open /\ current'[j] = current[j] /\ at'[j] = at[j] /\ due'[j] = due[j]
    BY <1>1, <2>1, <2>3 DEF TypeOK
  <2>5. CountsAreExact'
    <3>1. ASSUME NEW m \in nodes
          PROVE  Cardinality(Holders(m)') =
                    Cardinality(Holders(m)) + IF m = curr /\ 0 = 0 THEN 1 ELSE 0
      <4>1. /\ Holders(m)' = IF m = curr THEN Holders(m) \cup {i} ELSE Holders(m)
            /\ i \notin Holders(m)
        BY <1>2, <2>1, <2>3, <2>4 DEF Holders
      <4>2. IsFiniteSet(Holders(m)) /\ Cardinality(Holders(m)) \in Nat
        BY <1>1, Pointing
      <4>3. m = curr => Cardinality(Holders(m)') = Cardinality(Holders(m)) + 1
        BY <4>1, <4>2, Counting
      <4> QED
        BY <4>1, <4>2, <4>3
    <3>2. ptrCount' = [n \in Nodes |-> IF n = curr THEN ptrCount[n] - 0 ELSE ptrCount[n]]
      BY <1>1, <2>1 DEF TypeOK
    <3> QED
      BY <1>4, <2>2, <3>1, <3>2
  <2>6. /\ Item(curr) < at[i] /\ Item(curr) \in Int
    <3>1. op = "freePassed" /\ ~(curr \in nodes /\ ptrCount[curr] = 1)
      BY <1>2, <1>3, <1>8 DEF FreedPassed, Stops
    <3>2. Item(curr) < at[i]
      BY <1>1, <2>3, <3>1 DEF Calls
    <3>0. NoItem = -1
      BY <1>1, Basics
    <3>3. Items \cup {NoItem} \subseteq Int
      BY ONLY <3>0, ListAssumption
    <3> QED
      BY ONLY <3>2, <3>3, <1>3
  <2>7. /\ due[i] \subseteq {data[n] : n \in listed} /\ due[i] \subseteq Nat
        /\ \E S \in SUBSET nodes : Way(i, S)
    BY <1>1, <2>1, <2>3 DEF Ways, TypeOK
  <2>8. ASSUME NEW S \in SUBSET nodes, Way(i, S) PROVE Way(i, S)'
    <3>1. /\ Place(i) = curr /\ Place(i)' = curr /\ (Item(Place(i)))' = Item(curr)
          /\ \A n : (Item(next[n]))' = Item(next[n])
      BY <1>2, <2>3, <2>4 DEF Place, Item
    <3>2. /\ listed \subseteq S /\ curr \in S \cup {Null}
          /\ \A n \in S : /\ next[n] \in S \cup {Null}
                          /\ \A y \in due[i] : y < data[n] => y <= Item(next[n])
                          /\ n \notin listed => data[n] \notin due[i]
          /\ \A y \in due[i] : y <= Item(curr)
      BY <2>8, <3>1 DEF Way
    <3>3. \A y \in due'[i] : y < Item(curr) /\ y <= Item(curr)
      <4> SUFFICES ASSUME NEW y \in due[i], y # Item(curr)
                   PROVE  y < Item(curr) /\ y <= Item(curr)
        BY <2>4
      <4>1. y <= Item(curr)
        BY <3>2
      <4>2. y \in Nat /\ Item(curr) \in Int
        BY ONLY <2>6, <2>7, y \in due[i]
      <4> QED
        BY ONLY <4>1, <4>2, y # Item(curr)
    <3> QED
      BY <1>2, <2>4, <3>1, <3>2, <3>3 DEF Way
  <2>9. Shape' /\ InPlace' /\ ItemStays' /\ Ways'
    <3>1. Place(i)' = curr /\ (Item(current[i]))' = at'[i]
      BY <1>2, <2>4 DEF Place, Item
    <3>2. due'[i] \subseteq {data[n] : n \in listed}
      BY <2>4, <2>7
    <3>3. \E S \in SUBSET nodes : Way(i, S)'
      BY <2>7, <2>8
    <3> QED
      BY <1>2, <1>3, <2>2, <2>3, <2>4, <3>1, <3>2, <3>3, OthersStay
  <2> QED
    BY <1>5, <2>2, <2>5, <2>9 DEF IInv
<1>9. CASE FreedClosed
  <2>1. /\ who \in open /\ who \in Iterators /\ open' = open \ {who}
        /\ current' = [current EXCEPT ![who] = Null]
        /\ at' = [at EXCEPT ![who] = NoItem]
        /\ due' = [due EXCEPT ![who] = {}]
        /\ Uncount
    BY <1>1, <1>9 DEF FreedClosed, Calls, TypeOK
  <2>2. TypeOK'
    BY <1>1, <1>2, <1>6, <2>1 DEF TypeOK, Ops
  <2>3. PICK i : i = who
    OBVIOUS
  <2>4. \A j \in open' : j # i /\ j \in open /\ current'[j] = current[j]
                               /\ at'[j] = at[j] /\ due'[j] = due[j]
    BY <1>1, <2>1, <2>3 DEF TypeOK
  <2>5. CountsAreExact'
    <3>1. \A m : Holders(m)' = Holders(m)
      BY <1>2, <2>1, <2>3, <2>4 DEF Holders
    <3>2. \A m \in nodes : Cardinality(Holders(m)) \in Nat
      BY <1>1, Pointing
    <3>3. \A m \in nodes : Cardinality(Holders(m)') =
             Cardinality(Holders(m)) + IF m = curr /\ 1 = 0 THEN 1 ELSE 0
      BY <3>1, <3>2
    <3> QED
      BY <1>4, <2>1, <2>2, <3>3 DEF Uncount
  <2>6. Shape' /\ InPlace' /\ ItemStays' /\ Ways'
    <3>1. i \notin open'
      BY <2>1, <2>3
    <3> QED
      BY <1>2, <2>2, <2>3, <2>4, <3>1, OthersStay
  <2> QED
    BY <1>5, <2>2, <2>5, <2>6 DEF IInv
<1> QED
  BY <1>7, <1>8, <1>9

-----------------------------------------------------------------------------
(* The invariant holds in every reachable state.                           *)

LEMMA StutterIInv == ASSUME IInv, UNCHANGED vars PROVE IInv'
<1> USE DEF vars, memory, iters, past, call
<1>1. TypeOK' /\ Loop' /\ Shape' /\ InPlace' /\ ItemStays'
  BY DEF IInv, TypeOK, Loop, Shape, ListIsSorted, Linked, Next1, InPlace,
     Place, ItemStays, Item, Freeing
<1>2. Calls'
  BY DEF IInv, Calls, Item, Freeing
<1>3. CountsAreExact'
  BY DEF IInv, CountsAreExact, Holders, Freeing
<1>4. Ways'
  <2>1. \A i \in open, S \in SUBSET nodes : Way(i, S)' <=> Way(i, S)
    BY DEF Way, Place, Item, Freeing
  <2> QED
    BY <2>1 DEF IInv, Ways
<1> QED
  BY <1>1, <1>2, <1>3, <1>4 DEF IInv

LEMMA StepIInv == IInv /\ [Next]_vars => IInv'
<1> SUFFICES ASSUME IInv, [Next]_vars PROVE IInv'
  OBVIOUS
<1>1. CASE \/ SLCreate \/ CallDestroy
           \/ \E x \in Items : CallInsert(x) \/ CallRemove(x)
  BY <1>1, CallIInv
<1>2. CASE \E i \in Iterators : SLCreateIterator(i)
  BY <1>2, CreateIInv
<1>3. CASE \E i \in Iterators : NextShared(i)
  BY <1>3, NextSharedIInv
<1>4. CASE \E i \in Iterators : CallNextLast(i) \/ CallDestroyIterator(i)
  BY <1>4, CallFreeIInv
<1>5. CASE Insert
  BY <1>5, InsertIInv
<1>6. CASE Remove
  BY <1>6, RemoveIInv
<1>7. CASE Destroy
  BY <1>7, DestroyIInv
<1>8. CASE FreeOne
  BY <1>8, FreeOneIInv
<1>9. CASE FreedRemoved \/ FreedPassed \/ FreedClosed
  BY <1>9, FreedIInv
<1>10. CASE UNCHANGED vars
  BY <1>10, StutterIInv
<1> QED
  BY <1>1, <1>2, <1>3, <1>4, <1>5, <1>6, <1>7, <1>8, <1>9, <1>10 DEF Next, NodeDestroy

THEOREM Invariant == Spec => []IInv
<1>1. Init => IInv
  BY InitIInv
<1>2. IInv /\ [Next]_vars => IInv'
  BY StepIInv
<1> QED
  BY <1>1, <1>2, PTL DEF Spec

(* SLInsert, SLRemove's two branches, the iterators and nodeDestroy agree  *)
(* on what a node's ptrCount counts.                                       *)
THEOREM CountsAgree == Spec => []CountsAreExact
<1>1. IInv => CountsAreExact
  BY DEF IInv
<1> QED
  BY <1>1, Invariant, PTL

(* The list is in descending order without duplicates: the first node has  *)
(* the largest item, and each listed node leads to the next listed one.  A *)
(* removed node that exists leads to a smaller existing one, or nowhere.   *)
THEOREM ListStaysSorted == Spec => []ListIsSorted
<1>1. IInv => ListIsSorted
  BY DEF IInv, Shape
<1> QED
  BY <1>1, Invariant, PTL

(* SLGetItem gives what SLNextItem returned last, or before any call of it *)
(* the item the iterator was created on, whatever happens to the list      *)
(* in between.                                                             *)
THEOREM IteratorKeepsItsItem == Spec => []ItemStays
<1>1. IInv => ItemStays
  BY DEF IInv
<1> QED
  BY <1>1, Invariant, PTL

-----------------------------------------------------------------------------
(* Nothing leaks                                                           *)

(* The nodes whose items are greater.                                      *)
Above(n) == {m \in nodes : data[m] > data[n]}

LEMMA AboveShrinks ==
    ASSUME TypeOK, Shape, NEW p \in nodes, NEW n \in nodes, next[p] = n
    PROVE  /\ Cardinality(Above(p)) \in Nat /\ Cardinality(Above(n)) \in Nat
           /\ Cardinality(Above(p)) < Cardinality(Above(n))
<1>1. /\ data[n] < data[p] /\ \A m \in nodes : data[m] \in Nat
  BY Basics
<1>2. IsFiniteSet(Above(n)) /\ IsFiniteSet(Above(p))
  <2>1. Above(n) \in SUBSET Nodes /\ Above(p) \in SUBSET Nodes
    BY DEF Above, TypeOK
  <2> QED
    BY <2>1, ListAssumption, FS_Subset
<1>3. Above(p) \in SUBSET Above(n) /\ p \in Above(n) /\ p \notin Above(p)
  BY <1>1 DEF Above
<1>4. /\ Cardinality(Above(p)) <= Cardinality(Above(n))
      /\ Cardinality(Above(p)) # Cardinality(Above(n))
  BY <1>2, <1>3, FS_Subset
<1>5. Cardinality(Above(p)) \in Nat /\ Cardinality(Above(n)) \in Nat
  BY <1>2, FS_CardinalityType
<1> QED
  BY <1>4, <1>5

(* Between calls a node has a pointer to it that is the list's, another    *)
(* node's or an iterator's.                                                *)
LEMMA Pointed ==
    ASSUME IInv, op = "idle", NEW n \in nodes
    PROVE  \/ first = n
           \/ \E i \in open : current[i] = n
           \/ \E p \in nodes : next[p] = n
<1>1. TypeOK /\ ~Freeing
  BY DEF IInv, Freeing
<1>2. /\ ptrCount[n] = Cardinality(Preds(n)) + Cardinality(Holders(n)) + Ends(n)
      /\ ptrCount[n] > 0 /\ ptrCount[n] \in Nat
  BY <1>1, Counts DEF IInv, TypeOK
<1>3. /\ Cardinality(Preds(n)) \in Nat /\ Cardinality(Holders(n)) \in Nat /\ Ends(n) \in Nat
      /\ IsFiniteSet(Preds(n)) /\ IsFiniteSet(Holders(n))
  BY <1>1, Pointing
<1>4. CASE Ends(n) # 0
  BY <1>1, <1>4 DEF Ends
<1>5. CASE Cardinality(Preds(n)) # 0
  <2>1. Preds(n) # {}
    BY <1>5, FS_EmptySet
  <2> QED
    BY <2>1 DEF Preds
<1>6. CASE Cardinality(Holders(n)) # 0
  <2>1. Holders(n) # {}
    BY <1>6, FS_EmptySet
  <2> QED
    BY <2>1 DEF Holders
<1> QED
  BY <1>2, <1>3, <1>4, <1>5, <1>6

(* No node is lost, kept too long or freed too early.  Were a node outside *)
(* what the list and the iterators lead to, take the one with the fewest   *)
(* items above: the node that points to it has fewer, and is inside.       *)
THEOREM NoNodeIsLost == Spec => []NothingLeaks
<1>1. ASSUME IInv PROVE NothingLeaks
  <2>1. TypeOK /\ Shape /\ Loop /\ Calls /\ InPlace
    BY <1>1 DEF IInv
  <2>2. /\ Null \notin nodes /\ first \in listed \cup {Null} /\ listed \subseteq nodes
        /\ \A n \in listed : next[n] \in listed \cup {Null}
        /\ \A n \in nodes : next[n] \in nodes \cup {Null}
    BY <2>1, Basics DEF TypeOK
  <2>3. curr \in Pointers
    <3>1. CASE op \in {"insert", "remove"}
      BY <2>1, <2>2, <3>1 DEF Loop, Pointers
    <3>2. CASE op \in {"idle", "destroy"}
      BY <2>1, <3>2 DEF Calls, Pointers
    <3>3. CASE Freeing
      BY <2>1, <3>3 DEF Calls, Pointers
    <3> QED
      BY <2>1, <3>1, <3>2, <3>3 DEF TypeOK, Ops, Freeing
  <2>4. prev \in Pointers
    <3>1. CASE op \in {"insert", "remove"}
      BY <2>1, <2>2, <3>1 DEF Loop, Pointers
    <3>2. CASE op \notin {"insert", "remove"}
      BY <2>1, <2>2, <3>2 DEF Calls, Pointers
    <3> QED
      BY <3>1, <3>2
  <2>5. \A i \in InUse : current[i] \in Pointers
    BY <2>1 DEF InUse, InPlace, Place, Pointers
  <2>6. {first, curr, prev} \cup {current[i] : i \in InUse} \subseteq Pointers
    BY <2>2, <2>3, <2>4, <2>5 DEF Pointers
  <2>7. ASSUME op = "idle" PROVE HoldsAll(nodes)
    BY <2>1, <2>2, <2>7 DEF HoldsAll, InPlace, Place, Freeing
  <2>8. ASSUME op = "idle", NEW S \in SUBSET nodes, HoldsAll(S), S # nodes PROVE FALSE
    <3> DEFINE T == {Cardinality(Above(n)) : n \in nodes \ S}
    <3>1. T \subseteq Nat /\ T # {}
      <4>1. ASSUME NEW n \in nodes PROVE Cardinality(Above(n)) \in Nat
        <5>1. Above(n) \in SUBSET Nodes
          BY <2>1 DEF Above, TypeOK
        <5> QED
          BY <5>1, ListAssumption, FS_Subset, FS_CardinalityType
      <4> QED
        BY <2>8, <4>1
    <3>2. PICK k \in T : \A j \in T : k <= j
      <4> HIDE DEF T
      <4> QED
        BY <3>1, LeastNatural
    <3>3. PICK n \in nodes \ S : k = Cardinality(Above(n))
      BY <3>2
    <3>4. /\ first # n /\ \A i \in open : current[i] # n
          /\ \A p \in S : next[p] # n
      BY <2>2, <2>8, <3>3 DEF HoldsAll
    <3>5. PICK p \in nodes : next[p] = n
      BY <1>1, <2>8, <3>3, <3>4, Pointed
    <3>6. p \in nodes \ S
      BY <3>4, <3>5
    <3>7. /\ Cardinality(Above(p)) \in Nat /\ Cardinality(Above(n)) \in Nat
          /\ Cardinality(Above(p)) < Cardinality(Above(n))
      BY <2>1, <3>3, <3>5, AboveShrinks
    <3>8. Cardinality(Above(n)) <= Cardinality(Above(p))
      BY <3>2, <3>3, <3>6
    <3> QED
      BY <3>7, <3>8
  <2> QED
    BY <2>6, <2>7, <2>8 DEF NothingLeaks
<1>2. IInv => NothingLeaks
  BY <1>1
<1> QED
  BY <1>2, Invariant, PTL

-----------------------------------------------------------------------------
(* The list implements the ordered set.                                    *)

Members == {data[n] : n \in listed}

(* SLInsert adds obj, which was not in the set.                            *)
LEMMA LinkInserts ==
    ASSUME IInv, InsertAtEnd \/ InsertBetween PROVE \E x \in Items : Promised!Insert(x)
<1>0. PICK x : x = obj
  OBVIOUS
<1>1. PICK before, after : Gap(before, after) /\ Link(before, after)
  BY InsertFindsGap
<1>2. PICK n : Linking(n, before, after)
  BY <1>1, LinkFacts
<1>3. TypeOK /\ Shape
  BY DEF IInv
<1>4. obj \notin Members
  <2>1. \A m \in listed : data[m] # obj
    BY <1>1, <1>2, <1>3, Apart, Basics DEF Linking, TypeOK
  <2> QED
    BY <2>1 DEF Members
<1>5. Members' = Members \cup {obj}
  BY <1>2, <1>3 DEF Linking, Members, TypeOK
<1>6. UNCHANGED <<at, due>> /\ obj \in Items
  BY <1>1 DEF Link, Gap
<1>7. x \in Items /\ Promised!Insert(x)
  BY <1>0, <1>4, <1>5, <1>6 DEF Promised!Insert, Members
<1> QED
  BY <1>7

(* SLRemove and each round of SLDestroy take one item out.                 *)
LEMMA UnlistedRemoves ==
    ASSUME IInv, NEW n \in listed, listed' = listed \ {n}, at' = at,
           \A m \in listed' : data'[m] = data[m],
           due' = [i \in Iterators |-> due[i] \ {data[n]}]
    PROVE  \E x \in Items : Promised!Remove(x)
<1>0. PICK x : x = data[n]
  OBVIOUS
<1>1. TypeOK /\ Shape
  BY DEF IInv
<1>2. data[n] \in Items /\ data[n] \in Members
  BY <1>1 DEF TypeOK, Members
<1>3. Members' = Members \ {data[n]}
  <2>1. \A m \in listed : data[m] = data[n] => m = n
    BY <1>1, Basics
  <2> QED
    BY <2>1 DEF Members
<1>4. x \in Items /\ Promised!Remove(x)
  BY <1>0, <1>2, <1>3 DEF Promised!Remove, Members
<1> QED
  BY <1>4

LEMMA DropRemoves ==
    ASSUME IInv, ~Freeing, first # Null, DropFirst
    PROVE  \E x \in Items : Promised!Remove(x)
<1>1. PICK f, succ : Dropping(f, succ)
  BY DropFacts
<1>2. TypeOK
  BY DEF IInv
<1>3. \A m \in listed' : data'[m] = data[m]
  BY <1>1, <1>2 DEF Dropping, TypeOK
<1>4. /\ f \in listed /\ listed' = listed \ {f} /\ at' = at
      /\ due' = [i \in Iterators |-> due[i] \ {data[f]}]
  BY <1>1 DEF Dropping
<1> QED
  BY <1>3, <1>4, UnlistedRemoves

LEMMA BypassRemoves ==
    ASSUME IInv, RemoveMiddle
    PROVE  \E x \in Items : Promised!Remove(x)
<1>1. PICK p, c, s : Bypassing(p, c, s)
  BY BypassFacts
<1>2. /\ c \in listed /\ listed' = listed \ {c} /\ at' = at /\ data' = data
      /\ due' = [i \in Iterators |-> due[i] \ {data[c]}]
  BY <1>1 DEF Bypassing
<1> QED
  BY <1>2, UnlistedRemoves

(* An iterator starts at the greatest item, with all others due.           *)
LEMMA CreateStarts ==
    ASSUME IInv, NEW i \in Iterators, SLCreateIterator(i)
    PROVE  Promised!Start(i)
<1>1. TypeOK /\ Shape
  BY DEF IInv
<1>2. /\ at' = [at EXCEPT ![i] = Item(first)]
      /\ due' = [due EXCEPT ![i] = Members \ {Item(first)}]
      /\ UNCHANGED <<data, listed>>
  BY DEF SLCreateIterator, Members
<1>3. Item(first) \in Members \cup {NoItem}
  BY <1>1, Basics DEF Item, Members
<1>4. \A y \in Members : y <= Item(first)
  BY <1>1, Basics DEF Item, Members
<1>5. Members' = Members
  BY <1>2 DEF Members
<1> QED
  BY <1>2, <1>3, <1>4, <1>5 DEF Promised!Start, Members

(* An iterator goes down, and past nothing that is due.                    *)
LEMMA PassesNothingDue ==
    ASSUME IInv, NEW i \in Iterators, NextShared(i)
    PROVE  Promised!Advance(i)
<1>0. PICK c, x : c = current[i] /\ x = Item(next[c])
  OBVIOUS
<1>1. TypeOK /\ Shape /\ InPlace /\ ItemStays /\ Ways /\ op = "idle" /\ ~Freeing /\ i \in open
      /\ c # Null
  BY <1>0 DEF IInv, NextShared, Freeing
<1>2. /\ at' = [at EXCEPT ![i] = x] /\ due' = [due EXCEPT ![i] = @ \ {x}]
      /\ UNCHANGED <<data, listed>>
  BY <1>0 DEF NextShared, ReachedBy
<1>3. /\ c \in nodes /\ Place(i) = c /\ at[i] = data[c] /\ x < at[i]
      /\ x \in Items \cup {NoItem}
  <2>1. c \in nodes /\ Place(i) = c /\ at[i] = data[c]
    BY <1>0, <1>1 DEF InPlace, Place, ItemStays, Item
  <2> QED
    BY <1>0, <1>1, <2>1, Basics DEF Item, TypeOK
<1>4. \A y \in due[i] : y <= x
  <2>1. PICK S \in SUBSET nodes : Way(i, S)
    BY <1>1 DEF Ways
  <2>2. /\ c \in S /\ \A y \in due[i] : y < data[c]
        /\ \A n \in S, y \in due[i] : y < data[n] => y <= Item(next[n])
    BY <1>1, <1>3, <2>1, Basics DEF Way
  <2> QED
    BY <1>0, <2>2
<1>5. Members' = Members
  BY <1>2 DEF Members
<1> QED
  BY <1>2, <1>3, <1>4, <1>5 DEF Promised!Advance, Members

LEMMA FreedPassesNothingDue ==
    ASSUME IInv, FreedPassed
    PROVE  \E i \in Iterators : Promised!Advance(i)
<1>0. PICK i, x : i = who /\ x = Item(curr)
  OBVIOUS
<1>1. TypeOK /\ Shape /\ Calls /\ Ways /\ op = "freePassed" /\ Freeing
  BY DEF IInv, FreedPassed, Freeing
<1>2. /\ at' = [at EXCEPT ![i] = x] /\ due' = [due EXCEPT ![i] = @ \ {x}]
      /\ UNCHANGED <<data, listed>>
  BY <1>0 DEF FreedPassed, ReachedBy, memory
<1>3. /\ i \in open /\ i \in Iterators /\ Place(i) = curr
      /\ curr \in nodes \cup {Null} /\ x \in Items \cup {NoItem}
  BY <1>0, <1>1 DEF Calls, Place, TypeOK, Item
<1>4. x < at[i]
  <2>1. ~(curr \in nodes /\ ptrCount[curr] = 1)
    BY <1>1, Basics DEF FreedPassed, Stops
  <2> QED
    BY <1>0, <1>1, <2>1 DEF Calls
<1>5. \A y \in due[i] : y <= x
  BY <1>0, <1>1, <1>3 DEF Ways, Way
<1>6. Members' = Members
  BY <1>2 DEF Members
<1> QED
  BY <1>2, <1>3, <1>4, <1>5, <1>6 DEF Promised!Advance, Members

LEMMA FreedStops ==
    ASSUME IInv, FreedClosed
    PROVE  \E i \in Iterators : Promised!Stop(i)
<1>1. TypeOK /\ Calls /\ op = "freeClosed"
  BY DEF IInv, FreedClosed
<1>2. /\ at' = [at EXCEPT ![who] = NoItem] /\ due' = [due EXCEPT ![who] = {}]
      /\ UNCHANGED <<data, listed>> /\ who \in Iterators
  BY <1>1 DEF FreedClosed, Calls, TypeOK
<1>3. Members' = Members
  BY <1>2 DEF Members
<1> QED
  BY <1>2, <1>3 DEF Promised!Stop, Members

(* Other steps change the pointers and the counts, never the set.          *)
LEMMA QuietStutters ==
    ASSUME UNCHANGED past, \A n \in listed : data'[n] = data[n]
    PROVE  UNCHANGED <<Members, at, due>>
BY DEF past, Members

LEMMA StepPromised ==
    ASSUME IInv, [Next]_vars
    PROVE  Promised!Next \/ UNCHANGED <<Members, at, due>>
<1> USE DEF Promised!Next
<1>1. CASE InsertAtEnd \/ InsertBetween
  BY <1>1, LinkInserts
<1>2. CASE RemoveFirst
  <2>1. ~Freeing /\ first # Null /\ DropFirst
    BY <1>2 DEF RemoveFirst, Freeing, IInv, Loop
  <2> QED
    BY <2>1, DropRemoves
<1>3. CASE DestroyNext
  <2>1. ~Freeing /\ first # Null /\ DropFirst
    BY <1>3 DEF DestroyNext, Freeing
  <2> QED
    BY <2>1, DropRemoves
<1>4. CASE RemoveMiddle
  BY <1>4, BypassRemoves
<1>5. CASE \E i \in Iterators : SLCreateIterator(i)
  BY <1>5, CreateStarts
<1>6. CASE \E i \in Iterators : NextShared(i)
  BY <1>6, PassesNothingDue
<1>7. CASE FreedPassed
  BY <1>7, FreedPassesNothingDue
<1>8. CASE FreedClosed
  BY <1>8, FreedStops
<1>9. CASE FreeOne
  <2>1. PICK c, s : Clearing(c, s)
    BY <1>9, ClearFacts
  <2>2. UNCHANGED past /\ \A n \in listed : data'[n] = data[n]
    BY <2>1 DEF Clearing, IInv, TypeOK
  <2> QED
    BY <2>2, QuietStutters
<1>10. CASE \/ SLCreate \/ CallDestroy
            \/ \E x \in Items : CallInsert(x) \/ CallRemove(x)
            \/ \E i \in Iterators : CallNextLast(i) \/ CallDestroyIterator(i)
            \/ InsertNext \/ InsertRefused \/ RemoveNext \/ RemoveUnfound
            \/ DestroyEnd \/ FreedRemoved \/ UNCHANGED vars
  <2>1. UNCHANGED <<data, past>>
    BY <1>10 DEF SLCreate, CallDestroy, CallInsert, CallRemove, CallNextLast,
       CallDestroyIterator, InsertNext, InsertRefused, RemoveNext, RemoveUnfound,
       DestroyEnd, FreedRemoved, StepOn, memory, vars
  <2> QED
    BY <2>1, QuietStutters
<1> QED
  BY <1>1, <1>2, <1>3, <1>4, <1>5, <1>6, <1>7, <1>8, <1>9, <1>10
     DEF Next, Insert, Remove, Destroy, NodeDestroy

(* What is inserted is in the list until it is removed, and an iterator,   *)
(* which is on the first item when it is created, goes strictly down from  *)
(* there and misses nothing that stays: the pointers of removed nodes and  *)
(* the counts that keep them make no difference.                           *)
THEOREM ListImplementsOrderedSet == Spec => KeepsPromises
<1>1. Init => Promised!Init
  BY DEF Init, Promised!Init
<1>2. IInv /\ [Next]_vars => [Promised!Next]_Promised!vars
  <2>1. IInv /\ [Next]_vars => Promised!Next \/ UNCHANGED <<Members, at, due>>
    BY StepPromised
  <2> QED
    BY <2>1 DEF Promised!vars, Members
<1> QED
  BY <1>1, <1>2, Invariant, PTL DEF Spec, KeepsPromises, Promised!Spec

-----------------------------------------------------------------------------
(* What every step of a call that does not end it brings nearer to its     *)
(* end: the loops of SLInsert, SLRemove and SLDestroy come to smaller and  *)
(* smaller items, nodeDestroy frees one of the nodes there are, and the    *)
(* only call that goes on as another is a removal that frees its node.     *)
(* With a step possible in every call, which fairness then takes, that is  *)
(* EveryCallReturns.                                                       *)
Nearing ==
    /\ op \in {"insert", "remove"} /\ op' = op => NoItem <= Item(curr)' /\ Item(curr)' < Item(curr)
    /\ op = "destroy" /\ op' = op => NoItem <= Item(first)' /\ Item(first)' < Item(first)
    /\ Freeing /\ op' = op => curr \in nodes /\ nodes' = nodes \ {curr}
    /\ op' \in {op, "idle"} \/ (op = "remove" /\ op' = "freeRemoved")
CallsAdvance == [][op # "idle" => Nearing]_vars

LEMMA StepNears == ASSUME IInv, Next, op # "idle" PROVE Nearing
<1>1. TypeOK /\ Shape /\ Loop /\ Calls /\ NoItem = -1
  BY DEF IInv, NoItem
<1>2. /\ Null \notin nodes /\ listed \subseteq nodes
      /\ \A n \in nodes : data[n] \in Nat
      /\ first \in listed \cup {Null}
  BY <1>1, Basics DEF TypeOK
<1>3. \A n \in listed : /\ next[n] \in listed \cup {Null}
                        /\ next[n] # Null => data[next[n]] < data[n]
  BY <1>1, <1>2 DEF Shape, ListIsSorted, Next1
<1>4. CASE InsertNext \/ RemoveNext
  <2>1. curr \in listed /\ op' = op /\ curr' = next[curr] /\ data' = data
    BY <1>1, <1>2, <1>3, <1>4 DEF InsertNext, RemoveNext, StepOn, Onward, Loop, memory
  <2>2. Item(curr)' = IF next[curr] = Null THEN NoItem ELSE data[next[curr]]
    BY <2>1 DEF Item
  <2>3. NoItem <= Item(curr)' /\ Item(curr)' < Item(curr)
    BY <1>1, <1>2, <1>3, <2>1, <2>2 DEF Item
  <2> QED
    BY <1>4, <2>1, <2>3 DEF Nearing, InsertNext, RemoveNext, Freeing
<1>5. CASE DestroyNext
  <2>1. PICK f, succ : Dropping(f, succ)
    BY <1>1, <1>5, DropFacts DEF DestroyNext, Freeing
  <2>2. first \in listed /\ first' = next[first] /\ op' = op
    BY <1>2, <1>5 DEF DestroyNext, DropFirst, call
  <2>3. next[first] # Null => data'[next[first]] = data[next[first]]
    BY <1>2, <1>3, <2>1, <2>2 DEF Dropping
  <2>4. Item(first)' = IF next[first] = Null THEN NoItem ELSE data[next[first]]
    BY <2>2, <2>3 DEF Item
  <2>5. NoItem <= Item(first)' /\ Item(first)' < Item(first)
    BY <1>1, <1>2, <1>3, <2>2, <2>4 DEF Item
  <2> QED
    BY <1>5, <2>2, <2>5 DEF Nearing, DestroyNext, Freeing
<1>6. CASE FreeOne
  <2>1. op' = op /\ curr \in nodes /\ nodes' = nodes \ {curr}
    BY <1>1, <1>6 DEF FreeOne, Free, Calls
  <2> QED
    BY <1>6, <2>1 DEF Nearing, FreeOne, Freeing
<1>7. CASE RemoveMiddle
  BY <1>7 DEF Nearing, RemoveMiddle, Freeing
<1>8. CASE \/ InsertAtEnd \/ InsertBetween \/ InsertRefused
           \/ RemoveUnfound \/ RemoveFirst \/ DestroyEnd
           \/ FreedRemoved \/ FreedPassed \/ FreedClosed
  <2>1. op' = "idle"
    BY <1>8 DEF InsertAtEnd, InsertBetween, InsertRefused, RemoveUnfound, RemoveFirst,
       DestroyEnd, FreedRemoved, FreedPassed, FreedClosed, Link, Return
  <2> QED
    BY <2>1 DEF Nearing, Freeing
<1> QED
  BY <1>4, <1>5, <1>6, <1>7, <1>8
     DEF Next, Insert, Remove, Destroy, NodeDestroy, SLCreate, CallDestroy, CallInsert,
         CallRemove, SLCreateIterator, NextShared, CallNextLast, CallDestroyIterator, Call

THEOREM NoCallIsEndless == Spec => CallsAdvance
<1>1. IInv /\ [Next]_vars => (op # "idle" => Nearing) \/ UNCHANGED vars
  BY StepNears
<1> QED
  BY <1>1, Invariant, PTL DEF Spec, CallsAdvance
=============================================================================
