----------------------------- MODULE HeapProofs -----------------------------
(***************************************************************************)
(* Proofs that the allocator keeps its promises for every size of the      *)
(* heap, of the header and of the requests, and for every pointer that is  *)
(* passed to free.                                                         *)
(*                                                                         *)
(* The list of chunks is described without following it: Tiled says where  *)
(* each header's neighbours are, InOrder that no chunk reaches into        *)
(* another, and Passed what the cursor of a call has left behind.          *)
(***************************************************************************)
EXTENDS HeapProperties, TLAPS

TypeOK ==
    /\ initialized \in BOOLEAN
    /\ nodes \subseteq Addrs
    /\ prev \in [Addrs -> Addrs \cup {Null}]
    /\ next \in [Addrs -> Addrs \cup {Null}]
    /\ isFree \in [Addrs -> BOOLEAN]
    /\ size \in [Addrs -> 0 .. HeapSize]
    /\ op \in {"idle", "malloc", "free"}
    /\ arg \in Int
    /\ temp \in nodes \cup {Null}
    /\ result \in Errors \cup {"none", "block", "freed"}

(* Before its first malloc the heap has no header, and no call is under    *)
(* way that would need one.                                                *)
Fresh ==
    /\ ~initialized => /\ nodes = {} /\ op = "idle"
                       /\ prev[head] = Null /\ next[head] = Null
    /\ op = "malloc" => arg \in Sizes

(* A chunk ends where or before any later one begins.                      *)
InOrder == \A a, b \in nodes : a < b => end(a) <= b

(* The chunks the cursor has passed are not the one the call looks for.    *)
Behind(a) == temp = Null \/ a < temp
Passed ==
    \A a \in nodes : Behind(a) =>
        /\ op = "malloc" => ~Fits(a)
        /\ op = "free" => data(a) # arg

Chunks == Tiled /\ InOrder /\ NoFreeNeighbours /\ LiveIsUsed
IInv   == TypeOK /\ Fresh /\ Chunks /\ Passed

-----------------------------------------------------------------------------
(* Init: no header, no call, no block.                                     *)
LEMMA InitIInv == Init => IInv
<1> SUFFICES ASSUME Init PROVE IInv
  OBVIOUS
<1> USE HeapAssumption DEF Init, Addrs, Null
<1>1. TypeOK
  BY DEF TypeOK
<1>2. Fresh /\ Tiled /\ InOrder /\ NoFreeNeighbours /\ Passed
  BY DEF Fresh, Tiled, InOrder, NoFreeNeighbours, Passed, head
<1>3. LiveIsUsed
  BY DEF LiveIsUsed, Used
<1> QED
  BY <1>1, <1>2, <1>3 DEF IInv, Chunks

(* Where a chunk and the ones around it lie.                               *)
LEMMA Around ==
    ASSUME TypeOK, Tiled, InOrder, initialized, NEW a \in nodes
    PROVE  /\ a \in Nat /\ size[a] \in Nat /\ EntrySize \in Nat /\ EntrySize > 0
           /\ HeapSize \in Nat /\ end(a) = a + EntrySize + size[a]
           /\ end(a) <= HeapSize
           /\ \A b \in nodes : /\ b \in Nat /\ end(b) \in Nat
                               /\ b < a => end(b) <= a
                               /\ b > a => end(a) <= b
           /\ next[a] # Null => /\ next[a] \in nodes /\ next[a] = end(a)
                                /\ prev[next[a]] = a
           /\ next[a] = Null => end(a) = HeapSize
           /\ prev[a] # Null => /\ prev[a] \in nodes /\ next[prev[a]] = a
                                /\ end(prev[a]) = a
           /\ prev[a] = Null => a = 0
<1> USE HeapAssumption DEF TypeOK, Addrs, Null, head
<1>1. \A b \in nodes : b \in Nat /\ size[b] \in Nat
  OBVIOUS
<1>2. \A b \in nodes : end(b) = b + EntrySize + size[b] /\ end(b) \in Nat
  BY <1>1 DEF end, data
<1>3. end(a) <= HeapSize
  BY DEF Tiled
<1>4. \A b \in nodes : (b < a => end(b) <= a) /\ (b > a => end(a) <= b)
  BY <1>1 DEF InOrder
<1>5. next[a] # Null => next[a] \in nodes /\ next[a] = end(a) /\ prev[next[a]] = a
  BY DEF Tiled
<1>6. next[a] = Null => end(a) = HeapSize
  BY <1>1, <1>2 DEF Tiled
<1>7. prev[a] # Null => prev[a] \in nodes /\ next[prev[a]] = a /\ end(prev[a]) = a
  BY <1>1 DEF Tiled
<1>8. prev[a] = Null => a = 0
  BY DEF Tiled
<1>9. EntrySize \in Nat /\ EntrySize > 0 /\ HeapSize \in Nat
  OBVIOUS
<1> HIDE DEF TypeOK, Addrs, Null, head
<1> HIDE HeapAssumption
<1> QED
  BY ONLY <1>9, <1>1, <1>2, <1>3, <1>4, <1>5, <1>6, <1>7, <1>8

(* The step of the cursor: what it leaves behind is itself and what it had *)
(* left behind before.                                                     *)
LEMMA Advance ==
    ASSUME TypeOK, Tiled, InOrder, initialized,
           temp # Null, temp' = next[temp], NEW a \in nodes,
           temp' = Null \/ a < temp'
    PROVE  a = temp \/ Behind(a)
<1>1. temp \in nodes
  BY DEF TypeOK
<1>2. /\ temp \in Nat /\ a \in Nat /\ end(a) \in Nat /\ HeapSize \in Nat
      /\ a > temp => end(temp) <= a
      /\ next[temp] # Null => next[temp] = end(temp)
      /\ next[temp] = Null => end(temp) = HeapSize
  BY <1>1, Around
<1>3. a < HeapSize
  BY HeapAssumption DEF TypeOK, Addrs
<1>4. ~(a > temp)
  BY <1>1, <1>2, <1>3, Around
<1> QED
  BY <1>2, <1>4 DEF Behind

-----------------------------------------------------------------------------
(* customMalloc's cut                                                      *)

(* What it makes of the headers: the chunk at the cursor shrinks to the    *)
(* request, the new one takes the rest, and the chunk after learns of its  *)
(* new neighbour.                                                          *)
LEMMA Cut ==
    ASSUME IInv, MallocSplit,
           NEW at, at = temp, NEW new, new = at + EntrySize + arg
    PROVE  /\ at \in nodes /\ isFree[at] /\ initialized /\ arg \in Nat
           /\ new \in Addrs /\ new \in Nat /\ new \notin nodes
           /\ at < new /\ new + EntrySize <= end(at)
           /\ \A a \in nodes : a < at \/ a = at \/ a > new
           /\ nodes' = nodes \cup {new}
           /\ size'[at] = arg /\ ~isFree'[at] /\ next'[at] = new
           /\ isFree'[new] /\ next'[new] = next[at] /\ prev'[new] = at
           /\ end(at)' = new /\ end(new)' = end(at)
           /\ next[at] # Null => prev'[next[at]] = new
           /\ \A a \in nodes : a # next[at] => prev'[a] = prev[a]
           /\ \A a \in nodes : a # at =>
                /\ next'[a] = next[a] /\ isFree'[a] = isFree[a]
                /\ size'[a] = size[a] /\ end(a)' = end(a)
<1> USE HeapAssumption DEF MallocSplit
<1>1. TypeOK /\ Tiled /\ InOrder /\ initialized /\ arg \in Nat
  BY DEF IInv, Chunks, Fresh
<1>2. at \in nodes /\ isFree[at] /\ size[at] >= arg + EntrySize
  BY <1>1 DEF TypeOK, Fits, Null
<1>3. /\ at \in Nat /\ size[at] \in Nat /\ EntrySize \in Nat /\ EntrySize > 0
      /\ HeapSize \in Nat /\ end(at) <= HeapSize
      /\ end(at) = at + EntrySize + size[at]
      /\ \A b \in nodes : b \in Nat /\ (b > at => end(at) <= b)
  BY <1>1, <1>2, Around
<1>4. /\ new \in Addrs /\ new \in Nat /\ new \notin nodes
      /\ new + EntrySize <= end(at) /\ at < new
      /\ \A a \in nodes : a < at \/ a = at \/ a > new
  <2> HIDE DEF MallocSplit
  <2>1. new > at /\ new + EntrySize <= end(at) /\ new \in Nat /\ new < HeapSize
    BY <1>1, <1>2, <1>3
  <2>2. \A a \in nodes : a < at \/ a = at \/ a > new
    BY <1>3, <2>1
  <2> QED
    BY <1>3, <2>1, <2>2 DEF Addrs
<1>5. /\ nodes' = nodes \cup {new}
      /\ prev' = [a \in Addrs |-> IF a = new THEN at
                                  ELSE IF a = next[at] THEN new ELSE prev[a]]
      /\ next' = [next EXCEPT ![new] = next[at], ![at] = new]
      /\ isFree' = [isFree EXCEPT ![new] = TRUE, ![at] = FALSE]
      /\ size' = [size EXCEPT ![new] = size[at] - arg - EntrySize, ![at] = arg]
  BY DEF LinkOf
<1>6. /\ next \in [Addrs -> Addrs \cup {Null}] /\ isFree \in [Addrs -> BOOLEAN]
      /\ size \in [Addrs -> 0 .. HeapSize] /\ nodes \subseteq Addrs
  BY <1>1 DEF TypeOK
<1>7. /\ next[at] # Null => next[at] \in nodes
      /\ new # Null
  BY <1>1, <1>2, <1>4 DEF Tiled, Null
<1> HIDE DEF MallocSplit
<1>8. /\ prev'[new] = at
      /\ next[at] # Null => prev'[next[at]] = new
      /\ \A a \in nodes : a # next[at] => prev'[a] = prev[a]
  BY <1>4, <1>5, <1>6, <1>7
<1>9. /\ next'[at] = new /\ next'[new] = next[at]
      /\ \A a \in nodes : a # at => next'[a] = next[a]
  BY <1>2, <1>4, <1>5, <1>6
<1>10. /\ ~isFree'[at] /\ isFree'[new]
       /\ \A a \in nodes : a # at => isFree'[a] = isFree[a]
  BY <1>2, <1>4, <1>5, <1>6
<1>11. /\ size'[at] = arg /\ size'[new] = size[at] - arg - EntrySize
       /\ \A a \in nodes : a # at => size'[a] = size[a]
  BY <1>2, <1>4, <1>5, <1>6
<1>12. /\ end(at)' = new /\ end(new)' = end(at)
       /\ \A a \in nodes : a # at => end(a)' = end(a)
  BY <1>1, <1>3, <1>4, <1>11 DEF end, data
<1> QED
  BY <1>1, <1>2, <1>4, <1>5, <1>8, <1>9, <1>10, <1>11, <1>12

(* The cut keeps the types.                                                *)
LEMMA CutTyped == ASSUME IInv, MallocSplit PROVE TypeOK'
<1> DEFINE new == temp + EntrySize + arg
<1> USE DEF MallocSplit, Return
<1>1. TypeOK /\ Tiled /\ InOrder
  BY DEF IInv, Chunks
<1>2. /\ temp \in nodes /\ initialized /\ arg \in Nat /\ new \in Addrs
      /\ nodes' = nodes \cup {new} /\ new + EntrySize <= end(temp)
  BY Cut
<1>3. /\ end(temp) = temp + EntrySize + size[temp] /\ end(temp) <= HeapSize
      /\ temp \in Nat /\ EntrySize \in Nat /\ size[temp] \in Nat /\ HeapSize \in Nat
  BY <1>1, <1>2, Around
<1>4. nodes' \subseteq Addrs /\ temp \in Addrs
  BY <1>1, <1>2 DEF TypeOK
<1>5. /\ prev' \in [Addrs -> Addrs \cup {Null}]
      /\ next' \in [Addrs -> Addrs \cup {Null}]
  BY <1>1, <1>2, <1>4 DEF TypeOK, LinkOf
<1>6. isFree' \in [Addrs -> BOOLEAN]
  BY <1>1, <1>2, <1>4 DEF TypeOK
<1>7. size' \in [Addrs -> 0 .. HeapSize]
  <2>1. size[temp] - arg - EntrySize \in 0 .. HeapSize /\ arg \in 0 .. HeapSize
    BY <1>2, <1>3
  <2>2. size' = [size EXCEPT ![new] = size[temp] - arg - EntrySize, ![temp] = arg]
    OBVIOUS
  <2> HIDE DEF MallocSplit, new
  <2> QED
    BY <1>1, <1>2, <1>4, <2>1, <2>2 DEF TypeOK
<1>8. /\ initialized' = initialized /\ op' = "idle" /\ arg' = 0 /\ temp' = Null
      /\ result' = "block"
  OBVIOUS
<1> HIDE DEF MallocSplit, Return, new
<1> QED
  BY <1>1, <1>2, <1>4, <1>5, <1>6, <1>7, <1>8 DEF TypeOK

(* The cut keeps the tiling.                                               *)
LEMMA CutTiled == ASSUME IInv, MallocSplit PROVE Tiled'
<1>0. PICK at, new : at = temp /\ new = at + EntrySize + arg
  OBVIOUS
<1>1. TypeOK /\ Tiled /\ InOrder
  BY DEF IInv, Chunks
<1>2. /\ at \in nodes /\ initialized
      /\ new \in Addrs /\ new \in Nat /\ new \notin nodes
      /\ new + EntrySize <= end(at) /\ at < new
      /\ nodes' = nodes \cup {new}
      /\ next'[at] = new /\ next'[new] = next[at] /\ prev'[new] = at
      /\ end(at)' = new /\ end(new)' = end(at)
      /\ next[at] # Null => prev'[next[at]] = new
      /\ \A a \in nodes : a # next[at] => prev'[a] = prev[a]
      /\ \A a \in nodes : a # at => next'[a] = next[a] /\ end(a)' = end(a)
  BY <1>0, Cut
<1>3. /\ at \in Nat /\ EntrySize \in Nat /\ EntrySize > 0
      /\ HeapSize \in Nat /\ end(at) <= HeapSize
      /\ next[at] # Null => /\ next[at] \in nodes /\ next[at] = end(at)
                              /\ prev[next[at]] = at
      /\ next[at] = Null => end(at) = HeapSize
      /\ prev[at] # Null => prev[at] \in nodes /\ next[prev[at]] = at
      /\ prev[at] = Null => at = 0
  BY <1>1, <1>2, Around
<1>4. new < HeapSize /\ new # Null /\ Null \notin nodes
  BY <1>1, <1>2, <1>3 DEF Addrs, Null, TypeOK
<1>5. ASSUME NEW a \in nodes, a # at
      PROVE  /\ end(a)' = end(a) /\ next'[a] = next[a]
             /\ next[a] # Null => next[a] \in nodes /\ prev'[next[a]] = a
             /\ prev'[a] # Null => prev'[a] \in nodes' /\ next'[prev'[a]] = a
             /\ prev'[a] = Null => a = head
  <2>1. /\ next[a] # Null => next[a] \in nodes /\ prev[next[a]] = a
        /\ prev[a] # Null => prev[a] \in nodes /\ next[prev[a]] = a
        /\ prev[a] = Null => a = 0
    BY <1>1, <1>2, <1>5, Around
  <2>2. end(a)' = end(a) /\ next'[a] = next[a]
    BY <1>2, <1>5
  <2>3. next[a] # Null => next[a] # next[at]
    BY <1>3, <1>5, <2>1
  <2>4. CASE a = next[at]
    BY <1>2, <1>4, <2>1, <2>2, <2>3, <2>4 DEF head
  <2>5. CASE a # next[at]
    <3>1. prev'[a] = prev[a] /\ prev[a] # at
      BY <1>2, <1>4, <2>1, <2>5
    <3> QED
      BY <1>2, <2>1, <2>2, <2>3, <3>1 DEF head
  <2> QED
    BY <2>4, <2>5
<1>6. ASSUME NEW a \in nodes'
      PROVE  /\ end(a)' <= HeapSize
             /\ next'[a] = IF end(a)' = HeapSize THEN Null ELSE end(a)'
             /\ next'[a] # Null => next'[a] \in nodes' /\ prev'[next'[a]] = a
             /\ prev'[a] # Null => prev'[a] \in nodes' /\ next'[prev'[a]] = a
             /\ prev'[a] = Null => a = head
  <2>1. CASE a = new
    <3>1. next[at] = IF end(at) = HeapSize THEN Null ELSE end(at)
      BY <1>1, <1>2 DEF Tiled
    <3> QED
      BY <1>2, <1>3, <1>4, <2>1, <3>1
  <2>2. CASE a = at
    <3>1. at # next[at] /\ prev[at] # at
      BY <1>2, <1>3, <1>4
    <3>2. prev'[at] = prev[at]
      BY <1>2, <3>1
    <3>3. prev[at] # Null => next'[prev[at]] = at
      BY <1>2, <1>3, <3>1
    <3>4. end(at)' <= HeapSize /\ end(at)' # HeapSize
      BY <1>2, <1>3, <1>4
    <3> QED
      BY <1>2, <1>3, <1>4, <2>2, <3>2, <3>3, <3>4 DEF head
  <2>3. CASE a # new /\ a # at
    <3>1. a \in nodes
      BY <1>2, <2>3
    <3>2. /\ end(a) <= HeapSize
          /\ next[a] = IF end(a) = HeapSize THEN Null ELSE end(a)
      BY <1>1, <1>2, <3>1 DEF Tiled
    <3> QED
      BY <1>2, <1>5, <2>3, <3>1, <3>2
  <2> QED
    BY <2>1, <2>2, <2>3
<1>7. head \in nodes' /\ prev'[head] = Null
  <2>1. head \in nodes /\ prev[head] = Null
    BY <1>1, <1>2 DEF Tiled
  <2>2. head # next[at]
    BY <1>3, <1>2, <2>1, <1>4
  <2> QED
    BY <1>2, <2>1, <2>2
<1> QED
  BY <1>6, <1>7 DEF Tiled, head, Null

(* The cut keeps the order, for the new chunk lies inside the old one.     *)
LEMMA CutInOrder == ASSUME IInv, MallocSplit PROVE InOrder'
<1>0. PICK at, new : at = temp /\ new = at + EntrySize + arg
  OBVIOUS
<1>1. TypeOK /\ Tiled /\ InOrder
  BY DEF IInv, Chunks
<1>2. /\ at \in nodes /\ initialized /\ new \in Nat
      /\ at < new /\ new + EntrySize <= end(at)
      /\ \A a \in nodes : a < at \/ a = at \/ a > new
      /\ nodes' = nodes \cup {new}
      /\ end(at)' = new /\ end(new)' = end(at)
      /\ \A a \in nodes : a # at => end(a)' = end(a)
  BY <1>0, Cut
<1>3. /\ at \in Nat /\ EntrySize \in Nat /\ end(at) \in Nat
      /\ \A b \in nodes : /\ b \in Nat /\ end(b) \in Nat
                          /\ b < at => end(b) <= at
                          /\ b > at => end(at) <= b
  BY <1>1, <1>2, Around
<1>4. ASSUME NEW a \in nodes', NEW b \in nodes', a < b PROVE end(a)' <= b
  <2>1. CASE a = new
    <3>1. b \in nodes /\ b > at
      BY <1>2, <1>3, <1>4, <2>1
    <3> QED
      BY <1>2, <1>3, <2>1, <3>1
  <2>2. CASE a = at
    <3>1. b = new \/ b > new
      BY <1>2, <1>3, <1>4, <2>2
    <3> QED
      BY <1>2, <1>3, <2>2, <3>1
  <2>3. CASE a \in nodes /\ a # at /\ b = new
    BY <1>2, <1>3, <1>4, <2>3
  <2>4. CASE a \in nodes /\ a # at /\ b \in nodes
    <3>1. end(a) <= b
      BY <1>1, <1>4, <2>4 DEF InOrder
    <3> QED
      BY <1>2, <2>4, <3>1
  <2> QED
    BY <1>2, <2>1, <2>2, <2>3, <2>4
<1> QED
  BY <1>4 DEF InOrder

(* The new chunk is free, and its neighbours are not: the chunk before was *)
(* just taken, the one after was the neighbour of a free chunk.            *)
LEMMA CutNoFreeNeighbours == ASSUME IInv, MallocSplit PROVE NoFreeNeighbours'
<1>0. PICK at, new : at = temp /\ new = at + EntrySize + arg
  OBVIOUS
<1>1. TypeOK /\ Tiled /\ InOrder /\ NoFreeNeighbours
  BY DEF IInv, Chunks
<1>2. /\ at \in nodes /\ initialized /\ isFree[at] /\ new \in Nat
      /\ at < new /\ new + EntrySize <= end(at) /\ new \notin nodes
      /\ nodes' = nodes \cup {new}
      /\ ~isFree'[at] /\ next'[at] = new /\ next'[new] = next[at]
      /\ \A a \in nodes : a # at => next'[a] = next[a] /\ isFree'[a] = isFree[a]
  BY <1>0, Cut
<1>3. \A b \in nodes : next[b] # Null => next[b] \in nodes /\ next[b] # b
  <2> SUFFICES ASSUME NEW b \in nodes, next[b] # Null
               PROVE  next[b] \in nodes /\ next[b] # b
    OBVIOUS
  <2>1. /\ b \in Nat /\ size[b] \in Nat /\ EntrySize \in Nat /\ EntrySize > 0
        /\ end(b) = b + EntrySize + size[b]
        /\ next[b] \in nodes /\ next[b] = end(b)
    BY <1>1, <1>2, Around
  <2> QED
    BY <2>1
<1>4. ASSUME NEW a \in nodes', isFree'[a], next'[a] # Null
      PROVE  ~isFree'[next'[a]]
  <2>1. CASE a = new
    BY <1>1, <1>2, <1>3, <1>4, <2>1 DEF NoFreeNeighbours
  <2>2. CASE a \in nodes
    BY <1>1, <1>2, <1>3, <1>4, <2>2 DEF NoFreeNeighbours
  <2> QED
    BY <1>2, <2>1, <2>2
<1> QED
  BY <1>4 DEF NoFreeNeighbours, Null

(* The chunk at the cursor is the block the program is given.              *)
LEMMA CutLive ==
    ASSUME IInv, MallocSplit
    PROVE  LiveIsUsed' /\ Used' = Used \cup {temp} /\ temp \notin Used
<1>0. PICK at, new : at = temp /\ new = at + EntrySize + arg
  OBVIOUS
<1>1. LiveIsUsed /\ TypeOK /\ Tiled /\ InOrder
  BY DEF IInv, Chunks
<1>2. /\ at \in nodes /\ isFree[at] /\ initialized /\ new \notin nodes
      /\ nodes' = nodes \cup {new}
      /\ ~isFree'[at] /\ isFree'[new] /\ size'[at] = arg
      /\ \A a \in nodes : a # at => isFree'[a] = isFree[a] /\ size'[a] = size[a]
  BY <1>0, Cut
<1>3. Used' = Used \cup {at} /\ at \notin Used
  BY <1>2 DEF Used
<1>4. live' = [p \in DOMAIN live \cup {data(at)} |->
                  IF p = data(at) THEN arg ELSE live[p]]
  BY <1>0 DEF MallocSplit
<1>5. \A a \in Used : data(a) # data(at)
  <2>1. at \in Nat /\ EntrySize \in Nat /\ \A b \in nodes : b \in Nat
    BY <1>1, <1>2, Around
  <2> QED
    BY <1>3, <2>1 DEF data, Used
<1>6. DOMAIN live = {data(a) : a \in Used} /\ \A a \in Used : live[data(a)] = size[a]
  BY <1>1 DEF LiveIsUsed
<1>7. \A a : data(a)' = data(a)
  BY DEF data
<1>8. DOMAIN live' = {data(a) : a \in Used'}
  BY <1>3, <1>4, <1>6
<1>9. ASSUME NEW a \in Used' PROVE live'[data(a)] = size'[a]
  <2>1. CASE a = at
    BY <1>2, <1>4, <2>1
  <2>2. CASE a # at
    <3>1. a \in Used /\ a \in nodes /\ data(a) # data(at) /\ data(a) \in DOMAIN live
      BY <1>3, <1>5, <1>6, <1>9, <2>2 DEF Used
    <3> QED
      BY <1>2, <1>4, <1>6, <2>2, <3>1
  <2> QED
    BY <2>1, <2>2
<1>10. LiveIsUsed'
  BY <1>7, <1>8, <1>9 DEF LiveIsUsed
<1> QED
  BY <1>0, <1>3, <1>10

-----------------------------------------------------------------------------
(* customFree's join                                                       *)

(* The chunk that is left, the one after it, the headers that go, and the  *)
(* bytes that the chunk left has then.                                     *)
Base(a)  == IF JoinsPrev(a) THEN prev[a] ELSE a
After(a) == IF JoinsNext(a) THEN next[next[a]] ELSE next[a]
Gone(a)  == (IF JoinsPrev(a) THEN {a} ELSE {})
                \cup (IF JoinsNext(a) THEN {next[a]} ELSE {})
Sum(a)   == size[a] + (IF JoinsPrev(a) THEN Bytes(prev[a]) ELSE 0)
                + (IF JoinsNext(a) THEN Bytes(next[a]) ELSE 0)

(* The chunk left reaches from the beginning of the first one joined to    *)
(* the end of the last; what goes lies between; and the chunks around it   *)
(* are used, so that one join is enough.                                   *)
LEMMA Span ==
    ASSUME TypeOK, Tiled, InOrder, NoFreeNeighbours, initialized,
           NEW at \in nodes, ~isFree[at],
           NEW base, base = Base(at), NEW after, after = After(at),
           NEW gone, gone = Gone(at)
    PROVE  /\ base \in nodes /\ base \notin gone /\ gone \subseteq nodes
           /\ base <= at /\ at \in gone \cup {base}
           /\ \A a \in gone \cup {base} : a = at \/ isFree[a]
           /\ Sum(at) \in 0 .. HeapSize
           /\ base + EntrySize + Sum(at) = IF after = Null THEN HeapSize ELSE after
           /\ after # Null => /\ after \in nodes \ gone /\ after > base
                              /\ ~isFree[after]
           /\ prev[base] # Null => /\ prev[base] \in nodes \ gone
                                   /\ prev[base] # base
                                   /\ ~isFree[prev[base]]
           /\ \A a \in gone : /\ prev[a] \in gone \cup {base}
                              /\ next[a] \in gone \cup {after}
           /\ next[base] \in gone \cup {after}
           /\ after # Null => prev[after] \in gone \cup {base}
           /\ \A b \in nodes \ gone : b > base => after # Null /\ b >= after
<1> DEFINE p == prev[at]
           m == next[at]
<1>1. /\ at \in Nat /\ size[at] \in Nat /\ EntrySize \in Nat /\ EntrySize > 0
      /\ HeapSize \in Nat /\ end(at) = at + EntrySize + size[at]
      /\ end(at) <= HeapSize
      /\ m # Null => m \in nodes /\ m = end(at) /\ prev[m] = at
      /\ m = Null => end(at) = HeapSize
      /\ p # Null => p \in nodes /\ next[p] = at /\ end(p) = at
  BY Around
<1>2. p # Null => /\ p \in Nat /\ size[p] \in Nat
                  /\ end(p) = p + EntrySize + size[p]
                  /\ prev[p] # Null => /\ prev[p] \in nodes /\ next[prev[p]] = p
                                       /\ end(prev[p]) = p
  BY <1>1, Around
<1>3. m # Null => /\ m \in Nat /\ size[m] \in Nat
                  /\ end(m) = m + EntrySize + size[m] /\ end(m) <= HeapSize
                  /\ next[m] # Null => /\ next[m] \in nodes /\ next[m] = end(m)
                                       /\ prev[next[m]] = m
                  /\ next[m] = Null => end(m) = HeapSize
  BY <1>1, Around
<1>4. /\ p # Null /\ prev[p] # Null =>
            /\ prev[p] \in Nat /\ prev[p] < p
            /\ isFree[p] => ~isFree[prev[p]]
      /\ m # Null /\ next[m] # Null /\ isFree[m] => ~isFree[next[m]]
  <2>1. ASSUME p # Null, prev[p] # Null PROVE prev[p] \in Nat /\ prev[p] < p
    <3>1. /\ prev[p] \in Nat /\ size[prev[p]] \in Nat
          /\ end(prev[p]) = prev[p] + EntrySize + size[prev[p]]
      BY <1>2, <2>1, Around
    <3> QED
      BY <1>1, <1>2, <2>1, <3>1
  <2>2. ASSUME p # Null, prev[p] # Null, isFree[p] PROVE ~isFree[prev[p]]
    BY <1>1, <1>2, <2>2 DEF NoFreeNeighbours
  <2>3. ASSUME m # Null, next[m] # Null, isFree[m] PROVE ~isFree[next[m]]
    BY <1>1, <1>3, <2>3 DEF NoFreeNeighbours
  <2> QED
    BY <2>1, <2>2, <2>3
<1>5. Null = -1
  BY DEF Null
<1>6. p # Null => p \in Nat /\ p < at
  BY <1>1, <1>2
<1>7. m # Null => m \in Nat /\ m > at
  BY <1>1
<1>8. p # Null /\ prev[p] # Null => prev[p] \in nodes /\ prev[p] \in Nat /\ prev[p] < p
  BY <1>2, <1>4
<1>9. m # Null /\ next[m] # Null => next[m] \in nodes /\ next[m] \in Nat /\ next[m] > m
  BY <1>1, <1>3
<1> HIDE DEF p, m
<1>10. /\ base = IF p # Null /\ isFree[p] THEN p ELSE at
       /\ after = IF m # Null /\ isFree[m] THEN next[m] ELSE m
       /\ gone = (IF p # Null /\ isFree[p] THEN {at} ELSE {})
                    \cup (IF m # Null /\ isFree[m] THEN {m} ELSE {})
       /\ Sum(at) = size[at] + (IF p # Null /\ isFree[p] THEN size[p] + EntrySize ELSE 0)
                       + (IF m # Null /\ isFree[m] THEN size[m] + EntrySize ELSE 0)
  BY DEF p, m, Base, After, Gone, Sum, JoinsPrev, JoinsNext, Bytes
<1>11. p = prev[at] /\ m = next[at]
  BY DEF p, m
<1>12. /\ base \in nodes /\ base \notin gone /\ gone \subseteq nodes
       /\ base <= at /\ at \in gone \cup {base}
       /\ \A a \in gone \cup {base} : a = at \/ isFree[a]
  BY <1>1, <1>6, <1>7, <1>10
<1>13. base + EntrySize + Sum(at) = IF after = Null THEN HeapSize ELSE after
  <2>1. CASE m # Null /\ isFree[m] /\ p # Null /\ isFree[p]
    BY <1>1, <1>2, <1>3, <1>10, <2>1
  <2>2. CASE m # Null /\ isFree[m] /\ ~(p # Null /\ isFree[p])
    BY <1>1, <1>3, <1>10, <2>2
  <2>3. CASE ~(m # Null /\ isFree[m]) /\ p # Null /\ isFree[p]
    BY <1>1, <1>2, <1>10, <2>3
  <2>4. CASE ~(m # Null /\ isFree[m]) /\ ~(p # Null /\ isFree[p])
    BY <1>1, <1>10, <2>4
  <2> QED
    BY <2>1, <2>2, <2>3, <2>4
<1>14. after # Null => after \in nodes \ gone /\ after > base /\ ~isFree[after]
  <2>1. CASE m # Null /\ isFree[m]
    BY <1>1, <1>4, <1>6, <1>7, <1>9, <1>10, <2>1
  <2>2. CASE ~(m # Null /\ isFree[m])
    BY <1>1, <1>6, <1>7, <1>10, <2>2
  <2> QED
    BY <2>1, <2>2
<1>15. prev[base] # Null => /\ prev[base] \in nodes \ gone /\ prev[base] # base
                            /\ ~isFree[prev[base]]
  <2>1. CASE p # Null /\ isFree[p]
    BY <1>1, <1>4, <1>6, <1>7, <1>8, <1>10, <2>1
  <2>2. CASE ~(p # Null /\ isFree[p])
    BY <1>1, <1>6, <1>7, <1>10, <1>11, <2>2
  <2> QED
    BY <2>1, <2>2
<1>16. Sum(at) \in 0 .. HeapSize
  <2>1. Sum(at) \in Nat
    BY <1>1, <1>2, <1>3, <1>10
  <2>2. base \in Nat /\ (after # Null => after \in Nat /\ after <= HeapSize)
    BY <1>1, <1>6, <1>7, <1>3, <1>9, <1>10
  <2> QED
    BY <1>1, <1>13, <2>1, <2>2
<1>17. /\ \A a \in gone : /\ prev[a] \in gone \cup {base}
                          /\ next[a] \in gone \cup {after}
       /\ next[base] \in gone \cup {after}
       /\ after # Null => prev[after] \in gone \cup {base}
  BY <1>1, <1>3, <1>10, <1>11
<1>18. ASSUME NEW b \in nodes \ gone, b > base PROVE after # Null /\ b >= after
  <2>1. /\ b \in Nat /\ b < HeapSize
        /\ b > at => end(at) <= b
        /\ p # Null /\ b > p => at <= b
        /\ m # Null /\ b > m => end(m) <= b
    <3>1. b \in Nat /\ b < HeapSize
      BY <1>1 DEF TypeOK, Addrs
    <3>2. b > at => end(at) <= b
      BY Around
    <3>3. p # Null /\ b > p => at <= b
      <4> SUFFICES ASSUME p # Null, b > p PROVE at <= b
        OBVIOUS
      <4>1. p \in nodes /\ end(p) = at
        BY <1>1, <1>11
      <4> QED
        BY <4>1, Around
    <3>4. m # Null /\ b > m => end(m) <= b
      BY <1>1, <1>11, Around
    <3> QED
      BY <3>1, <3>2, <3>3, <3>4
  <2>2. b > at
    BY <1>1, <1>6, <1>10, <1>18, <2>1
  <2>3. m # Null /\ b >= m
    BY <1>1, <1>7, <2>1, <2>2, <1>11
  <2>4. CASE isFree[m]
    <3>1. b > m /\ end(m) <= b
      BY <1>7, <1>10, <1>18, <2>1, <2>3, <2>4
    <3> QED
      BY <1>1, <1>3, <1>10, <2>1, <2>3, <2>4, <3>1
  <2>5. CASE ~isFree[m]
    BY <1>10, <2>3, <2>5
  <2> QED
    BY <2>4, <2>5
<1> QED
  BY <1>12, <1>13, <1>14, <1>15, <1>16, <1>17, <1>18

(* What the join makes of the headers.                                     *)
LEMMA Join ==
    ASSUME IInv, FreeChunk, NEW at, at = temp,
           NEW base, base = Base(at), NEW after, after = After(at),
           NEW gone, gone = Gone(at)
    PROVE  /\ TypeOK /\ Tiled /\ InOrder /\ NoFreeNeighbours /\ initialized
           /\ at \in nodes /\ ~isFree[at] /\ data(at) = arg
           /\ nodes' = nodes \ gone
           /\ next'[base] = after /\ prev'[base] = prev[base] /\ isFree'[base]
           /\ end(base)' = IF after = Null THEN HeapSize ELSE after
           /\ after # Null => prev'[after] = base
           /\ \A a \in nodes \ gone : a # after => prev'[a] = prev[a]
           /\ \A a \in nodes \ gone : a # base =>
                /\ next'[a] = next[a] /\ isFree'[a] = isFree[a]
                /\ size'[a] = size[a] /\ end(a)' = end(a)
<1>1. TypeOK /\ Tiled /\ InOrder /\ NoFreeNeighbours /\ initialized
  BY DEF IInv, Chunks, Fresh, FreeChunk
<1>2. at \in nodes /\ ~isFree[at] /\ data(at) = arg
  BY <1>1 DEF FreeChunk, TypeOK, Null
<1>3. /\ base \in nodes \ gone
      /\ base + EntrySize + Sum(at) = IF after = Null THEN HeapSize ELSE after
      /\ after # Null => after \in nodes \ gone /\ after > base
  BY <1>1, <1>2, Span
<1>4. /\ nodes' = nodes \ gone
      /\ prev' = [a \in Addrs |-> IF a \in gone THEN Null
                                  ELSE IF a = after THEN base ELSE prev[a]]
      /\ next' = [a \in Addrs |-> IF a \in gone THEN Null
                                  ELSE IF a = base THEN after ELSE next[a]]
      /\ isFree' = [a \in Addrs |-> IF a \in gone THEN FALSE
                                    ELSE a = base \/ isFree[a]]
      /\ size' = [a \in Addrs |-> IF a \in gone THEN 0
                                  ELSE IF a = base THEN Sum(at) ELSE size[a]]
  <2>1. Sum(at) = size[at] + (IF JoinsPrev(at) THEN Bytes(base) ELSE 0)
                    + (IF JoinsNext(at) THEN Bytes(next[at]) ELSE 0)
    BY DEF Sum, Base
  <2> QED
    BY <2>1 DEF FreeChunk, Base, After, Gone
<1>5. nodes \subseteq Addrs /\ base # after
  <2>1. base \in Nat /\ Null = -1
    BY <1>1, <1>3 DEF TypeOK, Addrs, Null
  <2> QED
    BY <1>1, <1>3, <2>1 DEF TypeOK
<1>6. /\ prev'[base] = prev[base]
      /\ after # Null => prev'[after] = base
      /\ \A a \in nodes \ gone : a # after => prev'[a] = prev[a]
  BY <1>3, <1>4, <1>5
<1>7. /\ next'[base] = after
      /\ \A a \in nodes \ gone : a # base => next'[a] = next[a]
  BY <1>3, <1>4, <1>5
<1>8. /\ isFree'[base]
      /\ \A a \in nodes \ gone : a # base => isFree'[a] = isFree[a]
  BY <1>1, <1>3, <1>4, <1>5 DEF TypeOK
<1>9. /\ size'[base] = Sum(at)
      /\ \A a \in nodes \ gone : a # base => size'[a] = size[a]
  BY <1>3, <1>4, <1>5
<1>10. /\ end(base)' = IF after = Null THEN HeapSize ELSE after
       /\ \A a \in nodes \ gone : a # base => end(a)' = end(a)
  BY <1>3, <1>9 DEF end, data
<1> QED
  BY <1>1, <1>2, <1>4, <1>6, <1>7, <1>8, <1>9, <1>10

(* The join keeps the types.                                               *)
LEMMA JoinTyped == ASSUME IInv, FreeChunk PROVE TypeOK'
<1>0. PICK at, base, after, gone :
        at = temp /\ base = Base(at) /\ after = After(at) /\ gone = Gone(at)
  OBVIOUS
<1>1. /\ TypeOK /\ Tiled /\ InOrder /\ NoFreeNeighbours /\ initialized
      /\ at \in nodes /\ ~isFree[at] /\ nodes' = nodes \ gone
  BY <1>0, Join
<1>2. /\ base \in nodes /\ Sum(at) \in 0 .. HeapSize
      /\ after # Null => after \in nodes
  BY <1>0, <1>1, Span
<1>3. /\ prev' = [a \in Addrs |-> IF a \in gone THEN Null
                                  ELSE IF a = after THEN base ELSE prev[a]]
      /\ next' = [a \in Addrs |-> IF a \in gone THEN Null
                                  ELSE IF a = base THEN after ELSE next[a]]
      /\ isFree' = [a \in Addrs |-> IF a \in gone THEN FALSE
                                    ELSE a = base \/ isFree[a]]
      /\ size' = [a \in Addrs |-> IF a \in gone THEN 0
                                  ELSE IF a = base THEN Sum(at) ELSE size[a]]
  <2>1. Sum(at) = size[at] + (IF JoinsPrev(at) THEN Bytes(base) ELSE 0)
                    + (IF JoinsNext(at) THEN Bytes(next[at]) ELSE 0)
    BY <1>0 DEF Sum, Base
  <2> QED
    BY <1>0, <2>1 DEF FreeChunk, Base, After, Gone
<1>4. nodes' \subseteq Addrs /\ base \in Addrs /\ after \in Addrs \cup {Null}
  BY <1>1, <1>2 DEF TypeOK
<1>5. /\ prev' \in [Addrs -> Addrs \cup {Null}]
      /\ next' \in [Addrs -> Addrs \cup {Null}]
  BY <1>1, <1>3, <1>4 DEF TypeOK
<1>6. isFree' \in [Addrs -> BOOLEAN]
  BY <1>1, <1>3 DEF TypeOK
<1>7. size' \in [Addrs -> 0 .. HeapSize]
  <2>1. 0 \in 0 .. HeapSize
    BY HeapAssumption
  <2> QED
    BY <1>1, <1>2, <1>3, <2>1 DEF TypeOK
<1>8. /\ initialized' = initialized /\ op' = "idle" /\ arg' = 0 /\ temp' = Null
      /\ result' = "freed"
  BY DEF FreeChunk, Return
<1> QED
  BY <1>1, <1>4, <1>5, <1>6, <1>7, <1>8 DEF TypeOK

(* The join keeps the tiling.                                              *)
LEMMA JoinTiled == ASSUME IInv, FreeChunk PROVE Tiled'
<1>0. PICK at, base, after, gone :
        at = temp /\ base = Base(at) /\ after = After(at) /\ gone = Gone(at)
  OBVIOUS
<1>1. /\ TypeOK /\ Tiled /\ InOrder /\ NoFreeNeighbours /\ initialized
      /\ at \in nodes /\ ~isFree[at] /\ nodes' = nodes \ gone
      /\ next'[base] = after /\ prev'[base] = prev[base]
      /\ end(base)' = IF after = Null THEN HeapSize ELSE after
      /\ after # Null => prev'[after] = base
      /\ \A a \in nodes \ gone : a # after => prev'[a] = prev[a]
      /\ \A a \in nodes \ gone : a # base => next'[a] = next[a] /\ end(a)' = end(a)
  BY <1>0, Join
<1>2. /\ base \in nodes \ gone /\ gone \subseteq nodes
      /\ after # Null => after \in nodes \ gone /\ after > base
      /\ prev[base] # Null => prev[base] \in nodes \ gone /\ prev[base] # base
      /\ \A a \in gone : prev[a] \in gone \cup {base} /\ next[a] \in gone \cup {after}
      /\ next[base] \in gone \cup {after}
      /\ after # Null => prev[after] \in gone \cup {base}
  BY <1>0, <1>1, Span
<1>3. /\ HeapSize \in Nat /\ Null = -1 /\ Null \notin nodes
      /\ \A a \in nodes : a \in Nat /\ a < HeapSize
  BY <1>1, HeapAssumption DEF TypeOK, Addrs, Null
<1>4. \A a \in nodes :
        /\ end(a) <= HeapSize
        /\ next[a] = IF end(a) = HeapSize THEN Null ELSE end(a)
        /\ next[a] # Null => next[a] \in nodes /\ prev[next[a]] = a
        /\ prev[a] # Null => prev[a] \in nodes /\ next[prev[a]] = a
        /\ prev[a] = Null => a = head
  BY <1>1 DEF Tiled
<1>5. ASSUME NEW a \in nodes \ gone
      PROVE  /\ end(a)' <= HeapSize
             /\ next'[a] = IF end(a)' = HeapSize THEN Null ELSE end(a)'
             /\ next'[a] # Null => next'[a] \in nodes' /\ prev'[next'[a]] = a
             /\ prev'[a] # Null => prev'[a] \in nodes' /\ next'[prev'[a]] = a
             /\ prev'[a] = Null => a = head
  <2>1. CASE a = base
    <3>1. end(base)' <= HeapSize /\ after = IF end(base)' = HeapSize THEN Null ELSE end(base)'
      BY <1>1, <1>2, <1>3
    <3>2. prev[base] # Null => next'[prev[base]] = base
      BY <1>1, <1>2, <1>4
    <3> QED
      BY <1>1, <1>2, <1>4, <2>1, <3>1, <3>2
  <2>2. CASE a # base
    <3>1. /\ end(a)' = end(a) /\ next'[a] = next[a]
          /\ end(a) <= HeapSize
          /\ next[a] = IF end(a) = HeapSize THEN Null ELSE end(a)
      BY <1>1, <1>4, <2>2
    <3>2. next[a] # Null => next[a] \in nodes \ gone /\ prev'[next[a]] = a
      BY <1>1, <1>2, <1>4, <2>2
    <3>3. CASE a = after
      BY <1>1, <1>2, <1>3, <3>1, <3>2, <3>3
    <3>4. CASE a # after
      <4>1. prev'[a] = prev[a]
        BY <1>1, <3>4
      <4>2. prev[a] # Null => prev[a] \in nodes \ gone /\ next'[prev[a]] = a
        BY <1>1, <1>2, <1>4, <2>2, <3>4
      <4> QED
        BY <1>1, <1>4, <3>1, <3>2, <4>1, <4>2
    <3> QED
      BY <3>3, <3>4
  <2> QED
    BY <2>1, <2>2
<1>6. head \in nodes' /\ prev'[head] = Null
  <2>1. head \in nodes /\ prev[head] = Null
    BY <1>1 DEF Tiled
  <2>2. head \notin gone /\ head # after
    BY <1>2, <1>3, <2>1
  <2> QED
    BY <1>1, <2>1, <2>2
<1> QED
  BY <1>1, <1>5, <1>6 DEF Tiled, head, Null

(* The join keeps the order.                                               *)
LEMMA JoinInOrder == ASSUME IInv, FreeChunk PROVE InOrder'
<1>0. PICK at, base, after, gone :
        at = temp /\ base = Base(at) /\ after = After(at) /\ gone = Gone(at)
  OBVIOUS
<1>1. /\ TypeOK /\ Tiled /\ InOrder /\ NoFreeNeighbours /\ initialized
      /\ at \in nodes /\ ~isFree[at] /\ nodes' = nodes \ gone
      /\ end(base)' = IF after = Null THEN HeapSize ELSE after
      /\ \A a \in nodes \ gone : a # base => end(a)' = end(a)
  BY <1>0, Join
<1>2. \A b \in nodes \ gone : b > base => after # Null /\ b >= after
  BY <1>0, <1>1, Span
<1>3. /\ base \in nodes /\ (after # Null => after \in nodes)
  BY <1>0, <1>1, Span
<1>4. \A a \in nodes : a \in Nat
  BY <1>1 DEF TypeOK, Addrs
<1>5. ASSUME NEW a \in nodes \ gone, NEW b \in nodes \ gone, a < b PROVE end(a)' <= b
  <2>1. CASE a = base
    BY <1>1, <1>2, <1>3, <1>4, <1>5, <2>1
  <2>2. CASE a # base
    BY <1>1, <1>5, <2>2 DEF InOrder
  <2> QED
    BY <2>1, <2>2
<1> QED
  BY <1>1, <1>5 DEF InOrder

(* The chunk left is free, and the ones around it are not.                 *)
LEMMA JoinNoFreeNeighbours == ASSUME IInv, FreeChunk PROVE NoFreeNeighbours'
<1>0. PICK at, base, after, gone :
        at = temp /\ base = Base(at) /\ after = After(at) /\ gone = Gone(at)
  OBVIOUS
<1>1. /\ TypeOK /\ Tiled /\ InOrder /\ NoFreeNeighbours /\ initialized
      /\ at \in nodes /\ ~isFree[at] /\ nodes' = nodes \ gone
      /\ next'[base] = after
      /\ \A a \in nodes \ gone : a # base => next'[a] = next[a] /\ isFree'[a] = isFree[a]
  BY <1>0, Join
<1>2. /\ base \in nodes \ gone /\ gone \subseteq nodes
      /\ after # Null => after \in nodes \ gone /\ after > base /\ ~isFree[after]
      /\ prev[base] # Null => ~isFree[prev[base]]
      /\ \A a \in gone : prev[a] \in gone \cup {base}
  BY <1>0, <1>1, Span
<1>3. \A a \in nodes : next[a] # Null => next[a] \in nodes /\ prev[next[a]] = a
  BY <1>1 DEF Tiled
<1>4. Null \notin nodes /\ \A a \in nodes : a \in Nat
  BY <1>1 DEF TypeOK, Addrs, Null
<1>5. ASSUME NEW a \in nodes \ gone, isFree'[a], next'[a] # Null
      PROVE  ~isFree'[next'[a]]
  <2>1. CASE a = base
    <3>1. after # Null /\ after # base
      BY <1>1, <1>2, <1>4, <1>5, <2>1
    <3> QED
      BY <1>1, <1>2, <2>1, <3>1
  <2>2. CASE a # base
    <3>1. /\ next'[a] = next[a] /\ isFree[a] /\ next[a] \in nodes
          /\ prev[next[a]] = a /\ ~isFree[next[a]]
      BY <1>1, <1>3, <1>5, <2>2 DEF NoFreeNeighbours
    <3>2. next[a] \notin gone /\ next[a] # base
      BY <1>2, <1>4, <2>2, <3>1
    <3> QED
      BY <1>1, <3>1, <3>2
  <2> QED
    BY <2>1, <2>2
<1> QED
  BY <1>1, <1>5 DEF NoFreeNeighbours, Null

(* The chunk at the cursor is the block the program gives back.            *)
LEMMA JoinLive ==
    ASSUME IInv, FreeChunk
    PROVE  LiveIsUsed' /\ Used' = Used \ {temp} /\ temp \in Used
<1>0. PICK at, base, after, gone :
        at = temp /\ base = Base(at) /\ after = After(at) /\ gone = Gone(at)
  OBVIOUS
<1>1. /\ TypeOK /\ Tiled /\ InOrder /\ NoFreeNeighbours /\ initialized
      /\ at \in nodes /\ ~isFree[at] /\ data(at) = arg
      /\ nodes' = nodes \ gone /\ isFree'[base]
      /\ \A a \in nodes \ gone : a # base => isFree'[a] = isFree[a] /\ size'[a] = size[a]
  BY <1>0, Join
<1>2. /\ base \in nodes \ gone /\ gone \subseteq nodes /\ at \in gone \cup {base}
      /\ \A a \in gone \cup {base} : a = at \/ isFree[a]
  BY <1>0, <1>1, Span
<1>3. Used' = Used \ {at} /\ at \in Used
  BY <1>1, <1>2 DEF Used
<1>4. live' = [p \in DOMAIN live \ {data(at)} |-> live[p]]
  BY <1>1 DEF FreeChunk
<1>5. \A a \in Used : a # at => data(a) # data(at)
  <2>1. at \in Nat /\ EntrySize \in Nat /\ \A b \in nodes : b \in Nat
    BY <1>1, Around
  <2> QED
    BY <2>1 DEF data, Used
<1>6. DOMAIN live = {data(a) : a \in Used} /\ \A a \in Used : live[data(a)] = size[a]
  BY DEF LiveIsUsed, IInv, Chunks
<1>7. \A a : data(a)' = data(a)
  BY DEF data
<1>8. DOMAIN live' = {data(a) : a \in Used'}
  BY <1>3, <1>4, <1>5, <1>6
<1>9. ASSUME NEW a \in Used' PROVE live'[data(a)] = size'[a]
  <2>1. a \in Used /\ a # at /\ data(a) # data(at) /\ data(a) \in DOMAIN live
    BY <1>3, <1>5, <1>6, <1>9
  <2>2. a \in nodes \ gone /\ a # base
    BY <1>1, <1>2, <1>9, <2>1 DEF Used
  <2> QED
    BY <1>1, <1>4, <1>6, <2>1, <2>2
<1>10. LiveIsUsed'
  BY <1>7, <1>8, <1>9 DEF LiveIsUsed
<1> QED
  BY <1>0, <1>3, <1>10

-----------------------------------------------------------------------------
(* The inductive invariant                                                 *)

(* A step that leaves the headers and the blocks alone keeps what is said  *)
(* of them.                                                                *)
LEMMA Untouched == ASSUME Chunks, UNCHANGED <<heap, live>> PROVE Chunks'
<1> USE DEF heap
<1>1. Tiled'
  BY DEF Chunks, Tiled, end, data
<1>2. InOrder'
  BY DEF Chunks, InOrder, end, data
<1>3. NoFreeNeighbours'
  BY DEF Chunks, NoFreeNeighbours
<1>4. LiveIsUsed'
  BY DEF Chunks, LiveIsUsed, Used, data
<1> QED
  BY <1>1, <1>2, <1>3, <1>4 DEF Chunks

(* A call that returns leaves no cursor behind.                            *)
LEMMA Returned ==
    ASSUME IInv, initialized, initialized' = initialized,
           NEW what, Return(what)
    PROVE  Fresh' /\ Passed'
BY DEF Fresh, Passed, Return

(* A call of customMalloc: the first one makes one free chunk of it all.   *)
LEMMA CallMallocIInv == ASSUME IInv, NEW s \in Sizes, CallMalloc(s) PROVE IInv'
<1>1. TypeOK /\ Fresh /\ Chunks
  BY DEF IInv
<1>2. /\ op' = "malloc" /\ arg' = s /\ temp' = 0 /\ initialized'
      /\ result' = "none" /\ live' = live
  BY DEF CallMalloc, head
<1>3. /\ HeapSize \in Nat /\ EntrySize \in Nat /\ EntrySize > 0
      /\ EntrySize <= HeapSize /\ 0 \in Addrs /\ s \in Int
  BY HeapAssumption DEF Addrs
<1>4. CASE initialized
  <2>1. UNCHANGED <<heap, live>>
    BY <1>1, <1>2, <1>4 DEF CallMalloc, heap, TypeOK
  <2>2. Chunks'
    BY <1>1, <2>1, Untouched
  <2>3. 0 \in nodes
    BY <1>1, <1>4 DEF Chunks, Tiled, head
  <2>4. TypeOK'
    BY <1>1, <1>2, <1>3, <2>1, <2>3 DEF TypeOK, heap
  <2>5. Fresh' /\ Passed'
    BY <1>1, <1>2, <1>3, <2>1 DEF Fresh, Passed, Behind, heap, TypeOK, Addrs, Null
  <2> QED
    BY <2>2, <2>4, <2>5 DEF IInv
<1>5. CASE ~initialized
  <2>1. /\ nodes = {} /\ prev[0] = Null /\ next[0] = Null
        /\ nodes' = {0} /\ prev' = prev /\ next' = next
        /\ isFree' = [isFree EXCEPT ![0] = TRUE]
        /\ size' = [size EXCEPT ![0] = HeapSize - EntrySize]
    BY <1>1, <1>5 DEF CallMalloc, Fresh, head
  <2>2. isFree'[0] /\ size'[0] = HeapSize - EntrySize
    BY <1>1, <1>3, <2>1 DEF TypeOK
  <2>3. end(0)' = HeapSize
    BY <1>3, <2>2 DEF end, data
  <2>4. Tiled' /\ InOrder' /\ NoFreeNeighbours'
    BY <1>3, <2>1, <2>2, <2>3 DEF Tiled, InOrder, NoFreeNeighbours, head
  <2>5. LiveIsUsed'
    <3>1. Used = {} /\ Used' = {}
      BY <2>1, <2>2 DEF Used
    <3> QED
      BY <1>1, <1>2, <3>1 DEF Chunks, LiveIsUsed
  <2>6. TypeOK'
    <3>1. isFree' \in [Addrs -> BOOLEAN]
      BY <1>1, <2>1 DEF TypeOK
    <3>2. size' \in [Addrs -> 0 .. HeapSize]
      BY <1>1, <1>3, <2>1 DEF TypeOK
    <3> QED
      BY <1>1, <1>2, <1>3, <2>1, <3>1, <3>2 DEF TypeOK
  <2>7. Fresh' /\ Passed'
    BY <1>2, <2>1, <1>3 DEF Fresh, Passed, Behind, Null
  <2> QED
    BY <2>4, <2>5, <2>6, <2>7 DEF IInv, Chunks
<1> QED
  BY <1>4, <1>5

(* The cursor moves on from a chunk that is not the one the call wants.    *)
LEMMA MoveIInv ==
    ASSUME IInv, initialized, temp # Null, temp' = next[temp],
           UNCHANGED <<heap, op, arg, result, live>>,
           op = "malloc" => ~Fits(temp), op = "free" => data(temp) # arg
    PROVE  IInv'
<1>1. TypeOK /\ Fresh /\ Chunks /\ Passed /\ Tiled /\ InOrder
  BY DEF IInv, Chunks
<1>2. Chunks'
  BY <1>1, Untouched
<1>3. temp \in nodes /\ next[temp] \in nodes \cup {Null}
  BY <1>1 DEF TypeOK, Tiled
<1>4. TypeOK' /\ Fresh'
  BY <1>1, <1>3 DEF TypeOK, Fresh, heap
<1>5. Passed'
  <2> SUFFICES ASSUME NEW a \in nodes, temp' = Null \/ a < temp'
               PROVE  /\ op = "malloc" => ~Fits(a)
                      /\ op = "free" => data(a) # arg
    BY DEF Passed, Behind, heap, Fits, data
  <2>1. a = temp \/ Behind(a)
    BY <1>1, Advance
  <2> QED
    BY <1>1, <2>1 DEF Passed
<1> QED
  BY <1>2, <1>4, <1>5 DEF IInv

(* Every step keeps the inductive invariant.                               *)
LEMMA StepIInv == IInv /\ [Next]_vars => IInv'
<1> SUFFICES ASSUME IInv, [Next]_vars PROVE IInv'
  OBVIOUS
<1>0. TypeOK /\ Fresh /\ Chunks /\ Passed
  BY DEF IInv
<1>1. ASSUME NEW s \in Sizes, CallMalloc(s) PROVE IInv'
  BY <1>1, CallMallocIInv
<1>2. CASE MallocSplit
  <2>1. initialized /\ initialized' = initialized /\ Return("block")
    BY <1>0, <1>2 DEF MallocSplit, Fresh
  <2> QED
    BY <1>2, <2>1, Returned, CutTyped, CutTiled, CutInOrder, CutNoFreeNeighbours,
       CutLive DEF IInv, Chunks
<1>3. CASE MallocNext
  <2>1. initialized /\ temp # Null /\ ~Fits(temp) /\ op = "malloc"
    BY <1>0, <1>3 DEF MallocNext, Fresh
  <2> QED
    BY <1>3, <2>1, MoveIInv DEF MallocNext
<1>4. ASSUME NEW p \in Pointers, CallFree(p) PROVE IInv'
  <2>1. UNCHANGED <<heap, live>>
    BY <1>4 DEF CallFree
  <2>2. Chunks'
    BY <1>0, <2>1, Untouched
  <2>3. p \in Int
    BY HeapAssumption
  <2>4. initialized => 0 \in nodes
    BY <1>0 DEF Chunks, Tiled, head
  <2>5. TypeOK'
    BY <1>0, <1>4, <2>1, <2>3, <2>4 DEF TypeOK, heap, CallFree, Return, head, Errors
  <2>6. Fresh' /\ Passed'
    BY <1>0, <1>4, <2>1 DEF Fresh, Passed, Behind, heap, CallFree, Return, head,
       TypeOK, Addrs, Null
  <2> QED
    BY <2>2, <2>5, <2>6 DEF IInv
<1>5. CASE FreeNext
  <2>1. initialized /\ temp # Null /\ data(temp) # arg /\ op = "free"
    BY <1>0, <1>5 DEF FreeNext, Fresh
  <2> QED
    BY <1>5, <2>1, MoveIInv DEF FreeNext
<1>6. CASE FreeChunk
  <2>1. initialized /\ initialized' = initialized /\ Return("freed")
    BY <1>0, <1>6 DEF FreeChunk, Fresh
  <2> QED
    BY <1>6, <2>1, Returned, JoinTyped, JoinTiled, JoinInOrder,
       JoinNoFreeNeighbours, JoinLive DEF IInv, Chunks
<1>7. CASE MallocFail \/ FreeMiddle \/ FreeRedundant \/ FreeNotAllocated
  <2>1. PICK what \in Errors : Return(what)
    BY <1>7 DEF MallocFail, FreeMiddle, FreeRedundant, FreeNotAllocated, Errors
  <2>2. op # "idle" /\ UNCHANGED <<heap, live>>
    BY <1>7 DEF MallocFail, FreeMiddle, FreeRedundant, FreeNotAllocated
  <2>3. initialized /\ initialized' = initialized
    BY <1>0, <2>2 DEF Fresh, heap
  <2>4. Chunks'
    BY <1>0, <2>2, Untouched
  <2>5. TypeOK'
    BY <1>0, <2>1, <2>2 DEF TypeOK, heap, Return
  <2> QED
    BY <2>1, <2>3, <2>4, <2>5, Returned DEF IInv
<1>8. CASE UNCHANGED vars
  <2>1. Chunks'
    BY <1>0, <1>8, Untouched DEF vars
  <2>2. TypeOK' /\ Fresh' /\ Passed'
    BY <1>0, <1>8 DEF vars, heap, call, TypeOK, Fresh, Passed, Behind, Fits, data
  <2> QED
    BY <2>1, <2>2 DEF IInv
<1> QED
  BY <1>1, <1>2, <1>3, <1>4, <1>5, <1>6, <1>7, <1>8 DEF Next, Malloc, Free

(* The inductive invariant holds in every state.                           *)
THEOREM Invariant == Spec => []IInv
BY InitIInv, StepIInv, PTL DEF Spec

(* The chunks tile mem[] through every cut of customMalloc and every join  *)
(* of customFree.                                                          *)
THEOREM ChunksTile == Spec => []Tiled
<1>1. IInv => Tiled
  BY DEF IInv, Chunks
<1> QED
  BY <1>1, Invariant, PTL

(* customFree leaves no two free neighbours.                               *)
THEOREM JoiningIsComplete == Spec => []NoFreeNeighbours
<1>1. IInv => NoFreeNeighbours
  BY DEF IInv, Chunks
<1> QED
  BY <1>1, Invariant, PTL

(* The used chunks are the blocks the program holds.                       *)
THEOREM BlocksAreKept == Spec => []LiveIsUsed
<1>1. IInv => LiveIsUsed
  BY DEF IInv, Chunks
<1> QED
  BY <1>1, Invariant, PTL

-----------------------------------------------------------------------------
(* What the calls do                                                       *)

(* A pointer the program holds is the address of a used chunk.             *)
LEMMA HeldIsUsed ==
    ASSUME IInv, NEW p
    PROVE  p \in DOMAIN live <=> \E a \in nodes : ~isFree[a] /\ data(a) = p
BY DEF IInv, Chunks, LiveIsUsed, Used

(* The end of customFree, at each of its returns: after a join the pointer *)
(* was held; a pointer into the middle of a chunk, to a free chunk, or to  *)
(* none, was not.                                                          *)
LEMMA FreeStep ==
    ASSUME IInv, [Next]_vars, FreeEnds
    PROVE  /\ result' = "freed" <=> arg \in DOMAIN live
           /\ result' # "freed" => UNCHANGED heap
<1>1. TypeOK /\ Tiled /\ InOrder /\ Fresh /\ Passed
  BY DEF IInv, Chunks
<1>2. op = "free" /\ op' = "idle" /\ initialized
  BY <1>1 DEF FreeEnds, Fresh
<1>3. CASE FreeMiddle
  <2>1. temp \in nodes /\ data(temp) < arg /\ arg < end(temp)
    BY <1>1, <1>3 DEF FreeMiddle, Inside, TypeOK
  <2>2. ASSUME NEW a \in nodes, data(a) = arg PROVE FALSE
    <3>1. /\ temp \in Nat /\ EntrySize \in Nat /\ EntrySize > 0 /\ size[temp] \in Nat
          /\ end(temp) = temp + EntrySize + size[temp]
          /\ a < temp => end(a) <= temp
          /\ a > temp => end(temp) <= a
      BY <1>1, <1>2, <2>1, Around
    <3>2. a \in Nat /\ size[a] \in Nat /\ end(a) = a + EntrySize + size[a]
      BY <1>1, <1>2, Around
    <3> QED
      BY <2>1, <2>2, <3>1, <3>2 DEF data
  <2>3. arg \notin DOMAIN live
    BY <2>2, HeldIsUsed
  <2> QED
    BY <1>3, <2>3 DEF FreeMiddle, Return
<1>4. CASE FreeRedundant
  <2>1. temp \in nodes /\ data(temp) = arg /\ isFree[temp]
    BY <1>1, <1>4 DEF FreeRedundant, TypeOK
  <2>2. \A a \in nodes : data(a) = data(temp) => a = temp
    <3>1. EntrySize \in Nat /\ \A a \in nodes : a \in Nat
      BY <1>1, HeapAssumption DEF TypeOK, Addrs
    <3> QED
      BY <2>1, <3>1 DEF data
  <2>3. arg \notin DOMAIN live
    BY <2>1, <2>2, HeldIsUsed
  <2> QED
    BY <1>4, <2>3 DEF FreeRedundant, Return
<1>5. CASE FreeChunk
  <2>1. temp \in nodes /\ data(temp) = arg /\ ~isFree[temp]
    BY <1>1, <1>5 DEF FreeChunk, TypeOK
  <2>2. arg \in DOMAIN live
    BY <2>1, HeldIsUsed
  <2> QED
    BY <1>5, <2>2 DEF FreeChunk, Return
<1>6. CASE FreeNotAllocated
  <2>1. \A a \in nodes : data(a) # arg
    BY <1>1, <1>2, <1>6 DEF FreeNotAllocated, Passed, Behind
  <2>2. arg \notin DOMAIN live
    BY <2>1, HeldIsUsed
  <2> QED
    BY <1>6, <2>2 DEF FreeNotAllocated, Return
<1>7. CASE \/ \E s \in Sizes : CallMalloc(s)
           \/ \E p \in Pointers : CallFree(p)
           \/ Malloc \/ FreeNext \/ UNCHANGED vars
  BY <1>2, <1>7 DEF CallMalloc, CallFree, Malloc, MallocSplit, MallocNext,
     MallocFail, FreeNext, vars, call
<1> QED
  BY <1>3, <1>4, <1>5, <1>6, <1>7 DEF Next, Free

(* customFree takes back exactly what is held, and whatever else it is     *)
(* passed it leaves the headers alone.                                     *)
THEOREM FreeIsExact == Spec => FreesWhatIsHeld
<1>1. IInv /\ [Next]_vars =>
        [FreeEnds => /\ result' = "freed" <=> arg \in DOMAIN live
                     /\ result' # "freed" => UNCHANGED heap]_vars
  BY FreeStep
<1> QED
  BY <1>1, Invariant, PTL DEF Spec, FreesWhatIsHeld

(* customMalloc's traversal misses no chunk that fits, before the one it   *)
(* takes or before it gives up.                                            *)
LEMMA MallocStep ==
    ASSUME IInv, [Next]_vars, MallocEnds
    PROVE  IF result' = "block"
           THEN \A a \in nodes : a < temp => ~Roomy(a)
           ELSE \A a \in nodes : ~Roomy(a)
<1>1. TypeOK /\ Fresh /\ Passed
  BY DEF IInv
<1>2. op = "malloc" /\ op' = "idle" /\ arg \in Int
  BY <1>1 DEF MallocEnds, TypeOK
<1>3. \A a \in nodes : ~Fits(a) => ~Roomy(a)
  <2>1. EntrySize \in Nat /\ \A a \in nodes : size[a] \in Int
    BY <1>1, HeapAssumption DEF TypeOK
  <2> QED
    BY <1>2, <2>1 DEF Fits, Roomy
<1>4. CASE MallocSplit
  BY <1>1, <1>2, <1>3, <1>4 DEF MallocSplit, Return, Passed, Behind
<1>5. CASE MallocFail
  BY <1>1, <1>2, <1>3, <1>5 DEF MallocFail, Return, Passed, Behind
<1>6. CASE \/ \E s \in Sizes : CallMalloc(s)
           \/ \E p \in Pointers : CallFree(p)
           \/ MallocNext \/ Free \/ UNCHANGED vars
  BY <1>2, <1>6 DEF CallMalloc, CallFree, MallocNext, Free, FreeMiddle,
     FreeRedundant, FreeChunk, FreeNext, FreeNotAllocated, vars, call
<1> QED
  BY <1>4, <1>5, <1>6 DEF Next, Malloc

(* customMalloc takes the first chunk that fits, and fails only when none  *)
(* does.                                                                   *)
THEOREM MallocIsFirstFit == Spec => FirstFit
<1>1. IInv /\ [Next]_vars =>
        [MallocEnds => IF result' = "block"
                       THEN \A a \in nodes : a < temp => ~Roomy(a)
                       ELSE \A a \in nodes : ~Roomy(a)]_vars
  BY MallocStep
<1> QED
  BY <1>1, Invariant, PTL DEF Spec, FirstFit

-----------------------------------------------------------------------------
(* The heap implements the abstract allocator                              *)

held == [p \in {data(a) : a \in Used} |-> size[p - EntrySize]]

(* The abstract blocks are the ones in live.                               *)
LEMMA HeldSizes ==
    ASSUME IInv
    PROVE  /\ DOMAIN held = {data(a) : a \in Used}
           /\ \A a \in Used : held[data(a)] = size[a]
<1>1. \A a \in Used : data(a) - EntrySize = a
  <2>1. EntrySize \in Nat /\ \A a \in nodes : a \in Nat
    BY HeapAssumption DEF IInv, TypeOK, Addrs
  <2> QED
    BY <2>1 DEF data, Used
<1> QED
  BY <1>1 DEF held

(* The cut hands out a block that lies in the arena, apart from the others. *)
LEMMA CutIsMalloc ==
    ASSUME IInv, MallocSplit
    PROVE  \E p \in 0 .. HeapSize : \E n \in Sizes :
             /\ p \notin DOMAIN held
             /\ p + n <= HeapSize
             /\ \A q \in DOMAIN held : Promised!Apart(p, n, q, held[q])
             /\ held' = [q \in DOMAIN held \cup {p} |->
                            IF q = p THEN n ELSE held[q]]
<1>0. PICK at, new : at = temp /\ new = at + EntrySize + arg
  OBVIOUS
<1>1. TypeOK /\ Tiled /\ InOrder /\ Fresh
  BY DEF IInv, Chunks
<1>2. /\ at \in nodes /\ initialized /\ isFree[at] /\ arg \in Nat
      /\ new \in Nat /\ new + EntrySize <= end(at) /\ at < new
      /\ size'[at] = arg
      /\ \A a \in nodes : a # at => size'[a] = size[a]
  BY <1>0, Cut
<1>3. arg \in Sizes
  BY <1>1 DEF MallocSplit, Fresh
<1>4. /\ at \in Nat /\ EntrySize \in Nat /\ EntrySize > 0 /\ HeapSize \in Nat
      /\ end(at) \in Nat /\ end(at) <= HeapSize
      /\ \A b \in nodes : /\ b \in Nat
                          /\ b < at => end(b) <= at
                          /\ b > at => end(at) <= b
  BY <1>1, <1>2, Around
<1>5. \A b \in nodes : /\ size[b] \in Nat /\ end(b) = b + EntrySize + size[b]
  BY <1>1, <1>2, Around
<1>6. /\ Used' = Used \cup {at} /\ at \notin Used
      /\ Used \subseteq nodes
  BY <1>0, CutLive DEF Used
<1>7. /\ DOMAIN held = {data(a) : a \in Used}
      /\ \A a \in Used : held[data(a)] = size[a]
  BY HeldSizes
<1>8. data(at) \in 0 .. HeapSize /\ data(at) + arg <= HeapSize
  BY <1>0, <1>2, <1>4 DEF data
<1>9. data(at) \notin DOMAIN held
  BY <1>4, <1>6, <1>7 DEF data
<1>10. ASSUME NEW q \in DOMAIN held
       PROVE  Promised!Apart(data(at), arg, q, held[q])
  <2>1. PICK a \in Used : q = data(a)
    BY <1>7
  <2>2. /\ a \in nodes /\ a # at /\ a \in Nat /\ held[q] = size[a]
        /\ size[a] \in Nat /\ end(a) = a + EntrySize + size[a]
        /\ a < at => end(a) <= at
        /\ a > at => end(at) <= a
    BY <1>4, <1>5, <1>6, <1>7, <2>1
  <2> QED
    BY <1>0, <1>2, <1>4, <2>1, <2>2 DEF Promised!Apart, data
<1>11. held' = [q \in DOMAIN held \cup {data(at)} |->
                   IF q = data(at) THEN arg ELSE held[q]]
  <2>1. held' = [p \in {data(a) : a \in Used'} |-> size'[p - EntrySize]]
    BY DEF held, data
  <2>2. {data(a) : a \in Used'} = DOMAIN held \cup {data(at)}
    BY <1>6, <1>7
  <2>3. ASSUME NEW q \in DOMAIN held \cup {data(at)}
        PROVE  size'[q - EntrySize] = IF q = data(at) THEN arg ELSE held[q]
    <3>1. CASE q = data(at)
      <4>1. q - EntrySize = at
        BY <1>4, <3>1 DEF data
      <4> QED
        BY <1>2, <3>1, <4>1
    <3>2. CASE q # data(at)
      <4>1. PICK a \in Used : q = data(a)
        BY <1>7, <2>3, <3>2
      <4>2. a \in nodes /\ a # at /\ held[q] = size[a] /\ a \in Nat
        BY <1>4, <1>6, <1>7, <4>1
      <4>3. q - EntrySize = a
        BY <1>4, <4>1, <4>2 DEF data
      <4> QED
        BY <1>2, <3>2, <4>2, <4>3
    <3> QED
      BY <3>1, <3>2
  <2> QED
    BY <2>1, <2>2, <2>3
<1> QED
  BY <1>3, <1>8, <1>9, <1>10, <1>11

(* The join takes back the block the program gave back, and no other.      *)
LEMMA JoinIsFree ==
    ASSUME IInv, FreeChunk
    PROVE  \E p \in 0 .. HeapSize :
             /\ p \in DOMAIN held
             /\ held' = [q \in DOMAIN held \ {p} |-> held[q]]
<1>0. PICK at, base, after, gone :
        at = temp /\ base = Base(at) /\ after = After(at) /\ gone = Gone(at)
  OBVIOUS
<1>1. /\ TypeOK /\ Tiled /\ InOrder /\ NoFreeNeighbours /\ initialized
      /\ at \in nodes /\ ~isFree[at] /\ nodes' = nodes \ gone
      /\ \A a \in nodes \ gone : a # base => size'[a] = size[a]
  BY <1>0, Join
<1>2. /\ at \in gone \cup {base}
      /\ \A a \in gone \cup {base} : a = at \/ isFree[a]
  BY <1>0, <1>1, Span
<1>3. Used' = Used \ {at} /\ at \in Used /\ Used \subseteq nodes
  BY <1>0, JoinLive DEF Used
<1>4. /\ at \in Nat /\ EntrySize \in Nat /\ HeapSize \in Nat /\ size[at] \in Nat
      /\ end(at) = at + EntrySize + size[at] /\ end(at) <= HeapSize
      /\ \A b \in nodes : b \in Nat
  BY <1>1, Around
<1>5. /\ DOMAIN held = {data(a) : a \in Used}
      /\ \A a \in Used : held[data(a)] = size[a]
  BY HeldSizes
<1>6. data(at) \in 0 .. HeapSize /\ data(at) \in DOMAIN held
  BY <1>3, <1>4, <1>5 DEF data
<1>7. \A a \in Used : a # at => data(a) # data(at)
  BY <1>3, <1>4 DEF data
<1>8. held' = [q \in DOMAIN held \ {data(at)} |-> held[q]]
  <2>1. held' = [p \in {data(a) : a \in Used'} |-> size'[p - EntrySize]]
    BY DEF held, data
  <2>2. {data(a) : a \in Used'} = DOMAIN held \ {data(at)}
    BY <1>3, <1>5, <1>7
  <2>3. ASSUME NEW q \in DOMAIN held \ {data(at)}
        PROVE  size'[q - EntrySize] = held[q]
    <3>1. PICK a \in Used : q = data(a)
      BY <1>5, <2>3
    <3>2. a \in nodes /\ a # at /\ held[q] = size[a] /\ a \in Nat
      BY <1>3, <1>4, <1>5, <2>3, <3>1
    <3>3. q - EntrySize = a
      BY <1>4, <3>1, <3>2 DEF data
    <3>4. a \in nodes \ gone /\ a # base
      BY <1>2, <3>1, <3>2 DEF Used
    <3> QED
      BY <1>1, <3>2, <3>3, <3>4
  <2> QED
    BY <2>1, <2>2, <2>3
<1> QED
  BY <1>6, <1>8

(* Every other step leaves the blocks as they are: the first malloc makes  *)
(* one free chunk, and the cursor touches nothing.                         *)
LEMMA OthersStutter ==
    ASSUME IInv, [Next]_vars, ~MallocSplit, ~FreeChunk
    PROVE  held' = held
<1>1. TypeOK /\ Fresh
  BY DEF IInv
<1>2. CASE UNCHANGED heap
  BY <1>2 DEF held, heap, Used, data
<1>3. CASE \E s \in Sizes : CallMalloc(s) /\ ~initialized
  <2>1. /\ nodes = {} /\ nodes' = {0} /\ isFree' = [isFree EXCEPT ![0] = TRUE]
    BY <1>1, <1>3 DEF CallMalloc, Fresh, head
  <2>2. 0 \in Addrs
    BY HeapAssumption DEF Addrs
  <2>3. Used = {} /\ Used' = {}
    BY <1>1, <2>1, <2>2 DEF Used, TypeOK
  <2>4. held = [p \in {} |-> 0] /\ held' = [p \in {} |-> 0]
    BY <2>3 DEF held
  <2> QED
    BY <2>4
<1>4. UNCHANGED heap \/ \E s \in Sizes : CallMalloc(s) /\ ~initialized
  BY <1>1 DEF Next, vars, heap, CallMalloc, CallFree, Malloc, MallocNext, MallocFail,
     Free, FreeMiddle, FreeRedundant, FreeNext, FreeNotAllocated, TypeOK
<1> QED
  BY <1>2, <1>3, <1>4

(* The allocator keeps what malloc and free promise, for every heap.       *)
THEOREM HeapImplementsAllocator == Spec => KeepsPromises
<1>1. Init => Promised!Init
  BY DEF Init, Promised!Init, Used
<1>2. IInv /\ [Next]_vars => [Promised!Next]_held
  <2> SUFFICES ASSUME IInv, [Next]_vars PROVE Promised!Next \/ held' = held
    OBVIOUS
  <2>1. CASE MallocSplit
    BY <2>1, CutIsMalloc DEF Promised!Next, Promised!Malloc, held
  <2>2. CASE FreeChunk
    BY <2>2, JoinIsFree DEF Promised!Next, Promised!Free, held
  <2>3. CASE ~MallocSplit /\ ~FreeChunk
    BY <2>3, OthersStutter
  <2> QED
    BY <2>1, <2>2, <2>3
<1> QED
  BY <1>1, <1>2, Invariant, PTL DEF Spec, KeepsPromises, Promised!Spec, held

-----------------------------------------------------------------------------
(* The bytes from the cursor to the end of the heap: with every step that  *)
(* does not return, a call leaves a header's at least behind it, so that   *)
(* it takes HeapSize / EntrySize of them at most.  With a step possible in *)
(* every call, which fairness then takes, that is EveryCallReturns.        *)
Ahead == IF temp = Null THEN 0 ELSE HeapSize - temp
CallsAdvance == [][op # "idle" /\ op' # "idle" => Ahead' + EntrySize <= Ahead]_vars

THEOREM NoCallIsEndless == Spec => [](Ahead \in 0 .. HeapSize) /\ CallsAdvance
<1>1. IInv => Ahead \in 0 .. HeapSize
  <2> SUFFICES ASSUME IInv PROVE Ahead \in 0 .. HeapSize
    OBVIOUS
  <2>1. temp = Null \/ temp \in Addrs
    BY DEF IInv, TypeOK
  <2> QED
    BY <2>1, HeapAssumption DEF Ahead, Addrs
<1>2. IInv /\ [Next]_vars
        => (op # "idle" /\ op' # "idle" => Ahead' + EntrySize <= Ahead) \/ UNCHANGED vars
  <2> SUFFICES ASSUME IInv, Next, op # "idle", op' # "idle"
               PROVE  Ahead' + EntrySize <= Ahead
    OBVIOUS
  <2>1. temp # Null /\ temp' = next[temp]
    BY DEF Next, CallMalloc, CallFree, Malloc, MallocSplit, MallocNext, MallocFail, Free,
       FreeMiddle, FreeRedundant, FreeChunk, FreeNext, FreeNotAllocated, Return
  <2>2. temp \in nodes /\ initialized
    BY <2>1 DEF IInv, TypeOK, Fresh
  <2>3. /\ temp \in Nat /\ EntrySize \in Nat /\ HeapSize \in Nat /\ size[temp] \in Nat
        /\ end(temp) = temp + EntrySize + size[temp] /\ end(temp) <= HeapSize
        /\ next[temp] # Null => next[temp] = end(temp)
    BY <2>2, Around DEF IInv, Chunks
  <2> QED
    BY <2>1, <2>3 DEF Ahead
<1> QED
  BY <1>1, <1>2, Invariant, PTL DEF Spec, CallsAdvance
=============================================================================
