--------------------------- MODULE HeapProperties ---------------------------
(* What makes the allocator of module Heap correct.                        *)
EXTENDS Heap

(* The chunks tile mem[]: from the head on, each begins where the one      *)
(* before it ends, the last one ends with the array, and prev is the       *)
(* inverse of next, through every cut and every join of neighbours.        *)
Tiled ==
    initialized =>
        /\ head \in nodes /\ prev[head] = Null
        /\ \A a \in nodes :
            /\ end(a) <= HeapSize
            /\ next[a] = IF end(a) = HeapSize THEN Null ELSE end(a)
            /\ next[a] # Null => next[a] \in nodes /\ prev[next[a]] = a
            /\ prev[a] # Null => prev[a] \in nodes /\ next[prev[a]] = a
            /\ prev[a] = Null => a = head

(* Joining is complete: customFree looks one chunk back and one ahead, and *)
(* no two neighbours are ever both free.                                   *)
NoFreeNeighbours ==
    \A a \in nodes : isFree[a] /\ next[a] # Null => ~isFree[next[a]]

(* The list's used chunks are, in place and size, the blocks the program   *)
(* was given and has not given back.                                       *)
Used == {a \in nodes : ~isFree[a]}
LiveIsUsed ==
    /\ DOMAIN live = {data(a) : a \in Used}
    /\ \A a \in Used : live[data(a)] = size[a]

(* customFree takes back exactly the pointers the program holds, wherever  *)
(* other pointers into the heap point; every other one is reported and     *)
(* leaves all chunks as they were.                                         *)
FreeEnds == op = "free" /\ op' = "idle"
FreesWhatIsHeld ==
    [][FreeEnds =>
        /\ result' = "freed" <=> arg \in DOMAIN live
        /\ result' # "freed" => UNCHANGED heap]_vars

(* customMalloc takes the first chunk that fits, and reports insufficient  *)
(* memory only when none does: the traversal misses no chunk.              *)
MallocEnds == op = "malloc" /\ op' = "idle"
Roomy(a) == isFree[a] /\ size[a] - EntrySize >= arg
FirstFit ==
    [][MallocEnds =>
        IF result' = "block"
        THEN \A a \in nodes : a < temp => ~Roomy(a)
        ELSE \A a \in nodes : ~Roomy(a)]_vars

(* Every call returns: the list has no cycle for the cursor to turn in.    *)
EveryCallReturns == op # "idle" ~> op = "idle"

(* The heap is an allocator: its used chunks are the abstract blocks.      *)
Promised == INSTANCE Allocator WITH
    Arena <- HeapSize,
    Requested <- Sizes,
    blocks <- [p \in {data(a) : a \in Used} |-> size[p - EntrySize]]
KeepsPromises == Promised!Spec
=============================================================================
