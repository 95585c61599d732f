-------------------------------- MODULE Heap --------------------------------
(***************************************************************************)
(* customMalloc and customFree of EnhancedMalloc/src/heap.c: a first-fit   *)
(* allocator whose chunk headers lie in the array they manage, linked in   *)
(* address order.                                                          *)
(*                                                                         *)
(* An address is the offset of a byte in mem[].  The header fields are     *)
(* functions on addresses; nodes are the addresses that hold a header now, *)
(* and the fields of any other address are cleared, for nobody reads what  *)
(* a dead header leaves.  Both calls walk the list one header per step.    *)
(* live is history: the blocks the program holds.  The file and line of a  *)
(* free, which are kept to be printed, are left out.                       *)
(***************************************************************************)
EXTENDS Integers

CONSTANTS
    HeapSize,      \* bytes of mem[] (HEAP_SIZE)
    EntrySize,     \* bytes of a header (ENTRY_SIZE)
    Sizes,         \* sizes the program asks for
    Pointers       \* what it passes to free: offsets, Null, or foreign ones

ASSUME HeapAssumption ==
    /\ HeapSize \in Nat /\ EntrySize \in Nat \ {0}
    /\ EntrySize <= HeapSize
    /\ Sizes \subseteq Nat
    /\ Pointers \subseteq Int

Null  == -1
Addrs == 0 .. HeapSize - 1
head  == 0

VARIABLES
    initialized,
    nodes, prev, next, isFree, size,   \* the headers
    op, arg, temp,          \* the call in progress and its cursor
    result,                 \* what the last call returned or reported
    live                    \* history

heap == <<initialized, nodes, prev, next, isFree, size>>
call == <<op, arg, temp>>
vars == <<heap, call, result, live>>

Errors == {"HEAP_MALLOC_INSUFFICIENT", "HEAP_FREE_REDUNDANT",
           "HEAP_FREE_NOT_ALLOCATED", "HEAP_FREE_MIDDLE"}

Init ==
    /\ initialized = FALSE
    /\ nodes = {}
    /\ prev = [a \in Addrs |-> Null]
    /\ next = [a \in Addrs |-> Null]
    /\ isFree = [a \in Addrs |-> FALSE]
    /\ size = [a \in Addrs |-> 0]
    /\ op = "idle"
    /\ arg = 0
    /\ temp = Null
    /\ result = "none"
    /\ live = [p \in {} |-> 0]

data(a)  == a + EntrySize          \* the address a header's chunk begins at
end(a)   == data(a) + size[a]      \* and the first one after it

Return(what) ==
    /\ op' = "idle" /\ arg' = 0 /\ temp' = Null
    /\ result' = what

-----------------------------------------------------------------------------
(* customMalloc                                                            *)

CallMalloc(s) ==
    /\ op = "idle"
    /\ op' = "malloc" /\ arg' = s /\ temp' = head
    /\ initialized' = TRUE
    /\ IF initialized
       THEN UNCHANGED <<nodes, prev, next, isFree, size>>
       ELSE /\ nodes' = {head}
            /\ isFree' = [isFree EXCEPT ![head] = TRUE]
            /\ size' = [size EXCEPT ![head] = HeapSize - EntrySize]
            /\ UNCHANGED <<prev, next>>
    /\ result' = "none"
    /\ UNCHANGED live

(* Mutants: no room for the header behind the chunk; room that is not needed. *)
FitsBare(a) == isFree[a] /\ size[a] >= arg
FitsTightly(a) == isFree[a] /\ size[a] > arg + EntrySize
Fits(a) == isFree[a] /\ size[a] >= arg + EntrySize

(* Mutant: temp->next is overwritten before it is read. *)
LinkedToItself(new) == new
LinkOf(new) == next[temp]

(* The chunk is cut in two.                                                *)
MallocSplit ==
    /\ op = "malloc" /\ temp # Null
    /\ Fits(temp)
    /\ LET newEntry == temp + EntrySize + arg
           after    == next[temp]
       IN  /\ nodes' = nodes \cup {newEntry}
           /\ prev' = [a \in Addrs |-> IF a = newEntry THEN temp
                                       ELSE IF a = after THEN newEntry ELSE prev[a]]
           /\ next' = [next EXCEPT ![newEntry] = LinkOf(newEntry), ![temp] = newEntry]
           /\ isFree' = [isFree EXCEPT ![newEntry] = TRUE, ![temp] = FALSE]
           /\ size' = [size EXCEPT ![newEntry] = size[temp] - arg - EntrySize,
                                   ![temp] = arg]
    /\ Return("block")
    /\ live' = [p \in DOMAIN live \cup {data(temp)} |->
                    IF p = data(temp) THEN arg ELSE live[p]]
    /\ UNCHANGED initialized

MallocNext ==
    /\ op = "malloc" /\ temp # Null
    /\ ~Fits(temp)
    /\ temp' = next[temp]
    /\ UNCHANGED <<heap, op, arg, result, live>>

MallocFail ==
    /\ op = "malloc" /\ temp = Null
    /\ Return("HEAP_MALLOC_INSUFFICIENT")
    /\ UNCHANGED <<heap, live>>

-----------------------------------------------------------------------------
(* customFree                                                              *)

CallFree(p) ==
    /\ op = "idle"
    /\ IF initialized
       THEN op' = "free" /\ arg' = p /\ temp' = head /\ result' = "none"
       ELSE Return("HEAP_FREE_NOT_ALLOCATED")
    /\ UNCHANGED <<heap, live>>

(* Mutant: a chunk's first byte is inside it. *)
InsideOrFirst(a) == data(a) <= arg /\ arg < end(a)
Inside(a) == data(a) < arg /\ arg < end(a)

FreeMiddle ==
    /\ op = "free" /\ temp # Null
    /\ Inside(temp)
    /\ Return("HEAP_FREE_MIDDLE")
    /\ UNCHANGED <<heap, live>>

FreeRedundant ==
    /\ op = "free" /\ temp # Null
    /\ ~Inside(temp) /\ data(temp) = arg
    /\ isFree[temp]
    /\ Return("HEAP_FREE_REDUNDANT")
    /\ UNCHANGED <<heap, live>>

(* The chunk before, and the chunk after, are joined when they are free.   *)
(* Mutants: one of them is not looked at, or joined in any case; its       *)
(* header's bytes are lost.                                                *)
NeverJoins(a) == FALSE
AlwaysJoins(a) == next[a] # Null
JoinsPrev(a) == prev[a] # Null /\ isFree[prev[a]]
JoinsNext(a) == next[a] # Null /\ isFree[next[a]]
DataOnly(a) == size[a]
Bytes(a) == size[a] + EntrySize

(* Without a join, the back link of the chunk after is what it was.        *)
FreeChunk ==
    /\ op = "free" /\ temp # Null
    /\ ~Inside(temp) /\ data(temp) = arg
    /\ ~isFree[temp]
    /\ LET joined == JoinsPrev(temp)
           base   == IF joined THEN prev[temp] ELSE temp
           middle == next[temp]
           after  == IF JoinsNext(temp) THEN next[middle] ELSE middle
           gone   == (IF joined THEN {temp} ELSE {})
                        \cup (IF JoinsNext(temp) THEN {middle} ELSE {})
           bytes  == size[temp] + (IF joined THEN Bytes(base) ELSE 0)
                        + (IF JoinsNext(temp) THEN Bytes(middle) ELSE 0)
       IN  /\ nodes' = nodes \ gone
           /\ prev' = [a \in Addrs |-> IF a \in gone THEN Null
                                       ELSE IF a = after THEN base ELSE prev[a]]
           /\ next' = [a \in Addrs |-> IF a \in gone THEN Null
                                       ELSE IF a = base THEN after ELSE next[a]]
           /\ isFree' = [a \in Addrs |-> IF a \in gone THEN FALSE
                                         ELSE a = base \/ isFree[a]]
           /\ size' = [a \in Addrs |-> IF a \in gone THEN 0
                                       ELSE IF a = base THEN bytes ELSE size[a]]
    /\ Return("freed")
    /\ live' = [p \in DOMAIN live \ {arg} |-> live[p]]
    /\ UNCHANGED initialized

FreeNext ==
    /\ op = "free" /\ temp # Null
    /\ ~Inside(temp) /\ data(temp) # arg
    /\ temp' = next[temp]
    /\ UNCHANGED <<heap, op, arg, result, live>>

FreeNotAllocated ==
    /\ op = "free" /\ temp = Null
    /\ Return("HEAP_FREE_NOT_ALLOCATED")
    /\ UNCHANGED <<heap, live>>

-----------------------------------------------------------------------------
Malloc == MallocSplit \/ MallocNext \/ MallocFail
Free   == FreeMiddle \/ FreeRedundant \/ FreeChunk \/ FreeNext \/ FreeNotAllocated

Next ==
    \/ \E s \in Sizes : CallMalloc(s)
    \/ \E p \in Pointers : CallFree(p)
    \/ Malloc
    \/ Free

Spec == Init /\ [][Next]_vars

(* A call that was made runs.  Nobody has to make one.                     *)
FairSpec == Spec /\ WF_vars(Malloc \/ Free)
=============================================================================
