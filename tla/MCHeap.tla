------------------------------- MODULE MCHeap -------------------------------
EXTENDS HeapProperties

(* Every byte of the heap, the first one after it, one further away, and   *)
(* NULL.                                                                   *)
EveryPointer == 0 .. HeapSize + 1 \cup {Null}
=============================================================================
