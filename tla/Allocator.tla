----------------------------- MODULE Allocator ------------------------------
(***************************************************************************)
(* What malloc and free promise a program that uses them, without headers, *)
(* lists or traversals: a block handed out lies in the arena and apart     *)
(* from every block still held, and only the program's own free of a       *)
(* block's first address takes it back.                                    *)
(***************************************************************************)
EXTENDS Integers

CONSTANTS
    Arena,      \* bytes there are
    Requested   \* sizes of blocks

VARIABLE blocks   \* from the first address of each held block to its size

Apart(p, m, q, n) == p + m <= q \/ q + n <= p

Init == blocks = [p \in {} |-> 0]

Malloc(p, n) ==
    /\ p \notin DOMAIN blocks
    /\ p + n <= Arena
    /\ \A q \in DOMAIN blocks : Apart(p, n, q, blocks[q])
    /\ blocks' = [q \in DOMAIN blocks \cup {p} |-> IF q = p THEN n ELSE blocks[q]]

Free(p) ==
    /\ p \in DOMAIN blocks
    /\ blocks' = [q \in DOMAIN blocks \ {p} |-> blocks[q]]

Next == \E p \in 0 .. Arena :
            Free(p) \/ \E n \in Requested : Malloc(p, n)

Spec == Init /\ [][Next]_blocks
=============================================================================
