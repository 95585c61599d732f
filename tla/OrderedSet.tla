----------------------------- MODULE OrderedSet -----------------------------
(***************************************************************************)
(* What a sorted list with iterators promises: a set that items enter and  *)
(* leave, and cursors that walk it from the largest item down.  A cursor   *)
(* is not disturbed by changes behind or under it, and does not miss an    *)
(* item that is in the set all the way from the cursor's start until the   *)
(* cursor has passed it.                                                   *)
(***************************************************************************)
EXTENDS Integers

CONSTANTS
    Items,      \* integers
    Cursors,
    End         \* the cursor has passed the last item, an integer below all

VARIABLES
    members,
    cursor,     \* the item each cursor is at
    due         \* members since the cursor's start that it has not passed

vars == <<members, cursor, due>>

Init ==
    /\ members = {}
    /\ cursor = [c \in Cursors |-> End]
    /\ due = [c \in Cursors |-> {}]

Insert(x) ==
    /\ x \notin members
    /\ members' = members \cup {x}
    /\ UNCHANGED <<cursor, due>>

Remove(x) ==
    /\ x \in members
    /\ members' = members \ {x}
    /\ due' = [c \in Cursors |-> due[c] \ {x}]
    /\ UNCHANGED cursor

(* A cursor starts at the largest item, which it then has: to read it      *)
(* takes no Advance, and the first Advance leaves it.  So does the list's  *)
(* code (sorted-list.c:203, 229), and not its header (sorted-list.h:75).   *)
Start(c) ==
    \E x \in members \cup {End} :
        /\ \A y \in members : y <= x
        /\ cursor' = [cursor EXCEPT ![c] = x]
        /\ due' = [due EXCEPT ![c] = members \ {x}]
        /\ UNCHANGED members

Advance(c) ==
    \E x \in Items \cup {End} :
        /\ x < cursor[c]
        /\ \A y \in due[c] : y <= x
        /\ cursor' = [cursor EXCEPT ![c] = x]
        /\ due' = [due EXCEPT ![c] = @ \ {x}]
        /\ UNCHANGED members

Stop(c) ==
    /\ cursor' = [cursor EXCEPT ![c] = End]
    /\ due' = [due EXCEPT ![c] = {}]
    /\ UNCHANGED members

Next ==
    \/ \E x \in Items : Insert(x) \/ Remove(x)
    \/ \E c \in Cursors : Start(c) \/ Advance(c) \/ Stop(c)

Spec == Init /\ [][Next]_vars
=============================================================================
