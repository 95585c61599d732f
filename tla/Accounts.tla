------------------------------ MODULE Accounts ------------------------------
(***************************************************************************)
(* What the bank promises its customers, without processes, slots, mutexes *)
(* or sockets: an account is opened once and for ever while there is room, *)
(* at most one customer session uses it at a time, and only that session   *)
(* moves its money, which is never overdrawn.                              *)
(***************************************************************************)
EXTENDS Integers, FiniteSets

CONSTANTS
    Sessions,   \* who may use an account
    Names,      \* of accounts
    Amounts,    \* of credits and debits, at least 1
    Capacity,   \* how many accounts there may be
    Nobody      \* holder of an account not in use, not a session

VARIABLES opened, money, holder

vars == <<opened, money, holder>>

Init ==
    /\ opened = {}
    /\ money = [n \in Names |-> 0]
    /\ holder = [n \in Names |-> Nobody]

Open(n) ==
    /\ n \notin opened
    /\ Cardinality(opened) < Capacity
    /\ opened' = opened \cup {n}
    /\ UNCHANGED <<money, holder>>

Start(c, n) ==
    /\ n \in opened
    /\ holder[n] = Nobody
    /\ \A m \in Names : holder[m] # c
    /\ holder' = [holder EXCEPT ![n] = c]
    /\ UNCHANGED <<opened, money>>

Finish(c, n) ==
    /\ holder[n] = c
    /\ holder' = [holder EXCEPT ![n] = Nobody]
    /\ UNCHANGED <<opened, money>>

Credit(c, n, a) ==
    /\ holder[n] = c
    /\ money' = [money EXCEPT ![n] = @ + a]
    /\ UNCHANGED <<opened, holder>>

Debit(c, n, a) ==
    /\ holder[n] = c
    /\ money[n] >= a
    /\ money' = [money EXCEPT ![n] = @ - a]
    /\ UNCHANGED <<opened, holder>>

(* What has changed tells which of the actions a step can be.              *)
Next ==
    \/ opened' # opened /\ \E n \in Names : Open(n)
    \/ holder' # holder /\ \E c \in Sessions, n \in Names : Start(c, n) \/ Finish(c, n)
    \/ money' # money /\ \E c \in Sessions, n \in Names, a \in Amounts :
                             Credit(c, n, a) \/ Debit(c, n, a)

Spec == Init /\ [][Next]_vars
=============================================================================
