--------------------------- MODULE BankProperties ---------------------------
(* What makes the server of module Bank correct, and what its documents    *)
(* say of it.                                                              *)
EXTENDS Bank

(* Every variable holds a value of its kind: the slots and locals of the   *)
(* declarations in account.h, server-session.h and server-client.c.        *)
TypeOK ==
    /\ accounts_no \in 0 .. MaxAccount
    /\ name \in [Slots -> Names \cup {NoName}]
    /\ balance \in [Slots -> Int] /\ ledger \in [Slots -> Int]
    /\ in_session \in [Slots -> BOOLEAN]
    /\ session_mutex \in [Slots -> Handlers \cup {NoProc}]
    /\ new_account_lock \in Procs \cup {NoProc} /\ asleep \subseteq Procs
    /\ pc \in [Handlers -> Pcs]
    /\ client_account \in [Handlers -> Slots \cup {NoSlot}]
    /\ request \in [Handlers -> Heard] /\ response \in [Handlers -> Responses]
    /\ tmp \in [Handlers -> Int]
    /\ inbox \in [Handlers -> Seq(Menu)] /\ sent \in 0 .. MaxRequests
    /\ peer \in [Handlers -> Peers] /\ unread \in [Handlers -> BOOLEAN]
    /\ ppc \in {"sleep", "lock", "balance", "flag", "unlock"}
    /\ prow \in 0 .. MaxAccount /\ pbal \in Int /\ prints \in 0 .. MaxPrints

(* Two customers are never in session on one account, whatever interleaves *)
(* client_open's re-initialisation of a slot's mutex, client_start's       *)
(* search with an old counter, and pthread_mutex_trylock.                  *)
SessionExclusion ==
    \A h, k \in Handlers :
        h # k /\ client_account[h] # NoSlot => client_account[h] # client_account[k]

(* The mutex of an account is owned by exactly the handler whose           *)
(* client_account it is; a killed handler keeps it, one that exits by      *)
(* itself never does (client()'s four ways out).                           *)
MutexMatchesSession ==
    /\ \A s \in Slots, h \in Handlers :
        session_mutex[s] = h <=> client_account[h] = s
    /\ \A h \in Handlers : pc[h] = "exited" => client_account[h] = NoSlot

(* in_session, which a handler tests before every request and the printer  *)
(* shows, is YES exactly from SetFlag to ClearFlag of the owner.           *)
FlagMatchesSession ==
    \A s \in Slots :
        in_session[s] <=>
            \E h \in Handlers : /\ client_account[h] = s
                                /\ pc[h] \notin {"setFlag", "unlock"}

(* An account name is in the table once (client_open's check and its       *)
(* insertion are one critical section), and a slot the counter covers is   *)
(* a finished account: what search_account and print_account rely on.      *)
TableIsSound ==
    /\ \A s, t \in Covered : name[s] = name[t] => s = t
    /\ \A s \in Covered : name[s] # NoName
    /\ \A s \in Slots \ Covered : balance[s] = 0 /\ session_mutex[s] = NoProc

(* No update is lost: each balance is what the finished credits and debits *)
(* add up to, although account_credit and account_debit read and write it  *)
(* without a lock of their own.                                            *)
NoLostUpdate == balance = ledger

(* No account is overdrawn, although account_debit tests the balance in    *)
(* one read and subtracts from another.                                    *)
NoOverdraft == \A s \in Slots : balance[s] >= 0

(* new_account_lock_mutex is owned by a process inside its critical        *)
(* section, so every way through client_open, client_start and             *)
(* print_account, refusals included, gives it back, and no process dies    *)
(* with it.                                                                *)
AccountLockInUse ==
    /\ \A h \in Handlers : new_account_lock = h <=> pc[h] \in CriticalPcs
    /\ new_account_lock = Printer <=> ppc \in {"balance", "flag", "unlock"}

(* Answers are true when they are written: "opened" names an account of    *)
(* the table, "cannot open" outside a session a full table or an existing  *)
(* account, "in session" the account this client asked for.                *)
AnswerIsTrue(h) ==
    LET wanted == request[h].arg
        known  == \E s \in Covered : name[s] = wanted
    IN  /\ request[h].code = "OPEN" /\ response[h] = "SUCCESS" => known
        /\ response[h] = "CANNOT_OPEN" /\ client_account[h] = NoSlot =>
                known \/ accounts_no = MaxAccount
        /\ request[h].code = "START" /\ response[h] = "SUCCESS" =>
                /\ client_account[h] # NoSlot
                /\ name[client_account[h]] = wanted
AnswersAreTrue == \A h \in Handlers : pc[h] = "reply" => AnswerIsTrue(h)

(* A step of the server never renames or forgets an opened account, and    *)
(* its money moves only in a request of the handler that owns its session  *)
(* mutex, which account_credit and account_debit never look at.            *)
Endure ==
    /\ accounts_no' >= accounts_no
    /\ \A s \in Covered :
        /\ name'[s] = name[s]
        /\ balance'[s] # balance[s] =>
                \E h \in Handlers : /\ session_mutex[s] = h
                                    /\ pc[h] \in {"debitStore", "creditStore"}
                                    /\ pc'[h] = "reply"
AccountsEndure == [][Endure]_vars

(* The handler of a client that is gone comes to its end, also while it    *)
(* waits for an account in use, unless it sleeps at new_account_lock_mutex *)
(* again and again or for ever.                                            *)
VanishedAreReaped ==
    \A h \in Handlers :
        (peer[h] # "open" ~> pc[h] \in GonePcs) \/ []<>(h \in asleep)

(* The bank keeps the promises of module Accounts: an account appears when *)
(* the counter covers it, its session is the owner of its mutex.           *)
Known(n)  == \E s \in Covered : name[s] = n
SlotOf(n) == CHOOSE s \in Covered : name[s] = n
Customers == INSTANCE Accounts WITH
    Sessions <- Handlers,
    Capacity <- MaxAccount,
    Nobody   <- NoProc,
    opened   <- {name[s] : s \in Covered},
    money    <- [n \in Names |-> IF Known(n) THEN balance[SlotOf(n)] ELSE 0],
    holder   <- [n \in Names |-> IF Known(n) THEN session_mutex[SlotOf(n)] ELSE NoProc]
KeepsPromises == Customers!Spec

-----------------------------------------------------------------------------
(* Statements of the program's documents that the code does not keep.      *)

(* server-client.c:124 and bank-testcases.txt:59-69: when a client is      *)
(* closed unexpectedly its session is ended and the server continues to    *)
(* work: no account stays owned by a handler that is gone.                 *)
NoSessionOutlivesItsHandler ==
    \A s \in Slots, h \in Handlers : session_mutex[s] = h => pc[h] \notin GonePcs
=============================================================================
