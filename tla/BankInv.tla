------------------------------ MODULE BankInv ------------------------------
(***************************************************************************)
(* The inductive invariant behind the safety properties of Bank, in        *)
(* layers: each is inductive given the ones before it.                     *)
(***************************************************************************)
EXTENDS BankProperties

(* Kinds of values, without the ranges that depend on control.             *)
Kinds ==
    /\ accounts_no \in Nat
    /\ name \in [Slots -> Names \cup {NoName}]
    /\ balance \in [Slots -> Int]
    /\ in_session \in [Slots -> BOOLEAN]
    /\ session_mutex \in [Slots -> Handlers \cup {NoProc}]
    /\ ledger \in [Slots -> Int]
    /\ new_account_lock \in Procs \cup {NoProc}
    /\ asleep \subseteq Procs
    /\ pc \in [Handlers -> Pcs]
    /\ client_account \in [Handlers -> Int]
    /\ request \in [Handlers -> Heard]
    /\ response \in [Handlers -> Responses]
    /\ tmp \in [Handlers -> Int]
    /\ inbox \in [Handlers -> Seq(Menu)]
    /\ peer \in [Handlers -> Peers]
    /\ unread \in [Handlers -> BOOLEAN]
    /\ sent \in 0 .. MaxRequests
    /\ ppc \in {"sleep", "lock", "balance", "flag", "unlock"}
    /\ prow \in Nat
    /\ pbal \in Int
    /\ prints \in 0 .. MaxPrints

(* A handler serves the request its place in the code is for.              *)
Serving ==
    \A h \in Handlers :
        /\ pc[h] \in OpenPcs => request[h].code = "OPEN"
        /\ pc[h] \in StartPcs => request[h].code = "START"
        /\ pc[h] \in DebitPcs => request[h].code = "DEBIT"
        /\ pc[h] \in CreditPcs => request[h].code = "CREDIT"

(* The table below its counter, and the slot an insertion is about to add. *)
Insertion ==
    /\ accounts_no \in 0 .. MaxAccount
    /\ \A s \in Covered : name[s] # NoName
    /\ \A s, t \in Covered : name[s] = name[t] => s = t
    /\ prow \in 0 .. accounts_no
    /\ ppc \in {"sleep", "lock"} => prow = 0
    /\ ppc \in {"balance", "flag"} => prow < accounts_no
    /\ \A h \in Handlers :
        /\ pc[h] \in {"openInit", "openCount"} =>
            /\ tmp[h] = accounts_no
            /\ accounts_no < MaxAccount
            /\ \A s \in Covered : name[s] # request[h].arg
        /\ pc[h] = "openCount" => name[tmp[h]] = request[h].arg

(* What a handler keeps of the table without the lock stays true of it.    *)
Lookup ==
    \A h \in Handlers :
        /\ pc[h] = "startSearch" => tmp[h] \in 0 .. accounts_no
        /\ pc[h] = "tryLock" =>
            tmp[h] \in Covered /\ name[tmp[h]] = request[h].arg
        /\ pc[h] = "setFlag" =>
            client_account[h] \in Covered /\ name[client_account[h]] = request[h].arg
        /\ client_account[h] \in Covered \cup {NoSlot}

(* Who is in session, by mutex, by client_account and by control.          *)
InPcs  == DebitPcs \cup CreditPcs \cup ClosePcs \cup {"setFlag"}
OutPcs == OpenPcs \cup (StartPcs \ {"setFlag"}) \cup {"unborn", "exited"}

Owning ==
    /\ \A h \in Handlers :
        /\ client_account[h] # NoSlot => session_mutex[client_account[h]] = h
        /\ pc[h] \in InPcs => client_account[h] # NoSlot
        /\ pc[h] \in OutPcs => client_account[h] = NoSlot
        /\ client_account[h] # NoSlot /\ pc[h] \notin {"setFlag", "unlock"} =>
                in_session[client_account[h]]
    /\ \A s \in Slots :
        /\ session_mutex[s] # NoProc => client_account[session_mutex[s]] = s
        /\ in_session[s] =>
            /\ session_mutex[s] # NoProc
            /\ pc[session_mutex[s]] \notin {"setFlag", "unlock"}

(* A handler's last answer is written when its session is over.            *)
Finishing ==
    \A h \in Handlers : pc[h] = "reply" /\ LastReply(h) => client_account[h] = NoSlot

(* Money: nobody but the owner of a session comes between a load and its   *)
(* store, and a slot not yet covered is empty.                             *)
Money ==
    /\ balance = ledger
    /\ \A s \in Slots : balance[s] >= 0
    /\ \A s \in Slots : s >= accounts_no => balance[s] = 0
    /\ \A h \in Handlers :
        /\ pc[h] \in {"debitStore", "creditStore"} =>
                tmp[h] = balance[client_account[h]]
        /\ pc[h] \in {"debitLoad", "debitStore"} =>
                balance[client_account[h]] >= request[h].arg

(* An answer is chosen no earlier than it can be written, and the one that *)
(* waits for the end of a session is not an answer about an account.       *)
Quiet ==
    \A h \in Handlers :
        /\ pc[h] \notin {"reply"} \cup ClosePcs \cup GonePcs => response[h] = "NONE"
        /\ pc[h] \in ClosePcs =>
            \/ response[h] \in {"NONE", "CONNECTION_TIME_OUT", "ACCOUNT_EXIT"}
            \/ response[h] = "SUCCESS" /\ request[h].code = "FINISH"

IInv == /\ Kinds /\ AccountLockInUse /\ Serving /\ Insertion /\ Lookup
        /\ Owning /\ Finishing /\ Money /\ Quiet /\ AnswersAreTrue
=============================================================================
