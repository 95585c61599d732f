----------------------------- MODULE BankProofs -----------------------------
(***************************************************************************)
(* Proofs that the bank keeps its safety properties for any numbers of     *)
(* handlers, names, amounts, slots and requests.                           *)
(*                                                                         *)
(* IInv is proved inductive one layer at a time, the layers in the order   *)
(* of their dependence: control against the lock (AccountLockInUse), the   *)
(* request a handler serves (Serving), the table (Insertion, Lookup), who  *)
(* is in session (Finishing, Owning), the money (Money), the answers       *)
(* (Quiet, AnswersAreTrue).  Each layer is one lemma with one step per     *)
(* action; then they are put together, and the last section maps the steps *)
(* of the server to those of module Accounts.                              *)
(***************************************************************************)
EXTENDS BankInv, FiniteSetTheorems, TLAPS

(* What a handler reads of a request's argument, set_request's cell of     *)
(* names or amounts: an account name with OPEN and START, an amount with   *)
(* CREDIT and DEBIT.                                                       *)
LEMMA HeardArguments ==
    ASSUME NEW r \in Heard
    PROVE  /\ r.code \in {"OPEN", "START"} => r.arg \in Names
           /\ r.code \in {"CREDIT", "DEBIT"} => r.arg \in Nat /\ r.arg > 0
<1>1. ASSUME r.code \in {"OPEN", "START"} PROVE r.arg \in Names
  BY <1>1 DEF Heard, Requests, Garbage, NoRequest
<1>2. ASSUME r.code \in {"CREDIT", "DEBIT"} PROVE r.arg \in Amounts
  BY <1>2 DEF Heard, Requests, Garbage, NoRequest
<1>3. \A a \in Amounts : a \in Nat /\ a > 0
  BY DataAssumption
<1> QED
  BY <1>1, <1>2, <1>3

(* Every request a client sends is one a handler can hear.                 *)
LEMMA MenuHeard == Menu \subseteq Heard
BY DataAssumption DEF Heard

(* The request that a failed read leaves behind, its code swapped by       *)
(* ntohl, is one a handler can hear.                                       *)
LEMMA SwappedHeard ==
    ASSUME NEW r \in Heard
    PROVE  Swapped(r) \in Heard
BY DataAssumption DEF Heard, Requests, Garbage, NoRequest, Swapped

(* An update of a function at one point by a value of its range keeps its  *)
(* kind.                                                                   *)
LEMMA ExceptKind ==
    ASSUME NEW S, NEW T, NEW f \in [S -> T], NEW i, NEW v \in T
    PROVE  [f EXCEPT ![i] = v] \in [S -> T]
OBVIOUS

(* search_account returns -1 for an empty table, the slot of the name when *)
(* it is there, and the number of slots searched when it is not.           *)
LEMMA SearchFinds ==
    ASSUME NEW n \in Nat, NEW nm,
           \A s, t \in 0 .. n - 1 : name[s] = name[t] => s = t
    PROVE  /\ search_account(n, nm) \in Int
           /\ n = 0 => search_account(n, nm) = -1
           /\ n # 0 /\ (\E s \in 0 .. n - 1 : name[s] = nm) =>
                /\ search_account(n, nm) \in 0 .. n - 1
                /\ name[search_account(n, nm)] = nm
           /\ n # 0 /\ ~(\E s \in 0 .. n - 1 : name[s] = nm) =>
                search_account(n, nm) = n
<1>1. CASE n = 0
  BY <1>1 DEF search_account
<1>2. CASE n # 0 /\ ~(\E s \in 0 .. n - 1 : name[s] = nm)
  BY <1>2 DEF search_account
<1>3. CASE n # 0 /\ (\E s \in 0 .. n - 1 : name[s] = nm)
  <2>1. PICK s \in 0 .. n - 1 : name[s] = nm
    BY <1>3
  <2>2. \A j \in 0 .. s - 1 : name[j] # nm
    BY <2>1
  <2>3. search_account(n, nm) =
          CHOOSE i \in 0 .. n - 1 : name[i] = nm /\ \A j \in 0 .. i - 1 : name[j] # nm
    BY <1>3 DEF search_account
  <2> QED
    BY <1>3, <2>1, <2>2, <2>3
<1> QED
  BY <1>1, <1>2, <1>3

(* What client_start does not take for "not found" is the slot of the      *)
(* wanted account.                                                         *)
LEMMA SearchHits ==
    ASSUME NEW n \in Nat, NEW nm,
           \A s, t \in 0 .. n - 1 : name[s] = name[t] => s = t,
           ~Unfound(search_account(n, nm), n)
    PROVE  /\ search_account(n, nm) \in 0 .. n - 1
           /\ name[search_account(n, nm)] = nm
BY SearchFinds DEF Unfound

(* A write keeps the kinds of the socket's variables.                      *)
LEMMA WriteKind ==
    ASSUME NEW h \in Handlers, Write(h), peer \in [Handlers -> Peers],
           unread \in [Handlers -> BOOLEAN]
    PROVE  peer' \in [Handlers -> Peers] /\ unread' \in [Handlers -> BOOLEAN]
<1>1. peer' \in [Handlers -> Peers]
  BY DEF Write, Peers
<1>2. (peer[h] = "open" /\ h \in Vanishing) \in BOOLEAN
  OBVIOUS
<1>3. unread' \in [Handlers -> BOOLEAN]
  BY <1>2, ExceptKind DEF Write
<1> QED
  BY <1>1, <1>3

(* Where client()'s switch for a client out of session leads, and what it  *)
(* leaves alone.                                                           *)
LEMMA OutOfSessionMoves ==
    ASSUME NEW h \in Handlers, DispatchOutOfSession(h)
    PROVE  /\ \E where \in {"reply", "openLock", "startLock"} :
                pc' = [pc EXCEPT ![h] = where]
           /\ \/ UNCHANGED response
              \/ \E code \in Responses : response' = [response EXCEPT ![h] = code]
           /\ pc[h] = "dispatch"
           /\ UNCHANGED <<table, locking, client_account, request, tmp, socket, printer>>
<1> USE DEF Goto, Respond, Answer, Responses
<1>1. CASE request[h].code = "OPEN"
  BY <1>1 DEF DispatchOutOfSession
<1>2. CASE request[h].code = "START"
  BY <1>2 DEF DispatchOutOfSession
<1>3. CASE request[h].code \notin {"OPEN", "START"}
  BY <1>3 DEF DispatchOutOfSession
<1> QED
  BY <1>1, <1>2, <1>3

(* Where client()'s switch for a client in session leads, and what it      *)
(* leaves alone.                                                           *)
LEMMA InSessionMoves ==
    ASSUME NEW h \in Handlers, DispatchInSession(h)
    PROVE  /\ \E where \in {"reply", "debitCheck", "creditLoad", "clear"} :
                pc' = [pc EXCEPT ![h] = where]
           /\ \/ UNCHANGED response
              \/ \E code \in Responses : response' = [response EXCEPT ![h] = code]
           /\ pc[h] = "dispatch"
           /\ UNCHANGED <<table, locking, client_account, request, tmp, socket, printer>>
<1> USE DEF Goto, Respond, Answer, Responses
<1>1. CASE request[h].code \in {"DEBIT", "CREDIT"}
  BY <1>1 DEF DispatchInSession
<1>2. CASE request[h].code \in {"FINISH", "EXIT"}
  BY <1>2 DEF DispatchInSession
<1>3. CASE request[h].code \in {"OPEN", "START"}
  BY <1>3 DEF DispatchInSession
<1>4. CASE request[h].code \notin {"OPEN", "START", "DEBIT", "CREDIT", "FINISH", "EXIT"}
  BY <1>4 DEF DispatchInSession
<1> QED
  BY <1>1, <1>2, <1>3, <1>4

(* Every step keeps every variable's kind.                                 *)
LEMMA KindsPreserved ==
    ASSUME IInv, [Next]_vars
    PROVE  Kinds'
<1> USE ProcessAssumption, DataAssumption, BoundAssumption
    DEF IInv, Kinds, table, locking, locals, socket, printer, Goto, Respond,
        Answer, Carry, TakesLock, DropsLock, Pcs, OpenPcs, StartPcs, DebitPcs,
        CreditPcs, ClosePcs, GonePcs, LockPcs, Responses, Peers, NoSlot
<1>1. ASSUME NEW h \in Handlers, TakeAccountLock(h) PROVE Kinds'
  BY <1>1 DEF TakeAccountLock, Procs
<1>2. ASSUME NEW h \in Handlers, OpenRefused(h) PROVE Kinds'
  BY <1>2 DEF OpenRefused
<1>3. ASSUME NEW h \in Handlers, OpenChosen(h) PROVE Kinds'
  BY <1>3, SearchFinds DEF OpenChosen, Wanted, Insertion, Covered
<1>4. ASSUME NEW h \in Handlers, OpenInit(h) PROVE Kinds'
  <2>1. name' \in [Slots -> Names \cup {NoName}]
    BY <1>4, HeardArguments DEF OpenInit, Serving
  <2>2. balance' \in [Slots -> Int] /\ ledger' \in [Slots -> Int]
    BY <1>4, ExceptKind DEF OpenInit
  <2>3. session_mutex' \in [Slots -> Handlers \cup {NoProc}]
    BY <1>4 DEF OpenInit
  <2> QED
    BY <1>4, <2>1, <2>2, <2>3 DEF OpenInit
<1>5. ASSUME NEW h \in Handlers, OpenCount(h) PROVE Kinds'
  BY <1>5 DEF OpenCount
<1>6. ASSUME NEW h \in Handlers, StartCount(h) PROVE Kinds'
  BY <1>6 DEF StartCount
<1>7. ASSUME NEW h \in Handlers, StartSearch(h) PROVE Kinds'
  <2> DEFINE found == search_account(tmp[h], request[h].arg)
  <2>1. found \in Int
    BY <1>7, SearchFinds DEF StartSearch, Insertion, Lookup, Covered
  <2>2. \/ Answer(h, "CANNOT_START") /\ Carry(h, 0)
        \/ Goto(h, "tryLock") /\ Carry(h, found) /\ UNCHANGED response
    BY <1>7, Zenon DEF StartSearch
  <2> HIDE DEF found
  <2>3. tmp' \in [Handlers -> Int]
    BY <2>1, <2>2, ExceptKind
  <2>4. pc' \in [Handlers -> Pcs]
    BY <2>2
  <2>5. response' \in [Handlers -> Responses]
    BY <2>2
  <2> QED
    BY <1>7, <2>3, <2>4, <2>5 DEF StartSearch
<1>8. ASSUME NEW h \in Handlers, TryLock(h) PROVE Kinds'
  <2>1. session_mutex' \in [Slots -> Handlers \cup {NoProc}]
    BY <1>8 DEF TryLock
  <2>2. client_account' \in [Handlers -> Int]
    BY <1>8 DEF TryLock
  <2> QED
    BY <1>8, <2>1, <2>2 DEF TryLock
<1>9. ASSUME NEW h \in Handlers, TryFail(h) PROVE Kinds'
  <2>1. peer' \in [Handlers -> Peers] /\ unread' \in [Handlers -> BOOLEAN]
    <3>1. CASE UNCHANGED <<peer, unread>>
      BY <3>1
    <3>2. CASE Write(h)
      BY <3>2, WriteKind
    <3> QED
      BY <1>9, <3>1, <3>2 DEF TryFail
  <2>2. \/ Goto(h, "killed") /\ Carry(h, 0)
        \/ UNCHANGED <<pc, tmp>>
    BY <1>9, Zenon DEF TryFail
  <2>3. pc' \in [Handlers -> Pcs]
    BY <2>2
  <2>4. tmp' \in [Handlers -> Int]
    BY <2>2, ExceptKind
  <2> QED
    BY <1>9, <2>1, <2>3, <2>4 DEF TryFail
<1>10. ASSUME NEW h \in Handlers, SetFlag(h) PROVE Kinds'
  BY <1>10 DEF SetFlag
<1>11. ASSUME NEW h \in Handlers, DebitCheck(h) PROVE Kinds'
  <2>1. PICK where \in {"reply", "debitLoad"} : pc' = [pc EXCEPT ![h] = where]
    BY <1>11, Zenon DEF DebitCheck
  <2>2. response' \in [Handlers -> Responses]
    BY <1>11 DEF DebitCheck
  <2> QED
    BY <1>11, <2>1, <2>2 DEF DebitCheck
<1>12. ASSUME NEW h \in Handlers, Load(h) PROVE Kinds'
  <2>1. client_account[h] \in Slots
    BY <1>12 DEF Load, Owning, Lookup, Insertion, Covered, Slots, InPcs
  <2>2. tmp' \in [Handlers -> Int]
    BY <1>12, <2>1, ExceptKind DEF Load
  <2> QED
    BY <1>12, <2>2 DEF Load
<1>13. ASSUME NEW h \in Handlers, Store(h) PROVE Kinds'
  <2>1. request[h].code \in {"DEBIT", "CREDIT"}
    BY <1>13 DEF Store, Serving
  <2>2. request[h].arg \in Int /\ tmp[h] \in Int /\ -request[h].arg \in Int
    BY <2>1, HeardArguments
  <2>3. PICK delta \in Int :
          /\ balance' = [balance EXCEPT ![client_account[h]] = tmp[h] + delta]
          /\ ledger' = [ledger EXCEPT ![client_account[h]] = ledger[client_account[h]] + delta]
    <3>1. CASE pc[h] = "debitStore"
      BY <1>13, <2>2, <3>1 DEF Store
    <3>2. CASE pc[h] # "debitStore"
      BY <1>13, <2>2, <3>2 DEF Store
    <3> QED
      BY <3>1, <3>2
  <2>4. client_account[h] \in Slots
    BY <1>13 DEF Store, Owning, Lookup, Insertion, Covered, Slots, InPcs
  <2>5. tmp[h] + delta \in Int /\ ledger[client_account[h]] + delta \in Int
    BY <2>2, <2>4
  <2>6. balance' \in [Slots -> Int] /\ ledger' \in [Slots -> Int]
    BY <2>3, <2>5, ExceptKind
  <2> QED
    BY <1>13, <2>6 DEF Store
<1>14. ASSUME NEW h \in Handlers, ClearFlag(h) PROVE Kinds'
  BY <1>14 DEF ClearFlag
<1>15. ASSUME NEW h \in Handlers, UnlockSession(h) PROVE Kinds'
  <2>1. session_mutex' \in [Slots -> Handlers \cup {NoProc}]
    BY <1>15 DEF UnlockSession
  <2> QED
    BY <1>15, <2>1 DEF UnlockSession, ForgetAccount
<1>16. ASSUME NEW h \in Handlers, Accept(h) PROVE Kinds'
  BY <1>16 DEF Accept
<1>17. ASSUME NEW h \in Handlers, ReadRequest(h) PROVE Kinds'
  BY <1>17, MenuHeard DEF ReadRequest
<1>18. ASSUME NEW h \in Handlers, ReadError(h) PROVE Kinds'
  BY <1>18, SwappedHeard DEF ReadError
<1>19. ASSUME NEW h \in Handlers, ReadEof(h) PROVE Kinds'
  BY <1>19 DEF ReadEof, AfterEof
<1>20. ASSUME NEW h \in Handlers, DispatchOutOfSession(h) PROVE Kinds'
  <2>1. PICK where \in {"reply", "openLock", "startLock"} :
            pc' = [pc EXCEPT ![h] = where]
    BY <1>20, OutOfSessionMoves
  <2>2. /\ pc[h] = "dispatch"
        /\ UNCHANGED <<table, locking, client_account, request, tmp, socket, printer>>
    BY <1>20, OutOfSessionMoves
  <2>3. response' \in [Handlers -> Responses]
    BY <1>20, OutOfSessionMoves
  <2> QED
    BY <2>1, <2>2, <2>3
<1>21. ASSUME NEW h \in Handlers, DispatchInSession(h) PROVE Kinds'
  <2>1. PICK where \in {"reply", "debitCheck", "creditLoad", "clear"} :
            pc' = [pc EXCEPT ![h] = where]
    BY <1>21, InSessionMoves
  <2>2. /\ pc[h] = "dispatch"
        /\ UNCHANGED <<table, locking, client_account, request, tmp, socket, printer>>
    BY <1>21, InSessionMoves
  <2>3. response' \in [Handlers -> Responses]
    BY <1>21, InSessionMoves
  <2> QED
    BY <2>1, <2>2, <2>3
<1>22. ASSUME NEW h \in Handlers, Reply(h) PROVE Kinds'
  BY <1>22, WriteKind DEF Reply
<1>23. ASSUME NEW h \in Handlers, BrokenPipe(h) PROVE Kinds'
  BY <1>23 DEF BrokenPipe
<1>24. ASSUME NEW h \in Handlers, SelectTimeout(h) PROVE Kinds'
  BY <1>24 DEF SelectTimeout
<1>25. ASSUME NEW h \in Handlers, Send(h) PROVE Kinds'
  BY <1>25 DEF Send
<1>26. ASSUME NEW h \in Handlers, ReadAnswers(h) PROVE Kinds'
  BY <1>26 DEF ReadAnswers
<1>27. ASSUME NEW h \in Handlers, Vanish(h) PROVE Kinds'
  BY <1>27 DEF Vanish
<1>28. ASSUME NEW h \in Handlers, ResetArrives(h) PROVE Kinds'
  BY <1>28 DEF ResetArrives
<1>29. CASE PrinterAwake
  BY <1>29 DEF PrinterAwake
<1>30. CASE PrinterLock
  BY <1>30 DEF PrinterLock, Procs
<1>31. CASE PrintBalance
  BY <1>31 DEF PrintBalance, Insertion, Slots
<1>32. CASE PrintFlag
  BY <1>32 DEF PrintFlag
<1>33. CASE PrinterUnlock
  BY <1>33 DEF PrinterUnlock
<1>34. ASSUME NEW p \in Procs, Sleep(p) PROVE Kinds'
  BY <1>34 DEF Sleep
<1>35. ASSUME NEW p \in Procs, Wake(p) PROVE Kinds'
  BY <1>35 DEF Wake
<1>36. CASE UNCHANGED vars
  BY <1>36 DEF vars
<1> QED
  BY <1>1, <1>2, <1>3, <1>4, <1>5, <1>6, <1>7, <1>8, <1>9, <1>10, <1>11, <1>12,
     <1>13, <1>14, <1>15, <1>16, <1>17, <1>18, <1>19, <1>20, <1>21, <1>22,
     <1>23, <1>24, <1>25, <1>26, <1>27, <1>28, <1>29, <1>30, <1>31, <1>32,
     <1>33, <1>34, <1>35, <1>36
  DEF Next, HandlerStep, OpenStep, StartStep, MoneyStep, LoopStep, CloseStep,
      PrinterStep, ClientStep

(* Every step keeps new_account_lock_mutex owned by exactly the process in *)
(* its critical section.                                                   *)
LEMMA AccountLockInUsePreserved ==
    ASSUME Kinds, AccountLockInUse, [Next]_vars
    PROVE  AccountLockInUse'
<1> USE ProcessAssumption
    DEF Kinds, AccountLockInUse, table, locking, locals, socket, printer, Goto,
        Respond, Answer, Carry, TakesLock, DropsLock, LockPcs, CriticalPcs,
        Procs
<1>1. ASSUME NEW h \in Handlers, TakeAccountLock(h) PROVE AccountLockInUse'
  BY <1>1 DEF TakeAccountLock
<1>2. ASSUME NEW h \in Handlers, OpenRefused(h) PROVE AccountLockInUse'
  BY <1>2 DEF OpenRefused
<1>3. ASSUME NEW h \in Handlers, OpenChosen(h) PROVE AccountLockInUse'
  BY <1>3 DEF OpenChosen
<1>4. ASSUME NEW h \in Handlers, OpenInit(h) PROVE AccountLockInUse'
  BY <1>4 DEF OpenInit
<1>5. ASSUME NEW h \in Handlers, OpenCount(h) PROVE AccountLockInUse'
  BY <1>5 DEF OpenCount
<1>6. ASSUME NEW h \in Handlers, StartCount(h) PROVE AccountLockInUse'
  BY <1>6 DEF StartCount
<1>7. ASSUME NEW h \in Handlers, StartSearch(h) PROVE AccountLockInUse'
  <2>1. PICK where \in {"reply", "tryLock"} : pc' = [pc EXCEPT ![h] = where]
    BY <1>7, Zenon DEF StartSearch
  <2> QED
    BY <1>7, <2>1 DEF StartSearch
<1>8. ASSUME NEW h \in Handlers, TryLock(h) PROVE AccountLockInUse'
  BY <1>8 DEF TryLock
<1>9. ASSUME NEW h \in Handlers, TryFail(h) PROVE AccountLockInUse'
  BY <1>9 DEF TryFail
<1>10. ASSUME NEW h \in Handlers, SetFlag(h) PROVE AccountLockInUse'
  BY <1>10 DEF SetFlag
<1>11. ASSUME NEW h \in Handlers, DebitCheck(h) PROVE AccountLockInUse'
  <2>1. PICK where \in {"reply", "debitLoad"} : pc' = [pc EXCEPT ![h] = where]
    BY <1>11, Zenon DEF DebitCheck
  <2> QED
    BY <1>11, <2>1 DEF DebitCheck
<1>12. ASSUME NEW h \in Handlers, Load(h) PROVE AccountLockInUse'
  BY <1>12 DEF Load
<1>13. ASSUME NEW h \in Handlers, Store(h) PROVE AccountLockInUse'
  BY <1>13 DEF Store
<1>14. ASSUME NEW h \in Handlers, ClearFlag(h) PROVE AccountLockInUse'
  BY <1>14 DEF ClearFlag
<1>15. ASSUME NEW h \in Handlers, UnlockSession(h) PROVE AccountLockInUse'
  BY <1>15 DEF UnlockSession
<1>16. ASSUME NEW h \in Handlers, Accept(h) PROVE AccountLockInUse'
  BY <1>16 DEF Accept
<1>17. ASSUME NEW h \in Handlers, ReadRequest(h) PROVE AccountLockInUse'
  BY <1>17 DEF ReadRequest
<1>18. ASSUME NEW h \in Handlers, ReadError(h) PROVE AccountLockInUse'
  BY <1>18 DEF ReadError
<1>19. ASSUME NEW h \in Handlers, ReadEof(h) PROVE AccountLockInUse'
  BY <1>19 DEF ReadEof, AfterEof
<1>20. ASSUME NEW h \in Handlers, DispatchOutOfSession(h) PROVE AccountLockInUse'
  <2>1. PICK where \in {"reply", "openLock", "startLock"} :
            pc' = [pc EXCEPT ![h] = where]
    BY <1>20, OutOfSessionMoves
  <2>2. /\ pc[h] = "dispatch"
        /\ UNCHANGED <<table, locking, client_account, request, tmp, socket, printer>>
    BY <1>20, OutOfSessionMoves
  <2> QED
    BY <2>1, <2>2
<1>21. ASSUME NEW h \in Handlers, DispatchInSession(h) PROVE AccountLockInUse'
  <2>1. PICK where \in {"reply", "debitCheck", "creditLoad", "clear"} :
            pc' = [pc EXCEPT ![h] = where]
    BY <1>21, InSessionMoves
  <2>2. /\ pc[h] = "dispatch"
        /\ UNCHANGED <<table, locking, client_account, request, tmp, socket, printer>>
    BY <1>21, InSessionMoves
  <2> QED
    BY <2>1, <2>2
<1>22. ASSUME NEW h \in Handlers, Reply(h) PROVE AccountLockInUse'
  BY <1>22 DEF Reply
<1>23. ASSUME NEW h \in Handlers, BrokenPipe(h) PROVE AccountLockInUse'
  BY <1>23 DEF BrokenPipe
<1>24. ASSUME NEW h \in Handlers, SelectTimeout(h) PROVE AccountLockInUse'
  BY <1>24 DEF SelectTimeout
<1>25. ASSUME NEW h \in Handlers, Send(h) PROVE AccountLockInUse'
  BY <1>25 DEF Send
<1>26. ASSUME NEW h \in Handlers, ReadAnswers(h) PROVE AccountLockInUse'
  BY <1>26 DEF ReadAnswers
<1>27. ASSUME NEW h \in Handlers, Vanish(h) PROVE AccountLockInUse'
  BY <1>27 DEF Vanish
<1>28. ASSUME NEW h \in Handlers, ResetArrives(h) PROVE AccountLockInUse'
  BY <1>28 DEF ResetArrives
<1>29. CASE PrinterAwake
  BY <1>29 DEF PrinterAwake
<1>30. CASE PrinterLock
  BY <1>30 DEF PrinterLock
<1>31. CASE PrintBalance
  BY <1>31 DEF PrintBalance
<1>32. CASE PrintFlag
  BY <1>32 DEF PrintFlag
<1>33. CASE PrinterUnlock
  BY <1>33 DEF PrinterUnlock
<1>34. ASSUME NEW p \in Procs, Sleep(p) PROVE AccountLockInUse'
  BY <1>34 DEF Sleep
<1>35. ASSUME NEW p \in Procs, Wake(p) PROVE AccountLockInUse'
  BY <1>35 DEF Wake
<1>36. CASE UNCHANGED vars
  BY <1>36 DEF vars
<1> QED
  BY <1>1, <1>2, <1>3, <1>4, <1>5, <1>6, <1>7, <1>8, <1>9, <1>10, <1>11, <1>12,
     <1>13, <1>14, <1>15, <1>16, <1>17, <1>18, <1>19, <1>20, <1>21, <1>22,
     <1>23, <1>24, <1>25, <1>26, <1>27, <1>28, <1>29, <1>30, <1>31, <1>32,
     <1>33, <1>34, <1>35, <1>36
  DEF Next, HandlerStep, OpenStep, StartStep, MoneyStep, LoopStep, CloseStep,
      PrinterStep, ClientStep

(* A step that is not of a handler's own program leaves the table and all  *)
(* control and locals of handlers alone.                                   *)
LEMMA HandlerOrStill ==
    ASSUME [Next]_vars
    PROVE  \/ \E h \in Handlers : HandlerStep(h) \/ SelectTimeout(h)
           \/ UNCHANGED <<table, pc, locals>>
<1>1. ASSUME NEW h \in Handlers, ClientStep(h) PROVE UNCHANGED <<table, pc, locals>>
  BY <1>1 DEF ClientStep, Send, ReadAnswers, Vanish, ResetArrives
<1>2. CASE PrinterStep
  BY <1>2
  DEF PrinterStep, PrinterAwake, PrinterLock, PrintBalance, PrintFlag,
      PrinterUnlock
<1>3. ASSUME NEW p \in Procs, Sleep(p) \/ Wake(p) PROVE UNCHANGED <<table, pc, locals>>
  BY <1>3 DEF Sleep, Wake
<1>4. CASE UNCHANGED vars
  BY <1>4 DEF vars
<1> QED
  BY <1>1, <1>2, <1>3, <1>4 DEF Next

(* Every step keeps a handler at work on the kind of request its place in  *)
(* the code is for.                                                        *)
LEMMA ServingPreserved ==
    ASSUME Kinds, Serving, [Next]_vars
    PROVE  Serving'
<1> USE DEF Kinds, Serving, table, locking, locals, socket, printer, Goto,
            Respond, Answer, Carry, OpenPcs, StartPcs, DebitPcs, CreditPcs,
            LockPcs
<1>1. ASSUME NEW h \in Handlers, TakeAccountLock(h) PROVE Serving'
  BY <1>1 DEF TakeAccountLock
<1>2. ASSUME NEW h \in Handlers, OpenRefused(h) PROVE Serving'
  BY <1>2 DEF OpenRefused
<1>3. ASSUME NEW h \in Handlers, OpenChosen(h) PROVE Serving'
  BY <1>3 DEF OpenChosen
<1>4. ASSUME NEW h \in Handlers, OpenInit(h) PROVE Serving'
  BY <1>4 DEF OpenInit
<1>5. ASSUME NEW h \in Handlers, OpenCount(h) PROVE Serving'
  BY <1>5 DEF OpenCount
<1>6. ASSUME NEW h \in Handlers, StartCount(h) PROVE Serving'
  BY <1>6 DEF StartCount
<1>7. ASSUME NEW h \in Handlers, StartSearch(h) PROVE Serving'
  BY <1>7 DEF StartSearch
<1>8. ASSUME NEW h \in Handlers, TryLock(h) PROVE Serving'
  BY <1>8 DEF TryLock
<1>9. ASSUME NEW h \in Handlers, TryFail(h) PROVE Serving'
  BY <1>9 DEF TryFail
<1>10. ASSUME NEW h \in Handlers, SetFlag(h) PROVE Serving'
  BY <1>10 DEF SetFlag
<1>11. ASSUME NEW h \in Handlers, DebitCheck(h) PROVE Serving'
  BY <1>11 DEF DebitCheck
<1>12. ASSUME NEW h \in Handlers, Load(h) PROVE Serving'
  BY <1>12 DEF Load
<1>13. ASSUME NEW h \in Handlers, Store(h) PROVE Serving'
  BY <1>13 DEF Store
<1>14. ASSUME NEW h \in Handlers, ClearFlag(h) PROVE Serving'
  BY <1>14 DEF ClearFlag
<1>15. ASSUME NEW h \in Handlers, UnlockSession(h) PROVE Serving'
  BY <1>15 DEF UnlockSession
<1>16. ASSUME NEW h \in Handlers, Accept(h) PROVE Serving'
  BY <1>16 DEF Accept
<1>17. ASSUME NEW h \in Handlers, ReadRequest(h) PROVE Serving'
  BY <1>17 DEF ReadRequest
<1>18. ASSUME NEW h \in Handlers, ReadError(h) PROVE Serving'
  BY <1>18 DEF ReadError
<1>19. ASSUME NEW h \in Handlers, ReadEof(h) PROVE Serving'
  BY <1>19 DEF ReadEof, AfterEof
<1>20. ASSUME NEW h \in Handlers, DispatchOutOfSession(h) PROVE Serving'
  BY <1>20 DEF DispatchOutOfSession
<1>21. ASSUME NEW h \in Handlers, DispatchInSession(h) PROVE Serving'
  BY <1>21 DEF DispatchInSession
<1>22. ASSUME NEW h \in Handlers, Reply(h) PROVE Serving'
  BY <1>22 DEF Reply
<1>23. ASSUME NEW h \in Handlers, BrokenPipe(h) PROVE Serving'
  BY <1>23 DEF BrokenPipe
<1>24. ASSUME NEW h \in Handlers, SelectTimeout(h) PROVE Serving'
  BY <1>24 DEF SelectTimeout
<1>25. CASE UNCHANGED <<table, pc, locals>>
  BY <1>25
<1> QED
  BY <1>1, <1>2, <1>3, <1>4, <1>5, <1>6, <1>7, <1>8, <1>9, <1>10, <1>11, <1>12,
     <1>13, <1>14, <1>15, <1>16, <1>17, <1>18, <1>19, <1>20, <1>21, <1>22,
     <1>23, <1>24, <1>25, HandlerOrStill
  DEF HandlerStep, OpenStep, StartStep, MoneyStep, LoopStep, CloseStep

(* Every step keeps the table's names distinct and the slot of a running   *)
(* insertion fresh; client_open's critical section is what makes it so.    *)
LEMMA InsertionPreserved ==
    ASSUME Kinds, AccountLockInUse, Serving, Insertion, [Next]_vars
    PROVE  Insertion'
<1> USE BoundAssumption, ProcessAssumption, DataAssumption
    DEF Kinds, Insertion, Covered, table, locking, locals, socket, printer,
        Goto, Respond, Answer, Carry, LockPcs, NoSlot
<1>1. ASSUME NEW h \in Handlers, TakeAccountLock(h) PROVE Insertion'
  BY <1>1 DEF TakeAccountLock
<1>2. ASSUME NEW h \in Handlers, OpenRefused(h) PROVE Insertion'
  BY <1>2 DEF OpenRefused
<1>3. ASSUME NEW h \in Handlers, OpenChosen(h) PROVE Insertion'
  <2>1. accounts_no < MaxAccount
    BY <1>3 DEF OpenChosen, Full
  <2>2. (\A s \in Covered : name[s] # request[h].arg) /\ tmp'[h] = accounts_no
    BY <1>3, SearchFinds DEF OpenChosen, Wanted
  <2> QED
    BY <1>3, <2>1, <2>2 DEF OpenChosen
<1>4. ASSUME NEW h \in Handlers, OpenInit(h) PROVE Insertion'
  <2>1. \A k \in Handlers : k # h => pc[k] \notin {"openInit", "openCount"}
    BY <1>4 DEF OpenInit, AccountLockInUse, CriticalPcs
  <2>2. tmp[h] = accounts_no /\ accounts_no \in Slots
    BY <1>4 DEF OpenInit, Slots
  <2>3. \A s \in Covered : name'[s] = name[s]
    BY <1>4, <2>2 DEF OpenInit, Slots
  <2>4. name'[accounts_no] = request[h].arg
    BY <1>4, <2>2 DEF OpenInit
  <2> QED
    BY <1>4, <2>1, <2>2, <2>3, <2>4 DEF OpenInit
<1>5. ASSUME NEW h \in Handlers, OpenCount(h) PROVE Insertion'
  <2>1. \A k \in Handlers : k # h => pc[k] \notin {"openInit", "openCount"}
    BY <1>5 DEF OpenCount, AccountLockInUse, CriticalPcs
  <2>2. Covered' = Covered \cup {accounts_no}
    BY <1>5 DEF OpenCount
  <2>3. request[h].arg \in Names
    BY <1>5, HeardArguments DEF OpenCount, Serving, OpenPcs
  <2>4. name' = name /\ name[accounts_no] = request[h].arg
    BY <1>5 DEF OpenCount
  <2>5. \A s \in Covered : name[s] # request[h].arg
    BY <1>5 DEF OpenCount
  <2>6. \A s \in Covered' : name'[s] # NoName
    BY <2>2, <2>3, <2>4
  <2>7. \A s, t \in Covered' : name'[s] = name'[t] => s = t
    BY <2>2, <2>4, <2>5
  <2> QED
    BY <1>5, <2>1, <2>6, <2>7 DEF OpenCount
<1>6. ASSUME NEW h \in Handlers, StartCount(h) PROVE Insertion'
  BY <1>6 DEF StartCount
<1>7. ASSUME NEW h \in Handlers, StartSearch(h) PROVE Insertion'
  <2>1. \/ Answer(h, "CANNOT_START")
        \/ Goto(h, "tryLock")
    BY <1>7, Zenon DEF StartSearch
  <2>2. \A k \in Handlers : pc'[k] \in {"openInit", "openCount"} =>
            k # h /\ pc'[k] = pc[k] /\ tmp'[k] = tmp[k]
    BY <1>7, <2>1 DEF StartSearch
  <2> QED
    BY <1>7, <2>2 DEF StartSearch
<1>8. ASSUME NEW h \in Handlers, TryLock(h) PROVE Insertion'
  BY <1>8 DEF TryLock
<1>9. ASSUME NEW h \in Handlers, TryFail(h) PROVE Insertion'
  <2>1. PICK where \in {"killed", "tryLock"} : pc' = [pc EXCEPT ![h] = where]
    <3>1. pc[h] = "tryLock" /\ pc \in [Handlers -> Pcs]
      BY <1>9 DEF TryFail
    <3>2. pc' = [pc EXCEPT ![h] = "killed"] \/ pc' = pc
      BY <1>9, Zenon DEF TryFail
    <3> QED
      BY <3>1, <3>2
  <2>2. \A k \in Handlers : k # h => tmp'[k] = tmp[k]
    BY <1>9 DEF TryFail
  <2> QED
    BY <1>9, <2>1, <2>2 DEF TryFail
<1>10. ASSUME NEW h \in Handlers, SetFlag(h) PROVE Insertion'
  BY <1>10 DEF SetFlag
<1>11. ASSUME NEW h \in Handlers, DebitCheck(h) PROVE Insertion'
  BY <1>11 DEF DebitCheck
<1>12. ASSUME NEW h \in Handlers, Load(h) PROVE Insertion'
  BY <1>12 DEF Load
<1>13. ASSUME NEW h \in Handlers, Store(h) PROVE Insertion'
  BY <1>13 DEF Store
<1>14. ASSUME NEW h \in Handlers, ClearFlag(h) PROVE Insertion'
  BY <1>14 DEF ClearFlag
<1>15. ASSUME NEW h \in Handlers, UnlockSession(h) PROVE Insertion'
  BY <1>15 DEF UnlockSession
<1>16. ASSUME NEW h \in Handlers, Accept(h) PROVE Insertion'
  BY <1>16 DEF Accept
<1>17. ASSUME NEW h \in Handlers, ReadRequest(h) PROVE Insertion'
  BY <1>17 DEF ReadRequest
<1>18. ASSUME NEW h \in Handlers, ReadError(h) PROVE Insertion'
  BY <1>18 DEF ReadError
<1>19. ASSUME NEW h \in Handlers, ReadEof(h) PROVE Insertion'
  BY <1>19 DEF ReadEof, AfterEof
<1>20. ASSUME NEW h \in Handlers, DispatchOutOfSession(h) PROVE Insertion'
  <2>1. PICK where \in {"reply", "openLock", "startLock"} :
            pc' = [pc EXCEPT ![h] = where]
    BY <1>20, OutOfSessionMoves
  <2>2. /\ pc[h] = "dispatch"
        /\ UNCHANGED <<table, locking, client_account, request, tmp, socket, printer>>
    BY <1>20, OutOfSessionMoves
  <2> QED
    BY <2>1, <2>2
<1>21. ASSUME NEW h \in Handlers, DispatchInSession(h) PROVE Insertion'
  <2>1. PICK where \in {"reply", "debitCheck", "creditLoad", "clear"} :
            pc' = [pc EXCEPT ![h] = where]
    BY <1>21, InSessionMoves
  <2>2. /\ pc[h] = "dispatch"
        /\ UNCHANGED <<table, locking, client_account, request, tmp, socket, printer>>
    BY <1>21, InSessionMoves
  <2> QED
    BY <2>1, <2>2
<1>22. ASSUME NEW h \in Handlers, Reply(h) PROVE Insertion'
  BY <1>22 DEF Reply
<1>23. ASSUME NEW h \in Handlers, BrokenPipe(h) PROVE Insertion'
  BY <1>23 DEF BrokenPipe
<1>24. ASSUME NEW h \in Handlers, SelectTimeout(h) PROVE Insertion'
  BY <1>24 DEF SelectTimeout
<1>25. ASSUME NEW h \in Handlers, Send(h) PROVE Insertion'
  BY <1>25 DEF Send
<1>26. ASSUME NEW h \in Handlers, ReadAnswers(h) PROVE Insertion'
  BY <1>26 DEF ReadAnswers
<1>27. ASSUME NEW h \in Handlers, Vanish(h) PROVE Insertion'
  BY <1>27 DEF Vanish
<1>28. ASSUME NEW h \in Handlers, ResetArrives(h) PROVE Insertion'
  BY <1>28 DEF ResetArrives
<1>29. CASE PrinterAwake
  BY <1>29 DEF PrinterAwake
<1>30. CASE PrinterLock
  BY <1>30 DEF PrinterLock
<1>31. CASE PrintBalance
  BY <1>31 DEF PrintBalance
<1>32. CASE PrintFlag
  BY <1>32 DEF PrintFlag
<1>33. CASE PrinterUnlock
  BY <1>33 DEF PrinterUnlock
<1>34. ASSUME NEW p \in Procs, Sleep(p) PROVE Insertion'
  BY <1>34 DEF Sleep
<1>35. ASSUME NEW p \in Procs, Wake(p) PROVE Insertion'
  BY <1>35 DEF Wake
<1>36. CASE UNCHANGED vars
  BY <1>36 DEF vars
<1> QED
  BY <1>1, <1>2, <1>3, <1>4, <1>5, <1>6, <1>7, <1>8, <1>9, <1>10, <1>11, <1>12,
     <1>13, <1>14, <1>15, <1>16, <1>17, <1>18, <1>19, <1>20, <1>21, <1>22,
     <1>23, <1>24, <1>25, <1>26, <1>27, <1>28, <1>29, <1>30, <1>31, <1>32,
     <1>33, <1>34, <1>35, <1>36
  DEF Next, HandlerStep, OpenStep, StartStep, MoneyStep, LoopStep, CloseStep,
      PrinterStep, ClientStep

(* Every step keeps what client_start copied from the table true of the    *)
(* table, although it holds no lock while it uses it.                      *)
LEMMA LookupPreserved ==
    ASSUME Kinds, Insertion, Lookup, [Next]_vars
    PROVE  Lookup'
<1> USE BoundAssumption
    DEF Kinds, Lookup, Covered, table, locking, locals, socket, printer, Goto,
        Respond, Answer, Carry, LockPcs, NoSlot
<1>1. ASSUME NEW h \in Handlers, TakeAccountLock(h) PROVE Lookup'
  BY <1>1 DEF TakeAccountLock
<1>2. ASSUME NEW h \in Handlers, OpenRefused(h) PROVE Lookup'
  BY <1>2 DEF OpenRefused
<1>3. ASSUME NEW h \in Handlers, OpenChosen(h) PROVE Lookup'
  BY <1>3 DEF OpenChosen
<1>4. ASSUME NEW h \in Handlers, OpenInit(h) PROVE Lookup'
  <2>1. tmp[h] = accounts_no
    BY <1>4 DEF OpenInit, Insertion
  <2>2. \A s \in Covered : name'[s] = name[s]
    BY <1>4, <2>1 DEF OpenInit, Insertion, Slots
  <2> QED
    BY <1>4, <2>2 DEF OpenInit
<1>5. ASSUME NEW h \in Handlers, OpenCount(h) PROVE Lookup'
  BY <1>5 DEF OpenCount
<1>6. ASSUME NEW h \in Handlers, StartCount(h) PROVE Lookup'
  BY <1>6 DEF StartCount
<1>7. ASSUME NEW h \in Handlers, StartSearch(h) PROVE Lookup'
  <2> DEFINE found == search_account(tmp[h], request[h].arg)
  <2>1. \/ Answer(h, "CANNOT_START") /\ Carry(h, 0)
        \/ ~Unfound(found, tmp[h]) /\ Goto(h, "tryLock") /\ Carry(h, found)
    BY <1>7, Zenon DEF StartSearch
  <2>2. tmp[h] \in 0 .. accounts_no /\ accounts_no \in Nat
    BY <1>7 DEF StartSearch
  <2>3. \A s, t \in 0 .. tmp[h] - 1 : name[s] = name[t] => s = t
    BY <2>2 DEF Insertion
  <2>4. ASSUME ~Unfound(found, tmp[h])
        PROVE  found \in 0 .. tmp[h] - 1 /\ name[found] = request[h].arg
    <3>1. tmp[h] \in Nat
      BY <2>2
    <3> QED
      BY <2>3, <2>4, <3>1, SearchHits, Zenon
  <2>5. ~Unfound(found, tmp[h]) => found \in Covered /\ name[found] = request[h].arg
    BY <2>2, <2>4
  <2>6. /\ \/ pc'[h] = "reply"
           \/ /\ pc'[h] = "tryLock"
              /\ tmp'[h] \in Covered /\ name[tmp'[h]] = request[h].arg
        /\ \A k \in Handlers : k # h => pc'[k] = pc[k] /\ tmp'[k] = tmp[k]
        /\ UNCHANGED <<accounts_no, name, client_account, request>>
    <3> HIDE DEF found
    <3>1. CASE Answer(h, "CANNOT_START") /\ Carry(h, 0)
      <4>1. /\ pc' = [pc EXCEPT ![h] = "reply"]
            /\ tmp' = [tmp EXCEPT ![h] = 0]
            /\ UNCHANGED <<accounts_no, name, client_account, request>>
        BY <1>7, <3>1 DEF StartSearch
      <4>2. pc'[h] = "reply"
        BY <4>1
      <4>3. \A k \in Handlers : k # h => pc'[k] = pc[k] /\ tmp'[k] = tmp[k]
        BY <4>1
      <4> QED
        BY <4>1, <4>2, <4>3, Zenon
    <3>2. CASE ~Unfound(found, tmp[h]) /\ Goto(h, "tryLock") /\ Carry(h, found)
      BY <1>7, <2>5, <3>2 DEF StartSearch
    <3> QED
      BY <2>1, <3>1, <3>2
  <2> QED
    BY <2>6
<1>8. ASSUME NEW h \in Handlers, TryLock(h) PROVE Lookup'
  BY <1>8 DEF TryLock
<1>9. ASSUME NEW h \in Handlers, TryFail(h) PROVE Lookup'
  BY <1>9 DEF TryFail
<1>10. ASSUME NEW h \in Handlers, SetFlag(h) PROVE Lookup'
  BY <1>10 DEF SetFlag
<1>11. ASSUME NEW h \in Handlers, DebitCheck(h) PROVE Lookup'
  BY <1>11 DEF DebitCheck
<1>12. ASSUME NEW h \in Handlers, Load(h) PROVE Lookup'
  BY <1>12 DEF Load
<1>13. ASSUME NEW h \in Handlers, Store(h) PROVE Lookup'
  BY <1>13 DEF Store
<1>14. ASSUME NEW h \in Handlers, ClearFlag(h) PROVE Lookup'
  BY <1>14 DEF ClearFlag
<1>15. ASSUME NEW h \in Handlers, UnlockSession(h) PROVE Lookup'
  BY <1>15 DEF UnlockSession, ForgetAccount
<1>16. ASSUME NEW h \in Handlers, Accept(h) PROVE Lookup'
  BY <1>16 DEF Accept
<1>17. ASSUME NEW h \in Handlers, ReadRequest(h) PROVE Lookup'
  BY <1>17 DEF ReadRequest
<1>18. ASSUME NEW h \in Handlers, ReadError(h) PROVE Lookup'
  BY <1>18 DEF ReadError
<1>19. ASSUME NEW h \in Handlers, ReadEof(h) PROVE Lookup'
  BY <1>19 DEF ReadEof, AfterEof
<1>20. ASSUME NEW h \in Handlers, DispatchOutOfSession(h) PROVE Lookup'
  <2>1. PICK where \in {"reply", "openLock", "startLock"} :
            pc' = [pc EXCEPT ![h] = where]
    BY <1>20, OutOfSessionMoves
  <2>2. /\ pc[h] = "dispatch"
        /\ UNCHANGED <<table, locking, client_account, request, tmp, socket, printer>>
    BY <1>20, OutOfSessionMoves
  <2> QED
    BY <2>1, <2>2
<1>21. ASSUME NEW h \in Handlers, DispatchInSession(h) PROVE Lookup'
  <2>1. PICK where \in {"reply", "debitCheck", "creditLoad", "clear"} :
            pc' = [pc EXCEPT ![h] = where]
    BY <1>21, InSessionMoves
  <2>2. /\ pc[h] = "dispatch"
        /\ UNCHANGED <<table, locking, client_account, request, tmp, socket, printer>>
    BY <1>21, InSessionMoves
  <2> QED
    BY <2>1, <2>2
<1>22. ASSUME NEW h \in Handlers, Reply(h) PROVE Lookup'
  BY <1>22 DEF Reply
<1>23. ASSUME NEW h \in Handlers, BrokenPipe(h) PROVE Lookup'
  BY <1>23 DEF BrokenPipe
<1>24. ASSUME NEW h \in Handlers, SelectTimeout(h) PROVE Lookup'
  BY <1>24 DEF SelectTimeout
<1>25. CASE UNCHANGED <<table, pc, locals>>
  BY <1>25
<1> QED
  BY <1>1, <1>2, <1>3, <1>4, <1>5, <1>6, <1>7, <1>8, <1>9, <1>10, <1>11, <1>12,
     <1>13, <1>14, <1>15, <1>16, <1>17, <1>18, <1>19, <1>20, <1>21, <1>22,
     <1>23, <1>24, <1>25, HandlerOrStill
  DEF HandlerStep, OpenStep, StartStep, MoneyStep, LoopStep, CloseStep

(* Every step keeps a handler's last answer to the time after its session. *)
LEMMA FinishingPreserved ==
    ASSUME Kinds, Serving, Owning, Finishing, [Next]_vars
    PROVE  Finishing'
<1> USE DEF Kinds, Finishing, LastReply, NoSlot, table, locking, locals,
            socket, printer, Goto, Respond, Answer, Carry
<1>1. ASSUME NEW h \in Handlers, TakeAccountLock(h) PROVE Finishing'
  BY <1>1 DEF TakeAccountLock
<1>2. ASSUME NEW h \in Handlers, OpenRefused(h) PROVE Finishing'
  BY <1>2 DEF OpenRefused, Serving, OpenPcs, StartPcs, DebitPcs, CreditPcs
<1>3. ASSUME NEW h \in Handlers, OpenChosen(h) PROVE Finishing'
  BY <1>3 DEF OpenChosen
<1>4. ASSUME NEW h \in Handlers, OpenInit(h) PROVE Finishing'
  BY <1>4 DEF OpenInit
<1>5. ASSUME NEW h \in Handlers, OpenCount(h) PROVE Finishing'
  BY <1>5 DEF OpenCount, Serving, OpenPcs, StartPcs, DebitPcs, CreditPcs
<1>6. ASSUME NEW h \in Handlers, StartCount(h) PROVE Finishing'
  BY <1>6 DEF StartCount
<1>7. ASSUME NEW h \in Handlers, StartSearch(h) PROVE Finishing'
  <2>1. PICK where \in {"reply", "tryLock"} : pc' = [pc EXCEPT ![h] = where]
    BY <1>7, Zenon DEF StartSearch
  <2>2. client_account[h] = NoSlot
    BY <1>7 DEF StartSearch, Owning, OutPcs, OpenPcs, StartPcs
  <2>3. UNCHANGED client_account /\ \A k \in Handlers : k # h => response'[k] = response[k]
    BY <1>7 DEF StartSearch
  <2> QED
    BY <1>7, <2>1, <2>2, <2>3 DEF StartSearch
<1>8. ASSUME NEW h \in Handlers, TryLock(h) PROVE Finishing'
  BY <1>8 DEF TryLock
<1>9. ASSUME NEW h \in Handlers, TryFail(h) PROVE Finishing'
  BY <1>9 DEF TryFail
<1>10. ASSUME NEW h \in Handlers, SetFlag(h) PROVE Finishing'
  BY <1>10 DEF SetFlag, Serving, OpenPcs, StartPcs, DebitPcs, CreditPcs
<1>11. ASSUME NEW h \in Handlers, DebitCheck(h) PROVE Finishing'
  BY <1>11 DEF DebitCheck, Serving, OpenPcs, StartPcs, DebitPcs, CreditPcs
<1>12. ASSUME NEW h \in Handlers, Load(h) PROVE Finishing'
  BY <1>12 DEF Load
<1>13. ASSUME NEW h \in Handlers, Store(h) PROVE Finishing'
  BY <1>13 DEF Store, Serving, OpenPcs, StartPcs, DebitPcs, CreditPcs
<1>14. ASSUME NEW h \in Handlers, ClearFlag(h) PROVE Finishing'
  BY <1>14 DEF ClearFlag
<1>15. ASSUME NEW h \in Handlers, UnlockSession(h) PROVE Finishing'
  BY <1>15 DEF UnlockSession, ForgetAccount
<1>16. ASSUME NEW h \in Handlers, Accept(h) PROVE Finishing'
  BY <1>16 DEF Accept
<1>17. ASSUME NEW h \in Handlers, ReadRequest(h) PROVE Finishing'
  BY <1>17 DEF ReadRequest
<1>18. ASSUME NEW h \in Handlers, ReadError(h) PROVE Finishing'
  BY <1>18 DEF ReadError
<1>19. ASSUME NEW h \in Handlers, ReadEof(h) PROVE Finishing'
  BY <1>19 DEF ReadEof, AfterEof
<1>20. ASSUME NEW h \in Handlers, DispatchOutOfSession(h) PROVE Finishing'
  <2>1. client_account[h] = NoSlot
    BY <1>20 DEF DispatchOutOfSession, InSession, Owning
  <2> QED
    BY <1>20, <2>1, OutOfSessionMoves
<1>21. ASSUME NEW h \in Handlers, DispatchInSession(h) PROVE Finishing'
  <2>1. pc'[h] = "reply" => request[h].code # "EXIT" /\ response'[h] # "CONNECTION_TIME_OUT"
    BY <1>21 DEF DispatchInSession
  <2>2. PICK where \in {"reply", "debitCheck", "creditLoad", "clear"} :
            pc' = [pc EXCEPT ![h] = where]
    BY <1>21, InSessionMoves
  <2>3. \A k \in Handlers : k # h => response'[k] = response[k] /\ pc'[k] = pc[k]
    BY <1>21, InSessionMoves
  <2>4. UNCHANGED <<request, client_account>>
    BY <1>21, InSessionMoves
  <2> QED
    BY <2>1, <2>2, <2>3, <2>4
<1>22. ASSUME NEW h \in Handlers, Reply(h) PROVE Finishing'
  BY <1>22 DEF Reply
<1>23. ASSUME NEW h \in Handlers, BrokenPipe(h) PROVE Finishing'
  BY <1>23 DEF BrokenPipe
<1>24. ASSUME NEW h \in Handlers, SelectTimeout(h) PROVE Finishing'
  BY <1>24 DEF SelectTimeout
<1>25. CASE UNCHANGED <<table, pc, locals>>
  BY <1>25
<1> QED
  BY <1>1, <1>2, <1>3, <1>4, <1>5, <1>6, <1>7, <1>8, <1>9, <1>10, <1>11, <1>12,
     <1>13, <1>14, <1>15, <1>16, <1>17, <1>18, <1>19, <1>20, <1>21, <1>22,
     <1>23, <1>24, <1>25, HandlerOrStill
  DEF HandlerStep, OpenStep, StartStep, MoneyStep, LoopStep, CloseStep

(* The slots that handlers and insertions use lie in the table, and the    *)
(* slot an insertion prepares is nobody's session.                         *)
LEMMA InsideTable ==
    ASSUME Kinds, Insertion, Lookup
    PROVE  /\ Covered \subseteq Slots
           /\ \A h \in Handlers :
                /\ client_account[h] # NoSlot =>
                        client_account[h] \in Slots /\ client_account[h] \in Covered
                /\ pc[h] = "tryLock" => tmp[h] \in Slots /\ tmp[h] # NoSlot
                /\ pc[h] = "openInit" =>
                        /\ tmp[h] = accounts_no
                        /\ accounts_no \in Slots
                        /\ \A k \in Handlers : client_account[k] # accounts_no
<1>1. Covered \subseteq Slots
  BY BoundAssumption DEF Insertion, Covered, Slots
<1>2. NoSlot \notin Slots /\ accounts_no # NoSlot
  BY DEF NoSlot, Slots, Kinds
<1>3. \A h \in Handlers : pc[h] = "openInit" => accounts_no \in Slots
  BY BoundAssumption DEF Insertion, Slots
<1>4. accounts_no \notin Covered
  BY DEF Covered, Kinds
<1> QED
  BY <1>1, <1>2, <1>3, <1>4 DEF Insertion, Lookup

(* A step that moves one handler's control between places that need the    *)
(* same of its session keeps Owning.                                       *)
LEMMA OwningMoves ==
    ASSUME Kinds, Owning, NEW h \in Handlers, NEW where,
           UNCHANGED <<client_account, session_mutex, in_session>>,
           pc' = [pc EXCEPT ![h] = where],
           where \in InPcs => client_account[h] # NoSlot,
           where \in OutPcs => client_account[h] = NoSlot,
           pc[h] \notin {"setFlag", "unlock"},
           where \notin {"setFlag", "unlock"}
    PROVE  Owning'
<1>1. \A k \in Handlers : k # h => pc'[k] = pc[k]
  BY DEF Kinds
<1>2. pc'[h] = where
  BY DEF Kinds
<1>3. \A k \in Handlers :
        pc'[k] \in {"setFlag", "unlock"} <=> pc[k] \in {"setFlag", "unlock"}
  BY <1>1, <1>2
<1> QED
  BY <1>1, <1>2, <1>3, ProcessAssumption
  DEF Owning, Kinds, NoSlot, InPcs, OutPcs

(* Every step keeps session mutex, client_account and flag in agreement;   *)
(* account_open's re-initialisation of a mutex is harmless because the     *)
(* slot is not covered yet.                                                *)
LEMMA OwningPreserved ==
    ASSUME Kinds, Insertion, Lookup, Owning, Finishing, [Next]_vars
    PROVE  Owning'
<1> USE ProcessAssumption
    DEF Kinds, InPcs, OutPcs, table, locking, locals, socket, printer, Goto,
        Respond, Answer, Carry, OpenPcs, StartPcs, DebitPcs, CreditPcs,
        ClosePcs, LockPcs
<1>1. ASSUME NEW h \in Handlers, TakeAccountLock(h) PROVE Owning'
  BY <1>1, OwningMoves DEF TakeAccountLock, Owning
<1>2. ASSUME NEW h \in Handlers, OpenRefused(h) PROVE Owning'
  BY <1>2, OwningMoves DEF OpenRefused, Owning
<1>3. ASSUME NEW h \in Handlers, OpenChosen(h) PROVE Owning'
  BY <1>3, OwningMoves DEF OpenChosen, Owning
<1>4. ASSUME NEW h \in Handlers, OpenInit(h) PROVE Owning'
  <2>1. tmp[h] = accounts_no /\ accounts_no \in Slots
    BY <1>4, InsideTable DEF OpenInit
  <2>2. \A k \in Handlers : client_account[k] # accounts_no
    BY <1>4, InsideTable DEF OpenInit
  <2>3. session_mutex[accounts_no] = NoProc
    BY <2>1, <2>2 DEF Owning
  <2>4. session_mutex' = session_mutex
    BY <1>4, <2>1, <2>3 DEF OpenInit
  <2>5. in_session[accounts_no] = FALSE
    BY <2>1, <2>3 DEF Owning
  <2>6. in_session' = in_session
    BY <1>4, <2>1, <2>5 DEF OpenInit
  <2> QED
    BY <1>4, <2>4, <2>6, OwningMoves DEF OpenInit, Owning
<1>5. ASSUME NEW h \in Handlers, OpenCount(h) PROVE Owning'
  BY <1>5, OwningMoves DEF OpenCount, Owning
<1>6. ASSUME NEW h \in Handlers, StartCount(h) PROVE Owning'
  BY <1>6, OwningMoves DEF StartCount, Owning
<1>7. ASSUME NEW h \in Handlers, StartSearch(h) PROVE Owning'
  <2>1. PICK where \in {"reply", "tryLock"} : pc' = [pc EXCEPT ![h] = where]
    BY <1>7, Zenon DEF StartSearch
  <2>2. /\ pc[h] \notin {"setFlag", "unlock"}
        /\ where \in InPcs => client_account[h] # NoSlot
        /\ where \in OutPcs => client_account[h] = NoSlot
    BY <1>7, <2>1 DEF StartSearch, Owning
  <2> QED
    BY <1>7, <2>1, <2>2, OwningMoves DEF StartSearch
<1>8. ASSUME NEW h \in Handlers, TryLock(h) PROVE Owning'
  <2>1. tmp[h] \in Slots /\ tmp[h] # NoSlot
    BY <1>8, InsideTable DEF TryLock
  <2>2. session_mutex[tmp[h]] = NoProc
    BY <1>8 DEF TryLock, Busy
  <2>3. client_account[h] = NoSlot
    BY <1>8 DEF TryLock, Owning
  <2>4. \A k \in Handlers : client_account[k] # tmp[h]
    BY <2>1, <2>2 DEF Owning
  <2>5. ~in_session[tmp[h]]
    BY <2>1, <2>2 DEF Owning
  <2>6. \A s \in Slots : session_mutex[s] # h /\ s # NoSlot
    <3>1. \A s \in Slots : s # NoSlot
      BY DEF Slots, NoSlot
    <3> QED
      BY <2>3, <3>1, ProcessAssumption DEF Owning
  <2>7. /\ \A k \in Handlers : k # h => pc'[k] = pc[k] /\ client_account'[k] = client_account[k]
        /\ pc'[h] = "setFlag" /\ client_account'[h] = tmp[h]
        /\ session_mutex'[tmp[h]] = h
        /\ \A s \in Slots : s # tmp[h] => session_mutex'[s] = session_mutex[s]
        /\ in_session' = in_session
    BY <1>8, <2>1 DEF TryLock
  <2>8. \A k \in Handlers :
          client_account[k] # NoSlot => session_mutex[client_account[k]] = k
    BY DEF Owning
  <2>9. \A k \in Handlers :
          client_account'[k] # NoSlot => session_mutex'[client_account'[k]] = k
    <3> SUFFICES ASSUME NEW k \in Handlers, client_account'[k] # NoSlot
                 PROVE  session_mutex'[client_account'[k]] = k
      BY DEF NoSlot
    <3>1. CASE k = h
      BY <2>7, <3>1
    <3>2. CASE k # h
      BY <2>4, <2>7, <2>8, <3>2, InsideTable DEF NoSlot
    <3> QED
      BY <3>1, <3>2
  <2>10. \A k \in Handlers :
          /\ pc'[k] \in InPcs => client_account'[k] # NoSlot
          /\ pc'[k] \in OutPcs => client_account'[k] = NoSlot
          /\ client_account'[k] # NoSlot /\ pc'[k] \notin {"setFlag", "unlock"} =>
                in_session'[client_account'[k]]
    BY <2>1, <2>7 DEF Owning
  <2>11. \A s \in Slots :
          /\ session_mutex'[s] # NoProc => client_account'[session_mutex'[s]] = s
          /\ in_session'[s] =>
            /\ session_mutex'[s] # NoProc
            /\ pc'[session_mutex'[s]] \notin {"setFlag", "unlock"}
    <3> SUFFICES ASSUME NEW s \in Slots
                 PROVE  /\ session_mutex'[s] # NoProc => client_account'[session_mutex'[s]] = s
                        /\ in_session'[s] =>
                          /\ session_mutex'[s] # NoProc
                          /\ pc'[session_mutex'[s]] \notin {"setFlag", "unlock"}
      OBVIOUS
    <3>1. CASE s = tmp[h]
      BY <2>5, <2>7, <3>1
    <3>2. CASE s # tmp[h]
      <4>1. session_mutex'[s] = session_mutex[s] /\ session_mutex[s] # h
        BY <2>6, <2>7, <3>2
      <4> QED
        BY <2>7, <4>1 DEF Owning
    <3> QED
      BY <3>1, <3>2
  <2> QED
    BY <2>9, <2>10, <2>11 DEF Owning, NoSlot, Slots
<1>9. ASSUME NEW h \in Handlers, TryFail(h) PROVE Owning'
  <2>1. PICK where \in {"killed", "tryLock"} : pc' = [pc EXCEPT ![h] = where]
    BY <1>9, Zenon DEF TryFail, Goto, Kinds
  <2>2. /\ pc[h] \notin {"setFlag", "unlock"}
        /\ where \in InPcs => client_account[h] # NoSlot
        /\ where \in OutPcs => client_account[h] = NoSlot
    BY <1>9, <2>1 DEF TryFail, Owning
  <2> QED
    BY <1>9, <2>1, <2>2, OwningMoves DEF TryFail
<1>10. ASSUME NEW h \in Handlers, SetFlag(h) PROVE Owning'
  <2>1. client_account[h] \in Slots
    BY <1>10, InsideTable DEF SetFlag, Owning
  <2> QED
    BY <1>10, <2>1 DEF SetFlag, Owning, NoSlot
<1>11. ASSUME NEW h \in Handlers, DebitCheck(h) PROVE Owning'
  <2>1. PICK where \in {"reply", "debitLoad"} : pc' = [pc EXCEPT ![h] = where]
    BY <1>11, Zenon DEF DebitCheck
  <2>2. /\ pc[h] \notin {"setFlag", "unlock"}
        /\ where \in InPcs => client_account[h] # NoSlot
        /\ where \in OutPcs => client_account[h] = NoSlot
    BY <1>11, <2>1 DEF DebitCheck, Owning
  <2> QED
    BY <1>11, <2>1, <2>2, OwningMoves DEF DebitCheck
<1>12. ASSUME NEW h \in Handlers, Load(h) PROVE Owning'
  BY <1>12, OwningMoves DEF Load, Owning
<1>13. ASSUME NEW h \in Handlers, Store(h) PROVE Owning'
  BY <1>13, OwningMoves DEF Store, Owning
<1>14. ASSUME NEW h \in Handlers, ClearFlag(h) PROVE Owning'
  <2>1. client_account[h] \in Slots
    BY <1>14, InsideTable DEF ClearFlag, Owning
  <2> QED
    BY <1>14, <2>1 DEF ClearFlag, Owning, NoSlot
<1>15. ASSUME NEW h \in Handlers, UnlockSession(h) PROVE Owning'
  <2>1. client_account[h] \in Slots /\ session_mutex[client_account[h]] = h
    BY <1>15, InsideTable DEF UnlockSession, Owning
  <2> QED
    BY <1>15, <2>1 DEF UnlockSession, ForgetAccount, Owning, NoSlot
<1>16. ASSUME NEW h \in Handlers, Accept(h) PROVE Owning'
  BY <1>16, OwningMoves DEF Accept, Owning
<1>17. ASSUME NEW h \in Handlers, ReadRequest(h) PROVE Owning'
  BY <1>17, OwningMoves DEF ReadRequest, Owning
<1>18. ASSUME NEW h \in Handlers, ReadError(h) PROVE Owning'
  BY <1>18, OwningMoves DEF ReadError, Owning
<1>19. ASSUME NEW h \in Handlers, ReadEof(h) PROVE Owning'
  <2>1. CASE client_account[h] # NoSlot
    <3>1. pc' = [pc EXCEPT ![h] = "clear"]
      BY <1>19, <2>1 DEF ReadEof, AfterEof
    <3> QED
      BY <1>19, <2>1, <3>1, OwningMoves DEF ReadEof
  <2>2. CASE client_account[h] = NoSlot
    <3>1. pc' = [pc EXCEPT ![h] = "exited"]
      BY <1>19, <2>2 DEF ReadEof, AfterEof
    <3> QED
      BY <1>19, <2>2, <3>1, OwningMoves DEF ReadEof
  <2> QED
    BY <2>1, <2>2
<1>20. ASSUME NEW h \in Handlers, DispatchOutOfSession(h) PROVE Owning'
  <2>1. PICK where \in {"reply", "openLock", "startLock"} : pc' = [pc EXCEPT ![h] = where]
    BY <1>20, Zenon DEF DispatchOutOfSession
  <2>2. /\ pc[h] \notin {"setFlag", "unlock"}
        /\ where \in InPcs => client_account[h] # NoSlot
        /\ where \in OutPcs => client_account[h] = NoSlot
    BY <1>20, <2>1 DEF DispatchOutOfSession, Owning, InSession
  <2> QED
    BY <1>20, <2>1, <2>2, OwningMoves DEF DispatchOutOfSession
<1>21. ASSUME NEW h \in Handlers, DispatchInSession(h) PROVE Owning'
  <2>1. PICK where \in {"reply", "debitCheck", "creditLoad", "clear"} : pc' = [pc EXCEPT ![h] = where]
    BY <1>21, Zenon DEF DispatchInSession
  <2>2. /\ pc[h] \notin {"setFlag", "unlock"}
        /\ where \in InPcs => client_account[h] # NoSlot
        /\ where \in OutPcs => client_account[h] = NoSlot
    BY <1>21, <2>1 DEF DispatchInSession, Owning, InSession
  <2> QED
    BY <1>21, <2>1, <2>2, OwningMoves DEF DispatchInSession
<1>22. ASSUME NEW h \in Handlers, Reply(h) PROVE Owning'
  <2>1. PICK where \in {"exited", "select"} :
            pc' = [pc EXCEPT ![h] = where] /\ (where = "exited" => LastReply(h))
    BY <1>22 DEF Reply
  <2>2. ASSUME where = "exited" PROVE client_account[h] = NoSlot
    <3>1. LastReply(h)
      BY <2>1, <2>2, Zenon
    <3>2. pc[h] = "reply"
      BY <1>22, Zenon DEF Reply
    <3> QED
      BY <3>1, <3>2, Zenon DEF Finishing
  <2>3. UNCHANGED <<client_account, session_mutex, in_session>> /\ pc[h] = "reply"
    BY <1>22 DEF Reply
  <2>4. /\ pc[h] \notin {"setFlag", "unlock"}
        /\ where \notin {"setFlag", "unlock"}
        /\ where \in InPcs => client_account[h] # NoSlot
        /\ where \in OutPcs => client_account[h] = NoSlot
    BY <2>1, <2>2, <2>3
  <2>5. pc' = [pc EXCEPT ![h] = where]
    BY <2>1
  <2> QED
    BY <2>3, <2>4, <2>5, OwningMoves, Zenon
<1>23. ASSUME NEW h \in Handlers, BrokenPipe(h) PROVE Owning'
  <2>1. PICK where \in {"exited", "killed"} :
            pc' = [pc EXCEPT ![h] = where] /\ (where = "exited" => LastReply(h))
    BY <1>23 DEF BrokenPipe, LastReply
  <2>2. ASSUME where = "exited" PROVE client_account[h] = NoSlot
    <3>1. LastReply(h)
      BY <2>1, <2>2, Zenon
    <3>2. pc[h] = "reply"
      BY <1>23, Zenon DEF BrokenPipe
    <3> QED
      BY <3>1, <3>2, Zenon DEF Finishing
  <2>3. UNCHANGED <<client_account, session_mutex, in_session>> /\ pc[h] = "reply"
    BY <1>23 DEF BrokenPipe
  <2>4. /\ pc[h] \notin {"setFlag", "unlock"}
        /\ where \notin {"setFlag", "unlock"}
        /\ where \in InPcs => client_account[h] # NoSlot
        /\ where \in OutPcs => client_account[h] = NoSlot
    BY <2>1, <2>2, <2>3
  <2>5. pc' = [pc EXCEPT ![h] = where]
    BY <2>1
  <2> QED
    BY <2>3, <2>4, <2>5, OwningMoves, Zenon
<1>24. ASSUME NEW h \in Handlers, SelectTimeout(h) PROVE Owning'
  <2>1. CASE client_account[h] # NoSlot
    <3>1. pc' = [pc EXCEPT ![h] = "clear"]
      BY <1>24, <2>1 DEF SelectTimeout
    <3> QED
      BY <1>24, <2>1, <3>1, OwningMoves DEF SelectTimeout
  <2>2. CASE client_account[h] = NoSlot
    <3>1. pc' = [pc EXCEPT ![h] = "reply"]
      BY <1>24, <2>2 DEF SelectTimeout
    <3> QED
      BY <1>24, <2>2, <3>1, OwningMoves DEF SelectTimeout
  <2> QED
    BY <2>1, <2>2
<1>25. CASE UNCHANGED <<table, pc, locals>>
  BY <1>25 DEF Owning, NoSlot
<1> QED
  BY <1>1, <1>2, <1>3, <1>4, <1>5, <1>6, <1>7, <1>8, <1>9, <1>10, <1>11, <1>12,
     <1>13, <1>14, <1>15, <1>16, <1>17, <1>18, <1>19, <1>20, <1>21, <1>22,
     <1>23, <1>24, <1>25, HandlerOrStill
  DEF HandlerStep, OpenStep, StartStep, MoneyStep, LoopStep, CloseStep

(* Every step keeps each balance equal to its history and non-negative:    *)
(* between a load and its store nobody else is at work on that slot.       *)
LEMMA MoneyPreserved ==
    ASSUME Kinds, Serving, Insertion, Lookup, Owning, Money, [Next]_vars
    PROVE  Money'
<1> USE BoundAssumption
    DEF Kinds, Money, table, locking, locals, socket, printer, Goto, Respond,
        Answer, Carry, LockPcs
<1>1. ASSUME NEW h \in Handlers, TakeAccountLock(h) PROVE Money'
  BY <1>1 DEF TakeAccountLock
<1>2. ASSUME NEW h \in Handlers, OpenRefused(h) PROVE Money'
  BY <1>2 DEF OpenRefused
<1>3. ASSUME NEW h \in Handlers, OpenChosen(h) PROVE Money'
  BY <1>3 DEF OpenChosen
<1>4. ASSUME NEW h \in Handlers, OpenInit(h) PROVE Money'
  <2>1. \A k \in Handlers : pc[k] \in DebitPcs \cup CreditPcs =>
            client_account[k] \in Covered
    BY DEF Owning, Lookup, InPcs
  <2>2. tmp[h] = accounts_no /\ accounts_no \in Slots
    BY <1>4, InsideTable DEF OpenInit
  <2>3. balance[accounts_no] = 0 /\ ledger[accounts_no] = 0
    BY <2>2
  <2>4. balance' = balance /\ ledger' = ledger
    BY <1>4, <2>2, <2>3 DEF OpenInit
  <2> QED
    BY <1>4, <2>4 DEF OpenInit
<1>5. ASSUME NEW h \in Handlers, OpenCount(h) PROVE Money'
  BY <1>5 DEF OpenCount, Slots
<1>6. ASSUME NEW h \in Handlers, StartCount(h) PROVE Money'
  BY <1>6 DEF StartCount
<1>7. ASSUME NEW h \in Handlers, StartSearch(h) PROVE Money'
  BY <1>7 DEF StartSearch
<1>8. ASSUME NEW h \in Handlers, TryLock(h) PROVE Money'
  BY <1>8 DEF TryLock
<1>9. ASSUME NEW h \in Handlers, TryFail(h) PROVE Money'
  BY <1>9 DEF TryFail
<1>10. ASSUME NEW h \in Handlers, SetFlag(h) PROVE Money'
  BY <1>10 DEF SetFlag
<1>11. ASSUME NEW h \in Handlers, DebitCheck(h) PROVE Money'
  <2>1. \/ pc' = [pc EXCEPT ![h] = "reply"]
        \/ ~TooLittle(h) /\ pc' = [pc EXCEPT ![h] = "debitLoad"]
    BY <1>11, Zenon DEF DebitCheck
  <2>2. request[h].arg \in Int
    <3>1. request[h].code = "DEBIT"
      BY <1>11 DEF DebitCheck, Serving, DebitPcs
    <3> QED
      BY <3>1, HeardArguments
  <2>3. client_account[h] \in Slots
    BY <1>11, InsideTable DEF DebitCheck, Owning, InPcs, DebitPcs
  <2>4. ~TooLittle(h) => balance[client_account[h]] >= request[h].arg
    BY <2>2, <2>3 DEF TooLittle
  <2> QED
    BY <1>11, <2>1, <2>4 DEF DebitCheck
<1>12. ASSUME NEW h \in Handlers, Load(h) PROVE Money'
  BY <1>12 DEF Load
<1>13. ASSUME NEW h \in Handlers, Store(h) PROVE Money'
  <2>1. request[h].arg \in Nat
    <3>1. request[h].code \in {"DEBIT", "CREDIT"}
      BY <1>13 DEF Store, Serving, DebitPcs, CreditPcs
    <3> QED
      BY <3>1, HeardArguments
  <2>2. client_account[h] \in Slots /\ client_account[h] < accounts_no
    BY <1>13, InsideTable
    DEF Store, Owning, InPcs, DebitPcs, CreditPcs, Covered
  <2>3. \A k \in Handlers : k # h /\ pc[k] \in DebitPcs \cup CreditPcs =>
            client_account[k] # client_account[h]
    BY <1>13, <2>2 DEF Owning, InPcs, Store, DebitPcs, CreditPcs, NoSlot, Slots
  <2>4. PICK v \in Nat : /\ balance' = [balance EXCEPT ![client_account[h]] = v]
                         /\ ledger' = [ledger EXCEPT ![client_account[h]] = v]
    <3> DEFINE ca  == client_account[h]
               arg == request[h].arg
    <3>1. ASSUME pc[h] = "debitStore"
          PROVE  \E v \in Nat : /\ balance' = [balance EXCEPT ![ca] = v]
                                /\ ledger' = [ledger EXCEPT ![ca] = v]
      <4>1. /\ balance' = [balance EXCEPT ![ca] = tmp[h] + (-arg)]
            /\ ledger' = [ledger EXCEPT ![ca] = ledger[ca] + (-arg)]
        BY <1>13, <3>1 DEF Store
      <4>2. tmp[h] = ledger[ca] /\ tmp[h] \in Int /\ tmp[h] >= arg
        BY <2>2, <3>1
      <4>3. tmp[h] + (-arg) \in Nat
        BY <2>1, <4>2
      <4> QED
        BY <4>1, <4>2, <4>3
    <3>2. ASSUME pc[h] = "creditStore"
          PROVE  \E v \in Nat : /\ balance' = [balance EXCEPT ![ca] = v]
                                /\ ledger' = [ledger EXCEPT ![ca] = v]
      <4>1. /\ balance' = [balance EXCEPT ![ca] = tmp[h] + arg]
            /\ ledger' = [ledger EXCEPT ![ca] = ledger[ca] + arg]
        BY <1>13, <3>2 DEF Store
      <4>2. tmp[h] = ledger[ca] /\ tmp[h] \in Int /\ tmp[h] >= 0
        BY <2>2, <3>2
      <4>3. tmp[h] + arg \in Nat
        BY <2>1, <4>2
      <4> QED
        BY <4>1, <4>2, <4>3
    <3> QED
      BY <1>13, <3>1, <3>2 DEF Store
  <2>5. /\ balance' = ledger'
        /\ \A s \in Slots : balance'[s] >= 0
        /\ \A s \in Slots : s >= accounts_no => balance'[s] = 0
    BY <2>2, <2>4
  <2>6. \A k \in Handlers : k # h => /\ pc'[k] = pc[k]
                                     /\ tmp'[k] = tmp[k]
    BY <1>13 DEF Store
  <2>7. pc'[h] = "reply"
    BY <1>13 DEF Store
  <2>8. \A k \in Handlers : k # h /\ pc[k] \in DebitPcs \cup CreditPcs =>
            balance'[client_account[k]] = balance[client_account[k]]
    BY <2>3, <2>4
  <2>9. UNCHANGED <<accounts_no, client_account, request>>
    BY <1>13 DEF Store
  <2>10. \A k \in Handlers : pc'[k] \in DebitPcs \cup CreditPcs =>
            /\ pc[k] = pc'[k] /\ tmp'[k] = tmp[k]
            /\ balance'[client_account'[k]] = balance[client_account[k]]
    BY <2>6, <2>7, <2>8, <2>9 DEF DebitPcs, CreditPcs
  <2>11. ASSUME NEW k \in Handlers, pc'[k] \in {"debitStore", "creditStore"}
         PROVE  tmp'[k] = balance'[client_account'[k]]
    BY <2>10, <2>11 DEF DebitPcs, CreditPcs
  <2>12. ASSUME NEW k \in Handlers, pc'[k] \in {"debitLoad", "debitStore"}
         PROVE  balance'[client_account'[k]] >= request'[k].arg
    BY <2>9, <2>10, <2>12 DEF DebitPcs, CreditPcs
  <2> QED
    BY <2>5, <2>9, <2>11, <2>12
<1>14. ASSUME NEW h \in Handlers, ClearFlag(h) PROVE Money'
  BY <1>14 DEF ClearFlag
<1>15. ASSUME NEW h \in Handlers, UnlockSession(h) PROVE Money'
  BY <1>15 DEF UnlockSession, ForgetAccount
<1>16. ASSUME NEW h \in Handlers, Accept(h) PROVE Money'
  BY <1>16 DEF Accept
<1>17. ASSUME NEW h \in Handlers, ReadRequest(h) PROVE Money'
  BY <1>17 DEF ReadRequest
<1>18. ASSUME NEW h \in Handlers, ReadError(h) PROVE Money'
  BY <1>18 DEF ReadError
<1>19. ASSUME NEW h \in Handlers, ReadEof(h) PROVE Money'
  BY <1>19 DEF ReadEof, AfterEof
<1>20. ASSUME NEW h \in Handlers, DispatchOutOfSession(h) PROVE Money'
  <2>1. PICK where \in {"reply", "openLock", "startLock"} :
            pc' = [pc EXCEPT ![h] = where]
    BY <1>20, OutOfSessionMoves
  <2>2. /\ pc[h] = "dispatch"
        /\ UNCHANGED <<table, locking, client_account, request, tmp, socket, printer>>
    BY <1>20, OutOfSessionMoves
  <2> QED
    BY <2>1, <2>2
<1>21. ASSUME NEW h \in Handlers, DispatchInSession(h) PROVE Money'
  <2>1. PICK where \in {"reply", "debitCheck", "creditLoad", "clear"} :
            pc' = [pc EXCEPT ![h] = where]
    BY <1>21, InSessionMoves
  <2>2. /\ pc[h] = "dispatch"
        /\ UNCHANGED <<table, locking, client_account, request, tmp, socket, printer>>
    BY <1>21, InSessionMoves
  <2> QED
    BY <2>1, <2>2
<1>22. ASSUME NEW h \in Handlers, Reply(h) PROVE Money'
  BY <1>22 DEF Reply
<1>23. ASSUME NEW h \in Handlers, BrokenPipe(h) PROVE Money'
  BY <1>23 DEF BrokenPipe
<1>24. ASSUME NEW h \in Handlers, SelectTimeout(h) PROVE Money'
  BY <1>24 DEF SelectTimeout
<1>25. CASE UNCHANGED <<table, pc, locals>>
  BY <1>25
<1> QED
  BY <1>1, <1>2, <1>3, <1>4, <1>5, <1>6, <1>7, <1>8, <1>9, <1>10, <1>11, <1>12,
     <1>13, <1>14, <1>15, <1>16, <1>17, <1>18, <1>19, <1>20, <1>21, <1>22,
     <1>23, <1>24, <1>25, HandlerOrStill
  DEF HandlerStep, OpenStep, StartStep, MoneyStep, LoopStep, CloseStep

(* Every step keeps answers within the places where they are chosen and    *)
(* written.                                                                *)
LEMMA QuietPreserved ==
    ASSUME Kinds, Quiet, [Next]_vars
    PROVE  Quiet'
<1> USE DEF Kinds, Quiet, table, locking, locals, socket, printer, Goto,
            Respond, Answer, Carry, ClosePcs, GonePcs, LockPcs
<1>1. ASSUME NEW h \in Handlers, TakeAccountLock(h) PROVE Quiet'
  BY <1>1 DEF TakeAccountLock
<1>2. ASSUME NEW h \in Handlers, OpenRefused(h) PROVE Quiet'
  BY <1>2 DEF OpenRefused
<1>3. ASSUME NEW h \in Handlers, OpenChosen(h) PROVE Quiet'
  BY <1>3 DEF OpenChosen
<1>4. ASSUME NEW h \in Handlers, OpenInit(h) PROVE Quiet'
  BY <1>4 DEF OpenInit
<1>5. ASSUME NEW h \in Handlers, OpenCount(h) PROVE Quiet'
  BY <1>5 DEF OpenCount
<1>6. ASSUME NEW h \in Handlers, StartCount(h) PROVE Quiet'
  BY <1>6 DEF StartCount
<1>7. ASSUME NEW h \in Handlers, StartSearch(h) PROVE Quiet'
  <2>1. \/ Answer(h, "CANNOT_START")
        \/ Goto(h, "tryLock") /\ UNCHANGED response
    BY <1>7, Zenon DEF StartSearch
  <2> QED
    BY <1>7, <2>1 DEF StartSearch
<1>8. ASSUME NEW h \in Handlers, TryLock(h) PROVE Quiet'
  BY <1>8 DEF TryLock
<1>9. ASSUME NEW h \in Handlers, TryFail(h) PROVE Quiet'
  BY <1>9 DEF TryFail
<1>10. ASSUME NEW h \in Handlers, SetFlag(h) PROVE Quiet'
  BY <1>10 DEF SetFlag
<1>11. ASSUME NEW h \in Handlers, DebitCheck(h) PROVE Quiet'
  <2>1. \/ Answer(h, "BALANCE_REACH_ZERO")
        \/ Goto(h, "debitLoad") /\ UNCHANGED response
    BY <1>11, Zenon DEF DebitCheck
  <2> QED
    BY <1>11, <2>1 DEF DebitCheck
<1>12. ASSUME NEW h \in Handlers, Load(h) PROVE Quiet'
  BY <1>12 DEF Load
<1>13. ASSUME NEW h \in Handlers, Store(h) PROVE Quiet'
  BY <1>13 DEF Store
<1>14. ASSUME NEW h \in Handlers, ClearFlag(h) PROVE Quiet'
  BY <1>14 DEF ClearFlag
<1>15. ASSUME NEW h \in Handlers, UnlockSession(h) PROVE Quiet'
  BY <1>15 DEF UnlockSession, ForgetAccount
<1>16. ASSUME NEW h \in Handlers, Accept(h) PROVE Quiet'
  BY <1>16 DEF Accept
<1>17. ASSUME NEW h \in Handlers, ReadRequest(h) PROVE Quiet'
  BY <1>17 DEF ReadRequest
<1>18. ASSUME NEW h \in Handlers, ReadError(h) PROVE Quiet'
  BY <1>18 DEF ReadError
<1>19. ASSUME NEW h \in Handlers, ReadEof(h) PROVE Quiet'
  BY <1>19 DEF ReadEof, AfterEof
<1>20. ASSUME NEW h \in Handlers, DispatchOutOfSession(h) PROVE Quiet'
  <2>1. PICK where \in {"reply", "openLock", "startLock"} :
            /\ pc' = [pc EXCEPT ![h] = where]
            /\ where = "reply" \/ response' = response
    BY <1>20, Zenon DEF DispatchOutOfSession
  <2> QED
    BY <1>20, <2>1 DEF DispatchOutOfSession
<1>21. ASSUME NEW h \in Handlers, DispatchInSession(h) PROVE Quiet'
  <2>1. \/ request[h].code = "FINISH" /\ Goto(h, "clear") /\ Respond(h, "SUCCESS")
        \/ Goto(h, "clear") /\ Respond(h, "ACCOUNT_EXIT")
        \/ \E where \in {"debitCheck", "creditLoad"} :
                Goto(h, where) /\ UNCHANGED response
        \/ \E code \in Responses : Answer(h, code)
    BY <1>21, Zenon DEF DispatchInSession, Responses
  <2>2. UNCHANGED request /\ pc[h] = "dispatch"
    BY <1>21 DEF DispatchInSession
  <2> QED
    BY <2>1, <2>2
<1>22. ASSUME NEW h \in Handlers, Reply(h) PROVE Quiet'
  BY <1>22 DEF Reply
<1>23. ASSUME NEW h \in Handlers, BrokenPipe(h) PROVE Quiet'
  BY <1>23 DEF BrokenPipe
<1>24. ASSUME NEW h \in Handlers, SelectTimeout(h) PROVE Quiet'
  BY <1>24 DEF SelectTimeout
<1>25. CASE UNCHANGED <<table, pc, locals>>
  BY <1>25
<1> QED
  BY <1>1, <1>2, <1>3, <1>4, <1>5, <1>6, <1>7, <1>8, <1>9, <1>10, <1>11, <1>12,
     <1>13, <1>14, <1>15, <1>16, <1>17, <1>18, <1>19, <1>20, <1>21, <1>22,
     <1>23, <1>24, <1>25, HandlerOrStill
  DEF HandlerStep, OpenStep, StartStep, MoneyStep, LoopStep, CloseStep

(* Every step renames and forgets no account, and moves money only for the *)
(* owner of its session.                                                   *)
LEMMA StepsEndure ==
    ASSUME Kinds, Insertion, Lookup, Owning, [Next]_vars
    PROVE  Endure
<1> USE BoundAssumption
    DEF Kinds, Endure, table, locking, locals, socket, printer, Goto, Respond,
        Answer, Carry
<1>1. ASSUME NEW h \in Handlers, TakeAccountLock(h) PROVE Endure
  BY <1>1 DEF TakeAccountLock
<1>2. ASSUME NEW h \in Handlers, OpenRefused(h) PROVE Endure
  BY <1>2 DEF OpenRefused
<1>3. ASSUME NEW h \in Handlers, OpenChosen(h) PROVE Endure
  BY <1>3 DEF OpenChosen
<1>4. ASSUME NEW h \in Handlers, OpenInit(h) PROVE Endure
  <2>1. tmp[h] = accounts_no /\ accounts_no \in Slots /\ accounts_no \notin Covered
    BY <1>4, InsideTable DEF OpenInit, Covered
  <2>2. \A s \in Covered : name'[s] = name[s] /\ balance'[s] = balance[s]
    BY <1>4, <2>1, InsideTable DEF OpenInit
  <2> QED
    BY <1>4, <2>2 DEF OpenInit
<1>5. ASSUME NEW h \in Handlers, OpenCount(h) PROVE Endure
  BY <1>5 DEF OpenCount
<1>6. ASSUME NEW h \in Handlers, StartCount(h) PROVE Endure
  BY <1>6 DEF StartCount
<1>7. ASSUME NEW h \in Handlers, StartSearch(h) PROVE Endure
  BY <1>7 DEF StartSearch
<1>8. ASSUME NEW h \in Handlers, TryLock(h) PROVE Endure
  BY <1>8 DEF TryLock
<1>9. ASSUME NEW h \in Handlers, TryFail(h) PROVE Endure
  BY <1>9 DEF TryFail
<1>10. ASSUME NEW h \in Handlers, SetFlag(h) PROVE Endure
  BY <1>10 DEF SetFlag
<1>11. ASSUME NEW h \in Handlers, DebitCheck(h) PROVE Endure
  BY <1>11 DEF DebitCheck
<1>12. ASSUME NEW h \in Handlers, Load(h) PROVE Endure
  BY <1>12 DEF Load
<1>13. ASSUME NEW h \in Handlers, Store(h) PROVE Endure
  <2>1. client_account[h] # NoSlot /\ session_mutex[client_account[h]] = h
    BY <1>13 DEF Store, Owning, InPcs, DebitPcs, CreditPcs
  <2>2. PICK v : balance' = [balance EXCEPT ![client_account[h]] = v]
    BY <1>13 DEF Store
  <2>3. \A s \in Covered : balance'[s] # balance[s] => s = client_account[h]
    BY <2>2, InsideTable
  <2>4. pc'[h] = "reply"
    BY <1>13 DEF Store
  <2> QED
    BY <1>13, <2>1, <2>3, <2>4 DEF Store
<1>14. ASSUME NEW h \in Handlers, ClearFlag(h) PROVE Endure
  BY <1>14 DEF ClearFlag
<1>15. ASSUME NEW h \in Handlers, UnlockSession(h) PROVE Endure
  BY <1>15 DEF UnlockSession, ForgetAccount
<1>16. ASSUME NEW h \in Handlers, Accept(h) PROVE Endure
  BY <1>16 DEF Accept
<1>17. ASSUME NEW h \in Handlers, ReadRequest(h) PROVE Endure
  BY <1>17 DEF ReadRequest
<1>18. ASSUME NEW h \in Handlers, ReadError(h) PROVE Endure
  BY <1>18 DEF ReadError
<1>19. ASSUME NEW h \in Handlers, ReadEof(h) PROVE Endure
  BY <1>19 DEF ReadEof
<1>20. ASSUME NEW h \in Handlers, DispatchOutOfSession(h) PROVE Endure
  BY <1>20 DEF DispatchOutOfSession
<1>21. ASSUME NEW h \in Handlers, DispatchInSession(h) PROVE Endure
  BY <1>21 DEF DispatchInSession
<1>22. ASSUME NEW h \in Handlers, Reply(h) PROVE Endure
  BY <1>22 DEF Reply
<1>23. ASSUME NEW h \in Handlers, BrokenPipe(h) PROVE Endure
  BY <1>23 DEF BrokenPipe
<1>24. ASSUME NEW h \in Handlers, SelectTimeout(h) PROVE Endure
  BY <1>24 DEF SelectTimeout
<1>25. CASE UNCHANGED <<table, pc, locals>>
  BY <1>25
<1> QED
  BY <1>1, <1>2, <1>3, <1>4, <1>5, <1>6, <1>7, <1>8, <1>9, <1>10, <1>11, <1>12,
     <1>13, <1>14, <1>15, <1>16, <1>17, <1>18, <1>19, <1>20, <1>21, <1>22,
     <1>23, <1>24, <1>25, HandlerOrStill
  DEF HandlerStep, OpenStep, StartStep, MoneyStep, LoopStep, CloseStep

(* A true answer of a handler stays true while that handler does not move: *)
(* accounts endure and a full table stays full.                            *)
LEMMA AnswerStays ==
    ASSUME Kinds, Insertion, Insertion', Lookup, Endure, NEW k \in Handlers,
           request'[k] = request[k], response'[k] = response[k],
           client_account'[k] = client_account[k],
           AnswerIsTrue(k)
    PROVE  AnswerIsTrue(k)'
<1>1. accounts_no = MaxAccount => accounts_no' = MaxAccount
  BY BoundAssumption DEF Insertion, Endure, Kinds
<1>2. ASSUME NEW n, \E s \in Covered : name[s] = n
      PROVE  \E s \in Covered' : name'[s] = n
  <2>1. PICK s \in Covered : name[s] = n
    BY <1>2
  <2>2. s \in Covered' /\ name'[s] = n
    <3>1. name'[s] = name[s] /\ accounts_no' >= accounts_no
      BY <2>1 DEF Endure
    <3>2. accounts_no' \in Nat /\ accounts_no \in Nat
      BY BoundAssumption DEF Insertion, Kinds
    <3> QED
      BY <2>1, <3>1, <3>2 DEF Covered
  <2> QED
    BY <2>2
<1>3. client_account[k] # NoSlot => name'[client_account[k]] = name[client_account[k]]
  BY DEF Lookup, Endure
<1> QED
  BY <1>1, <1>2, <1>3 DEF AnswerIsTrue, NoSlot

(* When one handler moves, the answers stay true if its own is true.       *)
LEMMA OthersStay ==
    ASSUME Kinds, Insertion, Insertion', Lookup, Endure, AnswersAreTrue,
           NEW h \in Handlers,
           \A k \in Handlers : k # h =>
                /\ pc'[k] = pc[k] /\ request'[k] = request[k]
                /\ response'[k] = response[k]
                /\ client_account'[k] = client_account[k],
           pc'[h] = "reply" => AnswerIsTrue(h)'
    PROVE  AnswersAreTrue'
<1> SUFFICES ASSUME NEW k \in Handlers, pc'[k] = "reply" PROVE AnswerIsTrue(k)'
  BY DEF AnswersAreTrue
<1>1. CASE k = h
  BY <1>1
<1>2. CASE k # h
  BY <1>2, AnswerStays DEF AnswersAreTrue
<1> QED
  BY <1>1, <1>2

(* When no handler moves, the answers stay true.                           *)
LEMMA AllStay ==
    ASSUME Kinds, Insertion, Insertion', Lookup, Endure, AnswersAreTrue,
           UNCHANGED <<pc, request, response, client_account>>
    PROVE  AnswersAreTrue'
BY AnswerStays DEF AnswersAreTrue

(* Every step keeps the answers true.                                      *)
LEMMA AnswersAreTruePreserved ==
    ASSUME Kinds, Serving, Insertion, Insertion', Lookup, Owning,
           Quiet, Endure, AnswersAreTrue, [Next]_vars
    PROVE  AnswersAreTrue'
<1> USE DEF Kinds, table, locking, locals, socket, printer, Goto, Respond,
            Answer, Carry
<1>1. ASSUME NEW h \in Handlers, TakeAccountLock(h) PROVE AnswersAreTrue'
  <2>1. \A k \in Handlers : k # h =>
            /\ pc'[k] = pc[k] /\ request'[k] = request[k]
            /\ response'[k] = response[k] /\ client_account'[k] = client_account[k]
    BY <1>1 DEF TakeAccountLock
  <2>2. pc'[h] # "reply"
    BY <1>1 DEF TakeAccountLock
  <2> QED
    BY <1>1, <2>1, <2>2, OthersStay
<1>2. ASSUME NEW h \in Handlers, OpenRefused(h) PROVE AnswersAreTrue'
  <2>1. \A k \in Handlers : k # h =>
            /\ pc'[k] = pc[k] /\ request'[k] = request[k]
            /\ response'[k] = response[k] /\ client_account'[k] = client_account[k]
    BY <1>2 DEF OpenRefused
  <2>2. AnswerIsTrue(h)'
    <3>1. Full \/ (\E s \in Covered : name[s] = request[h].arg)
      <4>1. CASE Full
        BY <4>1
      <4>2. CASE Wanted(h) \in Covered
        <5>1. accounts_no \in Nat
          BY DEF Kinds
        <5>2. accounts_no # 0 /\ Wanted(h) # accounts_no
          BY <4>2 DEF Covered, Kinds
        <5>3. \A s, t \in 0 .. accounts_no - 1 : name[s] = name[t] => s = t
          BY DEF Insertion, Covered
        <5> QED
          BY <5>1, <5>2, <5>3, SearchFinds DEF Wanted, Covered
      <4> QED
        BY <1>2, <4>1, <4>2 DEF OpenRefused
    <3> QED
      BY <1>2, <3>1
      DEF OpenRefused, AnswerIsTrue, Full, Covered, Serving, OpenPcs
  <2> QED
    BY <1>2, <2>1, <2>2, OthersStay
<1>3. ASSUME NEW h \in Handlers, OpenChosen(h) PROVE AnswersAreTrue'
  <2>1. \A k \in Handlers : k # h =>
            /\ pc'[k] = pc[k] /\ request'[k] = request[k]
            /\ response'[k] = response[k] /\ client_account'[k] = client_account[k]
    BY <1>3 DEF OpenChosen
  <2>2. pc'[h] # "reply"
    BY <1>3 DEF OpenChosen
  <2> QED
    BY <1>3, <2>1, <2>2, OthersStay
<1>4. ASSUME NEW h \in Handlers, OpenInit(h) PROVE AnswersAreTrue'
  <2>1. \A k \in Handlers : k # h =>
            /\ pc'[k] = pc[k] /\ request'[k] = request[k]
            /\ response'[k] = response[k] /\ client_account'[k] = client_account[k]
    BY <1>4 DEF OpenInit
  <2>2. pc'[h] # "reply"
    BY <1>4 DEF OpenInit
  <2> QED
    BY <1>4, <2>1, <2>2, OthersStay
<1>5. ASSUME NEW h \in Handlers, OpenCount(h) PROVE AnswersAreTrue'
  <2>1. \A k \in Handlers : k # h =>
            /\ pc'[k] = pc[k] /\ request'[k] = request[k]
            /\ response'[k] = response[k] /\ client_account'[k] = client_account[k]
    BY <1>5 DEF OpenCount
  <2>2. AnswerIsTrue(h)'
    <3>1. /\ accounts_no \in Covered' /\ name' = name
          /\ name[accounts_no] = request[h].arg
      BY <1>5 DEF OpenCount, Insertion, Covered
    <3> QED
      BY <1>5, <3>1 DEF OpenCount, AnswerIsTrue, Serving, OpenPcs
  <2> QED
    BY <1>5, <2>1, <2>2, OthersStay
<1>6. ASSUME NEW h \in Handlers, StartCount(h) PROVE AnswersAreTrue'
  <2>1. \A k \in Handlers : k # h =>
            /\ pc'[k] = pc[k] /\ request'[k] = request[k]
            /\ response'[k] = response[k] /\ client_account'[k] = client_account[k]
    BY <1>6 DEF StartCount
  <2>2. pc'[h] # "reply"
    BY <1>6 DEF StartCount
  <2> QED
    BY <1>6, <2>1, <2>2, OthersStay
<1>7. ASSUME NEW h \in Handlers, StartSearch(h) PROVE AnswersAreTrue'
  <2>1. \A k \in Handlers : k # h =>
            /\ pc'[k] = pc[k] /\ request'[k] = request[k]
            /\ response'[k] = response[k] /\ client_account'[k] = client_account[k]
    BY <1>7 DEF StartSearch
  <2>2. pc'[h] = "reply" => AnswerIsTrue(h)'
    <3>1. \/ Answer(h, "CANNOT_START")
          \/ Goto(h, "tryLock")
      BY <1>7, Zenon DEF StartSearch
    <3> QED
      BY <1>7, <3>1 DEF StartSearch, AnswerIsTrue
  <2> QED
    BY <1>7, <2>1, <2>2, OthersStay
<1>8. ASSUME NEW h \in Handlers, TryLock(h) PROVE AnswersAreTrue'
  <2>1. \A k \in Handlers : k # h =>
            /\ pc'[k] = pc[k] /\ request'[k] = request[k]
            /\ response'[k] = response[k] /\ client_account'[k] = client_account[k]
    BY <1>8 DEF TryLock
  <2>2. pc'[h] # "reply"
    BY <1>8 DEF TryLock
  <2> QED
    BY <1>8, <2>1, <2>2, OthersStay
<1>9. ASSUME NEW h \in Handlers, TryFail(h) PROVE AnswersAreTrue'
  <2>1. \A k \in Handlers : k # h =>
            /\ pc'[k] = pc[k] /\ request'[k] = request[k]
            /\ response'[k] = response[k] /\ client_account'[k] = client_account[k]
    BY <1>9 DEF TryFail
  <2>2. pc'[h] # "reply"
    BY <1>9 DEF TryFail
  <2> QED
    BY <1>9, <2>1, <2>2, OthersStay
<1>10. ASSUME NEW h \in Handlers, SetFlag(h) PROVE AnswersAreTrue'
  <2>1. \A k \in Handlers : k # h =>
            /\ pc'[k] = pc[k] /\ request'[k] = request[k]
            /\ response'[k] = response[k] /\ client_account'[k] = client_account[k]
    BY <1>10 DEF SetFlag
  <2>2. AnswerIsTrue(h)'
    <3>1. client_account[h] # NoSlot /\ request[h].code = "START"
      BY <1>10 DEF SetFlag, Owning, InPcs, Serving, StartPcs
    <3>2. name[client_account[h]] = request[h].arg
      BY <1>10, <3>1 DEF SetFlag, Lookup
    <3> QED
      BY <1>10, <3>1, <3>2 DEF SetFlag, AnswerIsTrue, NoSlot
  <2> QED
    BY <1>10, <2>1, <2>2, OthersStay
<1>11. ASSUME NEW h \in Handlers, DebitCheck(h) PROVE AnswersAreTrue'
  <2>1. \A k \in Handlers : k # h =>
            /\ pc'[k] = pc[k] /\ request'[k] = request[k]
            /\ response'[k] = response[k] /\ client_account'[k] = client_account[k]
    BY <1>11 DEF DebitCheck
  <2>2. pc'[h] = "reply" => AnswerIsTrue(h)'
    <3>1. request[h].code = "DEBIT"
      BY <1>11 DEF DebitCheck, Serving, DebitPcs
    <3> QED
      BY <1>11, <3>1 DEF DebitCheck, AnswerIsTrue
  <2> QED
    BY <1>11, <2>1, <2>2, OthersStay
<1>12. ASSUME NEW h \in Handlers, Load(h) PROVE AnswersAreTrue'
  <2>1. \A k \in Handlers : k # h =>
            /\ pc'[k] = pc[k] /\ request'[k] = request[k]
            /\ response'[k] = response[k] /\ client_account'[k] = client_account[k]
    BY <1>12 DEF Load
  <2>2. pc'[h] # "reply"
    BY <1>12 DEF Load
  <2> QED
    BY <1>12, <2>1, <2>2, OthersStay
<1>13. ASSUME NEW h \in Handlers, Store(h) PROVE AnswersAreTrue'
  <2>1. \A k \in Handlers : k # h =>
            /\ pc'[k] = pc[k] /\ request'[k] = request[k]
            /\ response'[k] = response[k] /\ client_account'[k] = client_account[k]
    BY <1>13 DEF Store
  <2>2. AnswerIsTrue(h)'
    <3>1. request[h].code \in {"DEBIT", "CREDIT"}
      BY <1>13 DEF Store, Serving, DebitPcs, CreditPcs
    <3> QED
      BY <1>13, <3>1 DEF Store, AnswerIsTrue
  <2> QED
    BY <1>13, <2>1, <2>2, OthersStay
<1>14. ASSUME NEW h \in Handlers, ClearFlag(h) PROVE AnswersAreTrue'
  <2>1. \A k \in Handlers : k # h =>
            /\ pc'[k] = pc[k] /\ request'[k] = request[k]
            /\ response'[k] = response[k] /\ client_account'[k] = client_account[k]
    BY <1>14 DEF ClearFlag
  <2>2. pc'[h] # "reply"
    BY <1>14 DEF ClearFlag
  <2> QED
    BY <1>14, <2>1, <2>2, OthersStay
<1>15. ASSUME NEW h \in Handlers, UnlockSession(h) PROVE AnswersAreTrue'
  <2>1. \A k \in Handlers : k # h =>
            /\ pc'[k] = pc[k] /\ request'[k] = request[k]
            /\ response'[k] = response[k] /\ client_account'[k] = client_account[k]
    BY <1>15 DEF UnlockSession, ForgetAccount
  <2>2. AnswerIsTrue(h)'
    <3>1. /\ request' = request
          /\ response'[h] = "SUCCESS" => request[h].code = "FINISH"
          /\ response'[h] # "CANNOT_OPEN"
      BY <1>15 DEF UnlockSession, Quiet, ClosePcs
    <3> QED
      BY <3>1 DEF AnswerIsTrue
  <2> QED
    BY <1>15, <2>1, <2>2, OthersStay
<1>16. ASSUME NEW h \in Handlers, Accept(h) PROVE AnswersAreTrue'
  <2>1. \A k \in Handlers : k # h =>
            /\ pc'[k] = pc[k] /\ request'[k] = request[k]
            /\ response'[k] = response[k] /\ client_account'[k] = client_account[k]
    BY <1>16 DEF Accept
  <2>2. pc'[h] # "reply"
    BY <1>16 DEF Accept
  <2> QED
    BY <1>16, <2>1, <2>2, OthersStay
<1>17. ASSUME NEW h \in Handlers, ReadRequest(h) PROVE AnswersAreTrue'
  <2>1. \A k \in Handlers : k # h =>
            /\ pc'[k] = pc[k] /\ request'[k] = request[k]
            /\ response'[k] = response[k] /\ client_account'[k] = client_account[k]
    BY <1>17 DEF ReadRequest
  <2>2. pc'[h] # "reply"
    BY <1>17 DEF ReadRequest
  <2> QED
    BY <1>17, <2>1, <2>2, OthersStay
<1>18. ASSUME NEW h \in Handlers, ReadError(h) PROVE AnswersAreTrue'
  <2>1. \A k \in Handlers : k # h =>
            /\ pc'[k] = pc[k] /\ request'[k] = request[k]
            /\ response'[k] = response[k] /\ client_account'[k] = client_account[k]
    BY <1>18 DEF ReadError
  <2>2. pc'[h] # "reply"
    BY <1>18 DEF ReadError
  <2> QED
    BY <1>18, <2>1, <2>2, OthersStay
<1>19. ASSUME NEW h \in Handlers, ReadEof(h) PROVE AnswersAreTrue'
  <2>1. \A k \in Handlers : k # h =>
            /\ pc'[k] = pc[k] /\ request'[k] = request[k]
            /\ response'[k] = response[k] /\ client_account'[k] = client_account[k]
    BY <1>19 DEF ReadEof, AfterEof
  <2>2. pc'[h] # "reply"
    BY <1>19 DEF ReadEof, AfterEof
  <2> QED
    BY <1>19, <2>1, <2>2, OthersStay
<1>20. ASSUME NEW h \in Handlers, DispatchOutOfSession(h) PROVE AnswersAreTrue'
  <2>1. \A k \in Handlers : k # h =>
            /\ pc'[k] = pc[k] /\ request'[k] = request[k]
            /\ response'[k] = response[k] /\ client_account'[k] = client_account[k]
    BY <1>20 DEF DispatchOutOfSession
  <2>2. pc'[h] = "reply" => AnswerIsTrue(h)'
    <3>1. pc'[h] = "reply" => response'[h] \notin {"SUCCESS", "CANNOT_OPEN"}
      BY <1>20 DEF DispatchOutOfSession
    <3> QED
      BY <3>1 DEF AnswerIsTrue
  <2> QED
    BY <1>20, <2>1, <2>2, OthersStay
<1>21. ASSUME NEW h \in Handlers, DispatchInSession(h) PROVE AnswersAreTrue'
  <2>1. \A k \in Handlers : k # h =>
            /\ pc'[k] = pc[k] /\ request'[k] = request[k]
            /\ response'[k] = response[k] /\ client_account'[k] = client_account[k]
    BY <1>21 DEF DispatchInSession
  <2>2. pc'[h] = "reply" => AnswerIsTrue(h)'
    <3>1. /\ request' = request /\ client_account' = client_account
          /\ client_account[h] # NoSlot
      BY <1>21 DEF DispatchInSession, InSession
    <3>2. pc'[h] = "reply" /\ response'[h] = "SUCCESS" =>
            request[h].code \notin {"OPEN", "START"}
      BY <1>21 DEF DispatchInSession
    <3> QED
      BY <3>1, <3>2 DEF AnswerIsTrue, NoSlot
  <2> QED
    BY <1>21, <2>1, <2>2, OthersStay
<1>22. ASSUME NEW h \in Handlers, Reply(h) PROVE AnswersAreTrue'
  <2>1. \A k \in Handlers : k # h =>
            /\ pc'[k] = pc[k] /\ request'[k] = request[k]
            /\ response'[k] = response[k] /\ client_account'[k] = client_account[k]
    BY <1>22 DEF Reply
  <2>2. pc'[h] # "reply"
    BY <1>22 DEF Reply
  <2> QED
    BY <1>22, <2>1, <2>2, OthersStay
<1>23. ASSUME NEW h \in Handlers, BrokenPipe(h) PROVE AnswersAreTrue'
  <2>1. \A k \in Handlers : k # h =>
            /\ pc'[k] = pc[k] /\ request'[k] = request[k]
            /\ response'[k] = response[k] /\ client_account'[k] = client_account[k]
    BY <1>23 DEF BrokenPipe
  <2>2. pc'[h] # "reply"
    BY <1>23 DEF BrokenPipe
  <2> QED
    BY <1>23, <2>1, <2>2, OthersStay
<1>24. ASSUME NEW h \in Handlers, SelectTimeout(h) PROVE AnswersAreTrue'
  <2>1. \A k \in Handlers : k # h =>
            /\ pc'[k] = pc[k] /\ request'[k] = request[k]
            /\ response'[k] = response[k] /\ client_account'[k] = client_account[k]
    BY <1>24 DEF SelectTimeout
  <2>2. AnswerIsTrue(h)'
    BY <1>24 DEF SelectTimeout, AnswerIsTrue
  <2> QED
    BY <1>24, <2>1, <2>2, OthersStay
<1>25. CASE UNCHANGED <<table, pc, locals>>
  BY <1>25, AllStay DEF locals
<1> QED
  BY <1>1, <1>2, <1>3, <1>4, <1>5, <1>6, <1>7, <1>8, <1>9, <1>10, <1>11, <1>12,
     <1>13, <1>14, <1>15, <1>16, <1>17, <1>18, <1>19, <1>20, <1>21, <1>22,
     <1>23, <1>24, <1>25, HandlerOrStill
  DEF HandlerStep, OpenStep, StartStep, MoneyStep, LoopStep, CloseStep

-----------------------------------------------------------------------------
(* The server starts with an empty table, unborn handlers and free         *)
(* mutexes, where the invariant holds.                                     *)
LEMMA InitIInv == Init => IInv
<1> SUFFICES ASSUME Init PROVE IInv
  OBVIOUS
<1> USE ProcessAssumption, DataAssumption, BoundAssumption DEF Init
<1>1. NoRequest \in Heard
  BY DEF Heard
<1>2. Kinds
  BY <1>1 DEF Kinds, Pcs, Responses, Peers, NoSlot, Procs
<1>3. AccountLockInUse
  BY DEF AccountLockInUse, CriticalPcs
<1>4. Serving
  BY DEF Serving, OpenPcs, StartPcs, DebitPcs, CreditPcs
<1>5. Covered = {}
  BY DEF Covered
<1>6. Insertion
  BY <1>5 DEF Insertion
<1>7. Lookup
  BY DEF Lookup
<1>8. Owning
  BY DEF Owning, InPcs, DebitPcs, CreditPcs, ClosePcs
<1>9. Finishing
  BY DEF Finishing
<1>10. Money
  BY DEF Money
<1>11. Quiet /\ AnswersAreTrue
  BY DEF Quiet, AnswersAreTrue, ClosePcs
<1> QED
  BY <1>2, <1>3, <1>4, <1>6, <1>7, <1>8, <1>9, <1>10, <1>11 DEF IInv

(* Every step keeps the inductive invariant.                               *)
LEMMA StepIInv == IInv /\ [Next]_vars => IInv'
<1> SUFFICES ASSUME IInv, [Next]_vars PROVE IInv'
  OBVIOUS
<1>1. /\ Kinds /\ AccountLockInUse /\ Serving /\ Insertion /\ Lookup
      /\ Owning /\ Finishing /\ Money /\ Quiet /\ AnswersAreTrue
  BY DEF IInv
<1>2. Kinds' BY <1>1, KindsPreserved
<1>3. AccountLockInUse' BY <1>1, AccountLockInUsePreserved
<1>4. Serving' BY <1>1, ServingPreserved
<1>5. Insertion' BY <1>1, InsertionPreserved
<1>6. Lookup' BY <1>1, LookupPreserved
<1>7. Owning' BY <1>1, OwningPreserved
<1>8. Finishing' BY <1>1, FinishingPreserved
<1>9. Money' BY <1>1, MoneyPreserved
<1>10. Quiet' BY <1>1, QuietPreserved
<1>11. Endure BY <1>1, StepsEndure
<1>12. AnswersAreTrue' BY <1>1, <1>5, <1>11, AnswersAreTruePreserved
<1> QED
  BY <1>2, <1>3, <1>4, <1>5, <1>6, <1>7, <1>8, <1>9, <1>10, <1>12 DEF IInv

(* In every reachable state the inductive invariant holds: what the        *)
(* handlers, the printer and the dying clients of server-client.c and      *)
(* server.c do, in any order, keeps all of its layers.                     *)
THEOREM Invariance == Spec => []IInv
BY InitIInv, StepIInv, PTL DEF Spec

(* Every variable always holds a value of its declared kind, and slots and *)
(* rows stay within MAX_ACCOUNT.                                           *)
THEOREM Typing == Spec => []TypeOK
<1>1. IInv => TypeOK
  <2> SUFFICES ASSUME IInv PROVE TypeOK
    OBVIOUS
  <2>1. Kinds /\ Insertion /\ Lookup
    BY DEF IInv
  <2>2. \A h \in Handlers : client_account[h] \in Slots \cup {NoSlot}
    BY <2>1, InsideTable
  <2>3. client_account \in [Handlers -> Slots \cup {NoSlot}]
    BY <2>1, <2>2 DEF Kinds
  <2>4. accounts_no \in 0 .. MaxAccount /\ prow \in 0 .. MaxAccount
    BY <2>1, BoundAssumption DEF Insertion
  <2> QED
    BY <2>1, <2>3, <2>4 DEF Kinds, TypeOK
<1> QED
  BY <1>1, Invariance, PTL

(* No two customers are ever in session on one account.                    *)
THEOREM Exclusion == Spec => []SessionExclusion
<1>1. IInv => SessionExclusion
  <2> SUFFICES ASSUME IInv, NEW h \in Handlers, NEW k \in Handlers,
                      h # k, client_account[h] # NoSlot
               PROVE  client_account[h] # client_account[k]
    BY DEF SessionExclusion
  <2>1. session_mutex[client_account[h]] = h
    BY DEF IInv, Owning
  <2>2. client_account[k] # NoSlot => session_mutex[client_account[k]] = k
    BY DEF IInv, Owning
  <2> QED
    BY <2>1, <2>2
<1> QED
  BY <1>1, Invariance, PTL

(* A session mutex is owned by exactly the handler whose client_account it *)
(* is, and no handler that leaves client() by itself keeps one.            *)
THEOREM MutexesFollowSessions == Spec => []MutexMatchesSession
<1>1. IInv => MutexMatchesSession
  <2> SUFFICES ASSUME IInv PROVE MutexMatchesSession
    OBVIOUS
  <2>1. Owning
    BY DEF IInv
  <2>2. ASSUME NEW s \in Slots, NEW h \in Handlers
        PROVE  session_mutex[s] = h <=> client_account[h] = s
    <3>1. s # NoSlot /\ h # NoProc
      BY ProcessAssumption DEF Slots, NoSlot
    <3> QED
      BY <2>1, <3>1 DEF Owning
  <2>3. \A h \in Handlers : pc[h] = "exited" => client_account[h] = NoSlot
    BY <2>1 DEF Owning, OutPcs
  <2> QED
    BY <2>2, <2>3 DEF MutexMatchesSession
<1> QED
  BY <1>1, Invariance, PTL

(* in_session is YES exactly between SetFlag and ClearFlag of the          *)
(* session's owner.                                                        *)
THEOREM FlagsFollowSessions == Spec => []FlagMatchesSession
<1>1. IInv => FlagMatchesSession
  <2> SUFFICES ASSUME IInv, NEW s \in Slots
               PROVE  in_session[s] <=>
                        \E h \in Handlers : /\ client_account[h] = s
                                            /\ pc[h] \notin {"setFlag", "unlock"}
    BY DEF FlagMatchesSession
  <2>1. Owning /\ session_mutex[s] \in Handlers \cup {NoProc}
    BY DEF IInv, Kinds
  <2>2. s # NoSlot
    BY DEF Slots, NoSlot
  <2>3. ASSUME in_session[s]
        PROVE  \E h \in Handlers : /\ client_account[h] = s
                                   /\ pc[h] \notin {"setFlag", "unlock"}
    <3>1. /\ session_mutex[s] \in Handlers
          /\ client_account[session_mutex[s]] = s
          /\ pc[session_mutex[s]] \notin {"setFlag", "unlock"}
      BY <2>1, <2>3 DEF Owning
    <3> QED
      BY <3>1
  <2>4. ASSUME NEW h \in Handlers, client_account[h] = s,
               pc[h] \notin {"setFlag", "unlock"}
        PROVE  in_session[s]
    BY <2>1, <2>2, <2>4 DEF Owning
  <2> QED
    BY <2>3, <2>4
<1> QED
  BY <1>1, Invariance, PTL

(* Account names are unique, every covered slot is an opened account and   *)
(* every other slot is empty and free.                                     *)
THEOREM SoundTable == Spec => []TableIsSound
<1>1. IInv => TableIsSound
  <2> SUFFICES ASSUME IInv PROVE TableIsSound
    OBVIOUS
  <2>1. Kinds /\ Insertion /\ Lookup /\ Owning /\ Money
    BY DEF IInv
  <2>2. ASSUME NEW s \in Slots \ Covered
        PROVE  balance[s] = 0 /\ session_mutex[s] = NoProc
    <3>1. s >= accounts_no /\ s # NoSlot
      BY <2>1 DEF Slots, Covered, Kinds, NoSlot
    <3>2. \A h \in Handlers : client_account[h] # s
      BY <2>1, <2>2, <3>1 DEF Lookup
    <3>3. session_mutex[s] = NoProc
      BY <2>1, <3>2 DEF Owning, Kinds
    <3> QED
      BY <2>1, <3>1, <3>3 DEF Money
  <2> QED
    BY <2>1, <2>2 DEF TableIsSound, Insertion
<1> QED
  BY <1>1, Invariance, PTL

(* Every balance is what the finished credits and debits add up to.        *)
THEOREM UpdatesAreKept == Spec => []NoLostUpdate
<1>1. IInv => NoLostUpdate
  BY DEF IInv, Money, NoLostUpdate
<1> QED
  BY <1>1, Invariance, PTL

(* No balance is ever negative.                                            *)
THEOREM NothingIsOverdrawn == Spec => []NoOverdraft
<1>1. IInv => NoOverdraft
  BY DEF IInv, Money, NoOverdraft
<1> QED
  BY <1>1, Invariance, PTL

(* new_account_lock_mutex is owned only by a process inside its critical   *)
(* section.                                                                *)
THEOREM LockIsGivenBack == Spec => []AccountLockInUse
<1>1. IInv => AccountLockInUse
  BY DEF IInv
<1> QED
  BY <1>1, Invariance, PTL

(* What a handler writes to its client about accounts is true when it is   *)
(* written.                                                                *)
THEOREM TruthOfAnswers == Spec => []AnswersAreTrue
<1>1. IInv => AnswersAreTrue
  BY DEF IInv
<1> QED
  BY <1>1, Invariance, PTL

(* Every step of the server keeps opened accounts and their names, and     *)
(* moves money only inside the owner's credit or debit.                    *)
THEOREM NothingIsForgotten == Spec => AccountsEndure
<1>1. IInv /\ [Next]_vars => [Endure]_vars
  BY StepsEndure DEF IInv
<1> QED
  BY <1>1, Invariance, PTL DEF Spec, AccountsEndure

-----------------------------------------------------------------------------
(* The bank implements Accounts.  What the abstract bank says of a name,   *)
(* the table says of the slot that has it.                                 *)

(* The slots C as a table from names: their values, zero for other names.  *)
Table(C, nm, value, zero) ==
    [n \in Names |-> IF \E s \in C : nm[s] = n
                     THEN value[CHOOSE s \in C : nm[s] = n] ELSE zero]

Sound(C, nm) ==
    /\ \A s \in C : nm[s] \in Names
    /\ \A s, t \in C : nm[s] = nm[t] => s = t

Opened == {name[s] : s \in Covered}
Cash   == Table(Covered, name, balance, 0)
Holder == Table(Covered, name, session_mutex, NoProc)

(* In a table where no name is twice, a name has its slot's value.         *)
LEMMA TableValues ==
    ASSUME NEW C, NEW nm, NEW value, NEW zero, Sound(C, nm)
    PROVE  /\ \A s \in C : Table(C, nm, value, zero)[nm[s]] = value[s]
           /\ \A n \in Names \ {nm[s] : s \in C} : Table(C, nm, value, zero)[n] = zero
<1>1. ASSUME NEW s \in C PROVE Table(C, nm, value, zero)[nm[s]] = value[s]
  <2>1. (CHOOSE t \in C : nm[t] = nm[s]) = s
    BY DEF Sound
  <2> QED
    BY <2>1 DEF Table, Sound
<1>2. ASSUME NEW n \in Names \ {nm[s] : s \in C}
      PROVE  Table(C, nm, value, zero)[n] = zero
  BY DEF Table
<1> QED
  BY <1>1, <1>2

(* New slots of the value zero change no name's value.                     *)
LEMMA TableGrows ==
    ASSUME NEW C, NEW D, NEW nm, NEW mn, NEW value, NEW eulav, NEW zero,
           Sound(C, nm), Sound(D, mn), C \subseteq D,
           \A s \in C : mn[s] = nm[s] /\ eulav[s] = value[s],
           \A s \in D \ C : eulav[s] = zero
    PROVE  Table(D, mn, eulav, zero) = Table(C, nm, value, zero)
<1>1. ASSUME NEW n \in Names
      PROVE  Table(D, mn, eulav, zero)[n] = Table(C, nm, value, zero)[n]
  <2>1. CASE \E s \in C : nm[s] = n
    BY <2>1, TableValues
  <2>2. CASE ~(\E s \in C : nm[s] = n)
    <3>1. Table(C, nm, value, zero)[n] = zero
      BY <2>2, TableValues
    <3>2. CASE \E s \in D : mn[s] = n
      <4>1. PICK s \in D : mn[s] = n
        BY <3>2
      <4>2. s \notin C
        BY <2>2, <4>1
      <4> QED
        BY <3>1, <4>1, <4>2, TableValues
    <3>3. CASE ~(\E s \in D : mn[s] = n)
      BY <3>1, <3>3, TableValues
    <3> QED
      BY <3>2, <3>3
  <2> QED
    BY <2>1, <2>2
<1>2. /\ Table(D, mn, eulav, zero) = [n \in Names |-> Table(D, mn, eulav, zero)[n]]
      /\ Table(C, nm, value, zero) = [n \in Names |-> Table(C, nm, value, zero)[n]]
  BY DEF Table
<1> QED
  BY <1>1, <1>2

(* A name whose slot keeps its value keeps it too.                         *)
LEMMA TableKeeps ==
    ASSUME NEW C, NEW nm, NEW value, NEW eulav, NEW zero, Sound(C, nm),
           NEW n \in Names, \A t \in C : nm[t] = n => eulav[t] = value[t]
    PROVE  Table(C, nm, eulav, zero)[n] = Table(C, nm, value, zero)[n]
<1>1. CASE \E t \in C : nm[t] = n
  <2>1. PICK t \in C : nm[t] = n
    BY <1>1
  <2> QED
    BY <2>1, TableValues DEF Sound
<1>2. CASE ~(\E t \in C : nm[t] = n)
  BY <1>2, TableValues
<1> QED
  BY <1>1, <1>2

(* The table of accounts is one where no name is twice, before and after a *)
(* step.                                                                   *)
LEMMA CoveredSound ==
    /\ Kinds /\ Insertion => Covered \subseteq Slots /\ Sound(Covered, name)
    /\ Kinds' /\ Insertion' => Covered' \subseteq Slots /\ Sound(Covered', name')
<1>1. ASSUME Kinds, Insertion
      PROVE  Covered \subseteq Slots /\ Sound(Covered, name)
  <2>1. Covered \subseteq Slots
    BY <1>1, BoundAssumption DEF Insertion, Covered, Slots
  <2> QED
    BY <1>1, <2>1 DEF Kinds, Insertion, Sound
<1>2. ASSUME Kinds', Insertion'
      PROVE  Covered' \subseteq Slots /\ Sound(Covered', name')
  <2>1. Covered' \subseteq Slots
    BY <1>2, BoundAssumption DEF Insertion, Covered, Slots
  <2> QED
    BY <1>2, <2>1 DEF Kinds, Insertion, Sound
<1> QED
  BY <1>1, <1>2

(* While the table is not full, fewer names are opened than it has slots.  *)
LEMMA RoomForOne ==
    ASSUME Kinds, Insertion, accounts_no < MaxAccount
    PROVE  Cardinality(Opened) < MaxAccount
<1> DEFINE f == [s \in Covered |-> name[s]]
<1>1. f \in Surjection(Covered, Opened)
  BY DEF Surjection, Opened
<1>2. IsFiniteSet(Covered) /\ Cardinality(Covered) = accounts_no
  <2>1. 0 \in Int /\ accounts_no - 1 \in Int /\ accounts_no \in Nat
    BY DEF Kinds
  <2>2. /\ IsFiniteSet(0 .. accounts_no - 1)
        /\ Cardinality(0 .. accounts_no - 1)
              = IF 0 > accounts_no - 1 THEN 0 ELSE (accounts_no - 1) - 0 + 1
    BY <2>1, FS_Interval
  <2> QED
    BY <2>1, <2>2 DEF Covered
<1>3. IsFiniteSet(Opened) /\ Cardinality(Opened) <= Cardinality(Covered)
  BY <1>1, <1>2, FS_Surjection
<1>4. Cardinality(Opened) \in Nat
  BY <1>3, FS_CardinalityType
<1> QED
  BY <1>2, <1>3, <1>4, BoundAssumption DEF Kinds

(* A step that leaves names, balances and mutexes of the slots below the   *)
(* counter is none for the customers.                                      *)
LEMMA TableStill ==
    ASSUME IInv, IInv', accounts_no' = accounts_no,
           \A s \in Covered : /\ name'[s] = name[s] /\ balance'[s] = balance[s]
                              /\ session_mutex'[s] = session_mutex[s]
    PROVE  UNCHANGED <<Opened, Cash, Holder>>
<1>1. Covered' = Covered /\ Sound(Covered, name) /\ Sound(Covered', name')
  BY CoveredSound DEF IInv, Covered
<1>2. Opened' = Opened
  BY <1>1 DEF Opened
<1>3. Cash' = Cash
  BY <1>1, TableGrows DEF Cash
<1>4. Holder' = Holder
  BY <1>1, TableGrows DEF Holder
<1> QED
  BY <1>2, <1>3, <1>4

(* The counter's step opens the account whose name was new under the lock. *)
LEMMA CountingOpens ==
    ASSUME IInv, IInv', NEW h \in Handlers, OpenCount(h)
    PROVE  \E n \in Names :
             /\ n \notin Opened /\ Cardinality(Opened) < MaxAccount
             /\ Opened' = Opened \cup {n}
             /\ UNCHANGED <<Cash, Holder>>
<1>1. /\ Kinds /\ Serving /\ Insertion /\ Lookup /\ Owning /\ Money
      /\ Kinds' /\ Insertion'
  BY DEF IInv
<1>2. PICK n, new : n = request[h].arg /\ new = accounts_no
  OBVIOUS
<1>3. /\ pc[h] = "openCount" /\ accounts_no' = accounts_no + 1
      /\ UNCHANGED <<name, balance, session_mutex>>
  BY DEF OpenCount
<1>4. /\ new < MaxAccount /\ name[new] = n
      /\ \A s \in Covered : name[s] # n
  BY <1>1, <1>2, <1>3 DEF Insertion
<1>5. new \in Slots /\ new \notin Covered /\ Covered' = Covered \cup {new}
  <2>1. new \in Nat /\ accounts_no' = new + 1
    BY <1>1, <1>2, <1>3 DEF Kinds
  <2>2. 0 .. (new + 1) - 1 = (0 .. new - 1) \cup {new}
    BY <2>1
  <2>3. new \in Slots /\ new \notin 0 .. new - 1
    BY <1>4, <2>1, BoundAssumption DEF Slots
  <2> QED
    BY <1>2, <2>1, <2>2, <2>3 DEF Covered
<1>6. n \in Names
  <2>1. request[h] \in Heard /\ request[h].code = "OPEN"
    BY <1>1, <1>3 DEF Kinds, Serving, OpenPcs
  <2> QED
    BY <1>2, <2>1, HeardArguments
<1>7. balance[new] = 0
  BY <1>1, <1>2, <1>5 DEF Money, Kinds
<1>8. session_mutex[new] = NoProc
  <2>1. ASSUME session_mutex[new] # NoProc PROVE FALSE
    <3>1. session_mutex[new] \in Handlers
      BY <1>1, <1>5, <2>1 DEF Kinds
    <3>2. client_account[session_mutex[new]] = new
      BY <1>1, <1>5, <2>1 DEF Owning
    <3>3. new # NoSlot
      BY <1>5 DEF Slots, NoSlot
    <3> QED
      BY <1>1, <1>5, <3>1, <3>2, <3>3 DEF Lookup
  <2> QED
    BY <2>1
<1>9. Sound(Covered, name) /\ Sound(Covered', name')
  BY <1>1, CoveredSound
<1>10. n \notin Opened /\ Opened' = Opened \cup {n}
  BY <1>3, <1>4, <1>5 DEF Opened
<1>11. Cash' = Cash
  BY <1>3, <1>5, <1>7, <1>9, TableGrows DEF Cash
<1>12. Holder' = Holder
  BY <1>3, <1>5, <1>8, <1>9, TableGrows DEF Holder
<1>13. Cardinality(Opened) < MaxAccount
  BY <1>1, <1>2, <1>4, RoomForOne
<1> QED
  BY <1>6, <1>10, <1>11, <1>12, <1>13

(* A trylock that succeeds starts a session on an account nobody uses, for *)
(* a customer who uses none.                                               *)
LEMMA TryingStarts ==
    ASSUME IInv, IInv', NEW h \in Handlers, TryLock(h)
    PROVE  \E n \in Names :
             /\ n \in Opened /\ Holder[n] = NoProc
             /\ \A m \in Names : Holder[m] # h
             /\ Holder' = [Holder EXCEPT ![n] = h]
             /\ UNCHANGED <<Opened, Cash>>
<1>1. Kinds /\ Insertion /\ Lookup /\ Owning
  BY DEF IInv
<1>2. PICK s : s = tmp[h]
  OBVIOUS
<1>3. /\ pc[h] = "tryLock" /\ session_mutex[s] = NoProc
      /\ session_mutex' = [session_mutex EXCEPT ![s] = h]
      /\ UNCHANGED <<accounts_no, name, balance>>
  BY <1>2 DEF TryLock, Busy
<1>4. s \in Covered
  BY <1>1, <1>2, <1>3 DEF Lookup
<1>5. Covered \subseteq Slots /\ Sound(Covered, name) /\ Covered' = Covered
  BY <1>1, <1>3, CoveredSound DEF Covered
<1>6. name[s] \in Names /\ name[s] \in Opened /\ Holder[name[s]] = NoProc
  BY <1>3, <1>4, <1>5, TableValues DEF Sound, Opened, Holder
<1>7. ASSUME NEW m \in Names, Holder[m] = h PROVE FALSE
  <2>1. h # NoProc /\ client_account[h] = NoSlot
    BY <1>1, <1>3, ProcessAssumption DEF Owning, OutPcs, StartPcs
  <2>2. m \in Opened
    BY <1>5, <1>7, <2>1, TableValues DEF Opened, Holder
  <2>3. PICK t \in Covered : name[t] = m
    BY <2>2 DEF Opened
  <2>4. session_mutex[t] = h
    BY <1>5, <1>7, <2>3, TableValues DEF Holder
  <2>5. t \in Slots /\ client_account[h] = t
    BY <1>1, <1>5, <2>1, <2>3, <2>4 DEF Owning
  <2> QED
    BY <2>1, <2>5 DEF Slots, NoSlot
<1>8. /\ session_mutex'[s] = h
      /\ \A t \in Covered : t # s => session_mutex'[t] = session_mutex[t]
  BY <1>1, <1>3, <1>4, <1>5 DEF Kinds
<1>9. Holder' = [Holder EXCEPT ![name[s]] = h]
  <2>1. ASSUME NEW n \in Names
        PROVE  Table(Covered, name, session_mutex', NoProc)[n]
                  = IF n = name[s] THEN session_mutex'[s]
                    ELSE Table(Covered, name, session_mutex, NoProc)[n]
    <3>1. CASE n = name[s]
      BY <1>4, <1>5, <3>1, TableValues
    <3>2. CASE n # name[s]
      BY <1>5, <1>8, <3>2, TableKeeps
    <3> QED
      BY <3>1, <3>2
  <2>2. Holder' = Table(Covered', name', session_mutex', NoProc)
    BY DEF Holder
  <2>3. Holder' = Table(Covered, name, session_mutex', NoProc)
    BY <1>3, <1>5, <2>2
  <2>4. /\ Holder = [n \in Names |-> Holder[n]]
        /\ Holder' = [n \in Names |-> Holder'[n]]
    BY DEF Holder, Table
  <2>5. \A n \in Names : Holder'[n] = IF n = name[s] THEN session_mutex'[s] ELSE Holder[n]
    BY <2>1, <2>3 DEF Holder
  <2> QED
    BY <1>8, <2>4, <2>5
<1>10. Opened' = Opened /\ Cash' = Cash
  BY <1>3, <1>5 DEF Opened, Cash
<1> QED
  BY <1>6, <1>7, <1>9, <1>10

(* The unlock of the session's mutex finishes the session.                 *)
LEMMA UnlockingFinishes ==
    ASSUME IInv, IInv', NEW h \in Handlers, UnlockSession(h)
    PROVE  \E n \in Names :
             /\ Holder[n] = h
             /\ Holder' = [Holder EXCEPT ![n] = NoProc]
             /\ UNCHANGED <<Opened, Cash>>
<1>1. Kinds /\ Insertion /\ Lookup /\ Owning
  BY DEF IInv
<1>2. PICK s : s = client_account[h]
  OBVIOUS
<1>3. /\ pc[h] = "unlock"
      /\ session_mutex' = [session_mutex EXCEPT ![s] = NoProc]
      /\ UNCHANGED <<accounts_no, name, balance>>
  BY <1>2 DEF UnlockSession
<1>4. s \in Covered /\ session_mutex[s] = h
  BY <1>1, <1>2, <1>3 DEF Lookup, Owning, InPcs, ClosePcs
<1>5. Covered \subseteq Slots /\ Sound(Covered, name) /\ Covered' = Covered
  BY <1>1, <1>3, CoveredSound DEF Covered
<1>6. name[s] \in Names /\ Holder[name[s]] = h
  BY <1>4, <1>5, TableValues DEF Sound, Holder
<1>7. /\ session_mutex'[s] = NoProc
      /\ \A t \in Covered : t # s => session_mutex'[t] = session_mutex[t]
  BY <1>1, <1>3, <1>4, <1>5 DEF Kinds
<1>8. Holder' = [Holder EXCEPT ![name[s]] = NoProc]
  <2>1. ASSUME NEW n \in Names
        PROVE  Table(Covered, name, session_mutex', NoProc)[n]
                  = IF n = name[s] THEN session_mutex'[s]
                    ELSE Table(Covered, name, session_mutex, NoProc)[n]
    <3>1. CASE n = name[s]
      BY <1>4, <1>5, <3>1, TableValues
    <3>2. CASE n # name[s]
      BY <1>5, <1>7, <3>2, TableKeeps
    <3> QED
      BY <3>1, <3>2
  <2>2. Holder' = Table(Covered', name', session_mutex', NoProc)
    BY DEF Holder
  <2>3. Holder' = Table(Covered, name, session_mutex', NoProc)
    BY <1>3, <1>5, <2>2
  <2>4. /\ Holder = [n \in Names |-> Holder[n]]
        /\ Holder' = [n \in Names |-> Holder'[n]]
    BY DEF Holder, Table
  <2>5. \A n \in Names : Holder'[n] = IF n = name[s] THEN session_mutex'[s] ELSE Holder[n]
    BY <2>1, <2>3 DEF Holder
  <2> QED
    BY <1>7, <2>4, <2>5
<1>9. Opened' = Opened /\ Cash' = Cash
  BY <1>3, <1>5 DEF Opened, Cash
<1> QED
  BY <1>6, <1>8, <1>9

(* A store credits or debits the account of its handler's session, and a   *)
(* debit finds the money it takes.                                         *)
LEMMA StoringPays ==
    ASSUME IInv, IInv', NEW h \in Handlers, Store(h)
    PROVE  \E n \in Names, a \in Amounts :
             /\ Holder[n] = h
             /\ \/ Cash' = [Cash EXCEPT ![n] = @ + a]
                \/ Cash[n] >= a /\ Cash' = [Cash EXCEPT ![n] = @ - a]
             /\ UNCHANGED <<Opened, Holder>>
<1>1. Kinds /\ Serving /\ Insertion /\ Lookup /\ Owning /\ Money
  BY DEF IInv
<1>2. PICK s, a : s = client_account[h] /\ a = request[h].arg
  OBVIOUS
<1>3. /\ pc[h] \in {"debitStore", "creditStore"}
      /\ balance' = [balance EXCEPT ![s] = tmp[h] + (IF pc[h] = "debitStore"
                                                     THEN -a ELSE a)]
      /\ UNCHANGED <<accounts_no, name, session_mutex>>
  BY <1>2 DEF Store
<1>4. s \in Covered /\ session_mutex[s] = h
  BY <1>1, <1>2, <1>3 DEF Lookup, Owning, InPcs, DebitPcs, CreditPcs
<1>5. Covered \subseteq Slots /\ Sound(Covered, name) /\ Covered' = Covered
  BY <1>1, <1>3, CoveredSound DEF Covered
<1>6. a \in Amounts /\ a \in Int
  <2>1. request[h] \in Heard /\ request[h].code \in {"CREDIT", "DEBIT"}
    BY <1>1, <1>3 DEF Kinds, Serving, DebitPcs, CreditPcs
  <2>2. a \in Amounts
    BY <1>2, <2>1 DEF Heard, Requests, Garbage, NoRequest
  <2> QED
    BY <2>2, DataAssumption
<1>7. /\ tmp[h] = balance[s] /\ balance[s] \in Int
      /\ pc[h] = "debitStore" => balance[s] >= a
  BY <1>1, <1>2, <1>3, <1>4, <1>5 DEF Money, Kinds
<1>8. /\ name[s] \in Names /\ Holder[name[s]] = h /\ Cash[name[s]] = balance[s]
  BY <1>4, <1>5, TableValues DEF Sound, Holder, Cash
<1>9. Opened' = Opened /\ Holder' = Holder
  BY <1>3, <1>5 DEF Opened, Holder
<1>10. PICK v : v = tmp[h] + (IF pc[h] = "debitStore" THEN -a ELSE a)
  OBVIOUS
<1>11. /\ balance'[s] = v
       /\ \A t \in Covered : t # s => balance'[t] = balance[t]
  BY <1>1, <1>3, <1>4, <1>5, <1>10 DEF Kinds
<1>12. Cash' = [Cash EXCEPT ![name[s]] = v]
  <2>1. ASSUME NEW n \in Names
        PROVE  Table(Covered, name, balance', 0)[n]
                  = IF n = name[s] THEN balance'[s]
                    ELSE Table(Covered, name, balance, 0)[n]
    <3>1. CASE n = name[s]
      BY <1>4, <1>5, <3>1, TableValues
    <3>2. CASE n # name[s]
      BY <1>5, <1>11, <3>2, TableKeeps
    <3> QED
      BY <3>1, <3>2
  <2>2. Cash' = Table(Covered', name', balance', 0)
    BY DEF Cash
  <2>3. Cash' = Table(Covered, name, balance', 0)
    BY <1>3, <1>5, <2>2
  <2>4. /\ Cash = [n \in Names |-> Cash[n]]
        /\ Cash' = [n \in Names |-> Cash'[n]]
    BY DEF Cash, Table
  <2>5. \A n \in Names : Cash'[n] = IF n = name[s] THEN balance'[s] ELSE Cash[n]
    BY <2>1, <2>3 DEF Cash
  <2> QED
    BY <1>11, <2>4, <2>5
<1>13. v = IF pc[h] = "debitStore" THEN Cash[name[s]] - a ELSE Cash[name[s]] + a
  BY <1>6, <1>7, <1>8, <1>10
<1> QED
  BY <1>6, <1>7, <1>8, <1>9, <1>12, <1>13

(* Every other step is none for the customers.                             *)
LEMMA OthersStutter ==
    ASSUME IInv, IInv', [Next]_vars,
           \A h \in Handlers : ~(OpenCount(h) \/ TryLock(h) \/ UnlockSession(h) \/ Store(h))
    PROVE  UNCHANGED <<Opened, Cash, Holder>>
<1> USE DEF table
<1>1. ASSUME NEW h \in Handlers, OpenInit(h)
      PROVE  UNCHANGED <<Opened, Cash, Holder>>
  <2>1. /\ tmp[h] = accounts_no /\ accounts_no \in Nat
    BY <1>1 DEF IInv, Insertion, Kinds, OpenInit
  <2>2. tmp[h] \notin Covered
    BY <2>1 DEF Covered
  <2>3. Covered \subseteq Slots
    BY CoveredSound DEF IInv
  <2>4. \A s \in Covered : /\ name'[s] = name[s] /\ balance'[s] = balance[s]
                           /\ session_mutex'[s] = session_mutex[s]
    BY <1>1, <2>2, <2>3 DEF OpenInit, IInv, Kinds
  <2> QED
    BY <1>1, <2>4, TableStill DEF OpenInit
<1>2. CASE UNCHANGED <<accounts_no, name, balance, session_mutex>>
  BY <1>2, TableStill
<1>3. ASSUME NEW h \in Handlers, HandlerStep(h), ~OpenInit(h)
      PROVE  UNCHANGED <<accounts_no, name, balance, session_mutex>>
  BY <1>3
  DEF HandlerStep, OpenStep, StartStep, MoneyStep, LoopStep, CloseStep,
      TakeAccountLock, OpenRefused, OpenChosen, StartCount, StartSearch,
      TryFail, SetFlag, DebitCheck, Load, ClearFlag, Accept, ReadRequest,
      ReadError, ReadEof, DispatchOutOfSession, DispatchInSession, Reply,
      BrokenPipe
<1>4. ASSUME NEW h \in Handlers, SelectTimeout(h)
      PROVE  UNCHANGED <<accounts_no, name, balance, session_mutex>>
  BY <1>4 DEF SelectTimeout
<1> QED
  BY <1>1, <1>2, <1>3, <1>4, HandlerOrStill

(* The bank keeps the promises of Accounts: an account is opened once and  *)
(* while there is room, one session at a time has it, and only that        *)
(* session moves its money and never more than there is, whatever handlers *)
(* interleave on the table, its counter and its mutexes.                   *)
THEOREM BankImplementsAccounts == Spec => KeepsPromises
<1>1. Init => Customers!Init
  <2> SUFFICES ASSUME Init PROVE Customers!Init
    OBVIOUS
  <2>1. Covered = {}
    BY DEF Init, Covered
  <2> QED
    BY <2>1 DEF Customers!Init, Known
<1>2. IInv /\ IInv' /\ [Next]_vars => [Customers!Next]_(Customers!vars)
  <2> SUFFICES ASSUME IInv, IInv', [Next]_vars
               PROVE  Customers!Next \/ UNCHANGED Customers!vars
    BY DEF Customers!vars
  <2>1. ASSUME NEW h \in Handlers, OpenCount(h)
        PROVE  Customers!Next \/ UNCHANGED Customers!vars
    <3>1. PICK n \in Names :
            /\ n \notin Opened /\ Cardinality(Opened) < MaxAccount
            /\ Opened' = Opened \cup {n}
            /\ UNCHANGED <<Cash, Holder>>
      BY <2>1, CountingOpens
    <3>2. Customers!Open(n)
      <4>1. Customers!Cardinality(Opened) = Cardinality(Opened)
        BY DEF Customers!Cardinality, Cardinality
      <4> QED
        BY <3>1, <4>1 DEF Customers!Open, Opened, Cash, Holder, Table, Known, SlotOf
    <3> QED
      BY <3>2 DEF Customers!Next, Customers!Open, Customers!vars
  <2>2. ASSUME NEW h \in Handlers, TryLock(h)
        PROVE  Customers!Next \/ UNCHANGED Customers!vars
    BY <2>2, TryingStarts
    DEF Customers!Start, Customers!Next, Customers!vars, Opened, Cash, Holder, Table, Known, SlotOf
  <2>3. ASSUME NEW h \in Handlers, UnlockSession(h)
        PROVE  Customers!Next \/ UNCHANGED Customers!vars
    BY <2>3, UnlockingFinishes
    DEF Customers!Finish, Customers!Next, Customers!vars, Opened, Cash, Holder, Table, Known, SlotOf
  <2>4. ASSUME NEW h \in Handlers, Store(h)
        PROVE  Customers!Next \/ UNCHANGED Customers!vars
    <3>1. PICK n \in Names, a \in Amounts :
            /\ Holder[n] = h
            /\ \/ Cash' = [Cash EXCEPT ![n] = @ + a]
               \/ Cash[n] >= a /\ Cash' = [Cash EXCEPT ![n] = @ - a]
            /\ UNCHANGED <<Opened, Holder>>
      BY <2>4, StoringPays
    <3>2. Customers!Credit(h, n, a) \/ Customers!Debit(h, n, a)
      BY <3>1
      DEF Customers!Credit, Customers!Debit, Opened, Cash, Holder, Table, Known, SlotOf
    <3> QED
      BY <3>2 DEF Customers!Next, Customers!Credit, Customers!Debit, Customers!vars
  <2>5. CASE \A h \in Handlers :
                ~(OpenCount(h) \/ TryLock(h) \/ UnlockSession(h) \/ Store(h))
    BY <2>5, OthersStutter
    DEF Customers!vars, Opened, Cash, Holder, Table, Known, SlotOf
  <2> QED
    BY <2>1, <2>2, <2>3, <2>4, <2>5
<1> QED
  BY <1>1, <1>2, Invariance, PTL DEF Spec, KeepsPromises, Customers!Spec
=============================================================================
