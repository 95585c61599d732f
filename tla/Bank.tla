-------------------------------- MODULE Bank --------------------------------
(***************************************************************************)
(* The multi-process bank server of MultithreadedBanking/src.              *)
(*                                                                         *)
(* The session process forks one handler per accepted client               *)
(* (server-session.c); the handlers and the printing server process        *)
(* (server.c) share a memory-mapped table of accounts, its counter, one    *)
(* mutex per account (the customer session) and one mutex for the counter. *)
(* A handler reads requests from its socket and answers each one           *)
(* (server-client.c).  The client at the other end of the socket sends     *)
(* requests, reads answers, and may be killed at any moment.               *)
(*                                                                         *)
(* Balances are whole amounts: the code's float arithmetic is not part of  *)
(* this module.  Definitions named after a misbehaviour (a comment says    *)
(* "Mutant") are what a likely slip would make of the definition that      *)
(* follows them; the specification does not use them.                      *)
(***************************************************************************)
EXTENDS Integers, Sequences, FiniteSets

CONSTANTS
    Handlers,      \* the handler processes, one per client connection
    Vanishing,     \* the handlers whose client may be killed
    Names,         \* account names clients ask for
    Amounts,       \* amounts clients credit and debit
    Menu,          \* the requests clients send
    MaxAccount,    \* slots of the account table (MAX_ACCOUNT)
    MaxRequests,   \* bound: requests all clients send together
    MaxInbox,      \* bound: requests in flight on one socket
    MaxPrints,     \* bound: times the server prints the table
    NoProc,        \* owner of a free mutex
    NoName,        \* name of a slot that was never opened
    Printer        \* the server process, which prints the table

Requests == [code : {"OPEN", "START"}, arg : Names]
                \cup [code : {"CREDIT", "DEBIT"}, arg : Amounts]
                \cup [code : {"BALANCE", "FINISH", "EXIT"}, arg : {0}]

ASSUME ProcessAssumption ==
    /\ NoProc \notin Handlers \cup {Printer}
    /\ Printer \notin Handlers
    /\ Vanishing \subseteq Handlers
ASSUME DataAssumption ==
    /\ NoName \notin Names
    /\ Amounts \subseteq Nat \ {0}
    /\ Menu \subseteq Requests
ASSUME BoundAssumption ==
    /\ MaxAccount \in Nat \ {0}
    /\ MaxRequests \in Nat /\ MaxInbox \in Nat /\ MaxPrints \in Nat

Slots  == 0 .. MaxAccount - 1
NoSlot == -1
Procs  == Handlers \cup {Printer}

VARIABLES
    accounts_no, name, balance, in_session,   \* the shared account table
    session_mutex,      \* account_session_mutex of each slot: its owner
    ledger,             \* history: money the finished requests left in a slot
    new_account_lock,   \* new_account_lock_mutex: its owner
    asleep,             \* processes that sleep until that mutex wakes them
    pc, client_account, request, response, \* a handler: control and locals
    tmp,                \* the one local it carries to its next step: the
                        \* counter it copied, the slot it found, or the
                        \* balance it loaded
    inbox, peer, unread, sent,  \* the sockets and the clients behind them
    ppc, prow, pbal, prints     \* the printer: control, row, balance it
                                \* printed, and how often it printed

table   == <<accounts_no, name, balance, in_session, session_mutex, ledger>>
locking == <<new_account_lock, asleep>>
locals  == <<client_account, request, response, tmp>>
socket  == <<inbox, peer, unread, sent>>
printer == <<ppc, prow, pbal, prints>>
vars    == <<table, locking, pc, locals, socket, printer>>

-----------------------------------------------------------------------------
(* What a handler is about to do.                                          *)
OpenPcs   == {"openLock", "openCheck", "openInit", "openCount"}
StartPcs  == {"startLock", "startCount", "startSearch", "tryLock", "setFlag"}
DebitPcs  == {"debitCheck", "debitLoad", "debitStore"}
CreditPcs == {"creditLoad", "creditStore"}
ClosePcs  == {"clear", "unlock"}
GonePcs   == {"exited", "killed"}
Pcs == {"unborn", "select", "dispatch", "reply"} \cup OpenPcs \cup StartPcs
            \cup DebitPcs \cup CreditPcs \cup ClosePcs \cup GonePcs
LockPcs     == {"openLock", "startLock"}
CriticalPcs == {"openCheck", "openInit", "openCount", "startCount"}

Responses == {"NONE", "SUCCESS", "CANNOT_OPEN", "CANNOT_START",
              "CLIENT_NOT_IN_SESSION", "BALANCE_REACH_ZERO",
              "CONNECTION_TIME_OUT", "ACCOUNT_EXIT"}

NoRequest == [code |-> "NONE", arg |-> 0]
Garbage   == [code : {"GARBAGE"}, arg : Names \cup Amounts \cup {0}]
Heard     == Requests \cup Garbage \cup {NoRequest}

(* The peer as the handler's kernel knows it: "open"; "fin", it closed;    *)
(* "finw", the handler has written since; "pipe", the reset that answered  *)
(* is known, so a write raises SIGPIPE; "rst", it was killed with answers  *)
(* unread, and the next call on the socket reports the reset.  Unread      *)
(* answers are tracked for the clients that may be killed: nothing else    *)
(* depends on them.                                                        *)
Peers == {"open", "fin", "finw", "pipe", "rst"}

Init ==
    /\ accounts_no = 0
    /\ name = [s \in Slots |-> NoName]
    /\ balance = [s \in Slots |-> 0]
    /\ in_session = [s \in Slots |-> FALSE]
    /\ session_mutex = [s \in Slots |-> NoProc]
    /\ ledger = [s \in Slots |-> 0]
    /\ new_account_lock = NoProc
    /\ asleep = {}
    /\ pc = [h \in Handlers |-> "unborn"]
    /\ client_account = [h \in Handlers |-> NoSlot]
    /\ request = [h \in Handlers |-> NoRequest]
    /\ response = [h \in Handlers |-> "NONE"]
    /\ tmp = [h \in Handlers |-> 0]
    /\ inbox = [h \in Handlers |-> <<>>]
    /\ peer = [h \in Handlers |-> "open"]
    /\ unread = [h \in Handlers |-> FALSE]
    /\ sent = 0
    /\ ppc = "sleep"
    /\ prow = 0
    /\ pbal = 0
    /\ prints = 0

Covered == 0 .. accounts_no - 1      \* the slots of opened accounts

Goto(h, where)   == pc' = [pc EXCEPT ![h] = where]
Respond(h, code) == response' = [response EXCEPT ![h] = code]
Answer(h, code)  == Goto(h, "reply") /\ Respond(h, code)
Carry(h, value)  == tmp' = [tmp EXCEPT ![h] = value]

-----------------------------------------------------------------------------
(* new_account_lock_mutex.  It is initialised without                      *)
(* PTHREAD_PROCESS_SHARED, so which unlock wakes a sleeper of another      *)
(* process, if any ever does, is left open: Wake may happen at any time    *)
(* and is never assumed to.                                                *)

WantsLock(p) == IF p = Printer THEN ppc = "lock" ELSE pc[p] \in LockPcs

Sleep(p) ==
    /\ WantsLock(p)
    /\ p \notin asleep
    /\ new_account_lock # NoProc
    /\ asleep' = asleep \cup {p}
    /\ UNCHANGED <<table, new_account_lock, pc, locals, socket, printer>>

Wake(p) ==
    /\ p \in asleep
    /\ asleep' = asleep \ {p}
    /\ UNCHANGED <<table, new_account_lock, pc, locals, socket, printer>>

TakesLock(p) ==
    /\ p \notin asleep
    /\ new_account_lock = NoProc
    /\ new_account_lock' = p
    /\ UNCHANGED asleep

DropsLock == new_account_lock' = NoProc /\ UNCHANGED asleep

TakeAccountLock(h) ==
    /\ pc[h] \in LockPcs
    /\ TakesLock(h)
    /\ Goto(h, IF pc[h] = "openLock" THEN "openCheck" ELSE "startCount")
    /\ UNCHANGED <<table, locals, socket, printer>>

(* search_account: the first slot below n with this name; n when there is  *)
(* none; -1 when the table is empty.  A reader without the lock sees every *)
(* slot below the counter it read complete and constant, so one step is    *)
(* as good as one step per strcmp.                                         *)
search_account(n, nm) ==
    IF n = 0 THEN -1
    ELSE IF \E i \in 0 .. n - 1 : name[i] = nm
         THEN CHOOSE i \in 0 .. n - 1 :
                name[i] = nm /\ \A j \in 0 .. i - 1 : name[j] # nm
         ELSE n

-----------------------------------------------------------------------------
(* client_open                                                             *)

(* Mutant: one account too many is let in. *)
FullByOne == accounts_no > MaxAccount
Full == accounts_no = MaxAccount

(* Mutant: the search stops one slot early. *)
WantedShort(h) == search_account(accounts_no - 1, request[h].arg)
Wanted(h) == search_account(accounts_no, request[h].arg)

(* Mutant: a refusal returns with the mutex locked. *)
RefusedLocked(h) ==
    /\ pc[h] = "openCheck"
    /\ Full \/ Wanted(h) \in Covered
    /\ Answer(h, "CANNOT_OPEN")
    /\ UNCHANGED <<table, locking, client_account, request, tmp, socket, printer>>

OpenRefused(h) ==
    /\ pc[h] = "openCheck"
    /\ Full \/ Wanted(h) \in Covered
    /\ DropsLock
    /\ Answer(h, "CANNOT_OPEN")
    /\ UNCHANGED <<table, client_account, request, tmp, socket, printer>>

OpenChosen(h) ==
    /\ pc[h] = "openCheck"
    /\ ~Full /\ Wanted(h) \notin Covered
    /\ Carry(h, IF Wanted(h) = -1 THEN 0 ELSE Wanted(h))
    /\ Goto(h, "openInit")
    /\ UNCHANGED <<table, locking, client_account, request, response, socket, printer>>

(* account_open: the slot's mutex is made anew, its other fields are set.  *)
OpenInit(h) ==
    /\ pc[h] = "openInit"
    /\ session_mutex' = [session_mutex EXCEPT ![tmp[h]] = NoProc]
    /\ name' = [name EXCEPT ![tmp[h]] = request[h].arg]
    /\ balance' = [balance EXCEPT ![tmp[h]] = 0]
    /\ in_session' = [in_session EXCEPT ![tmp[h]] = FALSE]
    /\ ledger' = [ledger EXCEPT ![tmp[h]] = 0]
    /\ Goto(h, "openCount")
    /\ UNCHANGED <<accounts_no, locking, locals, socket, printer>>

OpenCount(h) ==
    /\ pc[h] = "openCount"
    /\ accounts_no' = accounts_no + 1
    /\ DropsLock
    /\ Carry(h, 0)
    /\ Answer(h, "SUCCESS")
    /\ UNCHANGED <<name, balance, in_session, session_mutex, ledger,
                   client_account, request, socket, printer>>

-----------------------------------------------------------------------------
(* client_start: the counter is copied under the lock, the table searched  *)
(* and the session mutex tried without it.                                 *)

StartCount(h) ==
    /\ pc[h] = "startCount"
    /\ Carry(h, accounts_no)
    /\ DropsLock
    /\ Goto(h, "startSearch")
    /\ UNCHANGED <<table, client_account, request, response, socket, printer>>

(* Mutant: "not found" is tested for the empty table only. *)
UnfoundIfEmpty(found, n) == found = -1
Unfound(found, n) == found = -1 \/ found = n

StartSearch(h) ==
    /\ pc[h] = "startSearch"
    /\ LET found == search_account(tmp[h], request[h].arg)
       IN  IF Unfound(found, tmp[h])
           THEN Answer(h, "CANNOT_START") /\ Carry(h, 0)
           ELSE Goto(h, "tryLock") /\ Carry(h, found) /\ UNCHANGED response
    /\ UNCHANGED <<table, locking, client_account, request, socket, printer>>

(* Mutant: the result of pthread_mutex_trylock is ignored. *)
NeverBusy(s) == FALSE
Busy(s) == session_mutex[s] # NoProc

TryLock(h) ==
    /\ pc[h] = "tryLock"
    /\ ~Busy(tmp[h])
    /\ session_mutex' = [session_mutex EXCEPT ![tmp[h]] = h]
    /\ client_account' = [client_account EXCEPT ![h] = tmp[h]]
    /\ Carry(h, 0)
    /\ Goto(h, "setFlag")
    /\ UNCHANGED <<accounts_no, name, balance, in_session, ledger, locking,
                   request, response, socket, printer>>

(* A write: it reaches an open peer, is answered by a reset when the peer  *)
(* has closed, and reports a fresh reset without a signal.                 *)
Write(h) ==
    /\ peer' = [peer EXCEPT ![h] = IF @ = "open" THEN "open"
                                   ELSE IF @ = "rst" THEN "pipe" ELSE "finw"]
    /\ unread' = [unread EXCEPT ![h] = peer[h] = "open" /\ h \in Vanishing]

(* The account is in use: one "Waiting" answer per failed try, whose       *)
(* result is not looked at.  A write to a connection known to be reset     *)
(* kills the process: nothing in the program handles or ignores SIGPIPE.   *)
TryFail(h) ==
    /\ pc[h] = "tryLock"
    /\ Busy(tmp[h])
    /\ IF peer[h] = "pipe"
       THEN Goto(h, "killed") /\ Carry(h, 0) /\ UNCHANGED <<peer, unread>>
       ELSE Write(h) /\ UNCHANGED <<pc, tmp>>
    /\ UNCHANGED <<table, locking, client_account, request, response, inbox,
                   sent, printer>>

SetFlag(h) ==
    /\ pc[h] = "setFlag"
    /\ in_session' = [in_session EXCEPT ![client_account[h]] = TRUE]
    /\ Answer(h, "SUCCESS")
    /\ UNCHANGED <<accounts_no, name, balance, session_mutex, ledger, locking,
                   client_account, request, tmp, socket, printer>>

-----------------------------------------------------------------------------
(* client_debit and client_credit: the shared balance is read and written  *)
(* by separate instructions; nothing but the session protects it.          *)

TooLittle(h) == balance[client_account[h]] - request[h].arg < 0

DebitCheck(h) ==
    /\ pc[h] = "debitCheck"
    /\ IF TooLittle(h)
       THEN Answer(h, "BALANCE_REACH_ZERO")
       ELSE Goto(h, "debitLoad") /\ UNCHANGED response
    /\ UNCHANGED <<table, locking, client_account, request, tmp, socket, printer>>

Load(h) ==
    /\ pc[h] \in {"debitLoad", "creditLoad"}
    /\ Carry(h, balance[client_account[h]])
    /\ Goto(h, IF pc[h] = "debitLoad" THEN "debitStore" ELSE "creditStore")
    /\ UNCHANGED <<table, locking, client_account, request, response, socket, printer>>

Store(h) ==
    /\ pc[h] \in {"debitStore", "creditStore"}
    /\ LET delta == IF pc[h] = "debitStore" THEN -request[h].arg ELSE request[h].arg
       IN  /\ balance' = [balance EXCEPT ![client_account[h]] = tmp[h] + delta]
           /\ ledger' = [ledger EXCEPT ![client_account[h]] = @ + delta]
    /\ Carry(h, 0)
    /\ Answer(h, "SUCCESS")
    /\ UNCHANGED <<accounts_no, name, in_session, session_mutex, locking,
                   client_account, request, socket, printer>>

-----------------------------------------------------------------------------
(* set_not_in_session, on FINISH, EXIT, end of file and time-out; the      *)
(* answer that follows, if any, is already chosen.                         *)

(* Mutant: the flag is not cleared. *)
LeaveFlag(h) ==
    /\ pc[h] = "clear"
    /\ Goto(h, "unlock")
    /\ UNCHANGED <<table, locking, locals, socket, printer>>

ClearFlag(h) ==
    /\ pc[h] = "clear"
    /\ in_session' = [in_session EXCEPT ![client_account[h]] = FALSE]
    /\ Goto(h, "unlock")
    /\ UNCHANGED <<accounts_no, name, balance, session_mutex, ledger, locking,
                   locals, socket, printer>>

(* Mutant: client_account is not reset. *)
RememberAccount(h) == UNCHANGED client_account
ForgetAccount(h) == client_account' = [client_account EXCEPT ![h] = NoSlot]

UnlockSession(h) ==
    /\ pc[h] = "unlock"
    /\ session_mutex' = [session_mutex EXCEPT ![client_account[h]] = NoProc]
    /\ ForgetAccount(h)
    /\ Goto(h, IF response[h] = "NONE" THEN "exited" ELSE "reply")
    /\ UNCHANGED <<accounts_no, name, balance, in_session, ledger, locking,
                   request, response, tmp, socket, printer>>

-----------------------------------------------------------------------------
(* The handler's main loop, client().                                      *)

Accept(h) ==
    /\ pc[h] = "unborn"
    /\ Goto(h, "select")
    /\ UNCHANGED <<table, locking, locals, socket, printer>>

ReadRequest(h) ==
    /\ pc[h] = "select"
    /\ inbox[h] # <<>>
    /\ request' = [request EXCEPT ![h] = Head(inbox[h])]
    /\ inbox' = [inbox EXCEPT ![h] = Tail(inbox[h])]
    /\ Goto(h, "dispatch")
    /\ UNCHANGED <<table, locking, client_account, response, tmp, peer, unread,
                   sent, printer>>

(* The read reports the reset and returns -1, which is not 0: the previous *)
(* request is taken again, its code byte-swapped by ntohl.  OPEN is 0 and  *)
(* stays OPEN; every other code becomes one the program does not know.     *)
Swapped(r) == IF r.code = "OPEN" THEN r
              ELSE [code |-> "GARBAGE", arg |-> r.arg]

ReadError(h) ==
    /\ pc[h] = "select"
    /\ inbox[h] = <<>>
    /\ peer[h] = "rst"
    /\ request' = [request EXCEPT ![h] = Swapped(@)]
    /\ peer' = [peer EXCEPT ![h] = "pipe"]
    /\ Goto(h, "dispatch")
    /\ UNCHANGED <<table, locking, client_account, response, tmp, inbox, unread,
                   sent, printer>>

(* Mutants: the loop is left with the session open; or not left at all. *)
LeaveInSession(h) == "exited"
TryAgain(h) == "select"
AfterEof(h) == IF client_account[h] # NoSlot THEN "clear" ELSE "exited"

ReadEof(h) ==
    /\ pc[h] = "select"
    /\ inbox[h] = <<>>
    /\ peer[h] \in {"fin", "finw", "pipe"}
    /\ Goto(h, AfterEof(h))
    /\ UNCHANGED <<table, locking, locals, socket, printer>>

SelectTimeout(h) ==
    /\ pc[h] = "select"
    /\ inbox[h] = <<>>
    /\ peer[h] = "open"
    /\ Goto(h, IF client_account[h] # NoSlot THEN "clear" ELSE "reply")
    /\ Respond(h, "CONNECTION_TIME_OUT")
    /\ UNCHANGED <<table, locking, client_account, request, tmp, socket, printer>>

InSession(h) == client_account[h] # NoSlot /\ in_session[client_account[h]]

DispatchOutOfSession(h) ==
    /\ pc[h] = "dispatch"
    /\ ~InSession(h)
    /\ CASE request[h].code = "OPEN"  -> Goto(h, "openLock") /\ UNCHANGED response
         [] request[h].code = "START" -> Goto(h, "startLock") /\ UNCHANGED response
         [] request[h].code = "EXIT"  -> Answer(h, "ACCOUNT_EXIT")
         [] OTHER -> Answer(h, "CLIENT_NOT_IN_SESSION")
    /\ UNCHANGED <<table, locking, client_account, request, tmp, socket, printer>>

DispatchInSession(h) ==
    /\ pc[h] = "dispatch"
    /\ InSession(h)
    /\ CASE request[h].code = "OPEN"   -> Answer(h, "CANNOT_OPEN")
         [] request[h].code = "START"  -> Answer(h, "CANNOT_START")
         [] request[h].code = "DEBIT"  -> Goto(h, "debitCheck") /\ UNCHANGED response
         [] request[h].code = "CREDIT" -> Goto(h, "creditLoad") /\ UNCHANGED response
         [] request[h].code = "FINISH" -> Goto(h, "clear") /\ Respond(h, "SUCCESS")
         [] request[h].code = "EXIT"   -> Goto(h, "clear") /\ Respond(h, "ACCOUNT_EXIT")
         [] OTHER -> Answer(h, "SUCCESS")
    /\ UNCHANGED <<table, locking, client_account, request, tmp, socket, printer>>

(* The answer is written until the write succeeds.  EXIT's and the         *)
(* time-out's answers are a handler's last.                                *)
LastReply(h) == request[h].code = "EXIT" \/ response[h] = "CONNECTION_TIME_OUT"

Reply(h) ==
    /\ pc[h] = "reply"
    /\ peer[h] \in {"open", "fin", "finw"}
    /\ Write(h)
    /\ Goto(h, IF LastReply(h) THEN "exited" ELSE "select")
    /\ Respond(h, "NONE")
    /\ UNCHANGED <<table, locking, client_account, request, tmp, inbox, sent, printer>>

(* The connection is reset: the write, or its repetition after a fresh     *)
(* reset, raises SIGPIPE.  Only the time-out's write is not repeated.      *)
BrokenPipe(h) ==
    /\ pc[h] = "reply"
    /\ peer[h] \in {"pipe", "rst"}
    /\ Goto(h, IF peer[h] = "rst" /\ response[h] = "CONNECTION_TIME_OUT"
               THEN "exited" ELSE "killed")
    /\ Respond(h, "NONE")
    /\ UNCHANGED <<table, locking, client_account, request, tmp, socket, printer>>

-----------------------------------------------------------------------------
(* print_account, in the server process.                                   *)

PrinterAwake ==
    /\ ppc = "sleep"
    /\ prints < MaxPrints
    /\ prints' = prints + 1
    /\ ppc' = "lock"
    /\ UNCHANGED <<table, locking, pc, locals, socket, prow, pbal>>

PrinterLock ==
    /\ ppc = "lock"
    /\ TakesLock(Printer)
    /\ ppc' = IF accounts_no = 0 THEN "unlock" ELSE "balance"
    /\ UNCHANGED <<table, pc, locals, socket, prow, pbal, prints>>

PrintBalance ==
    /\ ppc = "balance"
    /\ pbal' = balance[prow]
    /\ ppc' = "flag"
    /\ UNCHANGED <<table, locking, pc, locals, socket, prow, prints>>

PrintFlag ==
    /\ ppc = "flag"
    /\ prow' = prow + 1
    /\ pbal' = 0
    /\ ppc' = IF prow + 1 < accounts_no THEN "balance" ELSE "unlock"
    /\ UNCHANGED <<table, locking, pc, locals, socket, prints>>

PrinterUnlock ==
    /\ ppc = "unlock"
    /\ DropsLock
    /\ prow' = 0
    /\ ppc' = "sleep"
    /\ UNCHANGED <<table, pc, locals, socket, pbal, prints>>

-----------------------------------------------------------------------------
(* The clients and the network.                                            *)

(* A client sends nothing after EXIT.                                      *)
Send(h) ==
    /\ pc[h] \notin GonePcs
    /\ peer[h] = "open"
    /\ sent < MaxRequests
    /\ Len(inbox[h]) < MaxInbox
    /\ \A i \in DOMAIN inbox[h] : inbox[h][i].code # "EXIT"
    /\ request[h].code # "EXIT"
    /\ \E r \in Menu : inbox' = [inbox EXCEPT ![h] = Append(@, r)]
    /\ sent' = sent + 1
    /\ UNCHANGED <<table, locking, pc, locals, peer, unread, printer>>

ReadAnswers(h) ==
    /\ unread[h]
    /\ unread' = [unread EXCEPT ![h] = FALSE]
    /\ UNCHANGED <<table, locking, pc, locals, inbox, peer, sent, printer>>

(* The client is killed; its kernel closes the connection, with a reset    *)
(* when answers are unread.                                                *)
Vanish(h) ==
    /\ h \in Vanishing
    /\ pc[h] \notin GonePcs
    /\ peer[h] = "open"
    /\ peer' = [peer EXCEPT ![h] = IF unread[h] THEN "rst" ELSE "fin"]
    /\ unread' = [unread EXCEPT ![h] = FALSE]
    /\ UNCHANGED <<table, locking, pc, locals, inbox, sent, printer>>

(* The reset that answers a write to a closed connection arrives.          *)
ResetArrives(h) ==
    /\ peer[h] = "finw"
    /\ peer' = [peer EXCEPT ![h] = "pipe"]
    /\ UNCHANGED <<table, locking, pc, locals, inbox, unread, sent, printer>>

-----------------------------------------------------------------------------
OpenStep(h)  == OpenRefused(h) \/ OpenChosen(h) \/ OpenInit(h) \/ OpenCount(h)
StartStep(h) == StartCount(h) \/ StartSearch(h) \/ TryLock(h) \/ TryFail(h)
                    \/ SetFlag(h)
MoneyStep(h) == DebitCheck(h) \/ Load(h) \/ Store(h)
LoopStep(h)  == Accept(h) \/ ReadRequest(h) \/ ReadError(h) \/ ReadEof(h)
                    \/ DispatchOutOfSession(h) \/ DispatchInSession(h)
                    \/ Reply(h) \/ BrokenPipe(h)
CloseStep(h) == ClearFlag(h) \/ UnlockSession(h)

HandlerStep(h) == TakeAccountLock(h) \/ OpenStep(h) \/ StartStep(h)
                    \/ MoneyStep(h) \/ LoopStep(h) \/ CloseStep(h)

PrinterStep == PrinterAwake \/ PrinterLock \/ PrintBalance \/ PrintFlag
                    \/ PrinterUnlock

ClientStep(h) == Send(h) \/ ReadAnswers(h) \/ Vanish(h) \/ ResetArrives(h)

Next ==
    \/ \E h \in Handlers : HandlerStep(h) \/ SelectTimeout(h) \/ ClientStep(h)
    \/ PrinterStep
    \/ \E p \in Procs : Sleep(p) \/ Wake(p)

Spec == Init /\ [][Next]_vars

(* Every process runs and the network delivers; nobody has to time out, to *)
(* send, to vanish or to wake a sleeper.  A process at a mutex takes it or *)
(* goes to sleep.  PrinterAwake is the passing of time.                    *)
FairSpec ==
    /\ Spec
    /\ \A h \in Handlers : WF_vars(HandlerStep(h) \/ Sleep(h))
    /\ \A h \in Handlers : WF_vars(ResetArrives(h))
    /\ WF_vars(PrinterStep \/ Sleep(Printer))
=============================================================================
