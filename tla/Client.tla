------------------------------- MODULE Client -------------------------------
(* The banking client: main() of client.c, which connects, starts the two  *)
(* threads and ends with the second; the command thread, which sends what  *)
(* is typed; the response thread, which prints what is answered.  At the   *)
(* other end a server, as module Bank has it, that takes one request after *)
(* another, lets a START wait, and may close or die at any time.           *)
EXTENDS Integers, Sequences

CONSTANTS
    Codes,        \* the requests' codes: "EXIT", "START" and any others
    MaxLines,     \* bound: the lines that are typed
    MaxWaits      \* bound: the answers "Waiting" to all STARTs

ASSUME CodesAssumption == {"START", "EXIT"} \subseteq Codes
ASSUME BoundsAssumption == MaxLines \in Nat /\ MaxWaits \in Nat

VARIABLES
    main, cmd, rsp,      \* where main() and the two threads are
    request, response,   \* the buffers of the threads: the codes
    lines, typed,        \* how many lines were typed; the complete commands
    printed,             \* what the response thread has printed
    conn,                \* the connection, as the client's kernel knows it
    requests, answers,   \* what is under way to the server and to the client
    sent, answered,      \* what was ever sent in the two directions
    listening, serving, waits  \* the server accepts; serves a request; has let wait

client  == <<main, cmd, rsp>>
buffers == <<request, response>>
user    == <<lines, typed, printed>>
network == <<conn, requests, answers, sent, answered>>
server  == <<serving, waits>>
vars == <<client, buffers, user, network, server, listening>>

(* The connection: "open"; "fin", the server closed it; "finw", the client *)
(* has written since; "rst", it was reset, which the next call reports;    *)
(* "pipe", that was reported or came after the close: a write raises       *)
(* SIGPIPE.  The request is not initialised: it may be any.                *)
Init ==
    /\ main = "connecting" /\ cmd = "absent" /\ rsp = "absent"
    /\ request \in Codes /\ response = "UNSET"
    /\ lines = 0 /\ typed = <<>> /\ printed = <<>>
    /\ conn = "none" /\ requests = <<>> /\ answers = <<>>
    /\ sent = <<>> /\ answered = <<>>
    /\ listening \in BOOLEAN /\ serving = "nothing" /\ waits = 0

Gone == main \in {"exited", "killed"}

-----------------------------------------------------------------------------
(* main().                                                                 *)

Connect ==
    /\ main = "connecting" /\ listening
    /\ main' = "connected" /\ conn' = "open"
    /\ UNCHANGED <<cmd, rsp, buffers, user, requests, answers, sent, answered, server, listening>>

ConnectFails ==
    /\ main = "connecting" /\ ~listening
    /\ main' = "sleeping"
    /\ UNCHANGED <<cmd, rsp, buffers, user, network, server, listening>>

(* Mutant: no new socket: connect on the closed one fails at once.         *)
SameSocket == "sleeping"
NewSocket == "connecting"
Retry ==
    /\ main = "sleeping"
    /\ main' = NewSocket
    /\ UNCHANGED <<cmd, rsp, buffers, user, network, server, listening>>

CreateCommand ==
    /\ main = "connected"
    /\ main' = "creating" /\ cmd' = "reading"
    /\ UNCHANGED <<rsp, buffers, user, network, server, listening>>

CreateResponse ==
    /\ main = "creating"
    /\ main' = "joining" /\ rsp' = "selecting"
    /\ UNCHANGED <<cmd, buffers, user, network, server, listening>>

(* Mutant: the command thread is joined as well.                           *)
BothEnded == rsp = "ended" /\ cmd = "ended"

(* The command thread is not joined: it runs until exit.                   *)
Joinable == rsp = "ended"

Join ==
    /\ main = "joining" /\ Joinable
    /\ main' = "closed"
    /\ UNCHANGED <<cmd, rsp, buffers, user, network, server, listening>>

Exit ==
    /\ main = "closed"
    /\ main' = "exited"
    /\ UNCHANGED <<cmd, rsp, buffers, user, network, server, listening>>

-----------------------------------------------------------------------------
(* The command thread.  A line is complete ("good"), has a token too many  *)
(* ("extra"), or is empty, unknown or lacks its argument ("lacking").      *)

(* Mutant: valid_command is not reset: a lacking line is taken for good.   *)
AnyLine(form) == form # "extra"
Valid(form) == form = "good"

Looped(code) == IF code = "EXIT" THEN "ended" ELSE "reading"

ReadLine ==
    /\ ~Gone /\ cmd = "reading"
    /\ lines < MaxLines /\ lines' = lines + 1
    /\ \E code \in Codes, form \in {"good", "extra", "lacking"} :
        /\ request' = IF form = "lacking" THEN request ELSE code
        /\ cmd' = IF Valid(form) THEN "writing" ELSE Looped(request')
        /\ typed' = IF form = "good" THEN Append(typed, code) ELSE typed
    /\ UNCHANGED <<main, rsp, response, printed, network, server, listening>>

InputEnds ==
    /\ ~Gone /\ cmd = "reading"
    /\ cmd' = "ended"
    /\ UNCHANGED <<main, rsp, buffers, user, network, server, listening>>

(* The write, whatever becomes of it: its result is not looked at.         *)
Written == cmd' = IF request = "EXIT" THEN "ended" ELSE "pausing"

Write ==
    /\ cmd = "writing" /\ main \in {"creating", "joining"} /\ conn # "pipe"
    /\ IF conn = "open"
       THEN requests' = Append(requests, request) /\ sent' = Append(sent, request)
       ELSE UNCHANGED <<requests, sent>>
    /\ conn' = CASE conn = "fin" -> "finw" [] conn = "rst" -> "pipe" [] OTHER -> conn
    /\ Written
    /\ UNCHANGED <<main, rsp, buffers, user, answers, answered, server, listening>>

(* On the closed descriptor, before main() exits.                          *)
WriteFails ==
    /\ cmd = "writing" /\ main = "closed"
    /\ Written
    /\ UNCHANGED <<main, rsp, buffers, user, network, server, listening>>

BrokenPipe ==
    /\ cmd = "writing" /\ main \in {"creating", "joining"} /\ conn = "pipe"
    /\ main' = "killed"
    /\ UNCHANGED <<cmd, rsp, buffers, user, network, server, listening>>

Paused ==
    /\ ~Gone /\ cmd = "pausing"
    /\ cmd' = "reading"
    /\ UNCHANGED <<main, rsp, buffers, user, network, server, listening>>

-----------------------------------------------------------------------------
(* The response thread.                                                    *)

Shows(line) == printed' = Append(printed, line)

(* Mutant: the loop is not left at the answer to EXIT.                     *)
GoesOn(code) == "selecting"
After(code) == IF code = "ACCOUNT_EXIT" THEN "ended" ELSE "selecting"

ReadAnswer ==
    /\ ~Gone /\ rsp = "selecting" /\ answers # <<>>
    /\ response' = Head(answers) /\ answers' = Tail(answers)
    /\ Shows(Head(answers))
    /\ rsp' = After(response')
    /\ UNCHANGED <<main, cmd, request, lines, typed, conn, requests, sent, answered, server, listening>>

(* read returns -1, which is not 0: the buffer is printed once more, its   *)
(* code byte-swapped, so that only SUCCESS, 0, is what it was.  A buffer   *)
(* never filled may hold the code that ends the loop.                      *)
ReadReset ==
    /\ ~Gone /\ rsp = "selecting" /\ answers = <<>> /\ conn = "rst"
    /\ conn' = "pipe"
    /\ response' = IF response = "SUCCESS" THEN "SUCCESS" ELSE "GARBAGE"
    /\ Shows("again")
    /\ rsp' = "selecting" \/ (response = "UNSET" /\ rsp' = "ended")
    /\ UNCHANGED <<main, cmd, request, lines, typed, requests, answers, sent, answered, server, listening>>

ReadEof ==
    /\ ~Gone /\ rsp = "selecting" /\ answers = <<>>
    /\ conn \in {"fin", "finw", "pipe"}
    /\ Shows("closed_unexpectedly")
    /\ rsp' = "ended"
    /\ UNCHANGED <<main, cmd, buffers, lines, typed, network, server, listening>>

(* The 5000 seconds are for the whole connection, not since the last       *)
(* answer: select leaves in timeout what is left of it.                    *)
SelectTimeout ==
    /\ ~Gone /\ rsp = "selecting" /\ answers = <<>> /\ conn = "open"
    /\ Shows("time_out")
    /\ rsp' = "ended"
    /\ UNCHANGED <<main, cmd, buffers, lines, typed, network, server, listening>>

-----------------------------------------------------------------------------
(* The server.                                                             *)

Listen ==
    /\ main \in {"connecting", "sleeping"}
    /\ listening' = ~listening
    /\ UNCHANGED <<client, buffers, user, network, server>>

Talking == conn = "open" /\ ~Gone

TakeRequest ==
    /\ Talking /\ serving = "nothing" /\ requests # <<>>
    /\ serving' = Head(requests) /\ requests' = Tail(requests)
    /\ UNCHANGED <<client, buffers, user, conn, answers, sent, answered, waits, listening>>

Reply(code) == answers' = Append(answers, code) /\ answered' = Append(answered, code)

Wait ==
    /\ Talking /\ serving = "START" /\ waits < MaxWaits
    /\ Reply("SUCCESS")
    /\ waits' = waits + 1
    /\ UNCHANGED <<client, buffers, user, conn, requests, sent, serving, listening>>

Answer ==
    /\ Talking /\ serving \notin {"nothing", "left"}
    /\ IF serving = "EXIT"
       THEN Reply("ACCOUNT_EXIT") /\ serving' = "left"
       ELSE (Reply("SUCCESS") \/ Reply("FAILURE")) /\ serving' = "nothing"
    /\ UNCHANGED <<client, buffers, user, conn, requests, sent, waits, listening>>

(* The handler has left its loop, or it dies: the kernel closes, with a    *)
(* reset when requests are unread.                                         *)
Close ==
    /\ Talking
    /\ conn' = IF requests = <<>> THEN "fin" ELSE "rst"
    /\ UNCHANGED <<client, buffers, user, requests, answers, sent, answered, server, listening>>

ResetArrives ==
    /\ conn = "finw" /\ ~Gone
    /\ conn' = "pipe"
    /\ UNCHANGED <<client, buffers, user, requests, answers, sent, answered, server, listening>>

-----------------------------------------------------------------------------
MainStep == Connect \/ ConnectFails \/ Retry \/ CreateCommand \/ CreateResponse \/ Join \/ Exit
CommandStep == ReadLine \/ InputEnds \/ Write \/ WriteFails \/ BrokenPipe \/ Paused
ResponseStep == ReadAnswer \/ ReadReset \/ ReadEof
ServerStep == Listen \/ TakeRequest \/ Wait \/ Answer \/ Close \/ ResetArrives

Next == MainStep \/ CommandStep \/ ResponseStep \/ SelectTimeout \/ ServerStep

Spec == Init /\ [][Next]_vars

(* main() and the response thread run.  Nobody has to type, the server to  *)
(* answer, or the 5000 seconds to pass.                                    *)
FairSpec == Spec /\ WF_vars(MainStep) /\ WF_vars(ResponseStep)
=============================================================================
