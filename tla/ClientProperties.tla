-------------------------- MODULE ClientProperties --------------------------
(* What makes the client of module Client correct.                         *)
EXTENDS Client, SequencesExt

(* What reaches the server is what was typed, command for command: no      *)
(* rejected line is sent, and none sends the request of the line before,   *)
(* although one buffer holds them all and keeps what rejected lines wrote. *)
SentIsTyped ==
    /\ IsPrefix(sent, typed)
    /\ main = "joining" /\ conn = "open" /\ cmd # "writing" => sent = typed

(* The user sees every answer of the server once and in order, up to the   *)
(* last one when the client exits, and no notice before one: it does not   *)
(* close before, however its threads and the server's end overlap.         *)
(* "closed unexpectedly" is said exactly when the server did not           *)
(* acknowledge EXIT.  Only the 5000 seconds, and a buffer never filled,    *)
(* end it otherwise.                                                       *)
AnswerCodes  == {"SUCCESS", "FAILURE", "ACCOUNT_EXIT"}
Told         == {n \in DOMAIN printed : printed[n] \in AnswerCodes}
Acknowledged == Contains(answered, "ACCOUNT_EXIT")
UserSeesAnswers ==
    /\ \A n \in Told : /\ 1 .. n \subseteq Told
                       /\ n \in DOMAIN answered /\ printed[n] = answered[n]
    /\ main = "exited" /\ Last(printed) \notin {"time_out", "again"} =>
        /\ Told = DOMAIN answered
        /\ Contains(printed, "closed_unexpectedly") <=> ~Acknowledged

(* "The client(s) should shut down when the server shuts down"             *)
(* (banksystem.pdf, section 9): by the end of the connection or by its     *)
(* reset, whatever the command thread is doing.                            *)
EndsWithServer == conn \in {"fin", "finw", "rst", "pipe"} ~> Gone

(* "Client processes that cannot find the server should repeatedly try to  *)
(* connect" (section 7): a server that is up to stay is found.             *)
Connects == <>[]listening => <>(conn # "none")

-----------------------------------------------------------------------------
(* readme.pdf, section 0, says of request_t: "the instances of this struct *)
(* are created every time the user asks a valid request".  Then only EXIT, *)
(* sent, or the end of the input ends the reading of commands.             *)
StopsAtExit ==
    [][cmd = "reading" /\ cmd' = "ended" => lines' = lines]_vars
=============================================================================
