-------------------------- MODULE ServerProperties --------------------------
(* What the processes of module Server owe one another, and what the test  *)
(* cases say they do.                                                      *)
EXTENDS Server

(* The share file is never truncated while a process uses the table in it, *)
(* across any number of stops, kills and starts: nothing checks this, it   *)
(* holds because whoever maps the file also keeps the listening socket     *)
(* open, on which the next server's bind fails (server.c:90,               *)
(* server-session.c:22).                                                   *)
TruncatedUnused == [][SetUpTable => users = {}]_vars

(* When no collector thread waits, the only handlers of a living session   *)
(* process that run or are left zombies, and the only processes that hold  *)
(* a connection open, are handlers whose collector was told of a stop and  *)
(* took it for the end (server-session.c:55): failed forks, the collectors *)
(* that wait for any child, and stops others were told of included.        *)
Deserted == {c \in Conns : collector[c] = "told"}
OnlyStoppedAreForgotten ==
    session = "accepting" /\ (\A c \in Conns : collector[c] # "waiting") =>
        /\ Running \cup Zombies \subseteq Deserted
        /\ \A c \in Conns : fds[c] \subseteq Deserted

(* Once the printer has seen the signal the server ends: the session       *)
(* process gets SIGINT, dies of it, and wait returns.                      *)
StopEnds == spc = "stopping" ~> spc = "down"

-----------------------------------------------------------------------------
(* What is said of the program.                                            *)

(* bank-testcases.txt:12-21: ^C makes the server stop and release the      *)
(* shared memory.                                                          *)
ServerStops == stop ~> spc = "down"
=============================================================================
