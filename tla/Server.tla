------------------------------- MODULE Server -------------------------------
(***************************************************************************)
(* The processes of the bank server: server.c starts, forks the session    *)
(* process, prints, and stops on SIGINT; server-session.c accepts, forks a *)
(* handler per connection and collects it in a thread.  What the handlers  *)
(* do on the table is module Bank; here a handler runs, enters the         *)
(* critical section of the counter's mutex, leaves it and ends.            *)
(*                                                                         *)
(* What matters is what fork copies: every process has the listening       *)
(* socket, and a handler has, beside its own connection, those the session *)
(* process had open.  The handler of connection c is called c.             *)
(*                                                                         *)
(* A handler may be stopped (^Z, kill -STOP) and continued: the thread     *)
(* that waits for it is told of it, too.  The server and the session       *)
(* process may be stopped as well, which is no more than taking no step    *)
(* for a while, for nobody in the program waits for that.                  *)
(***************************************************************************)
EXTENDS Integers

CONSTANTS
    Conns,      \* bound: connections clients make
    Stoppable,  \* bound: those whose handler somebody may stop
    Server,     \* the first process
    Session,    \* the session process
    NoProc,     \* nobody
    MaxStarts   \* bound: times the server is started

ASSUME ProcessAssumption ==
    /\ Server \notin Conns /\ Session \notin Conns /\ Server # Session
    /\ NoProc \notin Conns \cup {Server, Session}
    /\ Stoppable \subseteq Conns
    /\ MaxStarts \in Nat

Procs == Conns \cup {Server, Session}

VARIABLES
    spc, stop, child, starts,   \* server.c: control, server_stop_signal,
                                \* whom child_pid names
    session,                    \* the session process
    conn, handler, collector,   \* per connection: its state, its handler's,
                                \* its collector thread's
    reaped,                     \* handlers whose end somebody waited for
    stopped, untold,            \* stopped handlers; those of them whose
                                \* stop no waitpid has returned yet
    listeners, users, fds,      \* who has the listening socket, the mapped
                                \* table, a connection's socket
    lock,                       \* new_account_lock_mutex: its owner
    pending                     \* processes with SIGINT on its way

server == <<spc, stop, child, starts>>
conns  == <<conn, handler, collector, reaped>>
jobs   == <<stopped, untold>>
shared == <<listeners, users, fds>>
vars   == <<server, session, conns, jobs, shared, lock, pending>>

Init ==
    /\ spc = "down" /\ stop = FALSE /\ child = {} /\ starts = 0
    /\ session = "none"
    /\ conn = [c \in Conns |-> "none"]
    /\ handler = [c \in Conns |-> "none"]
    /\ collector = [c \in Conns |-> "none"]
    /\ reaped = {}
    /\ stopped = {} /\ untold = {}
    /\ listeners = {} /\ users = {}
    /\ fds = [c \in Conns |-> {}]
    /\ lock = NoProc
    /\ pending = {}

Running == {c \in Conns : handler[c] \in {"running", "locked"}}
Alive   == Running \cup (IF session \in {"accepting", "forking"} THEN {Session} ELSE {})
                \cup (IF spc # "down" THEN {Server} ELSE {})

(* A process that ends closes what it has.  When nobody has the listening  *)
(* socket any more, the connections nobody accepted are reset.             *)
Closes(p) ==
    /\ listeners' = listeners \ {p}
    /\ conn' = [c \in Conns |-> IF conn[c] = "queued" /\ listeners' = {}
                                THEN "reset" ELSE conn[c]]
    /\ users' = users \ {p}
    /\ fds' = [c \in Conns |-> fds[c] \ {p}]
    /\ pending' = pending \ {p}

(* Its threads end with the session process; from now on init waits for    *)
(* the handlers that are left.                                             *)
SessionGone ==
    /\ session' = "dead"
    /\ collector' = [c \in Conns |-> IF collector[c] \in {"waiting", "told"}
                                     THEN "killed" ELSE collector[c]]
    /\ Closes(Session)

-----------------------------------------------------------------------------
(* server.c                                                                *)

(* bind fails when somebody still has the listening socket of an earlier   *)
(* server: the new one exits and changes nothing.                          *)
Start ==
    /\ spc = "down"
    /\ starts < MaxStarts
    /\ listeners = {}
    /\ spc' = "bound"
    /\ stop' = FALSE /\ child' = {}
    /\ starts' = starts + 1
    /\ session' = "none"
    /\ listeners' = {Server}
    /\ UNCHANGED <<conns, users, fds, lock, pending, jobs>>

(* The file is truncated, mapped and initialised, for all who map it.      *)
SetUpTable ==
    /\ spc = "bound"
    /\ spc' = "mapped"
    /\ users' = users \cup {Server}
    /\ lock' = NoProc
    /\ UNCHANGED <<stop, child, starts, session, conns, listeners, fds,
                   pending, jobs>>

(* fork; the parent goes on to install its signal handler.                 *)
ForkSession ==
    /\ spc = "mapped"
    /\ spc' = "forked"
    /\ session' = "accepting"
    /\ child' = {Session}
    /\ listeners' = listeners \cup {Session}
    /\ users' = users \cup {Session}
    /\ UNCHANGED <<stop, starts, conns, fds, lock, pending, jobs>>

(* fork fails: its -1 is not 0, and the process goes on as the parent of   *)
(* child_pid -1, which for kill() is every process it may signal.          *)
ForkSessionFails ==
    /\ spc = "mapped"
    /\ spc' = "forked"
    /\ child' = Procs
    /\ UNCHANGED <<stop, starts, session, conns, shared, lock, pending, jobs>>

InstallHandler ==
    /\ spc = "forked"
    /\ spc' = "sleep"
    /\ UNCHANGED <<stop, child, starts, session, conns, shared, lock,
                   pending, jobs>>

WakeUp ==
    /\ spc = "sleep"
    /\ spc' = IF stop THEN "stopping" ELSE "lock"
    /\ UNCHANGED <<stop, child, starts, session, conns, shared, lock,
                   pending, jobs>>

PrinterLock ==
    /\ spc = "lock"
    /\ lock = NoProc
    /\ lock' = Server
    /\ spc' = "printing"
    /\ UNCHANGED <<stop, child, starts, session, conns, shared, pending, jobs>>

PrinterUnlock ==
    /\ spc = "printing"
    /\ lock' = NoProc
    /\ spc' = "sleep"
    /\ UNCHANGED <<stop, child, starts, session, conns, shared, pending, jobs>>

(* Mutant: the signal is never sent. *)
Spared == {}

(* kill(-1) spares the process that calls it.                              *)
Signalled == (child \cap Alive) \ {Server}

KillChild ==
    /\ spc = "stopping"
    /\ pending' = pending \cup Signalled
    /\ spc' = "waiting"
    /\ UNCHANGED <<stop, child, starts, session, conns, shared, lock, jobs>>

(* wait returns at once when there is no child.                            *)
Release ==
    /\ spc = "waiting"
    /\ session \in {"none", "dead"}
    /\ spc' = "down"
    /\ Closes(Server)
    /\ UNCHANGED <<stop, child, starts, session, handler, collector, reaped,
                   lock, jobs>>

-----------------------------------------------------------------------------
(* server-session.c                                                        *)

Connect(c) ==
    /\ conn[c] = "none"
    /\ listeners # {}
    /\ conn' = [conn EXCEPT ![c] = "queued"]
    /\ UNCHANGED <<server, session, handler, collector, reaped, shared, lock,
                   pending, jobs>>

Accept(c) ==
    /\ session = "accepting"
    /\ conn[c] = "queued"
    /\ conn' = [conn EXCEPT ![c] = "accepted"]
    /\ fds' = [fds EXCEPT ![c] = {Session}]
    /\ session' = "forking"
    /\ UNCHANGED <<server, handler, collector, reaped, listeners, users,
                   lock, pending, jobs>>

Accepted(c) == Session \in fds[c] /\ collector[c] = "none"

(* Mutant: the handler closes the listening socket. *)
Listening(c) == listeners
Heirs(c) == listeners \cup {c}

Inherited(c) == [d \in Conns |-> IF Session \in fds[d] THEN fds[d] \cup {c} ELSE fds[d]]

ForkHandler(c) ==
    /\ session = "forking"
    /\ Accepted(c)
    /\ handler' = [handler EXCEPT ![c] = "running"]
    /\ collector' = [collector EXCEPT ![c] = "waiting"]
    /\ listeners' = Heirs(c)
    /\ users' = users \cup {c}
    /\ fds' = Inherited(c)
    /\ session' = "accepting"
    /\ UNCHANGED <<server, conn, reaped, lock, pending, jobs>>

(* fork fails: the collector is told to wait for -1, any child.            *)
ForkHandlerFails(c) ==
    /\ session = "forking"
    /\ Accepted(c)
    /\ collector' = [collector EXCEPT ![c] = "waiting"]
    /\ session' = "accepting"
    /\ UNCHANGED <<server, conn, handler, reaped, shared, lock, pending, jobs>>

(* The children of the session process; whom a collector waits for.        *)
Children == {c \in Conns : handler[c] # "none" /\ c \notin reaped
                                             /\ collector[c] # "killed"}
Zombies == {c \in Children : handler[c] = "dead"}
Awaited(c) == IF handler[c] = "none" THEN Children ELSE Children \cap {c}

Finished(c, as) == collector' = [collector EXCEPT ![c] = as]

(* waitpid, with WUNTRACED: one of them is dead, or was stopped and nobody *)
(* has been told yet; or there is none to wait for.  The collector does    *)
(* not look at which it was and goes on.                                   *)
(* Mutant: the collector does not wait (WNOHANG). *)
WaitsNot(c) ==
    /\ reaped' = reaped \cup (Awaited(c) \cap Zombies)
    /\ Finished(c, "done") /\ UNCHANGED untold
WaitReturns(c) ==
    \/ \E d \in Awaited(c) \cap Zombies :
          reaped' = reaped \cup {d} /\ Finished(c, "done") /\ UNCHANGED untold
    \/ \E d \in Awaited(c) \cap untold :
          untold' = untold \ {d} /\ Finished(c, "told") /\ UNCHANGED reaped
    \/ Awaited(c) = {} /\ Finished(c, "done") /\ UNCHANGED <<reaped, untold>>

Collect(c) ==
    /\ session \in {"accepting", "forking"}
    /\ collector[c] = "waiting"
    /\ WaitReturns(c)
    /\ fds' = [fds EXCEPT ![c] = @ \ {Session}]
    /\ UNCHANGED <<server, session, conn, handler, stopped, listeners, users,
                   lock, pending>>

-----------------------------------------------------------------------------
(* A handler, as far as the other processes notice it.                     *)

HandlerLock(c) ==
    /\ handler[c] = "running" /\ c \notin stopped
    /\ lock = NoProc
    /\ lock' = c
    /\ handler' = [handler EXCEPT ![c] = "locked"]
    /\ UNCHANGED <<server, session, conn, collector, reaped, shared, pending,
                   jobs>>

HandlerUnlock(c) ==
    /\ handler[c] = "locked" /\ c \notin stopped
    /\ lock' = NoProc
    /\ handler' = [handler EXCEPT ![c] = "running"]
    /\ UNCHANGED <<server, session, conn, collector, reaped, shared, pending,
                   jobs>>

HandlerEnd(c) ==
    /\ handler[c] = "running" /\ c \notin stopped
    /\ handler' = [handler EXCEPT ![c] = "dead"]
    /\ Closes(c)
    /\ UNCHANGED <<server, session, collector, reaped, lock, jobs>>

(* Somebody stops a handler, wherever it is, or lets it go on; a stop      *)
(* nobody was told of in time is nothing to tell of any more.              *)
Stop(c) ==
    /\ c \in (Running \cap Stoppable) \ stopped
    /\ stopped' = stopped \cup {c}
    /\ untold' = untold \cup {c}
    /\ UNCHANGED <<server, session, conns, shared, lock, pending>>

Continue(c) ==
    /\ c \in stopped
    /\ stopped' = stopped \ {c}
    /\ untold' = untold \ {c}
    /\ UNCHANGED <<server, session, conns, shared, lock, pending>>

-----------------------------------------------------------------------------
(* SIGINT.                                                                 *)

(* ^C at the server's terminal is for the server and all it has forked.    *)
Interrupt ==
    /\ spc # "down"
    /\ pending' = pending \cup Alive
    /\ pending' # pending
    /\ UNCHANGED <<server, session, conns, shared, lock, jobs>>

(* kill -INT names the server alone.                                       *)
InterruptServer ==
    /\ spc # "down"
    /\ Server \notin pending
    /\ pending' = pending \cup {Server}
    /\ UNCHANGED <<server, session, conns, shared, lock, jobs>>

(* The server notes the signal, or dies of it before its handler is there. *)
DeliverServer ==
    /\ Server \in pending
    /\ IF spc \in {"bound", "mapped", "forked"}
       THEN /\ spc' = "down"
            /\ Closes(Server)
            /\ UNCHANGED stop
       ELSE /\ stop' = TRUE
            /\ pending' = pending \ {Server}
            /\ UNCHANGED <<spc, conn, shared>>
    /\ UNCHANGED <<child, starts, session, handler, collector, reaped, lock,
                   jobs>>

DeliverSession ==
    /\ Session \in pending
    /\ SessionGone
    /\ UNCHANGED <<server, handler, reaped, lock, jobs>>

(* A handler has the session process's action, exit, wherever it is: a     *)
(* mutex it owns stays locked.  A stopped one takes it when it goes on.    *)
DeliverHandler(c) ==
    /\ c \in pending \ stopped
    /\ handler' = [handler EXCEPT ![c] = "dead"]
    /\ Closes(c)
    /\ UNCHANGED <<server, session, collector, reaped, lock, jobs>>

-----------------------------------------------------------------------------
ServerStep ==
    \/ Start \/ SetUpTable \/ ForkSession \/ ForkSessionFails \/ InstallHandler
    \/ WakeUp \/ PrinterLock \/ PrinterUnlock \/ KillChild \/ Release

ConnStep(c) ==
    \/ Connect(c) \/ Accept(c) \/ ForkHandler(c) \/ ForkHandlerFails(c) \/ Collect(c)
    \/ HandlerLock(c) \/ HandlerUnlock(c) \/ HandlerEnd(c) \/ Stop(c) \/ Continue(c)

SignalStep ==
    \/ Interrupt \/ InterruptServer \/ DeliverServer \/ DeliverSession
    \/ \E c \in Conns : DeliverHandler(c)

Next == ServerStep \/ SignalStep \/ \E c \in Conns : ConnStep(c)

Spec == Init /\ [][Next]_vars

(* The server and the session process go on when they can, and take the    *)
(* signals they are sent.  Nothing is granted to the handlers.             *)
ServerFairness ==
    /\ WF_vars(SetUpTable \/ ForkSession \/ ForkSessionFails \/ InstallHandler
               \/ WakeUp \/ PrinterUnlock \/ KillChild \/ Release)
    /\ WF_vars(DeliverServer) /\ WF_vars(DeliverSession)

ServerSpec == Spec /\ ServerFairness

(* Handlers go on, too, but clients need not connect nor handlers end.     *)
(* The printer gets a mutex that is free again and again, and who is       *)
(* stopped is continued, and gets on although it is stopped again and      *)
(* again: more than the mutex and the user promise, and ServerStops fails  *)
(* even so.                                                                *)
Fairness ==
    /\ ServerFairness
    /\ SF_vars(PrinterLock)
    /\ \A c \in Conns :
          /\ WF_vars(ForkHandler(c) \/ ForkHandlerFails(c))
          /\ WF_vars(Collect(c))
          /\ WF_vars(Continue(c))
          /\ SF_vars(HandlerUnlock(c))
          /\ SF_vars(DeliverHandler(c))

FairSpec == Spec /\ Fairness
=============================================================================
