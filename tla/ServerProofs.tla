---------------------------- MODULE ServerProofs ----------------------------
(* Proofs about the processes of module Server, for any number of          *)
(* connections and starts.                                                 *)
EXTENDS ServerProperties, TLAPS

(* Who has the table mapped also has the listening socket; so when a       *)
(* server could bind, and until it has set up the table, nobody has it     *)
(* mapped, and no session process is there to fork somebody who has.       *)
TableNeedsSocket ==
    /\ users \subseteq listeners
    /\ session \in {"accepting", "forking"} => Session \in users
    /\ spc = "bound" => users = {} /\ Server \in listeners

(* The initial state has neither.                                          *)
LEMMA InitTableNeedsSocket == Init => TableNeedsSocket
  BY DEF Init, TableNeedsSocket

(* Every step of the server, of a connection or of a signal keeps it.      *)
LEMMA NextTableNeedsSocket == TableNeedsSocket /\ [Next]_vars => TableNeedsSocket'
  <1> SUFFICES ASSUME TableNeedsSocket, [Next]_vars
               PROVE  TableNeedsSocket'
    OBVIOUS
  <1> USE ProcessAssumption
  <1>1. CASE Start
    BY <1>1 DEF Start, TableNeedsSocket
  <1>2. CASE SetUpTable
    BY <1>2 DEF SetUpTable, TableNeedsSocket
  <1>3. CASE ForkSession
    BY <1>3 DEF ForkSession, TableNeedsSocket
  <1>4. CASE Release
    BY <1>4 DEF Release, Closes, TableNeedsSocket
  <1>5. CASE DeliverServer
    BY <1>5 DEF DeliverServer, Closes, TableNeedsSocket, shared
  <1>6. CASE DeliverSession
    BY <1>6 DEF DeliverSession, SessionGone, Closes, TableNeedsSocket, server
  <1>7. ASSUME NEW c \in Conns, HandlerEnd(c) \/ DeliverHandler(c)
        PROVE  TableNeedsSocket'
    BY <1>7 DEF HandlerEnd, DeliverHandler, Closes, TableNeedsSocket, server
  <1>8. ASSUME NEW c \in Conns, ForkHandler(c)
        PROVE  TableNeedsSocket'
    BY <1>8 DEF ForkHandler, Heirs, TableNeedsSocket, server
  <1>9. ASSUME NEW c \in Conns, Accept(c)
        PROVE  TableNeedsSocket'
    BY <1>9 DEF Accept, TableNeedsSocket, server
  <1>10. ASSUME NEW c \in Conns, ForkHandlerFails(c) \/ Collect(c)
         PROVE  TableNeedsSocket'
    BY <1>10 DEF ForkHandlerFails, Collect, TableNeedsSocket, server, shared
  <1>11. CASE ForkSessionFails \/ InstallHandler \/ WakeUp \/ PrinterLock
              \/ PrinterUnlock \/ KillChild
    BY <1>11 DEF ForkSessionFails, InstallHandler, WakeUp, PrinterLock,
                 PrinterUnlock, KillChild, TableNeedsSocket, shared
  <1>12. CASE Interrupt \/ InterruptServer
    BY <1>12 DEF Interrupt, InterruptServer, TableNeedsSocket, server, shared
  <1>13. ASSUME NEW c \in Conns, Connect(c) \/ HandlerLock(c) \/ HandlerUnlock(c)
         PROVE  TableNeedsSocket'
    BY <1>13 DEF Connect, HandlerLock, HandlerUnlock, TableNeedsSocket, server, shared
  <1>14. ASSUME NEW c \in Conns, Stop(c) \/ Continue(c)
         PROVE  TableNeedsSocket'
    BY <1>14 DEF Stop, Continue, TableNeedsSocket, server, shared
  <1>15. CASE UNCHANGED vars
    BY <1>15 DEF vars, TableNeedsSocket, server, shared
  <1> QED
    BY <1>1, <1>2, <1>3, <1>4, <1>5, <1>6, <1>7, <1>8, <1>9, <1>10, <1>11,
       <1>12, <1>13, <1>14, <1>15
    DEF Next, ServerStep, SignalStep, ConnStep

(* Whoever has the table mapped has the listening socket, in every         *)
(* behaviour.                                                              *)
THEOREM SocketGuardsTable == Spec => []TableNeedsSocket
  BY InitTableNeedsSocket, NextTableNeedsSocket, PTL DEF Spec

(* The share file is never truncated while somebody uses the table in it   *)
(* (server.c:90 and server-session.c:22).                                  *)
THEOREM NeverTruncatedInUse == Spec => TruncatedUnused
  <1>1. TableNeedsSocket /\ [Next]_vars => [SetUpTable => users = {}]_vars
    BY DEF TableNeedsSocket, SetUpTable
  <1> QED
    BY <1>1, SocketGuardsTable, PTL DEF Spec, TruncatedUnused

-----------------------------------------------------------------------------
(* A fork child is collected.                                              *)

SessionLives == session \in {"accepting", "forking"}

(* What the variables about connections hold. *)
Types ==
    /\ conn \in [Conns -> {"none", "queued", "accepted", "reset"}]
    /\ handler \in [Conns -> {"none", "running", "locked", "dead"}]
    /\ collector \in [Conns -> {"none", "waiting", "done", "told", "killed"}]
    /\ \A c \in Conns : handler[c] # "none" => collector[c] # "none"
    /\ \A c \in reaped : c \in Conns /\ handler[c] = "dead"
    /\ untold \subseteq stopped /\ stopped \subseteq Conns
    /\ fds \in [Conns -> SUBSET Procs]

(* A running handler has the listening socket, so a server that could bind *)
(* has outlived them all, and has no session process before it forks one.  *)
(* Who has a signal on its way is running.                                 *)
Survivors ==
    /\ Running \subseteq listeners
    /\ spc \in {"bound", "mapped"} => Running = {} /\ ~SessionLives
    /\ pending \cap Conns \subseteq Running

(* The thread that collects a handler waits as long as the handler runs or *)
(* nobody has waited for it, unless it was told of a stop or the session   *)
(* process died before.                                                    *)
Collectors ==
    /\ \A c \in Running :
          \/ collector[c] \in {"waiting", "told"}
          \/ collector[c] = "killed" /\ ~SessionLives
    /\ \A c \in Zombies : collector[c] \in {"waiting", "told"}

(* A connection is held by running handlers and by the session process,    *)
(* which has a collector that will close it, or is about to fork.          *)
Holders ==
    \A c \in Conns :
       /\ fds[c] \subseteq Running \cup {Session}
       /\ conn[c] \in {"none", "queued", "reset"} =>
             collector[c] = "none" /\ Session \notin fds[c]
       /\ Session \in fds[c] =>
             /\ SessionLives
             /\ \/ collector[c] = "waiting"
                \/ session = "forking" /\ Accepted(c)
       /\ \A d \in Conns : Accepted(c) /\ Accepted(d) => c = d

IInv == TableNeedsSocket /\ Types /\ Survivors /\ Collectors /\ Holders

(* Each step gives the variables values of their types.                    *)
LEMMA NextTypes == IInv /\ [Next]_vars => Types'
  <1> SUFFICES ASSUME IInv, [Next]_vars
               PROVE  Types'
    OBVIOUS
  <1> USE ProcessAssumption DEF IInv, Types, Procs, jobs
  <1>1. CASE Start
    BY <1>1 DEF Start, conns
  <1>2. CASE SetUpTable
    BY <1>2 DEF SetUpTable, conns
  <1>3. CASE ForkSession
    BY <1>3 DEF ForkSession, conns
  <1>4. CASE ForkSessionFails \/ InstallHandler \/ WakeUp \/ PrinterLock
              \/ PrinterUnlock
    BY <1>4 DEF ForkSessionFails, InstallHandler, WakeUp, PrinterLock,
        PrinterUnlock, conns, shared
  <1>5. CASE KillChild
    BY <1>5 DEF KillChild, Signalled, Alive, SessionLives, conns, shared
  <1>6. CASE Release
    BY <1>6 DEF Release, Closes
  <1>7. ASSUME NEW c \in Conns, Connect(c)
        PROVE  Types'
    BY <1>7 DEF Connect, server, shared
  <1>8. ASSUME NEW c \in Conns, Accept(c)
        PROVE  Types'
    BY <1>8 DEF Accept, server
  <1>9. ASSUME NEW c \in Conns, ForkHandler(c)
        PROVE  Types'
    BY <1>9 DEF ForkHandler, Heirs, Inherited, Accepted, server
  <1>10. ASSUME NEW c \in Conns, ForkHandlerFails(c)
         PROVE  Types'
    BY <1>10 DEF ForkHandlerFails, Accepted, server, shared
  <1>11. ASSUME NEW c \in Conns, Collect(c)
         PROVE  Types'
    BY <1>11 DEF Collect, WaitReturns, Finished, Awaited, Children, Zombies, server
  <1>12. ASSUME NEW c \in Conns, HandlerLock(c) \/ HandlerUnlock(c)
         PROVE  Types'
    BY <1>12 DEF HandlerLock, HandlerUnlock, server, shared
  <1>13. ASSUME NEW c \in Conns, HandlerEnd(c) \/ DeliverHandler(c)
         PROVE  Types'
    BY <1>13 DEF HandlerEnd, DeliverHandler, Closes, Survivors, Running, server
  <1>14. CASE Interrupt \/ InterruptServer
    BY <1>14 DEF Interrupt, InterruptServer, Alive, server, conns, shared
  <1>15. CASE DeliverServer
    BY <1>15 DEF DeliverServer, Closes, shared
  <1>16. CASE DeliverSession
    BY <1>16 DEF DeliverSession, SessionGone, Closes, server
  <1>17. ASSUME NEW c \in Conns, Stop(c) \/ Continue(c)
         PROVE  Types'
    BY <1>17 DEF Stop, Continue, server, conns, shared
  <1>18. CASE UNCHANGED vars
    BY <1>18 DEF vars, server, conns, shared
  <1> QED
    BY <1>1, <1>2, <1>3, <1>4, <1>5, <1>6, <1>7, <1>8, <1>9, <1>10, <1>11,
       <1>12, <1>13, <1>14, <1>15, <1>16, <1>17, <1>18
    DEF Next, ServerStep, SignalStep, ConnStep

(* The handlers that run keep the listening socket: each has it from the   *)
(* fork, and closes it when it ends.                                       *)
LEMMA NextSurvivors == IInv /\ [Next]_vars => Survivors'
  <1> SUFFICES ASSUME IInv, [Next]_vars
               PROVE  Survivors'
    OBVIOUS
  <1> USE ProcessAssumption DEF IInv, Types, Survivors, Running, SessionLives,
                              TableNeedsSocket
  <1>1. CASE Start
    BY <1>1 DEF Start, conns
  <1>2. CASE SetUpTable
    BY <1>2 DEF SetUpTable, conns
  <1>3. CASE ForkSession
    BY <1>3 DEF ForkSession, conns
  <1>4. CASE ForkSessionFails \/ InstallHandler \/ WakeUp \/ PrinterLock
              \/ PrinterUnlock
    BY <1>4 DEF ForkSessionFails, InstallHandler, WakeUp, PrinterLock,
        PrinterUnlock, conns, shared
  <1>5. CASE KillChild
    BY <1>5 DEF KillChild, Signalled, Alive, conns, shared
  <1>6. CASE Release
    BY <1>6 DEF Release, Closes
  <1>7. ASSUME NEW c \in Conns, Connect(c)
        PROVE  Survivors'
    BY <1>7 DEF Connect, server, shared
  <1>8. ASSUME NEW c \in Conns, Accept(c)
        PROVE  Survivors'
    BY <1>8 DEF Accept, server
  <1>9. ASSUME NEW c \in Conns, ForkHandler(c)
        PROVE  Survivors'
    BY <1>9 DEF ForkHandler, Heirs, Inherited, Accepted, server
  <1>10. ASSUME NEW c \in Conns, ForkHandlerFails(c)
         PROVE  Survivors'
    BY <1>10 DEF ForkHandlerFails, Accepted, server, shared
  <1>11. ASSUME NEW c \in Conns, Collect(c)
         PROVE  Survivors'
    BY <1>11 DEF Collect, WaitReturns, Finished, Awaited, Children, Zombies, server
  <1>12. ASSUME NEW c \in Conns, HandlerLock(c) \/ HandlerUnlock(c)
         PROVE  Survivors'
    BY <1>12 DEF HandlerLock, HandlerUnlock, server, shared
  <1>13. ASSUME NEW c \in Conns, HandlerEnd(c) \/ DeliverHandler(c)
         PROVE  Survivors'
    BY <1>13 DEF HandlerEnd, DeliverHandler, Closes, server
  <1>14. CASE Interrupt \/ InterruptServer
    BY <1>14 DEF Interrupt, InterruptServer, Alive, server, conns, shared
  <1>15. CASE DeliverServer
    BY <1>15 DEF DeliverServer, Closes, shared
  <1>16. CASE DeliverSession
    BY <1>16 DEF DeliverSession, SessionGone, Closes, server
  <1>17. ASSUME NEW c \in Conns, Stop(c) \/ Continue(c)
         PROVE  Survivors'
    BY <1>17 DEF Stop, Continue, server, conns, shared
  <1>18. CASE UNCHANGED vars
    BY <1>18 DEF vars, server, conns, shared
  <1> QED
    BY <1>1, <1>2, <1>3, <1>4, <1>5, <1>6, <1>7, <1>8, <1>9, <1>10, <1>11,
       <1>12, <1>13, <1>14, <1>15, <1>16, <1>17, <1>18
    DEF Next, ServerStep, SignalStep, ConnStep

(* A handler's collector is there from the fork, and leaves only when the  *)
(* handler has been waited for, when it is told of a stop, or when the     *)
(* session process dies.                                                   *)
LEMMA NextCollectors == IInv /\ [Next]_vars => Collectors'
  <1> SUFFICES ASSUME IInv, [Next]_vars
               PROVE  Collectors'
    OBVIOUS
  <1> USE ProcessAssumption DEF IInv, Types, Survivors, Collectors, Zombies,
                              Children, Running, SessionLives
  <1>1. CASE Start
    BY <1>1 DEF Start, conns
  <1>2. CASE SetUpTable
    BY <1>2 DEF SetUpTable, conns
  <1>3. CASE ForkSession
    BY <1>3 DEF ForkSession, conns
  <1>4. CASE ForkSessionFails \/ InstallHandler \/ WakeUp \/ PrinterLock
              \/ PrinterUnlock
    BY <1>4 DEF ForkSessionFails, InstallHandler, WakeUp, PrinterLock,
        PrinterUnlock, conns, shared
  <1>5. CASE KillChild
    BY <1>5 DEF KillChild, Signalled, Alive, conns, shared
  <1>6. CASE Release
    BY <1>6 DEF Release, Closes
  <1>7. ASSUME NEW c \in Conns, Connect(c)
        PROVE  Collectors'
    BY <1>7 DEF Connect, server, shared
  <1>8. ASSUME NEW c \in Conns, Accept(c)
        PROVE  Collectors'
    BY <1>8 DEF Accept, server
  <1>9. ASSUME NEW c \in Conns, ForkHandler(c)
        PROVE  Collectors'
    BY <1>9 DEF ForkHandler, Heirs, Inherited, Accepted, server
  <1>10. ASSUME NEW c \in Conns, ForkHandlerFails(c)
         PROVE  Collectors'
    BY <1>10 DEF ForkHandlerFails, Accepted, server, shared
  <1>11. ASSUME NEW c \in Conns, Collect(c)
         PROVE  Collectors'
    BY <1>11 DEF Collect, WaitReturns, Finished, Awaited, Children, Zombies, server
  <1>12. ASSUME NEW c \in Conns, HandlerLock(c) \/ HandlerUnlock(c)
         PROVE  Collectors'
    BY <1>12 DEF HandlerLock, HandlerUnlock, server, shared
  <1>13. ASSUME NEW c \in Conns, HandlerEnd(c) \/ DeliverHandler(c)
         PROVE  Collectors'
    BY <1>13 DEF HandlerEnd, DeliverHandler, Closes, server
  <1>14. CASE Interrupt \/ InterruptServer
    BY <1>14 DEF Interrupt, InterruptServer, Alive, server, conns, shared
  <1>15. CASE DeliverServer
    BY <1>15 DEF DeliverServer, Closes, shared
  <1>16. CASE DeliverSession
    BY <1>16 DEF DeliverSession, SessionGone, Closes, server
  <1>17. ASSUME NEW c \in Conns, Stop(c) \/ Continue(c)
         PROVE  Collectors'
    BY <1>17 DEF Stop, Continue, server, conns, shared
  <1>18. CASE UNCHANGED vars
    BY <1>18 DEF vars, server, conns, shared
  <1> QED
    BY <1>1, <1>2, <1>3, <1>4, <1>5, <1>6, <1>7, <1>8, <1>9, <1>10, <1>11,
       <1>12, <1>13, <1>14, <1>15, <1>16, <1>17, <1>18
    DEF Next, ServerStep, SignalStep, ConnStep

(* Between accept and fork the session process has exactly one connection  *)
(* without a collector; what a handler inherits, it closes when it ends.   *)
LEMMA NextHolders == IInv /\ [Next]_vars => Holders'
  <1> SUFFICES ASSUME IInv, [Next]_vars
               PROVE  Holders'
    OBVIOUS
  <1> USE ProcessAssumption DEF IInv, Types, Survivors, Collectors, Holders,
                              Running, SessionLives, Accepted, TableNeedsSocket
  <1>1. CASE Start
    BY <1>1 DEF Start, conns
  <1>2. CASE SetUpTable
    BY <1>2 DEF SetUpTable, conns
  <1>3. CASE ForkSession
    BY <1>3 DEF ForkSession, conns
  <1>4. CASE ForkSessionFails \/ InstallHandler \/ WakeUp \/ PrinterLock
              \/ PrinterUnlock
    BY <1>4 DEF ForkSessionFails, InstallHandler, WakeUp, PrinterLock,
        PrinterUnlock, conns, shared
  <1>5. CASE KillChild
    BY <1>5 DEF KillChild, Signalled, Alive, conns, shared
  <1>6. CASE Release
    BY <1>6 DEF Release, Closes
  <1>7. ASSUME NEW c \in Conns, Connect(c)
        PROVE  Holders'
    BY <1>7 DEF Connect, server, shared
  <1>8. ASSUME NEW c \in Conns, Accept(c)
        PROVE  Holders'
    BY <1>8 DEF Accept, server
  <1>9. ASSUME NEW c \in Conns, ForkHandler(c)
        PROVE  Holders'
    BY <1>9 DEF ForkHandler, Heirs, Inherited, server
  <1>10. ASSUME NEW c \in Conns, ForkHandlerFails(c)
         PROVE  Holders'
    BY <1>10 DEF ForkHandlerFails, server, shared
  <1>11. ASSUME NEW c \in Conns, Collect(c)
         PROVE  Holders'
    BY <1>11 DEF Collect, WaitReturns, Finished, Awaited, Children, Zombies, server
  <1>12. ASSUME NEW c \in Conns, HandlerLock(c) \/ HandlerUnlock(c)
         PROVE  Holders'
    BY <1>12 DEF HandlerLock, HandlerUnlock, server, shared
  <1>13. ASSUME NEW c \in Conns, HandlerEnd(c) \/ DeliverHandler(c)
         PROVE  Holders'
    BY <1>13 DEF HandlerEnd, DeliverHandler, Closes, server
  <1>14. CASE Interrupt \/ InterruptServer
    BY <1>14 DEF Interrupt, InterruptServer, Alive, server, conns, shared
  <1>15. CASE DeliverServer
    BY <1>15 DEF DeliverServer, Closes, shared
  <1>16. CASE DeliverSession
    BY <1>16 DEF DeliverSession, SessionGone, Closes, server
  <1>17. ASSUME NEW c \in Conns, Stop(c) \/ Continue(c)
         PROVE  Holders'
    BY <1>17 DEF Stop, Continue, server, conns, shared
  <1>18. CASE UNCHANGED vars
    BY <1>18 DEF vars, server, conns, shared
  <1> QED
    BY <1>1, <1>2, <1>3, <1>4, <1>5, <1>6, <1>7, <1>8, <1>9, <1>10, <1>11,
       <1>12, <1>13, <1>14, <1>15, <1>16, <1>17, <1>18
    DEF Next, ServerStep, SignalStep, ConnStep

(* In every behaviour the strengthened invariant holds. *)
THEOREM Invariance == Spec => []IInv
  <1>1. Init => IInv
    BY InitTableNeedsSocket, ProcessAssumption
    DEF Init, IInv, Types, Survivors, Collectors, Holders, Running, Zombies,
        Children, SessionLives, Accepted, Procs
  <1>2. IInv /\ [Next]_vars => IInv'
    BY NextTableNeedsSocket, NextTypes, NextSurvivors, NextCollectors, NextHolders
    DEF IInv
  <1> QED
    BY <1>1, <1>2, PTL DEF Spec

(* When no collector thread waits, the only handlers of a living session   *)
(* process that run or are left zombies, and the only holders of a         *)
(* connection, are handlers whose collector was told of a stop             *)
(* (server-session.c:53-64, 78-96), whatever forks failed and whoever was  *)
(* interrupted.                                                            *)
THEOREM OthersAreCollected == Spec => []OnlyStoppedAreForgotten
  <1>1. IInv => OnlyStoppedAreForgotten
    BY ProcessAssumption
    DEF IInv, OnlyStoppedAreForgotten, Deserted, Types, Collectors, Holders,
        SessionLives, Accepted, Running, Zombies, Children
  <1> QED
    BY <1>1, Invariance, PTL
=============================================================================
