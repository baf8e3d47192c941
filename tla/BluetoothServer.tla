--------------------------- MODULE BluetoothServer ---------------------------
(***************************************************************************)
(* YModemBluetoothServerImpl under the loops of AbstractYModemServer.  The *)
(* serving thread starts an AcceptThread, which accepts a client, stores   *)
(* it in a field and runs the session; the serving thread and the trigger  *)
(* thread poll the same field every 100 ms, and each takes the client to   *)
(* be its own.  The main thread stops the server.                          *)
(*                                                                         *)
(* A server object has one AcceptThread in its life: only startServerSocket *)
(* starts one, and the inner loop never comes back to it.  Objects share   *)
(* nothing, so there is one here.  A session is one step: Transfer models it. *)
(***************************************************************************)
EXTENDS Naturals

CONSTANTS
    Clients,    \* bound: each connects once
    NoClient,   \* null
    Adapters,   \* whether the device may have a Bluetooth adapter, or none
    RadioFails  \* TRUE: creating a socket, accept and close may fail

ASSUME BluetoothAssumption ==
    /\ NoClient \notin Clients
    /\ Adapters \subseteq BOOLEAN
    /\ RadioFails \in BOOLEAN

VARIABLES
    adapter,        \* getDefaultAdapter is not null
    isRunning,      \* field of the server
    acceptThread,   \* field: TRUE if it is not null
    running,        \* field of the AcceptThread
    serverSocket,   \* field: "none", "open" or "closed"
    lost,           \* open server sockets that no field refers to
    clientSocket,   \* field: what the AcceptThread accepted, or NoClient
    accept,         \* where the AcceptThread is
    serving,        \* where the serving thread is
    trigger,        \* where the trigger thread is
    accepted,       \* the client the AcceptThread works with
    holds,          \* the client the serving thread works with
    main,           \* the main thread: "idle", "stopping" or "stopped"
    crashed,        \* the exception nobody caught, or "no"
    link            \* a client's connection to the device

fields == <<isRunning, acceptThread, running>>
sockets == <<serverSocket, lost, clientSocket>>
places == <<accept, serving, trigger>>
btVars == <<adapter, isRunning, acceptThread, running, serverSocket, lost,
            clientSocket, accept, serving, trigger, accepted, holds, main,
            crashed>>

-----------------------------------------------------------------------------
ClosedLink(clients, cs) ==
    [c \in Clients |-> IF c \in cs THEN "closed" ELSE clients[c]]

CloseServerSocket ==
    serverSocket' = IF serverSocket = "none" THEN "none" ELSE "closed"

\* Mutant: the AcceptThread is cancelled, its field stays.
CloseAllKeepsThread(cs) ==
    /\ UNCHANGED acceptThread
    /\ running' = (running /\ ~acceptThread)
    /\ CloseServerSocket
    /\ link' = ClosedLink(link, cs \cup ({clientSocket} \ {NoClient}))
    /\ UNCHANGED <<lost, clientSocket>>

\* closeExistingServerSocket, which also cancels the AcceptThread; the caller
\* closes the clients cs as well.  The field of the client stays as it is.
CloseAll(cs) ==
    /\ acceptThread' = FALSE
    /\ running' = (running /\ ~acceptThread)
    /\ CloseServerSocket
    /\ link' = ClosedLink(link, cs \cup ({clientSocket} \ {NoClient}))
    /\ UNCHANGED <<lost, clientSocket>>

Crash(e) == crashed' = e

-----------------------------------------------------------------------------
(* The AcceptThread                                                        *)

NoAdapter ==
    /\ accept = "begin"
    /\ ~adapter
    /\ accept' = "dead"
    /\ UNCHANGED <<adapter, fields, sockets, serving, trigger, accepted, holds,
                   main, crashed, link>>

Begin ==
    /\ accept = "begin"
    /\ adapter
    /\ accept' = "top"
    /\ UNCHANGED <<adapter, fields, sockets, serving, trigger, accepted, holds,
                   main, crashed, link>>

\* Mutant: the loop looks at the thread's own flag only.
LoopTopIgnoresStop ==
    /\ accept = "top"
    /\ IF running
       THEN accept' = "create" /\ CloseServerSocket
       ELSE accept' = "dead" /\ UNCHANGED serverSocket
    /\ UNCHANGED <<adapter, fields, lost, clientSocket, serving, trigger, accepted,
                   holds, main, crashed, link>>

\* Mutant: the socket of the last round is left to the garbage collector.
LoopTopWithoutClose ==
    /\ accept = "top"
    /\ accept' = IF running /\ isRunning THEN "create" ELSE "dead"
    /\ UNCHANGED <<adapter, fields, sockets, serving, trigger, accepted, holds,
                   main, crashed, link>>

LoopTop ==
    /\ accept = "top"
    /\ IF running /\ isRunning
       THEN accept' = "create" /\ CloseServerSocket
       ELSE accept' = "dead" /\ UNCHANGED serverSocket
    /\ UNCHANGED <<adapter, fields, lost, clientSocket, serving, trigger, accepted,
                   holds, main, crashed, link>>

CreateSocket ==
    /\ accept = "create"
    /\ serverSocket' = "open"
    /\ lost' = IF serverSocket = "open" THEN lost + 1 ELSE lost
    /\ accept' = "accept"
    /\ UNCHANGED <<adapter, fields, clientSocket, serving, trigger, accepted, holds,
                   main, crashed, link>>

AcceptClient ==
    /\ accept = "accept"
    /\ serverSocket = "open"
    /\ \E c \in Clients :
           /\ link[c] = "away"
           /\ link' = [link EXCEPT ![c] = "held"]
           /\ accepted' = c
    /\ accept' = "store"
    /\ UNCHANGED <<adapter, fields, sockets, serving, trigger, holds, main, crashed>>

\* The radio is switched off, or the socket was closed.
AcceptFails ==
    /\ \/ accept = "accept" /\ (serverSocket = "closed" \/ RadioFails)
       \/ accept = "create" /\ RadioFails
    /\ accept' = "failed"
    /\ UNCHANGED <<adapter, fields, sockets, serving, trigger, accepted, holds,
                   main, crashed, link>>

\* Mutant: the AcceptThread leaves the session to the serving thread.
StoreAndAcceptNext ==
    /\ accept = "store"
    /\ clientSocket' = accepted
    /\ accept' = "top"
    /\ UNCHANGED <<adapter, fields, serverSocket, lost, serving, trigger, accepted,
                   holds, main, crashed, link>>

\* The field is read again for the session.
StoreClient ==
    /\ accept = "store"
    /\ clientSocket' = accepted
    /\ accept' = "session"
    /\ UNCHANGED <<adapter, fields, serverSocket, lost, serving, trigger, accepted,
                   holds, main, crashed, link>>

\* handleYModemTransmission closes the connection, after an error everything.
AcceptSessionEnds ==
    /\ accept = "session"
    /\ accept' = "finally"
    /\ \/ link' = ClosedLink(link, {accepted}) /\ UNCHANGED <<fields, sockets>>
       \/ CloseAll({accepted}) /\ UNCHANGED isRunning
    /\ UNCHANGED <<adapter, serving, trigger, accepted, holds, main, crashed>>

\* The second close of the connection; if it throws, the field keeps the client.
AcceptFinally ==
    /\ accept = "finally"
    /\ \/ /\ clientSocket' = NoClient
          /\ link' = ClosedLink(link, {clientSocket} \ {NoClient})
       \/ RadioFails /\ UNCHANGED <<clientSocket, link>>
    /\ accepted' = NoClient
    /\ CloseServerSocket
    /\ accept' = "top"
    /\ UNCHANGED <<adapter, fields, lost, serving, trigger, holds, main, crashed>>

\* Mutant: a failed accept ends the thread.
FailureEndsThread ==
    /\ accept \in {"failed", "sleep"}
    /\ accept' = "dead"
    /\ UNCHANGED <<adapter, fields, sockets, serving, trigger, accepted, holds,
                   main, crashed, link>>

\* Five hundred seconds, which cancel does not interrupt, unless the thread was
\* cancelled before.
RetryLater ==
    /\ \/ accept = "failed" /\ accept' = (IF running /\ isRunning THEN "sleep" ELSE "top")
       \/ accept = "sleep" /\ accept' = "top"
    /\ UNCHANGED <<adapter, fields, sockets, serving, trigger, accepted, holds,
                   main, crashed, link>>

AcceptThreadRuns ==
    \/ NoAdapter \/ Begin \/ LoopTop \/ CreateSocket \/ AcceptFails \/ StoreClient
    \/ AcceptFinally \/ RetryLater

-----------------------------------------------------------------------------
(* The serving thread                                                      *)

\* The outer loop is passed once: nothing leaves the inner loop but the end.
ServingOuter ==
    /\ serving = "outer"
    /\ serving' = IF isRunning THEN "start" ELSE "dead"
    /\ UNCHANGED <<adapter, fields, sockets, accept, trigger, accepted, holds,
                   main, crashed, link>>

StartAcceptThread ==
    /\ serving = "start"
    /\ acceptThread' = TRUE
    /\ running' = TRUE
    /\ accept' = "begin"
    /\ serving' = "loop"
    /\ UNCHANGED <<adapter, isRunning, sockets, trigger, accepted, holds, main,
                   crashed, link>>

ServingLoop ==
    /\ serving = "loop"
    /\ serving' = IF isRunning THEN "poll" ELSE "finally"
    /\ UNCHANGED <<adapter, fields, sockets, accept, trigger, accepted, holds,
                   main, crashed, link>>

\* Mutant: the wait goes on without looking whether the server runs.
PollIgnoresStop ==
    /\ serving = "poll"
    /\ clientSocket # NoClient
    /\ serving' = "return"
    /\ UNCHANGED <<adapter, fields, sockets, accept, trigger, accepted, holds,
                   main, crashed, link>>

\* The wait ends when a client is there or the server stops.
ServingPolls ==
    /\ serving = "poll"
    /\ clientSocket # NoClient \/ ~isRunning
    /\ serving' = "return"
    /\ UNCHANGED <<adapter, fields, sockets, accept, trigger, accepted, holds,
                   main, crashed, link>>

\* getClientInfo of null: the exception passes the finally and ends the process.
ServingReturns ==
    /\ serving = "return"
    /\ holds' = clientSocket
    /\ \/ /\ clientSocket # NoClient
          /\ serving' = "session"
          /\ UNCHANGED <<fields, sockets, crashed, link>>
       \/ /\ clientSocket = NoClient
          /\ serving' = "dead"
          /\ CloseAll({})
          /\ Crash("null")
          /\ UNCHANGED isRunning
    /\ UNCHANGED <<adapter, accept, trigger, accepted, main>>

ServingSessionEnds ==
    /\ serving = "session"
    /\ serving' = "loop"
    /\ holds' = NoClient
    /\ \/ link' = ClosedLink(link, {holds}) /\ UNCHANGED <<fields, sockets>>
       \/ CloseAll({holds}) /\ UNCHANGED isRunning
    /\ UNCHANGED <<adapter, accept, trigger, accepted, main, crashed>>

ServingFinally ==
    /\ serving = "finally"
    /\ serving' = "dead"
    /\ CloseAll({})
    /\ UNCHANGED <<adapter, isRunning, accept, trigger, accepted, holds, main,
                   crashed>>

ServingThreadRuns ==
    \/ ServingOuter \/ StartAcceptThread \/ ServingLoop \/ ServingPolls
    \/ ServingReturns \/ ServingFinally

-----------------------------------------------------------------------------
(* The trigger thread, the main thread and the clients                     *)

TriggerPolls ==
    /\ trigger = "poll"
    /\ clientSocket # NoClient \/ ~isRunning
    /\ trigger' = "return"
    /\ UNCHANGED <<adapter, fields, sockets, accept, serving, accepted, holds,
                   main, crashed, link>>

\* The client is cast to a TCP socket: that fails, and without a client the
\* first use of the socket does, unless the server has stopped.
TriggerReturns ==
    /\ trigger = "return"
    /\ trigger' = "dead"
    /\ CASE clientSocket # NoClient -> Crash("cast")
         [] clientSocket = NoClient /\ isRunning -> Crash("null")
         [] OTHER -> UNCHANGED crashed
    /\ UNCHANGED <<adapter, fields, sockets, accept, serving, accepted, holds,
                   main, link>>

TriggerThreadRuns == TriggerPolls \/ TriggerReturns

\* stopServer: Thread.stop throws on Android and is caught.
StopServer ==
    /\ main = "idle"
    /\ isRunning' = FALSE
    /\ main' = "stopping"
    /\ UNCHANGED <<adapter, acceptThread, running, sockets, places, accepted,
                   holds, crashed, link>>

StopCloses ==
    /\ main = "stopping"
    /\ main' = "stopped"
    /\ CloseAll({})
    /\ UNCHANGED <<adapter, isRunning, places, accepted, holds, crashed>>

ClientLeaves ==
    /\ \E c \in Clients : link[c] = "held" /\ link' = [link EXCEPT ![c] = "left"]
    /\ UNCHANGED btVars

-----------------------------------------------------------------------------
BtInit ==
    /\ adapter \in Adapters
    /\ isRunning = TRUE
    /\ acceptThread = FALSE
    /\ running = FALSE
    /\ serverSocket = "none"
    /\ lost = 0
    /\ clientSocket = NoClient
    /\ accept = "unborn"
    /\ serving = "outer"
    /\ trigger = "poll"
    /\ accepted = NoClient
    /\ holds = NoClient
    /\ main = "idle"
    /\ crashed = "no"

BtNext ==
    \/ AcceptThreadRuns \/ AcceptClient \/ AcceptSessionEnds
    \/ ServingThreadRuns \/ ServingSessionEnds
    \/ TriggerThreadRuns
    \/ StopServer \/ StopCloses \/ ClientLeaves

-----------------------------------------------------------------------------
(* Properties                                                              *)

BtTypeOK ==
    /\ adapter \in BOOLEAN
    /\ isRunning \in BOOLEAN /\ acceptThread \in BOOLEAN /\ running \in BOOLEAN
    /\ serverSocket \in {"none", "open", "closed"}
    /\ lost \in Nat
    /\ clientSocket \in Clients \cup {NoClient}
    /\ accept \in {"unborn", "begin", "top", "create", "accept", "store", "session",
                   "finally", "failed", "sleep", "dead"}
    /\ serving \in {"outer", "start", "loop", "poll", "return", "session", "finally",
                    "dead"}
    /\ trigger \in {"poll", "return", "dead"}
    /\ accepted \in Clients \cup {NoClient}
    /\ holds \in Clients \cup {NoClient}
    /\ main \in {"idle", "stopping", "stopped"}
    /\ crashed \in {"no", "cast", "null"}
    /\ link \in [Clients -> {"away", "held", "left", "closed", "native"}]

\* Connections of BluetoothServer that the device has not closed.
Open(c) == link[c] \in {"held", "left"}

\* One connection at a time, as the comment in the AcceptThread has it, whoever
\* else runs a session on it and whenever the server is stopped: the AcceptThread
\* comes back to accept only when the client before is closed.
OneConnection ==
    \A c, d \in Clients : Open(c) /\ Open(d) => c = d

\* Every connection has an owner that will close it, and no listening socket
\* is forgotten: a service record that nobody can close would stay published.
NothingForgotten ==
    /\ lost = 0
    /\ \A c \in Clients : Open(c) => c = accepted

\* A stop may find the AcceptThread between its loop test and the new socket,
\* which stays published although stopServer has closed everything before.  One
\* client more finds the server there, and no second.
LateClientIsLast ==
    [](main = "stopped" /\ accept = "store" => [](accept # "accept"))

\* A failed accept or the end of a session leads back to a new server socket,
\* as long as the server runs and no session has failed: handleError cancels the
\* AcceptThread and nothing starts another.
AcceptsAgain ==
    accept \in {"failed", "finally"}
        ~> (accept = "create" \/ ~running \/ ~isRunning \/ crashed # "no")

\* After stopServer the serving and the trigger thread end by themselves, unless
\* a client that came late keeps its session.
StoppedServerEnds ==
    main = "stopped"
        ~> \/ crashed # "no"
           \/ trigger = "dead" /\ (serving \in {"dead", "session"})
=============================================================================
