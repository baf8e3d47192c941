------------------------------ MODULE TcpServer ------------------------------
(***************************************************************************)
(* startServer and stopServer of AbstractYModemServer with the sockets of  *)
(* YModemTCPServerImpl: the serving thread, the trigger thread and the     *)
(* main thread share the fields isRunning, serverSocket and socket of a    *)
(* server object without a lock.  Every start of the service makes a new   *)
(* server object; the threads of the old ones may still be running.        *)
(*                                                                         *)
(* A session with a client is one step here: Transfer models it.           *)
(***************************************************************************)
EXTENDS Naturals

CONSTANTS
    MaxServers,     \* bound: server objects created
    Clients,        \* bound: each connects once
    NoClient,       \* a null socket
    PortMayBeTaken  \* TRUE: another program may hold the port

ASSUME TcpAssumption ==
    /\ MaxServers \in Nat
    /\ NoClient \notin Clients
    /\ PortMayBeTaken \in BOOLEAN

Servers == 1..MaxServers
Threads == {"serving", "trigger"}

VARIABLES
    isRunning,      \* field of each server
    serverSocket,   \* field: "none", "unbound", "bound" or "closed"
    socket,         \* field: the socket accepted last
    at,             \* where each thread of each server is
    holds,          \* the client socket a thread works with
    link,           \* a client's connection
    created,        \* server objects so far, the last is the service's
    main,           \* the main thread: "idle", or "stopping" the last server
    crashed         \* an exception nobody catches ended the process

tcpVars == <<isRunning, serverSocket, socket, at, holds, link, created, main,
             crashed>>

-----------------------------------------------------------------------------
Goto(s, t, l) == at' = [at EXCEPT ![s][t] = l]

\* closeExistingServerSocket, called by thread t on its way to l, or by the
\* main thread: an accept() that is waiting fails, so do clients in the backlog.
CloseServerSocket(s, t, l) ==
    /\ serverSocket' =
           [serverSocket EXCEPT ![s] = IF @ = "none" THEN @ ELSE "closed"]
    /\ at' = [at EXCEPT ![s] = [u \in Threads |->
                  IF u = t THEN l
                  ELSE IF @[u] = "accepting" THEN "failed" ELSE @[u]]]

\* The backlog of the port is lost with its socket.
BacklogLost(s, clients) ==
    [c \in Clients |-> IF serverSocket[s] = "bound" /\ clients[c] = "queued"
                       THEN "gone" ELSE clients[c]]

-----------------------------------------------------------------------------
(* acceptClientConnection, called by both threads                          *)

CheckServerSocket(s, t) ==
    /\ at[s][t] = "accept"
    /\ Goto(s, t, IF serverSocket[s] = "bound" THEN "accepting" ELSE "failed")
    /\ UNCHANGED <<isRunning, serverSocket, socket, holds, link, created, main,
                   crashed>>

Accept(s, t) ==
    /\ at[s][t] = "accepting"
    /\ \E c \in Clients :
           /\ link[c] = "queued"
           /\ link' = [link EXCEPT ![c] = "held"]
           /\ socket' = [socket EXCEPT ![s] = c]
    /\ Goto(s, t, "configure")
    /\ UNCHANGED <<isRunning, serverSocket, holds, created, main, crashed>>

\* configureSocket(socket) reads the field again, which may be another
\* client's by now; setting an option of a closed socket throws.
ConfigureSocket(s, t) ==
    /\ at[s][t] = "configure"
    /\ Goto(s, t, IF link[socket[s]] = "closed" THEN "failed" ELSE "return")
    /\ UNCHANGED <<isRunning, serverSocket, socket, holds, link, created, main,
                   crashed>>

\* So does "return socket".
ReturnSocket(s, t) ==
    /\ at[s][t] = "return"
    /\ holds' = [holds EXCEPT ![s][t] = socket[s]]
    /\ Goto(s, t, IF t = "serving" THEN "session" ELSE "loop")
    /\ UNCHANGED <<isRunning, serverSocket, socket, link, created, main, crashed>>

AcceptStep(s, t) ==
    CheckServerSocket(s, t) \/ ConfigureSocket(s, t) \/ ReturnSocket(s, t)

-----------------------------------------------------------------------------
(* The serving thread                                                      *)

Restart(s) ==
    /\ at[s].serving = "outer"
    /\ IF isRunning[s]
       THEN /\ CloseServerSocket(s, "serving", "create")
            /\ link' = BacklogLost(s, link)
       ELSE Goto(s, "serving", "dead") /\ UNCHANGED <<serverSocket, link>>
    /\ UNCHANGED <<isRunning, socket, holds, created, main, crashed>>

CreateServerSocket(s) ==
    /\ at[s].serving = "create"
    /\ serverSocket' = [serverSocket EXCEPT ![s] = "unbound"]
    /\ Goto(s, "serving", "bind")
    /\ UNCHANGED <<isRunning, socket, holds, link, created, main, crashed>>

PortFree == \A s \in Servers : serverSocket[s] # "bound"

Bind(s) ==
    /\ at[s].serving = "bind"
    /\ serverSocket[s] = "unbound"
    /\ PortFree
    /\ serverSocket' = [serverSocket EXCEPT ![s] = "bound"]
    /\ Goto(s, "serving", "ready")
    /\ UNCHANGED <<isRunning, socket, holds, link, created, main, crashed>>

\* The socket was closed by stopServer in the meantime, or the port is taken.
BindFails(s) ==
    /\ at[s].serving = "bind"
    /\ serverSocket[s] = "closed" \/ ~PortFree \/ PortMayBeTaken
    /\ Goto(s, "serving", "bindFailed")
    /\ UNCHANGED <<isRunning, serverSocket, socket, holds, link, created, main,
                   crashed>>

\* After ten seconds the thread leaves both loops, through finally.
GiveUp(s) ==
    /\ at[s].serving = "bindFailed"
    /\ CloseServerSocket(s, "serving", "dead")
    /\ link' = BacklogLost(s, link)
    /\ UNCHANGED <<isRunning, socket, holds, created, main, crashed>>

\* Mutant: the inner loop runs until the socket fails.
ReadyAlways(s) ==
    /\ at[s].serving = "ready"
    /\ Goto(s, "serving", "accept")
    /\ UNCHANGED <<isRunning, serverSocket, socket, holds, link, created, main,
                   crashed>>

\* errorCount is never incremented, so the first check never stops the loop.
Ready(s) ==
    /\ at[s].serving = "ready"
    /\ Goto(s, "serving", IF isRunning[s] THEN "accept" ELSE "finally")
    /\ UNCHANGED <<isRunning, serverSocket, socket, holds, link, created, main,
                   crashed>>

\* handleYModemTransmission closes the connection, after an error the server
\* socket as well.
SessionEnds(s) ==
    /\ at[s].serving = "session"
    /\ link' = [link EXCEPT ![holds[s].serving] = "closed"]
    /\ holds' = [holds EXCEPT ![s].serving = NoClient]
    /\ Goto(s, "serving", "ready")
    /\ UNCHANGED <<isRunning, serverSocket, socket, created, main, crashed>>

SessionFails(s) ==
    /\ at[s].serving = "session"
    /\ CloseServerSocket(s, "serving", "ready")
    /\ link' = BacklogLost(s, [link EXCEPT ![holds[s].serving] = "closed"])
    /\ holds' = [holds EXCEPT ![s].serving = NoClient]
    /\ UNCHANGED <<isRunning, socket, created, main, crashed>>

\* Mutant: the break leaves both loops.
ServingFailedEnds(s) ==
    /\ at[s].serving = "failed"
    /\ Goto(s, "serving", "dead")
    /\ UNCHANGED <<isRunning, serverSocket, socket, holds, link, created, main,
                   crashed>>

\* Five seconds after accept failed.
ServingFailed(s) ==
    /\ at[s].serving = "failed"
    /\ Goto(s, "serving", "finally")
    /\ UNCHANGED <<isRunning, serverSocket, socket, holds, link, created, main,
                   crashed>>

\* Mutant: the socket is left to the next round.
FinallyWithoutClose(s) ==
    /\ at[s].serving = "finally"
    /\ Goto(s, "serving", "outer")
    /\ UNCHANGED <<isRunning, serverSocket, socket, holds, link, created, main,
                   crashed>>

Finally(s) ==
    /\ at[s].serving = "finally"
    /\ CloseServerSocket(s, "serving", "outer")
    /\ link' = BacklogLost(s, link)
    /\ UNCHANGED <<isRunning, socket, holds, created, main, crashed>>

ServingStep(s) ==
    \/ AcceptStep(s, "serving") \/ Restart(s) \/ CreateServerSocket(s)
    \/ Bind(s) \/ BindFails(s) \/ GiveUp(s) \/ Ready(s) \/ ServingFailed(s)
    \/ Finally(s)

Session(s) == SessionEnds(s) \/ SessionFails(s)

-----------------------------------------------------------------------------
(* The trigger thread                                                      *)

\* Five seconds after accept failed; the old socket, or null, stays.
TriggerFailed(s) ==
    /\ at[s].trigger = "failed"
    /\ Goto(s, "trigger", "loop")
    /\ UNCHANGED <<isRunning, serverSocket, socket, holds, link, created, main,
                   crashed>>

TriggerStopped(s) ==
    /\ at[s].trigger = "loop"
    /\ ~isRunning[s]
    /\ Goto(s, "trigger", "dead")
    /\ UNCHANGED <<isRunning, serverSocket, socket, holds, link, created, main,
                   crashed>>

\* null.getOutputStream() is a NullPointerException, that of a socket closed
\* here an IOException which is rethrown: both end the process.
TriggerCrashes(s) ==
    /\ at[s].trigger = "loop"
    /\ isRunning[s]
    /\ holds[s].trigger # NoClient => link[holds[s].trigger] = "closed"
    /\ crashed' = TRUE
    /\ UNCHANGED <<isRunning, serverSocket, socket, at, holds, link, created,
                   main>>

\* Mutant: the socket of a client that has gone is closed first.
SendTriggerCloses(s) ==
    /\ at[s].trigger = "loop"
    /\ isRunning[s]
    /\ holds[s].trigger # NoClient
    /\ link[holds[s].trigger] = "gone"
    /\ link' = [link EXCEPT ![holds[s].trigger] = "closed"]
    /\ Goto(s, "trigger", "accept")
    /\ UNCHANGED <<isRunning, serverSocket, socket, holds, created, main, crashed>>

\* sendTriggerData; the first writes to a peer that has gone may succeed.
SendTrigger(s) ==
    /\ at[s].trigger = "loop"
    /\ isRunning[s]
    /\ holds[s].trigger # NoClient
    /\ \/ link[holds[s].trigger] \in {"held", "gone"} /\ Goto(s, "trigger", "loop")
       \/ link[holds[s].trigger] = "gone" /\ Goto(s, "trigger", "accept")
    /\ UNCHANGED <<isRunning, serverSocket, socket, holds, link, created, main,
                   crashed>>

TriggerStep(s) ==
    \/ AcceptStep(s, "trigger") \/ TriggerFailed(s) \/ TriggerStopped(s)
    \/ TriggerCrashes(s) \/ SendTrigger(s)

-----------------------------------------------------------------------------
(* The main thread: the service starts and stops servers                   *)

StartServer ==
    /\ main = "idle"
    /\ created < MaxServers
    /\ created > 0 => ~isRunning[created]
    /\ created' = created + 1
    /\ isRunning' = [isRunning EXCEPT ![created + 1] = TRUE]
    /\ at' = [at EXCEPT ![created + 1] =
                 [serving |-> "outer", trigger |-> "accept"]]
    /\ UNCHANGED <<serverSocket, socket, holds, link, main, crashed>>

\* Thread.stop() throws on Android: neither thread is stopped, and all that
\* ends them is the flag and the closed socket.
StopServer ==
    /\ main = "idle"
    /\ created > 0
    /\ isRunning[created]
    /\ isRunning' = [isRunning EXCEPT ![created] = FALSE]
    /\ main' = "stopping"
    /\ UNCHANGED <<serverSocket, socket, at, holds, link, created, crashed>>

StopCloses ==
    /\ main = "stopping"
    /\ CloseServerSocket(created, "main", "dead")
    /\ link' = BacklogLost(created, link)
    /\ main' = "idle"
    /\ UNCHANGED <<isRunning, socket, holds, created, crashed>>

-----------------------------------------------------------------------------
(* Clients                                                                 *)

Connect(c) ==
    /\ link[c] = "away"
    /\ ~PortFree
    /\ link' = [link EXCEPT ![c] = "queued"]
    /\ UNCHANGED <<isRunning, serverSocket, socket, at, holds, created, main,
                   crashed>>

Leave(c) ==
    /\ link[c] \in {"queued", "held"}
    /\ link' = [link EXCEPT ![c] = "gone"]
    /\ UNCHANGED <<isRunning, serverSocket, socket, at, holds, created, main,
                   crashed>>

-----------------------------------------------------------------------------
Init ==
    /\ isRunning = [s \in Servers |-> FALSE]
    /\ serverSocket = [s \in Servers |-> "none"]
    /\ socket = [s \in Servers |-> NoClient]
    /\ at = [s \in Servers |-> [t \in Threads |-> "new"]]
    /\ holds = [s \in Servers |-> [t \in Threads |-> NoClient]]
    /\ link = [c \in Clients |-> "away"]
    /\ created = 0
    /\ main = "idle"
    /\ crashed = FALSE

Next ==
    /\ ~crashed
    /\ \/ \E s \in Servers : ServingStep(s) \/ Session(s) \/ TriggerStep(s)
       \/ \E s \in Servers, t \in Threads : Accept(s, t)
       \/ StartServer \/ StopServer \/ StopCloses
       \/ \E c \in Clients : Connect(c) \/ Leave(c)

Spec == Init /\ [][Next]_tcpVars

Alive(A) == ~crashed /\ A

\* Threads run; a session may last for ever, and clients come when they like.
FairSpec ==
    /\ Spec
    /\ \A s \in Servers :
           /\ WF_tcpVars(Alive(ServingStep(s)))
           /\ WF_tcpVars(Alive(TriggerStep(s)))
    /\ WF_tcpVars(Alive(StopCloses))

-----------------------------------------------------------------------------
(* Properties                                                              *)

ServingStates == {"new", "outer", "create", "bind", "ready", "accept",
    "accepting", "configure", "return", "session", "failed", "bindFailed",
    "finally", "dead"}

TriggerStates == {"new", "accept", "accepting", "configure", "return", "loop",
    "failed", "dead"}

TypeOK ==
    /\ isRunning \in [Servers -> BOOLEAN]
    /\ serverSocket \in [Servers -> {"none", "unbound", "bound", "closed"}]
    /\ socket \in [Servers -> Clients \cup {NoClient}]
    /\ at \in [Servers -> [serving : ServingStates, trigger : TriggerStates]]
    /\ holds \in [Servers -> [Threads -> Clients \cup {NoClient}]]
    /\ link \in [Clients -> {"away", "queued", "held", "gone", "closed"}]
    /\ created \in 0..MaxServers
    /\ main \in {"idle", "stopping"}
    /\ main = "stopping" => created > 0
    /\ crashed \in BOOLEAN

\* stopServer has returned.
Stopped(s) ==
    s <= created /\ ~isRunning[s] /\ ~(main = "stopping" /\ s = created)

Accepted == {"held", "gone", "closed"}

\* The client sockets the fields and threads of a server refer to.
Sockets(s) ==
    {socket[s], holds[s].serving, holds[s].trigger} \ {NoClient}

\* A waiting accept has a bound socket, which is closed before there is
\* another; a stopped server has one only on its
\* way from bind to finally; servers that are not the service's do not run.
SocketInv ==
    \A s \in Servers :
        /\ \A t \in Threads : at[s][t] = "accepting" => serverSocket[s] = "bound"
        /\ at[s].serving = "create" => serverSocket[s] # "bound"
        /\ Stopped(s) /\ serverSocket[s] = "bound"
               => at[s].serving \in {"ready", "finally"}
        /\ s # created => ~isRunning[s]
        /\ s > created =>
               /\ at[s] = [t \in Threads |-> "new"]
               /\ serverSocket[s] = "none"
               /\ Sockets(s) = {}

\* No client belongs to two servers, and the serving thread has an open socket
\* from accept to the end of the session.
ClientInv ==
    /\ \A s \in Servers :
           /\ \A c \in Sockets(s) : link[c] \in Accepted
           /\ \A t \in Threads :
                  at[s][t] \in {"configure", "return"} => socket[s] # NoClient
           /\ at[s].serving \in {"configure", "return"} => link[socket[s]] # "closed"
           /\ at[s].serving = "session" =>
                  holds[s].serving # NoClient /\ link[holds[s].serving] # "closed"
    /\ \A r, s \in Servers : r # s => Sockets(r) \cap Sockets(s) = {}

\* The shared fields and the threads fit together.
TcpInv == TypeOK /\ SocketInv /\ ClientInv

\* A serving thread takes a client from the backlog only while stopServer has
\* not returned, although nothing stops the thread and it may even bind the
\* port once again.
NoClientAfterStop ==
    [][\A s \in Servers :
        at[s].serving = "accepting" /\ at'[s].serving = "configure"
            => ~Stopped(s)]_tcpVars

\* A thread only works with a socket that was accepted, and the serving thread
\* never with one that was closed: the trigger thread closes none.
SessionHasOpenSocket ==
    \A s \in Servers :
        at[s].serving = "session" => link[holds[s].serving] \in {"held", "gone"}

\* A stopped server gives the port back for good.
PortReleased ==
    \A s \in Servers :
        Stopped(s) ~> [](crashed \/ serverSocket[s] # "bound")

\* The threads of a stopped server end, except for a session, which may last.
ThreadsEnd ==
    \A s \in Servers :
        Stopped(s) ~> \/ crashed
                      \/ /\ at[s].serving \in {"session", "dead"}
                         /\ at[s].trigger = "dead"

\* The only server, once bound, is ready for the next client after every
\* session that ends, unless it is stopped.
ServerReopens ==
    \A s \in Servers :
        at[s].serving \in {"ready", "failed"} ~>
            \/ crashed \/ ~isRunning[s]
            \/ at[s].serving \in {"accepting", "session"}

-----------------------------------------------------------------------------
(* What a comment of the code says                                         *)

\* "Accepts a connection request and returns the connected socket": no two
\* threads are given the same client.
EachThreadItsClient ==
    \A s \in Servers :
        at[s].serving = "session" => holds[s].serving # holds[s].trigger
=============================================================================
