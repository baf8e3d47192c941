------------------------------ MODULE TcpProofs ------------------------------
(***************************************************************************)
(* The threads of TcpServer for any number of servers and clients: TcpInv  *)
(* is inductive, no client is taken after stopServer, and a session always *)
(* has an open socket.                                                     *)
(***************************************************************************)
EXTENDS TcpServer, TLAPS

LEMMA InitInv == Init => TcpInv
  <1> SUFFICES ASSUME Init PROVE TcpInv
      OBVIOUS
  <1> USE TcpAssumption DEF Init, Servers, Threads
  <1> DEFINE new == [t \in Threads |-> "new"]
  <1>0. new \in [serving : ServingStates, trigger : TriggerStates]
      BY DEF ServingStates, TriggerStates
  <1>1. TypeOK
    <2>1. at \in [Servers -> [serving : ServingStates, trigger : TriggerStates]]
        BY <1>0
    <2>2. 0 \in 0..MaxServers
        OBVIOUS
    <2> QED BY <2>1, <2>2 DEF TypeOK
  <1>2. SocketInv
      BY DEF SocketInv, Stopped, Sockets
  <1>3. ClientInv
      BY DEF ClientInv, Sockets
  <1> QED BY <1>1, <1>2, <1>3 DEF TcpInv

LEMMA ServerNumbers ==
    /\ Servers \subseteq Nat
    /\ \A s \in Servers : s \in Nat \ {0}
    BY TcpAssumption DEF Servers

\* What closing a server socket does to the sockets and threads of one server.
LEMMA CloseEffect ==
    ASSUME TypeOK, NEW s \in Servers, NEW t, NEW l,
           CloseServerSocket(s, t, l),
           t = "serving" => l \in ServingStates,
           t # "trigger"
    PROVE  /\ serverSocket' \in [Servers -> {"none", "unbound", "bound", "closed"}]
           /\ serverSocket'[s] \in {"none", "closed"}
           /\ serverSocket[s] = "none" => serverSocket'[s] = "none"
           /\ \A r \in Servers : r # s => serverSocket'[r] = serverSocket[r]
           /\ at' \in [Servers -> [serving : ServingStates, trigger : TriggerStates]]
           /\ \A r \in Servers : r # s => at'[r] = at[r]
           /\ \A u \in Threads : u # t =>
                  at'[s][u] = IF at[s][u] = "accepting" THEN "failed" ELSE at[s][u]
           /\ t = "serving" => at'[s].serving = l
  <1> USE DEF TypeOK, CloseServerSocket, Threads
  <1>1. serverSocket' \in [Servers -> {"none", "unbound", "bound", "closed"}]
        /\ serverSocket'[s] \in {"none", "closed"}
        /\ (serverSocket[s] = "none" => serverSocket'[s] = "none")
        /\ \A r \in Servers : r # s => serverSocket'[r] = serverSocket[r]
      OBVIOUS
  <1> DEFINE new == [u \in Threads |-> IF u = t THEN l
                         ELSE IF at[s][u] = "accepting" THEN "failed" ELSE at[s][u]]
  <1>2. at[s] \in [serving : ServingStates, trigger : TriggerStates]
      OBVIOUS
  <1>3. new \in [serving : ServingStates, trigger : TriggerStates]
      BY <1>2 DEF ServingStates, TriggerStates
  <1>4. at' = [at EXCEPT ![s] = new]
      OBVIOUS
  <1>5. at' \in [Servers -> [serving : ServingStates, trigger : TriggerStates]]
        /\ at'[s] = new
        /\ \A r \in Servers : r # s => at'[r] = at[r]
      BY <1>3, <1>4
  <1>6. \A u \in Threads : u # t =>
            at'[s][u] = IF at[s][u] = "accepting" THEN "failed" ELSE at[s][u]
      BY <1>5
  <1>7. t = "serving" => at'[s].serving = l
      BY <1>5
  <1> QED BY <1>1, <1>5, <1>6, <1>7

\* What moving one thread on does.
LEMMA GotoEffect ==
    ASSUME TypeOK, NEW s \in Servers, NEW t \in Threads, NEW l, Goto(s, t, l),
           t = "serving" => l \in ServingStates,
           t = "trigger" => l \in TriggerStates
    PROVE  /\ at' \in [Servers -> [serving : ServingStates, trigger : TriggerStates]]
           /\ \A r \in Servers : r # s => at'[r] = at[r]
           /\ \A u \in Threads : u # t => at'[s][u] = at[s][u]
           /\ at'[s][t] = l
    BY DEF TypeOK, Goto, Threads

-----------------------------------------------------------------------------
\* What SocketInv says of one server.
SocketsFit(r) ==
    /\ \A u \in Threads : at[r][u] = "accepting" => serverSocket[r] = "bound"
    /\ at[r].serving = "create" => serverSocket[r] # "bound"
    /\ Stopped(r) /\ serverSocket[r] = "bound"
           => at[r].serving \in {"ready", "finally"}
    /\ r # created => ~isRunning[r]
    /\ r > created =>
           /\ at[r] = [u \in Threads |-> "new"]
           /\ serverSocket[r] = "none"
           /\ Sockets(r) = {}

LEMMA SocketInvByServer == SocketInv <=> \A r \in Servers : SocketsFit(r)
    BY DEF SocketInv, SocketsFit

\* ClientInv says something about each server, given that the sockets of
\* different servers are different.
ClientsOf(r) ==
    /\ \A c \in Sockets(r) : link[c] \in Accepted
    /\ \A u \in Threads :
           at[r][u] \in {"configure", "return"} => socket[r] # NoClient
    /\ at[r].serving \in {"configure", "return"} => link[socket[r]] # "closed"
    /\ at[r].serving = "session" =>
           holds[r].serving # NoClient /\ link[holds[r].serving] # "closed"

LEMMA ClientInvByServer ==
    ClientInv <=> /\ \A r \in Servers : ClientsOf(r)
                  /\ \A r, s \in Servers : r # s => Sockets(r) \cap Sockets(s) = {}
    BY DEF ClientInv, ClientsOf

\* A server keeps its part when its threads stay where they are and none of
\* its connections is closed.
LEMMA ClientsOfKept ==
    ASSUME NEW r \in Servers, ClientsOf(r),
           UNCHANGED <<at[r], socket[r], holds[r]>>,
           \A d \in Sockets(r) : /\ link'[d] \in Accepted
                                 /\ link[d] # "closed" => link'[d] # "closed"
    PROVE  ClientsOf(r)'
  <1>1. /\ socket[r] # NoClient => socket[r] \in Sockets(r)
        /\ holds[r].serving # NoClient => holds[r].serving \in Sockets(r)
        /\ Sockets(r)' = Sockets(r)
      BY DEF Sockets
  <1> QED BY <1>1 DEF ClientsOf, Threads

\* Steps that leave the connections alone and take no thread into a session.
LEMMA ClientsKept ==
    ASSUME ClientInv, UNCHANGED <<socket, holds, link>>,
           \A r \in Servers, u \in Threads :
               at'[r][u] \in {"configure", "return"} =>
                   at[r][u] \in {"configure", "return"},
           \A r \in Servers :
               at'[r].serving = "session" => at[r].serving = "session"
    PROVE  ClientInv'
  <1>1. \A r \in Servers : Sockets(r)' = Sockets(r)
      BY DEF Sockets
  <1>2. ASSUME NEW r \in Servers
        PROVE  /\ at'[r].serving \in {"configure", "return"} =>
                      at[r].serving \in {"configure", "return"}
      BY DEF Threads
  <1> QED BY <1>1, <1>2 DEF ClientInv, Accepted

-----------------------------------------------------------------------------
(* acceptClientConnection                                                  *)

LEMMA AcceptKeepsInv ==
    ASSUME TcpInv, NEW s \in Servers, NEW t \in Threads,
           AcceptStep(s, t) \/ Accept(s, t)
    PROVE  TcpInv'
  <1> USE TcpAssumption DEF TcpInv, Threads
  <1>1. CASE CheckServerSocket(s, t)
    <2> DEFINE l == IF serverSocket[s] = "bound" THEN "accepting" ELSE "failed"
    <2>1. Goto(s, t, l) /\ at[s][t] = "accept"
        BY <1>1 DEF CheckServerSocket
    <2> HIDE DEF l
    <2>2. l \in {"accepting", "failed"} /\ (l = "accepting" => serverSocket[s] = "bound")
        BY DEF l
    <2>3. l \in ServingStates /\ l \in TriggerStates
        BY <2>2 DEF ServingStates, TriggerStates
    <2>4. TypeOK'
        BY <1>1, <2>1, <2>3, GotoEffect DEF CheckServerSocket, TypeOK
    <2>5. SocketInv'
        BY <1>1, <2>1, <2>2, <2>3, GotoEffect
           DEF CheckServerSocket, SocketInv, Stopped, Sockets
    <2>6. ClientInv'
        BY <1>1, <2>1, <2>2, <2>3, GotoEffect, ClientsKept DEF CheckServerSocket
    <2> QED BY <2>4, <2>5, <2>6
  <1>2. CASE ConfigureSocket(s, t)
    <2> DEFINE l == IF link[socket[s]] = "closed" THEN "failed" ELSE "return"
    <2>1. Goto(s, t, l) /\ at[s][t] = "configure"
        BY <1>2 DEF ConfigureSocket
    <2> HIDE DEF l
    <2>2. l \in {"return", "failed"}
        BY DEF l
    <2>3. l \in ServingStates /\ l \in TriggerStates
        BY <2>2 DEF ServingStates, TriggerStates
    <2>4. TypeOK'
        BY <1>2, <2>1, <2>3, GotoEffect DEF ConfigureSocket, TypeOK
    <2>5. SocketInv'
        BY <1>2, <2>1, <2>2, <2>3, GotoEffect
           DEF ConfigureSocket, SocketInv, Stopped, Sockets
    <2>6. ClientInv'
        BY <1>2, <2>1, <2>2, <2>3, GotoEffect, ClientsKept DEF ConfigureSocket
    <2> QED BY <2>4, <2>5, <2>6
  <1>3. CASE ReturnSocket(s, t)
    <2> DEFINE l == IF t = "serving" THEN "session" ELSE "loop"
    <2>1. /\ Goto(s, t, l) /\ at[s][t] = "return"
          /\ holds' = [holds EXCEPT ![s][t] = socket[s]]
          /\ UNCHANGED <<isRunning, serverSocket, socket, link, created, main, crashed>>
        BY <1>3 DEF ReturnSocket
    <2>2. /\ t = "serving" => l = "session"
          /\ t = "trigger" => l = "loop"
        OBVIOUS
    <2> HIDE DEF l
    <2>3. /\ t = "serving" => l \in ServingStates
          /\ t = "trigger" => l \in TriggerStates
        BY <2>2 DEF ServingStates, TriggerStates
    <2>4. holds' \in [Servers -> [Threads -> Clients \cup {NoClient}]]
          /\ holds'[s][t] = socket[s]
          /\ (\A u \in Threads : u # t => holds'[s][u] = holds[s][u])
          /\ \A r \in Servers : r # s => holds'[r] = holds[r]
        BY <2>1 DEF TypeOK
    <2>5. TypeOK'
        BY <2>1, <2>3, <2>4, GotoEffect DEF TypeOK
    <2>6. \A r \in Servers : Sockets(r)' \subseteq Sockets(r)
        BY <2>1, <2>4 DEF Sockets
    <2>7. SocketInv'
        BY <2>1, <2>2, <2>3, <2>6, GotoEffect DEF SocketInv, Stopped
    <2>8. ClientInv'
        BY <2>1, <2>2, <2>3, <2>4, <2>6, GotoEffect DEF ClientInv, Accepted
    <2> QED BY <2>5, <2>7, <2>8
  <1>4. CASE Accept(s, t)
    <2>1. PICK c \in Clients :
              /\ link[c] = "queued"
              /\ link' = [link EXCEPT ![c] = "held"]
              /\ socket' = [socket EXCEPT ![s] = c]
        BY <1>4 DEF Accept
    <2>2. /\ Goto(s, t, "configure") /\ at[s][t] = "accepting"
          /\ UNCHANGED <<isRunning, serverSocket, holds, created, main, crashed>>
        BY <1>4 DEF Accept
    <2>3. "configure" \in ServingStates /\ "configure" \in TriggerStates
        BY DEF ServingStates, TriggerStates
    <2>4. TypeOK'
        BY <2>1, <2>2, <2>3, GotoEffect DEF TypeOK
    <2>5. /\ Sockets(s)' \subseteq Sockets(s) \cup {c}
          /\ \A r \in Servers : r # s => Sockets(r)' = Sockets(r)
        BY <2>1, <2>2 DEF Sockets, TypeOK
    <2>6. \A r \in Servers : c \notin Sockets(r)
        BY <2>1 DEF ClientInv, Accepted
    <2>7. SocketInv'
        BY <2>1, <2>2, <2>3, <2>5, GotoEffect DEF SocketInv, Stopped
    <2>8. /\ at'[s][t] = "configure" /\ socket'[s] = c /\ link'[c] = "held"
          /\ \A u \in Threads : u # t => at'[s][u] = at[s][u]
          /\ \A r \in Servers : r # s => at'[r] = at[r] /\ socket'[r] = socket[r]
          /\ \A d \in Clients : d # c => link'[d] = link[d]
        BY <2>1, <2>2, <2>3, GotoEffect DEF TypeOK
    <2>9. \A r \in Servers : Sockets(r) \subseteq Clients
        BY DEF Sockets, TypeOK
    <2>10. ASSUME NEW r \in Servers
           PROVE  ClientsOf(r)'
      <3>1. ClientsOf(r) /\ \A d \in Sockets(r) : link'[d] = link[d]
          BY <2>6, <2>8, <2>9, ClientInvByServer
      <3>2. CASE r # s
          BY <3>1, <3>2, <2>2, <2>8, ClientsOfKept DEF ClientsOf
      <3>3. CASE r = s
        <4>1. \A d \in Sockets(s)' : link'[d] \in Accepted
            BY <3>1, <3>3, <2>5, <2>8 DEF ClientsOf, Accepted
        <4>2. c # NoClient
            BY TcpAssumption
        <4>3. holds[s].serving # NoClient => holds[s].serving \in Sockets(s)
            BY DEF Sockets
        <4> QED BY <4>1, <4>2, <4>3, <3>1, <3>3, <2>2, <2>8 DEF ClientsOf
      <3> QED BY <3>2, <3>3
    <2>11. ASSUME NEW r \in Servers, NEW q \in Servers, r # q
           PROVE  Sockets(r)' \cap Sockets(q)' = {}
        BY <2>5, <2>6, <2>11, ClientInvByServer
    <2>12. ClientInv'
        BY <2>10, <2>11 DEF ClientInv, ClientsOf
    <2> QED BY <2>4, <2>7, <2>12
  <1> QED BY <1>1, <1>2, <1>3, <1>4 DEF AcceptStep

-----------------------------------------------------------------------------
(* Closing the server socket                                               *)

\* A close keeps the sockets in order, whichever of the three threads asks
\* for it; only what it leaves of the connections depends on the caller.
LEMMA CloseKeepsSockets ==
    ASSUME TypeOK, SocketInv, NEW s \in Servers, NEW t, NEW l,
           CloseServerSocket(s, t, l),
           t = "serving" => l \in ServingStates \ {"new", "accepting"},
           t # "trigger",
           s <= created,
           UNCHANGED <<isRunning, socket, created>>,
           \A r \in Servers : Sockets(r)' \subseteq Sockets(r),
           main' # main => main' = "idle" /\ s = created
    PROVE  SocketInv'
  <1>1. t = "serving" => l \in ServingStates
      OBVIOUS
  <1>2. /\ serverSocket'[s] \in {"none", "closed"}
        /\ \A r \in Servers : r # s => serverSocket'[r] = serverSocket[r]
        /\ \A r \in Servers : r # s => at'[r] = at[r]
        /\ \A u \in Threads : u # t =>
              at'[s][u] = IF at[s][u] = "accepting" THEN "failed" ELSE at[s][u]
        /\ t = "serving" => at'[s].serving = l
      BY <1>1, CloseEffect
  <1>3. \A u \in Threads : at'[s][u] # "accepting"
      BY <1>2 DEF Threads
  <1>4. ASSUME NEW r \in Servers
        PROVE  /\ \A u \in Threads :
                      at'[r][u] = "accepting" => serverSocket'[r] = "bound"
               /\ at'[r].serving = "create" => serverSocket'[r] # "bound"
               /\ Stopped(r)' /\ serverSocket'[r] = "bound"
                      => at'[r].serving \in {"ready", "finally"}
               /\ r # created' => ~isRunning'[r]
               /\ r > created' => /\ at'[r] = [u \in Threads |-> "new"]
                                  /\ serverSocket'[r] = "none"
                                  /\ Sockets(r)' = {}
    <2>0. r \in Nat /\ s \in Nat /\ created \in Nat
        BY ServerNumbers DEF TypeOK
    <2>1. CASE r = s
        BY <2>0, <2>1, <1>2, <1>3 DEF SocketInv
    <2>2. CASE r # s
      <3>1. /\ \A u \in Threads : at[r][u] = "accepting" => serverSocket[r] = "bound"
            /\ at[r].serving = "create" => serverSocket[r] # "bound"
            /\ Stopped(r) /\ serverSocket[r] = "bound"
                   => at[r].serving \in {"ready", "finally"}
            /\ r # created => ~isRunning[r]
            /\ r > created => /\ at[r] = [u \in Threads |-> "new"]
                              /\ serverSocket[r] = "none"
                              /\ Sockets(r) = {}
          BY DEF SocketInv
      <3>2. Stopped(r)' => Stopped(r)
          BY <2>2 DEF Stopped
      <3> QED BY <2>0, <2>2, <1>2, <3>1, <3>2
    <2> QED BY <2>1, <2>2
  <1> QED BY <1>4 DEF SocketInv

\* What is lost with the backlog was held by nobody.
LEMMA BacklogEffect ==
    ASSUME NEW clients \in [Clients -> {"away", "queued", "held", "gone", "closed"}],
           NEW s \in Servers
    PROVE  /\ BacklogLost(s, clients) \in
                  [Clients -> {"away", "queued", "held", "gone", "closed"}]
           /\ \A c \in Clients : clients[c] # "queued" =>
                  BacklogLost(s, clients)[c] = clients[c]
           /\ \A c \in Clients : BacklogLost(s, clients)[c] \in {clients[c], "gone"}
    BY DEF BacklogLost

\* Closing the server socket between two sessions.
LEMMA PlainCloseKeepsInv ==
    ASSUME TcpInv, NEW s \in Servers, NEW t, NEW l,
           CloseServerSocket(s, t, l),
           t = "serving" => l \in {"create", "dead", "outer"},
           t # "trigger",
           s <= created,
           link' = BacklogLost(s, link),
           UNCHANGED <<isRunning, socket, holds, created, crashed>>,
           main' \in {main, "idle"},
           main' # main => s = created
    PROVE  TcpInv'
  <1> USE DEF TcpInv
  <1>1. t = "serving" => l \in ServingStates \ {"new", "accepting"}
      BY DEF ServingStates
  <1>2. link \in [Clients -> {"away", "queued", "held", "gone", "closed"}]
      BY DEF TypeOK
  <1>3. TypeOK'
      BY <1>1, <1>2, CloseEffect, BacklogEffect DEF TypeOK
  <1>4. \A r \in Servers : Sockets(r)' = Sockets(r)
      BY DEF Sockets
  <1>5. SocketInv'
      BY <1>1, <1>4, CloseKeepsSockets
  <1>6. /\ \A r \in Servers : r # s => at'[r] = at[r]
        /\ \A u \in Threads : u # t =>
              at'[s][u] = IF at[s][u] = "accepting" THEN "failed" ELSE at[s][u]
        /\ t = "serving" => at'[s].serving = l
      BY <1>1, CloseEffect
  <1>7. ASSUME NEW r \in Servers, NEW u \in Threads,
               at'[r][u] \in {"configure", "return", "session"}
        PROVE  at[r][u] = at'[r][u]
      BY <1>6, <1>7 DEF Threads
  <1>8. \A r \in Servers : Sockets(r) \subseteq Clients
      BY DEF Sockets, TypeOK, Threads
  <1>9. \A r \in Servers : \A c \in Sockets(r) : link'[c] = link[c]
      BY <1>2, <1>8, BacklogEffect DEF ClientInv, Accepted
  <1>10. ASSUME NEW r \in Servers
         PROVE  /\ \A c \in Sockets(r)' : link'[c] \in Accepted
                /\ \A u \in Threads :
                      at'[r][u] \in {"configure", "return"} => socket'[r] # NoClient
                /\ at'[r].serving \in {"configure", "return"}
                      => link'[socket'[r]] # "closed"
                /\ at'[r].serving = "session" =>
                      holds'[r].serving # NoClient /\ link'[holds'[r].serving] # "closed"
    <2>1. /\ \A c \in Sockets(r) : link[c] \in Accepted
          /\ \A u \in Threads :
                at[r][u] \in {"configure", "return"} => socket[r] # NoClient
          /\ at[r].serving \in {"configure", "return"} => link[socket[r]] # "closed"
          /\ at[r].serving = "session" =>
                holds[r].serving # NoClient /\ link[holds[r].serving] # "closed"
        BY DEF ClientInv
    <2>2. /\ socket[r] # NoClient => link'[socket[r]] = link[socket[r]]
          /\ holds[r].serving # NoClient =>
                link'[holds[r].serving] = link[holds[r].serving]
        BY <1>9 DEF Sockets
    <2> QED BY <2>1, <2>2, <1>4, <1>7, <1>9 DEF Threads
  <1> QED BY <1>3, <1>5, <1>4, <1>10 DEF ClientInv

-----------------------------------------------------------------------------
(* The serving thread                                                      *)

\* A thread that runs belongs to a server that was created.
LEMMA RunningCreated ==
    ASSUME TypeOK, SocketInv, NEW s \in Servers, NEW t \in Threads,
           at[s][t] # "new"
    PROVE  s <= created
  <1>1. s \in Nat /\ created \in Nat
      BY ServerNumbers DEF TypeOK
  <1>2. s > created => at[s] = [u \in Threads |-> "new"]
      BY DEF SocketInv
  <1> QED BY <1>1, <1>2

LEMMA ServingMovesKeepInv ==
    ASSUME TcpInv, NEW s \in Servers,
           \/ BindFails(s) \/ Ready(s) \/ ServingFailed(s)
           \/ Restart(s) /\ ~isRunning[s]
    PROVE  TcpInv'
  <1> USE DEF TcpInv
  <1>1. PICK l \in {"bindFailed", "accept", "finally", "dead"} :
            /\ Goto(s, "serving", l)
            /\ UNCHANGED <<isRunning, serverSocket, socket, holds, link, created, main,
                           crashed>>
            /\ at[s].serving \in {"bind", "ready", "failed", "outer"}
            /\ at[s].serving = "ready" => isRunning[s] \/ l = "finally"
      BY DEF BindFails, Ready, ServingFailed, Restart
  <1>2. l \in ServingStates
      BY DEF ServingStates
  <1>3. "serving" \in Threads
      BY DEF Threads
  <1>4. TypeOK'
      BY <1>1, <1>2, <1>3, GotoEffect DEF TypeOK
  <1>5. s <= created
      BY <1>1, <1>3, RunningCreated
  <1>6. /\ \A r \in Servers : r # s => at'[r] = at[r]
        /\ \A u \in Threads : u # "serving" => at'[s][u] = at[s][u]
        /\ at'[s].serving = l
      BY <1>1, <1>2, <1>3, GotoEffect
  <1>7. \A r \in Servers : Sockets(r)' = Sockets(r) /\ (Stopped(r)' <=> Stopped(r))
      BY <1>1 DEF Sockets, Stopped
  <1>8. s \in Nat /\ created \in Nat
      BY ServerNumbers DEF TypeOK
  <1>9. SocketInv'
      BY <1>1, <1>3, <1>5, <1>6, <1>7, <1>8 DEF SocketInv, Stopped, Threads
  <1>10. ClientInv'
      BY <1>1, <1>3, <1>6, ClientsKept DEF Threads
  <1> QED BY <1>4, <1>9, <1>10

\* The two steps that give the server object another socket.
LEMMA NewSocketKeepsInv ==
    ASSUME TcpInv, NEW s \in Servers, CreateServerSocket(s) \/ Bind(s)
    PROVE  TcpInv'
  <1> USE DEF TcpInv
  <1>1. PICK l \in {"bind", "ready"}, new \in {"unbound", "bound"} :
            /\ Goto(s, "serving", l)
            /\ at[s].serving \in {"create", "bind"}
            /\ serverSocket' = [serverSocket EXCEPT ![s] = new]
            /\ new = "bound" => l = "ready"
            /\ new = "unbound" => at[s].serving = "create"
            /\ UNCHANGED <<isRunning, socket, holds, link, created, main, crashed>>
      BY DEF CreateServerSocket, Bind
  <1>2. l \in ServingStates
      BY DEF ServingStates
  <1>3. "serving" \in Threads
      BY DEF Threads
  <1>4. TypeOK'
      BY <1>1, <1>2, <1>3, GotoEffect DEF TypeOK
  <1>5. s <= created
      BY <1>1, <1>3, RunningCreated
  <1>6. /\ \A r \in Servers : r # s => at'[r] = at[r]
        /\ \A u \in Threads : u # "serving" => at'[s][u] = at[s][u]
        /\ at'[s].serving = l
      BY <1>1, <1>2, <1>3, GotoEffect
  <1>7. /\ serverSocket'[s] = new
        /\ \A r \in Servers : r # s => serverSocket'[r] = serverSocket[r]
      BY <1>1 DEF TypeOK
  <1>8. \A r \in Servers : Sockets(r)' = Sockets(r) /\ (Stopped(r)' <=> Stopped(r))
      BY <1>1 DEF Sockets, Stopped
  <1>9. s \in Nat /\ created \in Nat
      BY ServerNumbers DEF TypeOK
  <1>10. new = "unbound" => \A u \in Threads : at[s][u] # "accepting"
      BY <1>1 DEF SocketInv
  <1>11. SocketInv'
      BY <1>1, <1>3, <1>5, <1>6, <1>7, <1>8, <1>9, <1>10
         DEF SocketInv, Stopped, Threads
  <1>12. ClientInv'
      BY <1>1, <1>3, <1>6, ClientsKept DEF Threads
  <1> QED BY <1>4, <1>11, <1>12

\* The end of a session closes one connection, which no other server and not
\* the accept of the trigger thread is about to hand on.
LEMMA SessionKeepsInv ==
    ASSUME TcpInv, NEW s \in Servers, Session(s)
    PROVE  TcpInv'
  <1> USE DEF TcpInv
  <1> DEFINE c == holds[s].serving
             closed == [link EXCEPT ![c] = "closed"]
  <1>1. /\ at[s].serving = "session"
        /\ holds' = [holds EXCEPT ![s].serving = NoClient]
        /\ UNCHANGED <<isRunning, socket, created, main, crashed>>
      BY DEF Session, SessionEnds, SessionFails
  <1>2. /\ c \in Clients /\ c \in Sockets(s)
        /\ closed \in [Clients -> {"away", "queued", "held", "gone", "closed"}]
        /\ closed[c] = "closed"
        /\ \A d \in Clients : d # c => closed[d] = link[d]
      BY <1>1 DEF ClientInv, TypeOK, Sockets, Threads
  <1>3. /\ link' \in [Clients -> {"away", "queued", "held", "gone", "closed"}]
        /\ link'[c] = "closed"
        /\ \A d \in Clients : d # c /\ link[d] # "queued" => link'[d] = link[d]
    <2> HIDE DEF c, closed
    <2>1. link' = closed \/ link' = BacklogLost(s, closed)
        BY DEF Session, SessionEnds, SessionFails, closed, c
    <2> QED BY <1>2, <2>1, BacklogEffect
  <1> HIDE DEF c, closed
  <1>4. /\ holds' \in [Servers -> [Threads -> Clients \cup {NoClient}]]
        /\ holds'[s].serving = NoClient
        /\ holds'[s].trigger = holds[s].trigger
        /\ \A r \in Servers : r # s => holds'[r] = holds[r]
      BY <1>1 DEF TypeOK, Threads
  <1>5. \A r \in Servers : Sockets(r)' \subseteq Sockets(r)
      BY <1>1, <1>4 DEF Sockets
  <1>6. "serving" \in Threads /\ "ready" \in ServingStates \ {"new", "accepting"}
      BY DEF Threads, ServingStates
  <1>7. s <= created
      BY <1>1, <1>6, RunningCreated
  <1>8. /\ TypeOK' /\ SocketInv'
        /\ \A r \in Servers : r # s => at'[r] = at[r]
        /\ \A u \in Threads : at'[s][u] \in {at[s][u], "ready", "failed"}
        /\ at'[s].serving = "ready"
    <2>1. CASE SessionEnds(s)
      <3>1. Goto(s, "serving", "ready") /\ serverSocket' = serverSocket
          BY <2>1 DEF SessionEnds
      <3>2. /\ at' \in [Servers -> [serving : ServingStates, trigger : TriggerStates]]
            /\ \A r \in Servers : r # s => at'[r] = at[r]
            /\ \A u \in Threads : u # "serving" => at'[s][u] = at[s][u]
            /\ at'[s].serving = "ready"
          BY <3>1, <1>6, GotoEffect
      <3>3. TypeOK'
          BY <1>1, <1>3, <1>4, <3>1, <3>2 DEF TypeOK
      <3>4. main' = main
          BY <2>1 DEF SessionEnds
      <3>5. s \in Nat /\ created \in Nat
          BY ServerNumbers DEF TypeOK
      <3>6. SocketInv'
          BY <1>1, <1>5, <1>6, <1>7, <3>1, <3>2, <3>4, <3>5
             DEF SocketInv, Stopped, Threads
      <3> QED BY <3>2, <3>3, <3>6
    <2>2. CASE SessionFails(s)
      <3>1. CloseServerSocket(s, "serving", "ready") /\ main' = main
          BY <2>2, <1>1 DEF SessionFails
      <3>2. /\ serverSocket' \in [Servers -> {"none", "unbound", "bound", "closed"}]
            /\ at' \in [Servers -> [serving : ServingStates, trigger : TriggerStates]]
            /\ \A r \in Servers : r # s => at'[r] = at[r]
            /\ \A u \in Threads : u # "serving" =>
                  at'[s][u] = IF at[s][u] = "accepting" THEN "failed" ELSE at[s][u]
            /\ at'[s].serving = "ready"
          BY <3>1, <1>6, CloseEffect
      <3>3. TypeOK'
          BY <1>1, <1>3, <1>4, <3>1, <3>2 DEF TypeOK
      <3>4. SocketInv'
          BY <1>1, <1>5, <1>6, <1>7, <3>1, CloseKeepsSockets
      <3> QED BY <3>2, <3>3, <3>4
    <2> QED BY <2>1, <2>2 DEF Session
  <1>9. ASSUME NEW r \in Servers, r # s
        PROVE  /\ at'[r] = at[r] /\ holds'[r] = holds[r]
               /\ Sockets(r)' = Sockets(r)
               /\ \A d \in Sockets(r) : link'[d] = link[d]
    <2>1. c \notin Sockets(r)
        BY <1>2, <1>9 DEF ClientInv
    <2>2. Sockets(r) \subseteq Clients
        BY DEF Sockets, TypeOK, Threads
    <2>3. \A d \in Sockets(r) : link[d] # "queued"
        BY DEF ClientInv, Accepted
    <2> QED BY <1>1, <1>3, <1>4, <1>8, <1>9, <2>1, <2>2, <2>3 DEF Sockets
  <1>10. ASSUME NEW d \in Sockets(s)
         PROVE  link'[d] \in Accepted
    <2>1. d \in Clients
        BY DEF Sockets, TypeOK, Threads
    <2>2. link[d] \in Accepted
        BY DEF ClientInv
    <2> QED BY <1>3, <2>1, <2>2 DEF Accepted
  <1>11. ASSUME NEW r \in Servers
         PROVE  /\ \A d \in Sockets(r)' : link'[d] \in Accepted
                /\ \A u \in Threads :
                      at'[r][u] \in {"configure", "return"} => socket'[r] # NoClient
                /\ at'[r].serving \in {"configure", "return"}
                      => link'[socket'[r]] # "closed"
                /\ at'[r].serving = "session" =>
                      holds'[r].serving # NoClient /\ link'[holds'[r].serving] # "closed"
    <2>1. /\ \A d \in Sockets(r) : link[d] \in Accepted
          /\ \A u \in Threads :
                at[r][u] \in {"configure", "return"} => socket[r] # NoClient
          /\ at[r].serving \in {"configure", "return"} => link[socket[r]] # "closed"
          /\ at[r].serving = "session" =>
                holds[r].serving # NoClient /\ link[holds[r].serving] # "closed"
        BY DEF ClientInv
    <2>2. CASE r = s
        BY <2>1, <2>2, <1>1, <1>5, <1>8, <1>10 DEF Threads
    <2>3. CASE r # s
      <3>1. /\ socket[r] # NoClient => socket[r] \in Sockets(r)
            /\ holds[r].serving # NoClient => holds[r].serving \in Sockets(r)
          BY DEF Sockets
      <3> QED BY <2>1, <2>3, <3>1, <1>1, <1>9 DEF Threads
    <2> QED BY <2>2, <2>3
  <1>12. ClientInv'
      BY <1>5, <1>11 DEF ClientInv
  <1> QED BY <1>8, <1>12

LEMMA ServingKeepsInv ==
    ASSUME TcpInv, NEW s \in Servers, ServingStep(s)
    PROVE  TcpInv'
  <1>1. "serving" \in Threads /\ TypeOK /\ SocketInv
      BY DEF Threads, TcpInv
  <1>2. CASE AcceptStep(s, "serving")
      BY <1>1, <1>2, AcceptKeepsInv
  <1>3. CASE BindFails(s) \/ Ready(s) \/ ServingFailed(s)
      BY <1>3, ServingMovesKeepInv
  <1>4. CASE CreateServerSocket(s) \/ Bind(s)
      BY <1>4, NewSocketKeepsInv
  <1>5. CASE GiveUp(s) \/ Finally(s)
    <2>1. PICK l \in {"dead", "outer"} :
              /\ CloseServerSocket(s, "serving", l)
              /\ link' = BacklogLost(s, link)
              /\ UNCHANGED <<isRunning, socket, holds, created, main, crashed>>
              /\ at[s].serving # "new"
        BY <1>5 DEF GiveUp, Finally
    <2>2. s <= created
        BY <1>1, <2>1, RunningCreated
    <2> QED BY <2>1, <2>2, PlainCloseKeepsInv
  <1>6. CASE Restart(s)
    <2>1. CASE isRunning[s]
      <3>1. /\ CloseServerSocket(s, "serving", "create")
            /\ link' = BacklogLost(s, link)
            /\ UNCHANGED <<isRunning, socket, holds, created, main, crashed>>
            /\ at[s].serving # "new"
          BY <1>6, <2>1 DEF Restart
      <3>2. s <= created
          BY <1>1, <3>1, RunningCreated
      <3> QED BY <3>1, <3>2, PlainCloseKeepsInv
    <2>2. CASE ~isRunning[s]
        BY <1>6, <2>2, ServingMovesKeepInv
    <2> QED BY <2>1, <2>2
  <1> QED BY <1>2, <1>3, <1>4, <1>5, <1>6 DEF ServingStep

-----------------------------------------------------------------------------
(* The trigger thread, the main thread and the clients                     *)

LEMMA TriggerKeepsInv ==
    ASSUME TcpInv, NEW s \in Servers, TriggerStep(s)
    PROVE  TcpInv'
  <1> USE DEF TcpInv
  <1>1. "trigger" \in Threads
      BY DEF Threads
  <1>2. CASE AcceptStep(s, "trigger")
      BY <1>1, <1>2, AcceptKeepsInv
  <1>3. CASE TriggerCrashes(s)
    <2>1. /\ UNCHANGED <<isRunning, serverSocket, socket, at, holds, link, created,
                         main>>
          /\ crashed' \in BOOLEAN
        BY <1>3 DEF TriggerCrashes
    <2>2. TypeOK'
        BY <2>1 DEF TypeOK
    <2>3. SocketInv'
        BY <2>1 DEF SocketInv, Stopped, Sockets
    <2>4. ClientInv'
        BY <2>1, ClientsKept
    <2> QED BY <2>2, <2>3, <2>4
  <1>4. CASE TriggerFailed(s) \/ TriggerStopped(s) \/ SendTrigger(s)
    <2>1. PICK l \in {"loop", "dead", "accept"} :
              /\ Goto(s, "trigger", l)
              /\ UNCHANGED <<isRunning, serverSocket, socket, holds, link, created,
                             main, crashed>>
              /\ at[s].trigger \in {"failed", "loop"}
        BY <1>4 DEF TriggerFailed, TriggerStopped, SendTrigger
    <2>2. l \in TriggerStates
        BY DEF TriggerStates
    <2>3. /\ at' \in [Servers -> [serving : ServingStates, trigger : TriggerStates]]
          /\ \A r \in Servers : r # s => at'[r] = at[r]
          /\ \A u \in Threads : u # "trigger" => at'[s][u] = at[s][u]
          /\ at'[s].trigger = l
        BY <1>1, <2>1, <2>2, GotoEffect
    <2>4. TypeOK'
        BY <2>1, <2>3 DEF TypeOK
    <2>5. s <= created
        BY <1>1, <2>1, RunningCreated
    <2>6. \A r \in Servers : Sockets(r)' = Sockets(r) /\ (Stopped(r)' <=> Stopped(r))
        BY <2>1 DEF Sockets, Stopped
    <2>7. s \in Nat /\ created \in Nat
        BY ServerNumbers DEF TypeOK
    <2>8. SocketInv'
      <3>1. \A r \in Servers : SocketsFit(r)
          BY SocketInvByServer
      <3>2. ASSUME NEW r \in Servers, r # s PROVE SocketsFit(r)'
          BY <2>1, <2>3, <2>6, <3>1, <3>2 DEF SocketsFit
      <3>3. at'[s].serving = at[s].serving /\ at'[s].trigger # "accepting"
          BY <2>3 DEF Threads
      <3>4. SocketsFit(s)'
          BY <2>1, <2>5, <2>6, <2>7, <3>1, <3>3 DEF SocketsFit, Threads
      <3>5. \A r \in Servers : SocketsFit(r)'
          BY <3>2, <3>4
      <3> QED BY <3>5 DEF SocketInv, SocketsFit
    <2>9. ClientInv'
        BY <1>1, <2>1, <2>3, ClientsKept DEF Threads
    <2> QED BY <2>4, <2>8, <2>9
  <1> QED BY <1>2, <1>3, <1>4 DEF TriggerStep

LEMMA MainKeepsInv ==
    ASSUME TcpInv, StartServer \/ StopServer \/ StopCloses
    PROVE  TcpInv'
  <1> USE DEF TcpInv
  <1>1. created \in Nat /\ \A r \in Servers : r \in Nat
      BY ServerNumbers DEF TypeOK
  <1>2. CASE StartServer
    <2> DEFINE n == created + 1
    <2>1. n \in Servers /\ n \in 0..MaxServers
        BY <1>1, <1>2, TcpAssumption DEF StartServer, Servers
    <2>2. /\ main = "idle"
          /\ created > 0 => ~isRunning[created]
          /\ created' = n
          /\ isRunning' = [isRunning EXCEPT ![n] = TRUE]
          /\ at' = [at EXCEPT ![n] = [serving |-> "outer", trigger |-> "accept"]]
          /\ UNCHANGED <<serverSocket, socket, holds, link, main, crashed>>
        BY <1>2 DEF StartServer
    <2> HIDE DEF n
    <2>3. [serving |-> "outer", trigger |-> "accept"] \in
              [serving : ServingStates, trigger : TriggerStates]
        BY DEF ServingStates, TriggerStates
    <2>4. TypeOK'
        BY <2>1, <2>2, <2>3 DEF TypeOK
    <2>5. /\ at'[n] = [serving |-> "outer", trigger |-> "accept"]
          /\ isRunning'[n] = TRUE
          /\ \A r \in Servers : r # n => at'[r] = at[r] /\ isRunning'[r] = isRunning[r]
        BY <2>1, <2>2 DEF TypeOK
    <2>6. \A r \in Servers : Sockets(r)' = Sockets(r)
        BY <2>2 DEF Sockets
    <2>7. ASSUME NEW r \in Servers
          PROVE  /\ \A u \in Threads :
                        at'[r][u] = "accepting" => serverSocket'[r] = "bound"
                 /\ at'[r].serving = "create" => serverSocket'[r] # "bound"
                 /\ Stopped(r)' /\ serverSocket'[r] = "bound"
                        => at'[r].serving \in {"ready", "finally"}
                 /\ r # created' => ~isRunning'[r]
                 /\ r > created' => /\ at'[r] = [u \in Threads |-> "new"]
                                    /\ serverSocket'[r] = "none"
                                    /\ Sockets(r)' = {}
      <3>1. r \in Nat /\ n = created + 1
          BY <1>1 DEF n
      <3>2. CASE r = n
          BY <3>1, <3>2, <1>1, <2>2, <2>5 DEF Stopped, Threads
      <3>3. CASE r # n
        <4>1. Stopped(r)' => Stopped(r)
            BY <3>1, <3>3, <1>1, <2>2, <2>5 DEF Stopped
        <4>2. ~isRunning[r]
            BY <3>1, <3>3, <1>1, <2>2 DEF SocketInv, Servers
        <4> QED BY <4>1, <4>2, <3>1, <3>3, <1>1, <2>2, <2>5, <2>6 DEF SocketInv
      <3> QED BY <3>2, <3>3
    <2>8. SocketInv'
        BY <2>7 DEF SocketInv
    <2>9. ClientInv'
        BY <2>2, <2>5, ClientsKept DEF Threads
    <2> QED BY <2>4, <2>8, <2>9
  <1>3. CASE StopServer
    <2>1. created \in Servers
        BY <1>1, <1>3 DEF StopServer, Servers, TypeOK
    <2>2. /\ isRunning' = [isRunning EXCEPT ![created] = FALSE]
          /\ main' = "stopping" /\ created > 0
          /\ UNCHANGED <<serverSocket, socket, at, holds, link, created, crashed>>
        BY <1>3 DEF StopServer
    <2>3. TypeOK'
        BY <2>1, <2>2 DEF TypeOK
    <2>4. \A r \in Servers : Sockets(r)' = Sockets(r)
        BY <2>2 DEF Sockets
    <2>5. \A r \in Servers : r # created => isRunning'[r] = isRunning[r]
        BY <2>2 DEF TypeOK
    <2>6. main = "idle"
        BY <1>3 DEF StopServer
    <2>7. SocketInv'
        BY <1>1, <2>2, <2>4, <2>5, <2>6 DEF SocketInv, Stopped
    <2>8. ClientInv'
        BY <2>2, ClientsKept
    <2> QED BY <2>3, <2>7, <2>8
  <1>4. CASE StopCloses
    <2>1. created \in Servers /\ created <= created
        BY <1>1, <1>4 DEF StopCloses, Servers, TypeOK
    <2> QED BY <1>4, <2>1, PlainCloseKeepsInv DEF StopCloses
  <1> QED BY <1>2, <1>3, <1>4

LEMMA ClientKeepsInv ==
    ASSUME TcpInv, NEW c \in Clients, Connect(c) \/ Leave(c)
    PROVE  TcpInv'
  <1> USE DEF TcpInv
  <1>1. PICK new \in {"queued", "gone"} :
            /\ link' = [link EXCEPT ![c] = new]
            /\ new = "queued" => link[c] = "away"
            /\ link[c] \in {"away", "queued", "held"}
            /\ UNCHANGED <<isRunning, serverSocket, socket, at, holds, created, main,
                           crashed>>
      BY DEF Connect, Leave
  <1>2. TypeOK'
      BY <1>1 DEF TypeOK
  <1>3. SocketInv'
      BY <1>1 DEF SocketInv, Stopped, Sockets
  <1>4. /\ link'[c] = new
        /\ \A d \in Clients : d # c => link'[d] = link[d]
      BY <1>1 DEF TypeOK
  <1>5. \A r \in Servers : Sockets(r)' = Sockets(r)
      BY <1>1 DEF Sockets
  <1>6. \A r \in Servers : Sockets(r) \subseteq Clients
      BY DEF Sockets, TypeOK, Threads
  <1>7. ASSUME NEW r \in Servers
        PROVE  ClientsOf(r)'
    <2>1. ClientsOf(r)
        BY ClientInvByServer
    <2>2. ASSUME NEW d \in Sockets(r)
          PROVE  link'[d] \in Accepted /\ (link[d] # "closed" => link'[d] # "closed")
        BY <2>1, <1>1, <1>4, <1>6 DEF ClientsOf, Accepted
    <2> QED BY <2>1, <2>2, <1>1, ClientsOfKept
  <1>8. ClientInv'
      BY <1>5, <1>7 DEF ClientInv, ClientsOf
  <1> QED BY <1>2, <1>3, <1>8

LEMMA StepKeepsInv == TcpInv /\ [Next]_tcpVars => TcpInv'
  <1> SUFFICES ASSUME TcpInv, [Next]_tcpVars
               PROVE  TcpInv'
      OBVIOUS
  <1>1. ASSUME NEW s \in Servers, ServingStep(s) \/ Session(s) \/ TriggerStep(s)
        PROVE  TcpInv'
      BY <1>1, ServingKeepsInv, SessionKeepsInv, TriggerKeepsInv
  <1>2. ASSUME NEW s \in Servers, NEW t \in Threads, Accept(s, t)
        PROVE  TcpInv'
      BY <1>2, AcceptKeepsInv
  <1>3. CASE StartServer \/ StopServer \/ StopCloses
      BY <1>3, MainKeepsInv
  <1>4. ASSUME NEW c \in Clients, Connect(c) \/ Leave(c)
        PROVE  TcpInv'
      BY <1>4, ClientKeepsInv
  <1>5. CASE UNCHANGED tcpVars
    <2>1. TypeOK'
        BY <1>5 DEF TcpInv, TypeOK, tcpVars
    <2>2. SocketInv'
        BY <1>5 DEF TcpInv, SocketInv, Stopped, Sockets, tcpVars
    <2>3. ClientInv'
        BY <1>5, ClientsKept DEF TcpInv, tcpVars
    <2> QED BY <2>1, <2>2, <2>3 DEF TcpInv
  <1> QED BY <1>1, <1>2, <1>3, <1>4, <1>5 DEF Next

-----------------------------------------------------------------------------
(* Results                                                                 *)

\* The fields that the threads of startServer and stopServer share without a
\* lock fit together with the places of the threads in every reachable state.
THEOREM ThreadsInvariant == Spec => []TcpInv
  <1>1. Init => TcpInv
      BY InitInv
  <1>2. TcpInv /\ [Next]_tcpVars => TcpInv'
      BY StepKeepsInv
  <1> QED BY <1>1, <1>2, PTL DEF Spec

\* handleYModemTransmission is never started on a socket this server closed:
\* of the two threads that accept, only the serving thread closes connections.
THEOREM SessionSocketOpen == Spec => []SessionHasOpenSocket
  <1>1. TcpInv => SessionHasOpenSocket
    <2> SUFFICES ASSUME TcpInv, NEW s \in Servers, at[s].serving = "session"
                 PROVE  link[holds[s].serving] \in {"held", "gone"}
        BY DEF SessionHasOpenSocket
    <2>1. /\ holds[s].serving # NoClient
          /\ link[holds[s].serving] # "closed"
        BY DEF TcpInv, ClientInv
    <2>2. link[holds[s].serving] \in Accepted
        BY <2>1 DEF TcpInv, ClientInv, Sockets
    <2> QED BY <2>1, <2>2 DEF Accepted
  <1> QED BY <1>1, ThreadsInvariant, PTL

\* After stopServer has returned, its serving thread, which nothing stops, does
\* not take another client from the backlog.
THEOREM StoppedServerTakesNobody == Spec => NoClientAfterStop
  <1>1. TcpInv => \A s \in Servers : ~(Stopped(s) /\ at[s].serving = "accepting")
      BY DEF TcpInv, SocketInv, Threads
  <1>2. TcpInv /\ [Next]_tcpVars =>
            [\A s \in Servers :
                 at[s].serving = "accepting" /\ at'[s].serving = "configure"
                     => ~Stopped(s)]_tcpVars
      BY <1>1
  <1> QED BY <1>2, ThreadsInvariant, PTL DEF Spec, NoClientAfterStop

=============================================================================
