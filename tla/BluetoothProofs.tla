--------------------------- MODULE BluetoothProofs ---------------------------
(***************************************************************************)
(* The Bluetooth servers for any number of clients and activities: one     *)
(* connection at a time, no socket without an owner, and a channel that    *)
(* comes free.                                                             *)
(***************************************************************************)
EXTENDS Bluetooth, TLAPS

\* What makes the invariants of the service's server inductive: the AcceptThread
\* is born once, its field is the client it works with or one that is closed, and it
\* has closed its socket when it makes another.
ServerInv ==
    /\ BtTypeOK
    /\ clientSocket \in {NoClient, accepted} \/ link[clientSocket] = "closed"
    /\ accepted # NoClient <=> accept \in {"store", "session", "finally"}
    /\ acceptThread => running
    /\ accept = "unborn" => serverSocket = "none" /\ ~acceptThread
    /\ serving = "session" <=> holds # NoClient
    /\ NothingForgotten
    /\ serving \in {"outer", "start"} => accept = "unborn"
    /\ accept = "create" => serverSocket # "open"
    /\ accept \in {"session", "finally"} => clientSocket = accepted
    /\ accept = "finally" => link[accepted] = "closed"
    /\ main # "idle" => ~isRunning

NativeInv ==
    /\ Native!NativeTypeOK
    /\ \A n \in Natives :
           /\ sockfd[n] = "open" <=> native[n] \in {"bind", "listen", "accept", "read"}
           /\ client[n] # NoClient <=> native[n] = "read"
    /\ \A m, n \in Natives :
           native[m] \in {"listen", "accept", "read"}
             /\ native[n] \in {"listen", "accept", "read"} => m = n

LEMMA InvsImplyProperties ==
    ASSUME ServerInv, NativeInv
    PROVE  BtInv /\ OneConnection /\ NothingForgotten /\ ChannelComesFree
  <1>1. BtInv
      BY DEF ServerInv, NativeInv, BtInv
  <1>2. OneConnection /\ NothingForgotten
      BY DEF ServerInv, NothingForgotten, OneConnection
  <1>3. ChannelComesFree
      BY DEF NativeInv, ChannelComesFree, Native!ChannelComesFree, Native!HoldsChannel,
         Native!NativeTypeOK
  <1> QED BY <1>1, <1>2, <1>3

LEMMA InitInvs == Init => ServerInv /\ NativeInv
  <1> SUFFICES ASSUME Init PROVE ServerInv /\ NativeInv
      OBVIOUS
  <1>1. ServerInv
      BY BluetoothAssumption DEF Init, BtInit, ServerInv, BtTypeOK, NothingForgotten, Open
  <1>2. NativeInv
      BY DEF Init, Native!NativeInit, NativeInv, Native!NativeTypeOK
  <1> QED BY <1>1, <1>2

-----------------------------------------------------------------------------
\* Closing opens nothing.
LEMMA ClosedLinkCloses ==
    ASSUME ServerInv, NEW cs, link' = ClosedLink(link, cs)
    PROVE  /\ link' \in [Clients -> {"away", "held", "left", "closed", "native"}]
           /\ \A c \in Clients : Open(c)' => Open(c) /\ c \notin cs
           /\ \A c \in Clients : link[c] = "closed" => link'[c] = "closed"
           /\ \A c \in Clients \cap cs : link'[c] = "closed"
    BY DEF ServerInv, BtTypeOK, ClosedLink, Open

\* What closeExistingServerSocket leaves, whichever clients its caller closes.
AllClosed ==
    /\ acceptThread' = FALSE /\ running' \in BOOLEAN
    /\ serverSocket' \in {"none", "closed"}
    /\ accept = "unborn" => serverSocket' = "none"
    /\ UNCHANGED <<lost, clientSocket>>
    /\ link' \in [Clients -> {"away", "held", "left", "closed", "native"}]
    /\ \A c \in Clients : Open(c)' => Open(c)
    /\ \A c \in Clients : link[c] = "closed" => link'[c] = "closed"

LEMMA CloseAllCloses ==
    ASSUME ServerInv, NEW cs, CloseAll(cs)
    PROVE  AllClosed
  <1>1. link' \in [Clients -> {"away", "held", "left", "closed", "native"}]
        /\ \A c \in Clients : Open(c)' => Open(c)
      BY ClosedLinkCloses DEF CloseAll
  <1>4. \A c \in Clients : link[c] = "closed" => link'[c] = "closed"
      BY ClosedLinkCloses DEF CloseAll
  <1>2. acceptThread' = FALSE /\ running' \in BOOLEAN /\ UNCHANGED <<lost, clientSocket>>
      BY DEF CloseAll, ServerInv, BtTypeOK
  <1>3. /\ serverSocket' \in {"none", "closed"}
        /\ accept = "unborn" => serverSocket' = "none"
      BY DEF CloseAll, CloseServerSocket, ServerInv, BtTypeOK
  <1> QED BY <1>1, <1>2, <1>3, <1>4 DEF AllClosed

\* Closing everything keeps the invariant wherever the AcceptThread is.
LEMMA ClosingKeepsInv ==
    ASSUME ServerInv, AllClosed,
           UNCHANGED <<adapter, accept, accepted, trigger, isRunning>>,
           holds' \in Clients \cup {NoClient},
           main' \in {"idle", "stopping", "stopped"}, main = "idle" => main' = "idle",
           crashed' \in {"no", "cast", "null"},
           serving' \in {"loop", "session", "dead"} \/ serving' = serving,
           serving' = "session" <=> holds' # NoClient
    PROVE  ServerInv'
  <1>1. acceptThread' \in BOOLEAN /\ isRunning' \in BOOLEAN /\ adapter' \in BOOLEAN
      BY DEF AllClosed, ServerInv, BtTypeOK
  <1>2. BtTypeOK'
      BY <1>1 DEF AllClosed, ServerInv, BtTypeOK
  <1>3. NothingForgotten'
      BY DEF AllClosed, ServerInv, NothingForgotten
  <1>4. /\ clientSocket' \in {NoClient, accepted'} \/ link'[clientSocket'] = "closed"
        /\ accept' = "finally" => link'[accepted'] = "closed"
    <2>1. UNCHANGED <<clientSocket, accepted, accept>>
        BY DEF AllClosed
    <2>2. clientSocket \in Clients \cup {NoClient} /\ accepted \in Clients \cup {NoClient}
        BY DEF ServerInv, BtTypeOK
    <2>3. accept = "finally" => accepted # NoClient
        BY DEF ServerInv
    <2> QED BY <2>1, <2>2, <2>3 DEF AllClosed, ServerInv
  <1> QED BY <1>1, <1>2, <1>3, <1>4 DEF AllClosed, ServerInv

LEMMA AcceptThreadKeepsInv ==
    ASSUME ServerInv, AcceptThreadRuns \/ AcceptClient \/ AcceptSessionEnds
    PROVE  ServerInv'
  <1>1. CASE NoAdapter \/ Begin \/ RetryLater \/ AcceptFails
      BY <1>1 DEF NoAdapter, Begin, RetryLater, AcceptFails, fields, sockets, ServerInv,
         BtTypeOK, NothingForgotten, Open
  <1>2. CASE LoopTop
      BY <1>2 DEF LoopTop, CloseServerSocket, fields, ServerInv, BtTypeOK,
         NothingForgotten, Open
  <1>3. CASE CreateSocket
      BY <1>3 DEF CreateSocket, fields, ServerInv, BtTypeOK, NothingForgotten, Open
  <1>4. CASE AcceptClient
    <2>1. PICK c \in Clients :
              /\ link[c] = "away"
              /\ link' = [link EXCEPT ![c] = "held"]
              /\ accepted' = c
        BY <1>4 DEF AcceptClient
    <2>2. /\ accept = "accept" /\ accept' = "store"
          /\ UNCHANGED <<adapter, fields, sockets, serving, trigger, holds, main, crashed>>
        BY <1>4 DEF AcceptClient
    <2>3. /\ c # NoClient /\ accepted = NoClient
          /\ \A d \in Clients : ~Open(d)
          /\ clientSocket = NoClient \/ link[clientSocket] = "closed"
        BY <2>2, BluetoothAssumption DEF ServerInv, BtTypeOK, NothingForgotten
    <2>4. \A d \in Clients : Open(d)' => d = c
        BY <2>1, <2>3 DEF Open, ServerInv, BtTypeOK
    <2>5. \A d \in Clients : link[d] = "closed" => link'[d] = "closed"
        BY <2>1 DEF ServerInv, BtTypeOK
    <2> QED BY <2>1, <2>2, <2>3, <2>4, <2>5 DEF fields, sockets, ServerInv, BtTypeOK,
            NothingForgotten
  <1>5. CASE StoreClient
      BY <1>5 DEF StoreClient, fields, ServerInv, BtTypeOK, NothingForgotten, Open
  <1>6. CASE AcceptSessionEnds
    <2>1. /\ accept = "session" /\ accept' = "finally"
          /\ UNCHANGED <<adapter, serving, trigger, accepted, holds, main, crashed>>
        BY <1>6 DEF AcceptSessionEnds
    <2>0. accepted \in Clients /\ clientSocket = accepted
        BY <2>1 DEF ServerInv, BtTypeOK
    <2>2. CASE link' = ClosedLink(link, {accepted}) /\ UNCHANGED <<fields, sockets>>
      <3>1. /\ link' \in [Clients -> {"away", "held", "left", "closed", "native"}]
            /\ \A c \in Clients : Open(c)' => Open(c)
            /\ \A c \in Clients : link[c] = "closed" => link'[c] = "closed"
            /\ link'[accepted] = "closed"
          BY <2>1, <2>2, <2>0, ClosedLinkCloses
      <3> QED BY <2>0, <2>1, <2>2, <3>1 DEF fields, sockets, ServerInv, BtTypeOK,
              NothingForgotten
    <2>3. CASE CloseAll({accepted}) /\ UNCHANGED isRunning
      <3>1. AllClosed
          BY <2>3, CloseAllCloses
      <3>5. link'[accepted] = "closed"
          BY <2>0, <2>3, ClosedLinkCloses DEF CloseAll
      <3>2. isRunning' \in BOOLEAN /\ acceptThread' \in BOOLEAN /\ adapter' \in BOOLEAN
          BY <2>1, <2>3, <3>1 DEF AllClosed, ServerInv, BtTypeOK
      <3>3. BtTypeOK'
          BY <2>1, <3>1, <3>2 DEF AllClosed, ServerInv, BtTypeOK
      <3>4. NothingForgotten'
          BY <2>1, <3>1 DEF AllClosed, ServerInv, NothingForgotten
      <3> QED BY <2>0, <2>1, <2>3, <3>1, <3>3, <3>4, <3>5 DEF AllClosed, ServerInv
    <2> QED BY <1>6, <2>2, <2>3 DEF AcceptSessionEnds
  <1>7. CASE AcceptFinally
    <2>1. /\ accept = "finally" /\ accept' = "top"
          /\ accepted' = NoClient
          /\ \/ /\ clientSocket' = NoClient
                /\ link' = ClosedLink(link, {clientSocket} \ {NoClient})
             \/ UNCHANGED <<clientSocket, link>>
          /\ serverSocket' \in {"none", "closed"}
          /\ UNCHANGED <<adapter, fields, lost, serving, trigger, holds, main, crashed>>
        BY <1>7 DEF AcceptFinally, CloseServerSocket
    <2>2. clientSocket = accepted /\ accepted # NoClient
        BY <2>1 DEF ServerInv
    <2>3. CASE UNCHANGED <<clientSocket, link>>
        BY <2>1, <2>3 DEF fields, ServerInv, BtTypeOK, NothingForgotten, Open
    <2>4. CASE /\ clientSocket' = NoClient
               /\ link' = ClosedLink(link, {clientSocket} \ {NoClient})
      <3>1. /\ link' \in [Clients -> {"away", "held", "left", "closed", "native"}]
            /\ \A c \in Clients : ~Open(c)'
          BY <2>2, <2>4, ClosedLinkCloses DEF ServerInv, NothingForgotten
      <3> QED BY <2>1, <2>4, <3>1 DEF fields, ServerInv, BtTypeOK, NothingForgotten
    <2> QED BY <2>1, <2>3, <2>4
  <1> QED BY <1>1, <1>2, <1>3, <1>4, <1>5, <1>6, <1>7 DEF AcceptThreadRuns

LEMMA ServingThreadKeepsInv ==
    ASSUME ServerInv, ServingThreadRuns \/ ServingSessionEnds
    PROVE  ServerInv'
  <1>1. CASE ServingOuter \/ ServingLoop \/ ServingPolls
      BY <1>1 DEF ServingOuter, ServingLoop, ServingPolls, fields, sockets, ServerInv,
         BtTypeOK, NothingForgotten, Open
  <1>2. CASE StartAcceptThread
      BY <1>2 DEF StartAcceptThread, sockets, ServerInv, BtTypeOK, NothingForgotten, Open
  <1>3. CASE ServingReturns
    <2>1. /\ serving = "return" /\ holds' = clientSocket
          /\ UNCHANGED <<adapter, accept, trigger, accepted, main>>
        BY <1>3 DEF ServingReturns
    <2>2. CASE /\ clientSocket # NoClient /\ serving' = "session"
               /\ UNCHANGED <<fields, sockets, crashed, link>>
        BY <2>1, <2>2 DEF fields, sockets, ServerInv, BtTypeOK, NothingForgotten, Open
    <2>3. CASE /\ clientSocket = NoClient /\ serving' = "dead"
               /\ CloseAll({}) /\ crashed' = "null" /\ UNCHANGED isRunning
      <3>1. /\ main' \in {"idle", "stopping", "stopped"}
            /\ holds' \in Clients \cup {NoClient}
            /\ serving' = "session" <=> holds' # NoClient
          BY <2>1, <2>3 DEF ServerInv, BtTypeOK
      <3>2. AllClosed
          BY <2>3, CloseAllCloses
      <3> QED BY <2>1, <2>3, <3>1, <3>2, ClosingKeepsInv
    <2> QED BY <1>3, <2>2, <2>3 DEF ServingReturns, Crash
  <1>4. CASE ServingSessionEnds
    <2>1. /\ serving = "session" /\ serving' = "loop" /\ holds' = NoClient
          /\ UNCHANGED <<adapter, accept, trigger, accepted, main, crashed>>
        BY <1>4 DEF ServingSessionEnds
    <2>2. CASE link' = ClosedLink(link, {holds}) /\ UNCHANGED <<fields, sockets>>
      <3>1. /\ link' \in [Clients -> {"away", "held", "left", "closed", "native"}]
            /\ \A c \in Clients : Open(c)' => Open(c)
            /\ \A c \in Clients : link[c] = "closed" => link'[c] = "closed"
          BY <2>2, ClosedLinkCloses
      <3> QED BY <2>1, <2>2, <3>1 DEF fields, sockets, ServerInv, BtTypeOK,
              NothingForgotten
    <2>3. CASE CloseAll({holds}) /\ UNCHANGED isRunning
      <3>1. /\ main' \in {"idle", "stopping", "stopped"}
            /\ crashed' \in {"no", "cast", "null"}
            /\ holds' \in Clients \cup {NoClient}
          BY <2>1 DEF ServerInv, BtTypeOK
      <3>2. AllClosed
          BY <2>3, CloseAllCloses
      <3> QED BY <2>1, <2>3, <3>1, <3>2, ClosingKeepsInv
    <2> QED BY <1>4, <2>2, <2>3 DEF ServingSessionEnds
  <1>5. CASE ServingFinally
    <2>1. /\ serving = "finally" /\ serving' = "dead" /\ CloseAll({})
          /\ UNCHANGED <<adapter, isRunning, accept, trigger, accepted, holds, main,
                         crashed>>
        BY <1>5 DEF ServingFinally
    <2>2. AllClosed
        BY <2>1, CloseAllCloses
    <2> QED BY <2>1, <2>2, ClosingKeepsInv DEF ServerInv, BtTypeOK
  <1> QED BY <1>1, <1>2, <1>3, <1>4, <1>5 DEF ServingThreadRuns

LEMMA OthersKeepInv ==
    ASSUME ServerInv, TriggerThreadRuns \/ StopServer \/ StopCloses \/ ClientLeaves
    PROVE  ServerInv'
  <1>1. CASE TriggerPolls
      BY <1>1 DEF TriggerPolls, fields, sockets, ServerInv, BtTypeOK, NothingForgotten,
         Open
  <1>2. CASE TriggerReturns
    <2>1. /\ trigger' = "dead" /\ crashed' \in {"no", "cast", "null"}
          /\ UNCHANGED <<adapter, fields, sockets, accept, serving, accepted, holds,
                         main, link>>
        BY <1>2 DEF TriggerReturns, Crash, ServerInv, BtTypeOK
    <2> QED BY <2>1 DEF fields, sockets, ServerInv, BtTypeOK, NothingForgotten, Open
  <1>3. CASE StopServer
    <2>1. /\ isRunning' = FALSE /\ main' = "stopping"
          /\ UNCHANGED <<adapter, acceptThread, running, serverSocket, lost, clientSocket>>
          /\ UNCHANGED <<accept, serving, trigger, accepted, holds, crashed, link>>
        BY <1>3 DEF StopServer, sockets, places
    <2>2. isRunning' \in BOOLEAN /\ acceptThread' \in BOOLEAN /\ running' \in BOOLEAN
          /\ adapter' \in BOOLEAN
        BY <2>1 DEF ServerInv, BtTypeOK
    <2>3. BtTypeOK'
        BY <2>1, <2>2 DEF ServerInv, BtTypeOK
    <2> QED BY <2>1, <2>3 DEF ServerInv, NothingForgotten, Open
  <1>4. CASE StopCloses
    <2>1. /\ main = "stopping" /\ main' = "stopped" /\ CloseAll({})
          /\ UNCHANGED <<adapter, isRunning, accept, serving, trigger, accepted, holds,
                         crashed>>
        BY <1>4 DEF StopCloses, places
    <2>2. /\ crashed' \in {"no", "cast", "null"} /\ holds' \in Clients \cup {NoClient}
          /\ serving' = "session" <=> holds' # NoClient
        BY <2>1 DEF ServerInv, BtTypeOK
    <2>3. AllClosed
        BY <2>1, CloseAllCloses
    <2> QED BY <2>1, <2>2, <2>3, ClosingKeepsInv
  <1>5. CASE ClientLeaves
    <2>1. PICK c \in Clients : link[c] = "held" /\ link' = [link EXCEPT ![c] = "left"]
        BY <1>5 DEF ClientLeaves
    <2>2. UNCHANGED btVars
        BY <1>5 DEF ClientLeaves
    <2>3. \A d \in Clients : Open(d)' => Open(d)
        BY <2>1 DEF Open, ServerInv, BtTypeOK
    <2> QED BY <2>1, <2>2, <2>3 DEF btVars, ServerInv, BtTypeOK, NothingForgotten
  <1> QED BY <1>1, <1>2, <1>3, <1>4, <1>5 DEF TriggerThreadRuns

LEMMA NativeKeepsServerInv ==
    ASSUME ServerInv, NativeInv, NativeCalls
    PROVE  ServerInv'
  <1>1. PICK n \in Natives : Native!NativeStep(n)
      BY DEF NativeCalls
  <1>2. UNCHANGED btVars
      BY DEF NativeCalls
  <1>3. \/ link' = link
        \/ \E c \in Clients : link[c] = "away" /\ link' = [link EXCEPT ![c] = "native"]
        \/ client[n] \in Clients /\ link' = [link EXCEPT ![client[n]] = "closed"]
      BY <1>1 DEF Native!NativeStep, Native!StartNativeServer, Native!CreateSocket,
         Native!BindChannel, Native!Listen, Native!AcceptNative, Native!ReadOnce,
         NativeInv, Native!NativeTypeOK
  <1>4. /\ link' \in [Clients -> {"away", "held", "left", "closed", "native"}]
        /\ \A d \in Clients : Open(d)' => Open(d)
        /\ \A d \in Clients : link[d] = "closed" => link'[d] = "closed"
      BY <1>3 DEF Open, ServerInv, BtTypeOK
  <1> QED BY <1>2, <1>4 DEF btVars, ServerInv, BtTypeOK, NothingForgotten

LEMMA NativeKeepsNativeInv ==
    ASSUME NativeInv, NEW n \in Natives, Native!NativeStep(n)
    PROVE  NativeInv'
  <1> USE DEF NativeInv, Native!NativeTypeOK, Native!Step, Native!Close
  <1>1. CASE Native!StartNativeServer(n)
      BY <1>1 DEF Native!StartNativeServer
  <1>2. CASE Native!CreateSocket(n)
      BY <1>2 DEF Native!CreateSocket
  <1>3. CASE Native!BindChannel(n)
      BY <1>3 DEF Native!BindChannel, Native!HoldsChannel
  <1>4. CASE Native!Listen(n)
      BY <1>4 DEF Native!Listen
  <1>5. CASE Native!AcceptNative(n)
      BY <1>5, BluetoothAssumption DEF Native!AcceptNative
  <1>6. CASE Native!ReadOnce(n)
      BY <1>6 DEF Native!ReadOnce
  <1> QED BY <1>1, <1>2, <1>3, <1>4, <1>5, <1>6 DEF Native!NativeStep

LEMMA StepKeepsInvs == ServerInv /\ NativeInv /\ [Next]_vars => (ServerInv /\ NativeInv)'
  <1> SUFFICES ASSUME ServerInv, NativeInv, [Next]_vars
               PROVE  ServerInv' /\ NativeInv'
      OBVIOUS
  <1>1. CASE ServerRuns
    <2>1. ServerInv'
        BY <1>1, AcceptThreadKeepsInv, ServingThreadKeepsInv, OthersKeepInv
           DEF ServerRuns, BtNext
    <2>2. NativeInv'
        BY <1>1 DEF ServerRuns, nativeVars, NativeInv, Native!NativeTypeOK
    <2> QED BY <2>1, <2>2
  <1>2. CASE NativeCalls
      BY <1>2, NativeKeepsServerInv, NativeKeepsNativeInv DEF NativeCalls
  <1>3. CASE UNCHANGED vars
    <2>1. ServerInv'
        BY <1>3 DEF vars, btVars, ServerInv, BtTypeOK, NothingForgotten, Open
    <2>2. NativeInv'
        BY <1>3 DEF vars, nativeVars, NativeInv, Native!NativeTypeOK
    <2> QED BY <2>1, <2>2
  <1> QED BY <1>1, <1>2, <1>3 DEF Next

-----------------------------------------------------------------------------
(* The theorems.                                                           *)

LEMMA BothServersInvariant == Spec => [](ServerInv /\ NativeInv)
    BY InitInvs, StepKeepsInvs, PTL DEF Spec

\* The fields and the places of the threads agree: the client that is stored is the
\* one the AcceptThread works with, and a thread is in a session with a client only.
THEOREM FieldsAgree == Spec => []BtInv
  <1>1. ServerInv /\ NativeInv => BtInv
      BY InvsImplyProperties
  <1> QED BY <1>1, BothServersInvariant, PTL

\* One connection at a time, whatever the other threads do with it and whenever
\* the server is stopped.
THEOREM OneConnectionAtATime == Spec => []OneConnection
  <1>1. ServerInv /\ NativeInv => OneConnection
      BY InvsImplyProperties
  <1> QED BY <1>1, BothServersInvariant, PTL

\* No connection and no listening socket is without somebody who will close it.
THEOREM EverythingHasAnOwner == Spec => []NothingForgotten
  <1>1. ServerInv /\ NativeInv => NothingForgotten
      BY InvsImplyProperties
  <1> QED BY <1>1, BothServersInvariant, PTL

\* No call of the native server keeps the channel when it returns.
THEOREM ChannelIsGivenBack == Spec => []ChannelComesFree
  <1>1. ServerInv /\ NativeInv => ChannelComesFree
      BY InvsImplyProperties
  <1> QED BY <1>1, BothServersInvariant, PTL

\* The AcceptThread serves its last client, or has served it: its loop test fails
\* from now on, so that every step leads on towards its end.
ServesTheLast ==
    main = "stopped" /\ accept \in {"store", "session", "finally", "top", "dead"}

LEMMA StepServesTheLast ==
    ASSUME ServesTheLast, ServerInv, [Next]_vars
    PROVE  ServesTheLast'
  <1>1. ~isRunning /\ serving \notin {"outer", "start"}
      BY DEF ServesTheLast, ServerInv
  <1> USE DEF ServesTheLast
  <1>2. CASE AcceptThreadRuns \/ AcceptClient \/ AcceptSessionEnds
      BY <1>1, <1>2 DEF AcceptThreadRuns, NoAdapter, Begin, LoopTop, CreateSocket,
         AcceptFails, StoreClient, AcceptFinally, RetryLater, AcceptClient,
         AcceptSessionEnds
  <1>3. CASE ServingThreadRuns \/ ServingSessionEnds
      BY <1>1, <1>3 DEF ServingThreadRuns, ServingOuter, StartAcceptThread, ServingLoop,
         ServingPolls, ServingReturns, ServingFinally, ServingSessionEnds
  <1>4. CASE TriggerThreadRuns \/ StopServer \/ StopCloses \/ ClientLeaves
      BY <1>4 DEF TriggerThreadRuns, TriggerPolls, TriggerReturns, StopServer, StopCloses,
         ClientLeaves, btVars
  <1>5. CASE NativeCalls \/ UNCHANGED vars
      BY <1>5 DEF NativeCalls, vars, btVars
  <1> QED BY <1>2, <1>3, <1>4, <1>5 DEF Next, ServerRuns, BtNext

\* A client that slips in while the server is being stopped is the last one: the
\* AcceptThread never listens again.
THEOREM NobodyAfterTheLate == Spec => LateClientIsLast
  <1>1. main = "stopped" /\ accept = "store" => ServesTheLast
      BY DEF ServesTheLast
  <1>2. ServesTheLast /\ ServerInv /\ [Next]_vars => ServesTheLast'
      BY StepServesTheLast
  <1>3. ServesTheLast => accept # "accept"
      BY DEF ServesTheLast
  <1> QED BY <1>1, <1>2, <1>3, BothServersInvariant, PTL DEF Spec, LateClientIsLast
=============================================================================
