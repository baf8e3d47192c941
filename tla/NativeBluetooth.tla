--------------------------- MODULE NativeBluetooth ---------------------------
(***************************************************************************)
(* startBluetoothServer of native_bt.cpp: a POSIX socket on RFCOMM channel *)
(* 1 that takes one client, reads once and ends.  MainActivity calls it in *)
(* a thread of its own whenever an activity is created, and nothing stops  *)
(* a call that still waits.                                                *)
(***************************************************************************)
EXTENDS Naturals

CONSTANTS
    Natives,    \* bound: the calls, one per activity
    Clients,    \* bound: each connects once, here or to BluetoothServer
    NoClient    \* no connection, not one of them

VARIABLES
    native,     \* where each call is, or "returned"
    sockfd,     \* its socket: "none", "open" or "closed"
    client,     \* the connection it accepted
    link        \* a client's connection to the device

nativeVars == <<native, sockfd, client>>

\* The kernel gives the channel to one socket.
HoldsChannel(n) == sockfd[n] = "open" /\ native[n] # "bind"

-----------------------------------------------------------------------------
Step(n, l) == native' = [native EXCEPT ![n] = l]

Close(n) == sockfd' = [sockfd EXCEPT ![n] = "closed"]

StartNativeServer(n) ==
    /\ native[n] = "idle"
    /\ Step(n, "socket")
    /\ UNCHANGED <<sockfd, client, link>>

CreateSocket(n) ==
    /\ native[n] = "socket"
    /\ \/ Step(n, "bind") /\ sockfd' = [sockfd EXCEPT ![n] = "open"]
       \/ Step(n, "returned") /\ UNCHANGED sockfd
    /\ UNCHANGED <<client, link>>

\* The channel may be that of an earlier call, or of BluetoothServer.
BindChannel(n) ==
    /\ native[n] = "bind"
    /\ \/ /\ \A m \in Natives : ~HoldsChannel(m)
          /\ Step(n, "listen")
          /\ UNCHANGED sockfd
       \/ Step(n, "returned") /\ Close(n)
    /\ UNCHANGED <<client, link>>

\* Mutant: the error path forgets the socket.
ListenKeepsSocket(n) ==
    /\ native[n] = "listen"
    /\ Step(n, "accept") \/ Step(n, "returned")
    /\ UNCHANGED <<sockfd, client, link>>

Listen(n) ==
    /\ native[n] = "listen"
    /\ \/ Step(n, "accept") /\ UNCHANGED sockfd
       \/ Step(n, "returned") /\ Close(n)
    /\ UNCHANGED <<client, link>>

\* accept blocks for as long as nobody comes.
AcceptNative(n) ==
    /\ native[n] = "accept"
    /\ \/ \E c \in Clients :
              /\ link[c] = "away"
              /\ link' = [link EXCEPT ![c] = "native"]
              /\ client' = [client EXCEPT ![n] = c]
              /\ Step(n, "read")
              /\ UNCHANGED sockfd
       \/ Step(n, "returned") /\ Close(n) /\ UNCHANGED <<client, link>>

\* One read, whatever it brings; it blocks while the client is silent.
ReadOnce(n) ==
    /\ native[n] = "read"
    /\ link' = [link EXCEPT ![client[n]] = "closed"]
    /\ client' = [client EXCEPT ![n] = NoClient]
    /\ Close(n)
    /\ Step(n, "returned")

NativeStep(n) ==
    \/ StartNativeServer(n) \/ CreateSocket(n) \/ BindChannel(n) \/ Listen(n)
    \/ AcceptNative(n) \/ ReadOnce(n)

NativeInit ==
    /\ native = [n \in Natives |-> "idle"]
    /\ sockfd = [n \in Natives |-> "none"]
    /\ client = [n \in Natives |-> NoClient]

-----------------------------------------------------------------------------
(* Properties                                                              *)

NativeTypeOK ==
    /\ native \in [Natives -> {"idle", "socket", "bind", "listen", "accept",
                               "read", "returned"}]
    /\ sockfd \in [Natives -> {"none", "open", "closed"}]
    /\ client \in [Natives -> Clients \cup {NoClient}]

\* Whichever of the calls fails, none of the ways out of the function leaves a
\* socket behind, which would keep the channel from the next activity until the
\* process ends; and never do two calls hold it.
ChannelComesFree ==
    /\ \A n \in Natives :
           /\ native[n] = "returned" => ~HoldsChannel(n)
           /\ client[n] # NoClient <=> native[n] = "read"
    /\ \A m, n \in Natives : HoldsChannel(m) /\ HoldsChannel(n) => m = n
=============================================================================
