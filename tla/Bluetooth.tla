------------------------------ MODULE Bluetooth ------------------------------
(***************************************************************************)
(* The device's two Bluetooth servers, which run in one process and know   *)
(* nothing of each other: the one of the service (BluetoothServer) and the *)
(* native one that every activity starts (NativeBluetooth).  A client      *)
(* reaches either; an exception that nobody catches ends both.             *)
(***************************************************************************)
EXTENDS BluetoothServer

CONSTANTS
    Natives     \* bound: activities that are created while the server runs

VARIABLES
    native, sockfd, client

Native == INSTANCE NativeBluetooth

nativeVars == <<native, sockfd, client>>
vars == <<btVars, nativeVars, link>>

Init ==
    /\ BtInit
    /\ Native!NativeInit
    /\ link = [c \in Clients |-> "away"]

\* The process has ended with the first exception that nobody caught.
Alive == crashed = "no"

ServerRuns == Alive /\ BtNext /\ UNCHANGED nativeVars

NativeCalls == Alive /\ UNCHANGED btVars /\ \E n \in Natives : Native!NativeStep(n)

Next == ServerRuns \/ NativeCalls

Spec == Init /\ [][Next]_vars

AcceptThread == Alive /\ AcceptThreadRuns /\ UNCHANGED nativeVars
ServingThread == Alive /\ ServingThreadRuns /\ UNCHANGED nativeVars
TriggerThread == Alive /\ TriggerThreadRuns /\ UNCHANGED nativeVars
MainThread == Alive /\ StopCloses /\ UNCHANGED nativeVars

\* A read from a connection that is closed at either side ends the session.
SessionsEnd ==
    /\ Alive
    /\ \/ AcceptSessionEnds /\ link[accepted] # "held"
       \/ ServingSessionEnds /\ link[holds] # "held"
    /\ UNCHANGED nativeVars

\* The threads are scheduled and their sleeps end; nobody has to connect, to
\* leave or to stop the server.
FairSpec ==
    /\ Spec
    /\ WF_vars(AcceptThread)
    /\ WF_vars(ServingThread)
    /\ WF_vars(TriggerThread)
    /\ WF_vars(MainThread)
    /\ WF_vars(SessionsEnd)

-----------------------------------------------------------------------------
(* Properties                                                              *)

\* The type invariant, and what the fields are worth: the client the AcceptThread
\* has stored is the one it works with, or is closed, a server that has no
\* AcceptThread yet has no socket, and the AcceptThread that is not cancelled is the
\* running one.
BtInv ==
    /\ BtTypeOK
    /\ Native!NativeTypeOK
    /\ clientSocket \in {NoClient, accepted} \/ link[clientSocket] = "closed"
    /\ accepted # NoClient <=> accept \in {"store", "session", "finally"}
    /\ acceptThread => running
    /\ accept = "unborn" => serverSocket = "none" /\ ~acceptThread
    /\ serving = "session" <=> holds # NoClient

ChannelComesFree == Native!ChannelComesFree
=============================================================================
