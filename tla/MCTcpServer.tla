----------------------------- MODULE MCTcpServer -----------------------------
(***************************************************************************)
(* Instances of TcpServer for TLC.                                         *)
(***************************************************************************)
EXTENDS TcpServer, TLC

CONSTANTS c1, c2, c3

TwoClients == {c1, c2}
ThreeClients == {c1, c2, c3}

\* Clients differ in nothing; used where no liveness property is checked.
ClientSymmetry == Permutations(Clients)
=============================================================================
