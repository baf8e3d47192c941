----------------------------- MODULE MCBluetooth -----------------------------
(***************************************************************************)
(* An instance of Bluetooth for TLC.                                       *)
(***************************************************************************)
EXTENDS Bluetooth

CONSTANTS c1, c2, n1, n2

TwoClients == {c1, c2}
TwoNatives == {n1, n2}
=============================================================================
