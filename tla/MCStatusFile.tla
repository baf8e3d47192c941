---------------------------- MODULE MCStatusFile ----------------------------
(***************************************************************************)
(* An instance of StatusFile for TLC.                                      *)
(***************************************************************************)
EXTENDS StatusFile

CONSTANTS s1, s2, s3

ThreeSessions == {s1, s2, s3}
=============================================================================
