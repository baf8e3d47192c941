---------------------------- MODULE MCSupervision ----------------------------
(***************************************************************************)
(* An instance of Supervision for TLC.                                     *)
(***************************************************************************)
EXTENDS Supervision

MCPackages == {"smartrtu", "menutestactivity"}

\* An update to another package, which has to be forced.
OneArchive ==
    {[package |-> "menutestactivity", version |-> 1, readable |-> TRUE,
      installs |-> TRUE]}
=============================================================================
