-------------------------------- MODULE Device --------------------------------
(***************************************************************************)
(* What the device promises about its RTU application: it always has one,  *)
(* which is the first one or an upload that arrived whole, or it is just   *)
(* being replaced, and then the file it is replaced by is there until that *)
(* is done.  Two things can cost the device its application: a file that   *)
(* is none, and a file that comes or goes while another is looked at.      *)
(* Then the next file that arrives is the one to install.                  *)
(***************************************************************************)
CONSTANTS
    Archives,   \* the files clients upload
    Usable,     \* those of them that are an application for this device
    Absent,     \* no such file; not in Archives
    FirstApp    \* the application of a new device

VARIABLES
    app,        \* the application, as a set; of a change, the new one, if any
    firmware,   \* content of firmware.apk, or Absent
    changing,   \* the old application is removed, the new one not installed
    kept,       \* the removal has failed
    disturbed   \* a file has come or gone while another was looked at

App(a) == [package |-> a.package, version |-> a.version]

Init ==
    /\ app = {FirstApp}
    /\ firmware = Absent
    /\ changing = FALSE
    /\ kept = FALSE
    /\ disturbed = FALSE

\* A file that comes or goes may disturb a change.
MayDisturb == disturbed' \in {disturbed, TRUE}

\* Another file takes the place of the one that is being installed, too.
Receive(a) ==
    /\ firmware' = a
    /\ app' = IF changing THEN {App(a)} ELSE app
    /\ MayDisturb
    /\ UNCHANGED <<changing, kept>>

Discard ==
    /\ ~changing
    /\ firmware' = Absent
    /\ disturbed' \in BOOLEAN
    /\ UNCHANGED <<app, changing, kept>>

Replace ==
    /\ ~changing
    /\ firmware # Absent
    /\ changing' = TRUE
    /\ app' = {App(firmware)}
    /\ UNCHANGED <<firmware, kept, disturbed>>

Finish ==
    /\ changing
    /\ firmware # Absent
    /\ changing' = FALSE
    /\ UNCHANGED <<app, firmware, kept, disturbed>>

\* The old application stays, and may get another one beside it.
Keep ==
    /\ ~changing
    /\ kept' = TRUE
    /\ UNCHANGED <<app, firmware, changing, disturbed>>

Add ==
    /\ kept
    /\ ~changing
    /\ firmware # Absent
    /\ app' = {a \in app : a.package # firmware.package} \cup {App(firmware)}
    /\ kept' = FALSE
    /\ UNCHANGED <<firmware, changing, disturbed>>

\* The old application is gone, and the file is not one to install.
Lose ==
    /\ changing
    /\ firmware # Absent
    /\ firmware \notin Usable
    /\ firmware' = Absent
    /\ app' = {}
    /\ UNCHANGED <<changing, kept, disturbed>>

\* The file is not there any more, or goes now, for which the application is or
\* was removed.
LoseDisturbed ==
    /\ disturbed \/ (changing /\ disturbed')
    /\ disturbed' \in BOOLEAN
    /\ firmware' = Absent
    /\ app' = {}
    /\ changing' = TRUE
    /\ UNCHANGED kept

\* The attempt is over.
Rest ==
    /\ kept' \in {kept, FALSE}
    /\ disturbed' \in {disturbed, FALSE}
    /\ UNCHANGED <<app, firmware, changing>>

Next ==
    \/ \E a \in Archives : Receive(a)
    \/ Discard \/ Replace \/ Finish \/ Keep \/ Add
    \/ Lose \/ LoseDisturbed \/ Rest

Spec == Init /\ [][Next]_<<app, firmware, changing, kept, disturbed>>
=============================================================================
