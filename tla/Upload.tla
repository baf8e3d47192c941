-------------------------------- MODULE Upload --------------------------------
(***************************************************************************)
(* What the upload service promises about the firmware file, whatever      *)
(* happens on the wire: it holds one complete upload or does not exist,    *)
(* it changes in one step, and the reboot is armed only for the file that  *)
(* is there at that moment.                                                *)
(***************************************************************************)
CONSTANTS
    Sources,    \* the files clients upload
    Absent      \* no such file, no such upload; in none of the Sources

VARIABLES
    upload,     \* the file being received, or Absent
    firmware,   \* content of firmware.apk, or Absent
    armed       \* what the reboot is armed for, or Absent

Contents == Sources \cup {Absent}

TypeOK ==
    /\ upload \in Contents
    /\ firmware \in Contents
    /\ armed \in Contents

Init ==
    /\ upload = Absent
    /\ firmware = Absent
    /\ armed = Absent

Begin(s) ==
    /\ upload = Absent
    /\ upload' = s
    /\ UNCHANGED <<firmware, armed>>

Abort ==
    /\ upload # Absent
    /\ upload' = Absent
    /\ UNCHANGED <<firmware, armed>>

Publish ==
    /\ upload # Absent
    /\ firmware' = upload
    /\ upload' = Absent
    /\ UNCHANGED armed

Arm ==
    /\ firmware # Absent
    /\ armed' = firmware
    /\ UNCHANGED <<upload, firmware>>

\* The command to reboot could not be started.
Disarm ==
    /\ armed # Absent
    /\ armed' = Absent
    /\ UNCHANGED <<upload, firmware>>

Refuse ==
    /\ firmware # Absent
    /\ firmware' = Absent
    /\ UNCHANGED <<upload, armed>>

Next ==
    (\E s \in Sources : Begin(s)) \/ Abort \/ Publish \/ Arm \/ Disarm \/ Refuse

Spec == Init /\ [][Next]_<<upload, firmware, armed>>
=============================================================================
