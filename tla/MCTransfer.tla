------------------------------ MODULE MCTransfer ------------------------------
(***************************************************************************)
(* Instances of Transfer for TLC: two units per long block, one per short  *)
(* block, block numbers modulo 3, so that a file of four blocks wraps them.*)
(***************************************************************************)
EXTENDS Acceptance, TLC

CONSTANTS PADDING, RTUAPP, OTHERAPP

MCUnits == 1..9 \cup {PADDING}

Info(name, source, sync, reboot, force) ==
    [name |-> name, size |-> Len(source), sync |-> sync, reboot |-> reboot,
     force |-> force, wellFormed |-> TRUE]

Upl(source, short, force) ==
    [source |-> source, short |-> short,
     info |-> Info("smartrtu.apk", source, FALSE, FALSE, force)]

Ask(sync, reboot) ==
    [source |-> <<>>, short |-> FALSE,
     info |-> Info("none", <<>>, sync, reboot, FALSE)]

Wrapping == Upl(<<1, 2, 3, 4, 5, 6, 7>>, FALSE, FALSE)  \* four blocks
Newer    == Upl(<<1, 2, 3>>, FALSE, FALSE)
Older    == Upl(<<4, 5>>, FALSE, FALSE)
Other    == Upl(<<6, 7>>, FALSE, TRUE)
NotAnApk == Upl(<<8, 9>>, FALSE, TRUE)
Nothing  == Upl(<<>>, FALSE, FALSE)
Direct   == [Upl(<<1, 2, 3>>, FALSE, FALSE) EXCEPT !.info.name = "firmware.apk"]
ShortOdd == Upl(<<1, 2, 3>>, TRUE, FALSE)
ShortFit == Upl(<<4, 5>>, TRUE, FALSE)
BadHeader == [Ask(FALSE, FALSE) EXCEPT !.info.wellFormed = FALSE]
Sync     == Ask(TRUE, FALSE)
Reboot   == Ask(FALSE, TRUE)

MCNames == {"smartrtu.apk", "none", "firmware.apk"}

AppInfo(package, version) == [package |-> package, version |-> version]

\* The server app has its own package, which is not the one left out.
MCInstalled == {AppInfo("btsever1", 1), AppInfo(RTUAPP, 2)}

MCArchive ==
    (<<1, 2, 3, 4, 5, 6, 7>> :> AppInfo(RTUAPP, 3)) @@
    (<<1, 2, 3>> :> AppInfo(RTUAPP, 3)) @@
    (<<4, 5>>    :> AppInfo(RTUAPP, 2)) @@
    (<<6, 7>>    :> AppInfo(OTHERAPP, 1))

AllJobs == {Wrapping, Newer, Older, Other, NotAnApk, Nothing, Direct, ShortOdd,
            ShortFit, BadHeader, Sync, Reboot}
LongUploads == {Wrapping, Newer, Older, Other, NotAnApk}
=============================================================================
