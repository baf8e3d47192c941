------------------------------ MODULE BootUpdate ------------------------------
(***************************************************************************)
(* What becomes of firmware.apk: the script update_smartrtu removes the    *)
(* old RTU application at every boot that finds the file, and installs the *)
(* new one, while the power may fail at any moment and the server app,     *)
(* which is started at the same time, may already receive the next upload. *)
(*                                                                         *)
(* The server app is Upload, which Transfer shows the session code to      *)
(* implement, with the decision of ApkValidation.  The scripts know it as  *)
(* kr.co.mirerotack.apkdownloader; the build gives it another id.  Init    *)
(* chooses the package it is installed under.                              *)
(***************************************************************************)
EXTENDS Naturals, Sequences

CONSTANTS
    Archives,           \* records [package, version, readable, installs]
    Absent,             \* no such file, no such upload
    Packages,           \* the RTU packages
    FirstPackage,       \* the one of a new device
    InitialVersion,     \* its version
    Downloader,         \* the package the scripts take for the server app's
    ServerPackages,     \* the packages the server app may have
    MaxLosses           \* bound: power failures

ASSUME BootAssumption ==
    /\ Archives \subseteq [package : Packages, version : Nat \ {0},
                           readable : BOOLEAN, installs : BOOLEAN]
    /\ Absent \notin Archives
    /\ FirstPackage \in Packages
    /\ Downloader \notin Packages
    /\ ServerPackages \cap Packages = {}
    /\ InitialVersion \in Nat \ {0}
    /\ MaxLosses \in Nat

VARIABLES
    serverPackage,  \* the package of the server app
    apps,       \* version of each RTU package that is installed, or 0
    firmware,   \* content of firmware.apk
    upload,     \* the file the server app is receiving
    session,    \* where the session is that has published firmware.apk
    armed,      \* what the reboot is posted for
    at,         \* where the script is
    pre,        \* its APP_PACKAGE_PRE, as a set, as long as it runs
    running,    \* the RTU application runs
    losses,     \* power failures so far
    (***********************************************************************)
    (* History                                                             *)
    (***********************************************************************)
    kept,       \* of the update at work, pm uninstall has failed
    disturbed   \* of the update at work, the server app has written or deleted
                \* firmware.apk since the script looked for it

device == <<serverPackage, apps, at, pre, running, losses, kept>>
server == <<firmware, upload, session, armed>>
bootVars == <<serverPackage, apps, firmware, upload, session, armed, at, pre,
              running, losses, kept, disturbed>>

-----------------------------------------------------------------------------
Installed == {p \in Packages : apps[p] > 0}

\* grep kr.co.mirerotack | grep -v apkdownloader
Listed == Installed \cup ({serverPackage} \ {Downloader})

Supervised == serverPackage = Downloader

\* Mutant: the script looks where the server app puts the file.
AnyApkFile == firmware

\* $APK_PATH is in the directory of the package Downloader.
ApkFile == IF Supervised THEN firmware ELSE Absent

V == INSTANCE ApkValidation WITH
         Installed <- {[package |-> p, version |-> apps[p]] : p \in Installed}
                          \cup {[package |-> serverPackage, version |-> 1]},
         NoApp <- Absent

\* The file may be gone by now: then there is no archive to read.
IsUpdate(a, isForceUpdate, app) ==
    a # Absent /\ V!ValidateAPK(IF a.readable THEN a ELSE Absent, isForceUpdate, app)

-----------------------------------------------------------------------------
(* The server app                                                          *)

U == INSTANCE Upload WITH Sources <- Archives

\* Between its look at the file and rm the script takes it for the same.
ChangesFile ==
    disturbed' = (disturbed \/ at \in {"uninstall", "install", "rm"})

Begin(a) ==
    /\ session = "idle"
    /\ U!Begin(a)
    /\ UNCHANGED <<session, disturbed, device>>

Abort == U!Abort /\ UNCHANGED <<session, disturbed, device>>

Publish ==
    /\ U!Publish
    /\ session' = "published"
    /\ ChangesFile
    /\ UNCHANGED device

\* The connection fails before the client has answered the last EOT.
Forget ==
    /\ session = "published"
    /\ session' = "idle"
    /\ UNCHANGED <<firmware, upload, armed, disturbed, device>>

Accept(isForceUpdate) ==
    /\ session = "published"
    /\ session' = "idle"
    /\ \E app \in V!FindInstalledPackage : IsUpdate(firmware, isForceUpdate, app)
    /\ U!Arm
    /\ UNCHANGED <<disturbed, device>>

\* The verdict; the script may go on before the file is deleted for it.
Reject(isForceUpdate) ==
    /\ session = "published"
    /\ session' = "refused"
    /\ \E app \in V!FindInstalledPackage : ~IsUpdate(firmware, isForceUpdate, app)
    /\ UNCHANGED <<firmware, upload, armed, disturbed, device>>

Delete ==
    /\ session = "refused"
    /\ session' = "idle"
    /\ firmware' = Absent
    /\ ChangesFile
    /\ UNCHANGED <<upload, armed, device>>

\* The reboot command fails, or the server app dies before it.
Disarm == U!Disarm /\ UNCHANGED <<session, disturbed, device>>

ServerStep ==
    \/ \E a \in Archives : Begin(a)
    \/ Abort \/ Publish \/ Forget \/ Delete \/ Disarm
    \/ \E isForceUpdate \in BOOLEAN : Accept(isForceUpdate) \/ Reject(isForceUpdate)

-----------------------------------------------------------------------------
(* The script                                                              *)

ScriptMoves(from, to) ==
    /\ at = from
    /\ at' = to
    /\ disturbed' = (from # "rm" /\ disturbed)
    /\ UNCHANGED <<serverPackage, losses, upload, session, armed>>

ScriptGoes(from, to) == ScriptMoves(from, to) /\ kept' = FALSE

\* Ten seconds without an answer of the package manager: exit 1.
PmNotReady ==
    /\ ScriptGoes("boot", "done")
    /\ UNCHANGED <<apps, pre, running, firmware>>

ListPackages ==
    /\ ScriptGoes("boot", "check")
    /\ pre' = Listed
    /\ UNCHANGED <<apps, running, firmware>>

\* Mutant: remove first, look for the file afterwards.
CheckNothing ==
    /\ ScriptGoes("check", IF pre = {} THEN "install" ELSE "uninstall")
    /\ UNCHANGED <<apps, pre, running, firmware>>

\* No app: install in any case.  An app and no file: nothing to do, and the command
\* that would start the app is commented out.
CheckFile ==
    /\ ScriptGoes("check", IF pre = {} THEN "install" ELSE "uninstall")
    /\ pre # {} => ApkFile # Absent
    /\ UNCHANGED <<apps, pre, running, firmware>>

NothingToDo ==
    /\ ScriptGoes("check", "done")
    /\ pre # {} /\ ApkFile = Absent
    /\ pre' = {}
    /\ UNCHANGED <<apps, running, firmware>>

\* Mutant: the old app is only replaced.
UninstallNothing ==
    /\ ScriptGoes("uninstall", "install")
    /\ UNCHANGED <<apps, pre, running, firmware>>

Uninstall ==
    /\ ScriptGoes("uninstall", "install")
    /\ \E p \in Packages : pre = {p}
    /\ apps' = [p \in Packages |-> IF p \in pre THEN 0 ELSE apps[p]]
    /\ running' = FALSE
    /\ UNCHANGED <<pre, firmware>>

\* pm uninstall fails, as it does with several lines in $APP_PACKAGE_PRE, which
\* name no package.  What it prints goes to the log only.
UninstallFails ==
    /\ ScriptMoves("uninstall", "install")
    /\ kept' = TRUE
    /\ UNCHANGED <<apps, pre, running, firmware>>

\* Mutant: -r is taken for an option that needs something to replace.
InstallsOver(a) == a # Absent /\ a.installs /\ apps[a.package] \in 1..a.version

\* pm install -r refuses an older version of what is installed.
Installs(a) == a # Absent /\ a.installs /\ a.version >= apps[a.package]

Install ==
    /\ ScriptGoes("install", "rm")
    /\ apps' = IF Installs(ApkFile)
               THEN [apps EXCEPT ![ApkFile.package] = ApkFile.version]
               ELSE apps
    /\ UNCHANGED <<pre, running, firmware>>

\* The file goes whether it could be installed or not.
RemoveApk ==
    /\ ScriptGoes("rm", "post")
    /\ firmware' = IF Supervised THEN Absent ELSE firmware
    /\ UNCHANGED <<apps, pre, running>>

\* am start with the one package the list has now.  It may fail.
StartApp ==
    /\ ScriptGoes("post", "done")
    /\ running' \in {running, running \/ \E p \in Installed : Listed = {p}}
    /\ pre' = {}
    /\ UNCHANGED <<apps, firmware>>

ScriptStep ==
    \/ ListPackages \/ CheckFile \/ NothingToDo \/ Uninstall \/ UninstallFails
    \/ Install \/ RemoveApk \/ StartApp

-----------------------------------------------------------------------------
(* The device                                                              *)

Restart ==
    /\ at' = "boot"
    /\ pre' = {}
    /\ running' = FALSE
    /\ upload' = Absent
    /\ session' = "idle"
    /\ armed' = Absent
    /\ kept' = FALSE
    /\ disturbed' = FALSE
    /\ UNCHANGED <<serverPackage, apps, firmware>>

\* rebootDevice, posted five seconds after the verdict.
Reboot == armed # Absent /\ Restart /\ UNCHANGED losses

PowerLoss ==
    /\ losses < MaxLosses
    /\ losses' = losses + 1
    /\ Restart

\* The boot receiver of the RTU application, or a user, starts it.
AppStarts ==
    /\ Installed # {}
    /\ ~running
    /\ running' = TRUE
    /\ UNCHANGED <<serverPackage, apps, at, pre, losses, kept, disturbed, server>>

Init ==
    /\ serverPackage \in ServerPackages
    /\ apps = [p \in Packages |-> IF p = FirstPackage THEN InitialVersion ELSE 0]
    /\ firmware = Absent
    /\ upload = Absent
    /\ session = "idle"
    /\ armed = Absent
    /\ at = "boot"
    /\ pre = {}
    /\ running = FALSE
    /\ losses = 0
    /\ kept = FALSE
    /\ disturbed = FALSE

Next == ServerStep \/ ScriptStep \/ PmNotReady \/ Reboot \/ PowerLoss \/ AppStarts

Spec == Init /\ [][Next]_bootVars

\* The script runs on, and the posted reboot is run.
FairBoot == Spec /\ WF_bootVars(ScriptStep) /\ WF_bootVars(Reboot)

-----------------------------------------------------------------------------
(* Properties                                                              *)

TypeOK ==
    /\ serverPackage \in ServerPackages
    /\ apps \in [Packages -> Nat]
    /\ firmware \in Archives \cup {Absent}
    /\ upload \in Archives \cup {Absent}
    /\ session \in {"idle", "published", "refused"}
    /\ armed \in Archives \cup {Absent}
    /\ at \in {"boot", "check", "uninstall", "install", "rm", "post", "done"}
    /\ pre \subseteq Packages \cup ServerPackages
    /\ running \in BOOLEAN
    /\ losses \in 0..MaxLosses
    /\ kept \in BOOLEAN
    /\ disturbed \in BOOLEAN

\* The device is not without both: an RTU application, and the file to install
\* one from at the next boot.
AppOrArchive == Installed # {} \/ ApkFile # Absent

OneApp == \A p, q \in Installed : p = q

\* Where the script is, its list of packages is the one there is now.
ScriptInv ==
    /\ at \in {"check", "uninstall"} => pre = Listed
    /\ at = "uninstall" => pre # {}
    /\ at = "install" => (kept <=> Installed # {})
    /\ kept => at = "install"
    /\ disturbed => at \in {"uninstall", "install", "rm"}

\* The script of a server app that has another package than the script knows
\* sees at least that one, and no file.
OtherBuildInv ==
    ~Supervised => /\ at \in {"boot", "check", "done"}
                   /\ Installed = {FirstPackage}

\* The script removes an application only if it has seen an archive, and leaves
\* one behind without an application only if it cannot be installed.
CalmInv ==
    ~disturbed =>
        /\ at = "uninstall" => firmware # Absent
        /\ at = "rm" /\ firmware # Absent => Installed # {} \/ ~firmware.installs

\* An archive was refused because it cannot be read, or for the application that
\* is there, or has been until now.
VerdictInv ==
    session = "refused" /\ firmware # Absent =>
        ~firmware.readable \/ Installed # {} \/ at \in {"install", "rm"}

BootInv ==
    TypeOK /\ ScriptInv /\ OtherBuildInv /\ CalmInv /\ VerdictInv

\* The archives that the code can update to.
Usable == {a \in Archives : a.readable /\ a.installs}

\* What takes the last of the two from the device, wherever the power fails, is
\* one of two things: a file that is no usable archive, as it cannot be read or
\* the package manager refuses it after the script has removed the old
\* application for it; or an upload that the server app stores or deletes while
\* the script is at work.
LossHasCause ==
    [][AppOrArchive /\ ~AppOrArchive' =>
           disturbed \/ disturbed' \/ firmware \in Archives \ Usable]_bootVars

\* The update does not leave two RTU applications behind, which the script could
\* not remove at the next update, unless pm uninstall has failed in it.
SecondAppHasCause == [][OneApp /\ ~OneApp' => kept]_bootVars

\* A server app under another id than the one in the scripts, which is what the
\* repository builds, may receive and accept what it likes: no application is ever
\* removed or installed for it.
OtherBuildNeverUpdates == [][~Supervised => apps' = apps]_bootVars

Apps == {[package |-> p, version |-> apps[p]] : p \in Installed}

Changing == Installed = {}

NewApp == {[package |-> a.package, version |-> a.version] : a \in {ApkFile} \ {Absent}}

DeviceApp == IF Changing THEN NewApp ELSE Apps

\* Where there is no application, one is to come.
D == INSTANCE Device WITH
         FirstApp <- [package |-> FirstPackage, version |-> InitialVersion],
         app      <- DeviceApp,
         firmware <- ApkFile,
         changing <- Changing

\* The script, the server app and whatever interrupts them implement the abstract
\* device: an update happens in two steps, with the new file there between them.
DeviceSpec == D!Spec

\* The reboot for archive a leads to its installation, however often the power
\* fails: or pm uninstall fails, or a client sends another one, or nothing reboots
\* the device, or the package manager is not ready, and then the file is still
\* there.  What is stored between pm install and rm goes with the old file.
Updates(a) ==
    Supervised /\ at # "rm" /\ armed = a /\ firmware = a /\ session = "idle" ~>
        \/ apps[a.package] = a.version
        \/ kept
        \/ upload # Absent
        \/ at = "done" /\ armed = Absent /\ ApkFile = a

\* Under the package that the scripts are written for, a file that was found good,
\* and that installs, is installed.
UpdateHappens == \A a \in Usable : Updates(a)

-----------------------------------------------------------------------------
(* What a comment of the script says                                       *)

\* "If there is an APK file: remove the existing app, then install the
\* received one."
RemovedMeansReplaced == at = "post" /\ pre # {} => Installed # {}
=============================================================================
