-------------------------- MODULE SupervisionProofs --------------------------
(***************************************************************************)
(* What the device keeps, whenever the power fails, a process ends or the  *)
(* server app stores and deletes a file: one RTU application as long as pm *)
(* uninstall does what it is told, and an application or a file to install *)
(* it from, but for the causes that LossHasCause names.  The scripts that  *)
(* run with the update change nothing of this: every step of the           *)
(* composition is one of BootUpdate, or the end of the server app, or a    *)
(* start or an end of the RTU application.                                 *)
(***************************************************************************)
EXTENDS Supervision, TLAPS

-----------------------------------------------------------------------------
(* The boot script alone.                                                  *)

\* The server app does not touch the applications or the script.
LEMMA ServerKeepsDevice ==
    ASSUME TypeOK, ServerStep
    PROVE  /\ UNCHANGED device
           /\ TypeOK'
  <1>1. /\ UNCHANGED device
        /\ firmware' \in Archives \cup {Absent}
        /\ upload' \in Archives \cup {Absent}
        /\ session' \in {"idle", "published", "refused"}
        /\ armed' \in Archives \cup {Absent}
        /\ disturbed' \in BOOLEAN
      BY DEF TypeOK, ServerStep, Begin, Abort, Publish, Forget, Disarm, Accept,
             Reject, Delete, ChangesFile, U!Begin, U!Abort, U!Publish, U!Disarm, U!Arm
  <1> QED BY <1>1 DEF TypeOK, device

LEMMA SameApps ==
    ASSUME UNCHANGED <<serverPackage, apps>>
    PROVE  /\ Installed' = Installed
           /\ Listed' = Listed
           /\ Supervised' = Supervised
    BY DEF Installed, Listed, Supervised

\* Where the script reads an archive, it is firmware.apk.
LEMMA ApkFileIsFirmware ==
    /\ Supervised => ApkFile = firmware
    /\ ~Supervised => ApkFile = Absent
    BY DEF ApkFile

LEMMA InitBootInv == Init => BootInv
  <1> SUFFICES ASSUME Init PROVE BootInv
      OBVIOUS
  <1>1. TypeOK
    <2>1. apps \in [Packages -> Nat] /\ losses \in 0..MaxLosses
        BY BootAssumption DEF Init
    <2> QED BY <2>1 DEF Init, TypeOK
  <1>2. Installed = {FirstPackage}
      BY BootAssumption DEF Init, Installed
  <1>3. ScriptInv /\ OtherBuildInv /\ CalmInv /\ VerdictInv
      BY <1>2 DEF Init, ScriptInv, OtherBuildInv, CalmInv, VerdictInv
  <1> QED BY <1>1, <1>3 DEF BootInv

\* Whatever a server app finds that refuses an archive it can read, there is an
\* application.
LEMMA RefusedForApp ==
    ASSUME OtherBuildInv, NEW a \in Archives, a.readable,
           NEW isForceUpdate, NEW app \in V!FindInstalledPackage,
           ~IsUpdate(a, isForceUpdate, app)
    PROVE  Installed # {}
  <1>1. a # Absent
      BY BootAssumption
  <1>2. app # Absent
      BY <1>1 DEF IsUpdate, V!ValidateAPK
  <1>3. /\ app \in {[package |-> p, version |-> apps[p]] : p \in Installed}
                       \cup {[package |-> serverPackage, version |-> 1]}
        /\ app.package # Downloader
      BY <1>2 DEF V!FindInstalledPackage
  <1>4. CASE Installed = {}
    <2>1. app = [package |-> serverPackage, version |-> 1]
        BY <1>3, <1>4
    <2>2. ~Supervised
        BY <1>3, <2>1 DEF Supervised
    <2> QED BY <1>4, <2>2 DEF OtherBuildInv
  <1> QED BY <1>4

LEMMA ServerKeepsInv ==
    ASSUME BootInv, ServerStep
    PROVE  BootInv'
  <1>1. TypeOK' /\ UNCHANGED device
      BY ServerKeepsDevice DEF BootInv
  <1>2. /\ Installed' = Installed /\ Listed' = Listed /\ Supervised' = Supervised
        /\ UNCHANGED <<apps, at, pre, kept>>
      BY <1>1, SameApps DEF device
  <1>3. \/ UNCHANGED <<firmware, disturbed>> /\ session' # "refused"
        \/ UNCHANGED <<firmware, disturbed, session>>
        \/ \E isForceUpdate \in BOOLEAN : Reject(isForceUpdate)
        \/ ChangesFile /\ session' # "refused"
      BY DEF ServerStep, Begin, Abort, Publish, Forget, Delete, Disarm, Accept,
             U!Abort, U!Disarm, U!Begin, U!Arm
  <1>4. (\E isForceUpdate \in BOOLEAN : Reject(isForceUpdate))
            => UNCHANGED <<firmware, disturbed>>
      BY DEF Reject
  <1>5. ScriptInv'
    <2>1. disturbed' => disturbed \/ at \in {"uninstall", "install", "rm"}
        BY <1>3, <1>4 DEF ChangesFile
    <2> QED BY <1>2, <2>1 DEF BootInv, ScriptInv
  <1>6. OtherBuildInv'
      BY <1>2 DEF BootInv, OtherBuildInv
  <1>7. CalmInv'
    <2>1. CASE UNCHANGED <<firmware, disturbed>>
        BY <1>2, <2>1 DEF BootInv, CalmInv
    <2>2. CASE ChangesFile
        BY <1>2, <2>2 DEF ChangesFile, CalmInv
    <2> QED BY <1>3, <1>4, <2>1, <2>2
  <1>8. VerdictInv'
    <2>1. CASE session' # "refused"
        BY <2>1 DEF VerdictInv
    <2>2. CASE UNCHANGED <<firmware, disturbed, session>>
        BY <1>2, <2>2 DEF BootInv, VerdictInv
    <2>3. ASSUME NEW isForceUpdate \in BOOLEAN, Reject(isForceUpdate)
          PROVE  VerdictInv'
      <3>1. PICK app \in V!FindInstalledPackage : ~IsUpdate(firmware, isForceUpdate, app)
          BY <2>3 DEF Reject
      <3>2. firmware' = firmware
          BY <2>3 DEF Reject
      <3>3. firmware \in Archives /\ firmware.readable => Installed # {}
          BY <3>1, RefusedForApp DEF BootInv
      <3> QED BY <1>2, <3>2, <3>3 DEF VerdictInv, BootInv, TypeOK
    <2> QED BY <1>3, <2>1, <2>2, <2>3
  <1> QED BY <1>1, <1>5, <1>6, <1>7, <1>8 DEF BootInv

-----------------------------------------------------------------------------
(* The steps of the script, with what its invariant says of them.          *)

LEMMA ScriptTypes ==
    ASSUME TypeOK, NEW from, NEW to, ScriptMoves(from, to)
    PROVE  /\ UNCHANGED <<serverPackage, losses, upload, session, armed>>
           /\ disturbed' \in BOOLEAN
           /\ disturbed' => disturbed /\ from # "rm"
           /\ Supervised' = Supervised
    BY DEF ScriptMoves, TypeOK, Supervised

\* Steps of the script that change nothing but what it knows.
LookStep ==
    PmNotReady \/ ListPackages \/ CheckFile \/ NothingToDo \/ StartApp

LEMMA LookKeepsApps ==
    ASSUME LookStep
    PROVE  /\ UNCHANGED <<serverPackage, apps, firmware, losses, upload, session, armed>>
           /\ kept' = FALSE /\ (disturbed' => disturbed)
           /\ at' \in {"done", "check", "install", "uninstall"}
    BY DEF LookStep, PmNotReady, ListPackages, CheckFile, NothingToDo, StartApp,
           ScriptGoes, ScriptMoves

LEMMA LookKeepsInv ==
    ASSUME BootInv, LookStep
    PROVE  BootInv'
  <1>1. /\ UNCHANGED <<serverPackage, apps, firmware, losses, upload, session, armed>>
        /\ kept' = FALSE /\ (disturbed' => disturbed)
      BY LookKeepsApps
  <1>2. Installed' = Installed /\ Listed' = Listed /\ Supervised' = Supervised
      BY <1>1, SameApps
  <1>3. disturbed' = (at # "rm" /\ disturbed) /\ at # "rm"
      BY DEF LookStep, PmNotReady, ListPackages, CheckFile, NothingToDo, StartApp,
             ScriptGoes, ScriptMoves
  <1>4. disturbed' = FALSE
    <2>1. at \in {"boot", "check", "post"}
        BY DEF LookStep, PmNotReady, ListPackages, CheckFile, NothingToDo, StartApp,
               ScriptGoes, ScriptMoves
    <2> QED BY <1>3, <2>1 DEF BootInv, ScriptInv
  <1>5. CASE PmNotReady \/ NothingToDo \/ StartApp
    <2>1. /\ at' = "done" /\ running' \in BOOLEAN
          /\ pre' = {} \/ pre' = pre
          /\ Supervised \/ at \in {"boot", "check"}
        BY <1>5 DEF PmNotReady, NothingToDo, StartApp, ScriptGoes, ScriptMoves,
           BootInv, TypeOK, OtherBuildInv
    <2>2. TypeOK'
        BY <1>1, <1>4, <2>1 DEF BootInv, TypeOK
    <2>3. ScriptInv' /\ CalmInv'
        BY <1>1, <1>4, <2>1 DEF ScriptInv, CalmInv
    <2>4. OtherBuildInv'
        BY <1>2, <2>1 DEF BootInv, OtherBuildInv
    <2>5. VerdictInv'
        BY <1>1, <1>2, <1>5 DEF BootInv, VerdictInv, PmNotReady, NothingToDo, StartApp,
           ScriptGoes, ScriptMoves
    <2> QED BY <2>2, <2>3, <2>4, <2>5 DEF BootInv
  <1>6. CASE ListPackages
    <2>1. at = "boot" /\ at' = "check" /\ pre' = Listed /\ running' = running
        BY <1>6 DEF ListPackages, ScriptGoes, ScriptMoves
    <2>2. Listed \subseteq Packages \cup ServerPackages
        BY DEF Listed, Installed, BootInv, TypeOK
    <2>3. TypeOK'
        BY <1>1, <1>4, <2>1, <2>2 DEF BootInv, TypeOK
    <2>4. ScriptInv' /\ CalmInv' /\ OtherBuildInv' /\ VerdictInv'
        BY <1>1, <1>2, <1>4, <2>1 DEF BootInv, ScriptInv, CalmInv, OtherBuildInv,
           VerdictInv
    <2> QED BY <2>3, <2>4 DEF BootInv
  <1>7. CASE CheckFile
    <2>1. /\ at = "check" /\ UNCHANGED <<pre, running>>
          /\ at' = IF pre = {} THEN "install" ELSE "uninstall"
          /\ pre # {} => ApkFile # Absent
        BY <1>7 DEF CheckFile, ScriptGoes, ScriptMoves
    <2>2. pre = Listed
        BY <2>1 DEF BootInv, ScriptInv
    <2>3. Supervised
      <3>1. ~Supervised => Listed # {}
          BY DEF Supervised, Listed
      <3> QED BY <2>1, <2>2, <3>1, ApkFileIsFirmware
    <2>4. Listed = Installed
        BY <2>3 DEF Supervised, Listed
    <2>5. TypeOK'
        BY <1>1, <1>4, <2>1 DEF BootInv, TypeOK
    <2>6. ScriptInv'
        BY <1>1, <1>2, <1>4, <2>1, <2>2, <2>4 DEF ScriptInv
    <2>7. OtherBuildInv'
        BY <1>2, <2>3 DEF OtherBuildInv
    <2>8. CalmInv'
        BY <1>1, <2>1, <2>3, ApkFileIsFirmware DEF CalmInv
    <2>9. VerdictInv'
        BY <1>1, <1>2, <2>1 DEF BootInv, VerdictInv
    <2> QED BY <2>5, <2>6, <2>7, <2>8, <2>9 DEF BootInv
  <1> QED BY <1>5, <1>6, <1>7 DEF LookStep

\* What the script removes is the one application there is.
LEMMA UninstallRemoves ==
    ASSUME BootInv, Uninstall
    PROVE  /\ Supervised
           /\ at = "uninstall" /\ at' = "install"
           /\ Installed # {} /\ Installed' = {}
           /\ apps' \in [Packages -> Nat]
           /\ UNCHANGED <<pre, firmware>>
           /\ kept = FALSE /\ kept' = FALSE
           /\ disturbed' = disturbed
           /\ running' = FALSE
  <1>1. /\ at = "uninstall" /\ at' = "install"
        /\ kept' = FALSE /\ running' = FALSE /\ UNCHANGED <<pre, firmware>>
        /\ apps' = [p \in Packages |-> IF p \in pre THEN 0 ELSE apps[p]]
        /\ disturbed' = (at # "rm" /\ disturbed)
      BY DEF Uninstall, ScriptGoes, ScriptMoves
  <1>2. PICK p \in Packages : pre = {p}
      BY DEF Uninstall
  <1>3. Supervised /\ pre = Listed /\ pre # {} /\ kept = FALSE
      BY <1>1 DEF BootInv, OtherBuildInv, ScriptInv, TypeOK
  <1>4. pre = Installed
      BY <1>3 DEF Listed, Supervised
  <1>5. Installed' = {}
      BY <1>1, <1>4 DEF Installed
  <1>6. apps' \in [Packages -> Nat]
      BY <1>1 DEF BootInv, TypeOK
  <1>7. disturbed' = disturbed
      BY <1>1 DEF BootInv, TypeOK
  <1> QED BY <1>1, <1>3, <1>4, <1>5, <1>6, <1>7

\* Where nothing is installed, an archive that installs is not refused for its
\* version.
LEMMA NothingIsOlder ==
    ASSUME BootInv, Installed = {}, NEW a \in Archives, a.installs
    PROVE  Installs(a)
  <1>1. a # Absent /\ a.package \in Packages /\ a.version \in Nat
      BY BootAssumption
  <1>2. apps[a.package] = 0
      BY <1>1 DEF Installed, BootInv, TypeOK
  <1> QED BY <1>1, <1>2 DEF Installs

LEMMA InstallAdds ==
    ASSUME BootInv, Install
    PROVE  /\ Supervised
           /\ at = "install" /\ at' = "rm"
           /\ kept <=> Installed # {}
           /\ UNCHANGED <<pre, running, firmware>>
           /\ kept' = FALSE /\ disturbed' = disturbed
           /\ apps' \in [Packages -> Nat]
           /\ Installs(firmware) =>
                  /\ firmware \in Archives
                  /\ apps' = [apps EXCEPT ![firmware.package] = firmware.version]
                  /\ Installed' = Installed \cup {firmware.package}
           /\ ~Installs(firmware) => apps' = apps /\ Installed' = Installed
  <1>1. /\ at = "install" /\ at' = "rm" /\ kept' = FALSE
        /\ UNCHANGED <<pre, running, firmware>>
        /\ disturbed' = (at # "rm" /\ disturbed)
        /\ apps' = IF Installs(ApkFile)
                   THEN [apps EXCEPT ![ApkFile.package] = ApkFile.version]
                   ELSE apps
      BY DEF Install, ScriptGoes, ScriptMoves
  <1>2. Supervised /\ (kept <=> Installed # {}) /\ disturbed' = disturbed
      BY <1>1 DEF BootInv, OtherBuildInv, ScriptInv, TypeOK
  <1>3. ApkFile = firmware
      BY <1>2, ApkFileIsFirmware
  <1>4. apps \in [Packages -> Nat]
      BY DEF BootInv, TypeOK
  <1>5. ASSUME Installs(firmware)
        PROVE  /\ firmware \in Archives
               /\ apps' = [apps EXCEPT ![firmware.package] = firmware.version]
               /\ apps' \in [Packages -> Nat]
               /\ Installed' = Installed \cup {firmware.package}
    <2>1. firmware \in Archives
        BY <1>5 DEF Installs, BootInv, TypeOK
    <2>2. firmware.package \in Packages /\ firmware.version \in Nat \ {0}
        BY <2>1, BootAssumption
    <2>3. apps' = [apps EXCEPT ![firmware.package] = firmware.version]
        BY <1>1, <1>3, <1>5
    <2>4. apps' \in [Packages -> Nat]
        BY <1>4, <2>2, <2>3
    <2>5. \A p \in Packages :
              apps'[p] > 0 <=> apps[p] > 0 \/ p = firmware.package
        BY <1>4, <2>2, <2>3
    <2> QED BY <2>1, <2>2, <2>3, <2>4, <2>5 DEF Installed
  <1>6. ASSUME ~Installs(firmware)
        PROVE  apps' = apps /\ Installed' = Installed
      BY <1>1, <1>3, <1>6 DEF Installed
  <1> QED BY <1>1, <1>2, <1>4, <1>5, <1>6

LEMMA ChangeKeepsInv ==
    ASSUME BootInv, Uninstall \/ UninstallFails \/ Install \/ RemoveApk
    PROVE  BootInv'
  <1>1. /\ UNCHANGED <<serverPackage, losses, upload, session, armed>>
        /\ disturbed' \in BOOLEAN /\ Supervised' = Supervised
      BY ScriptTypes DEF BootInv, Uninstall, UninstallFails, Install, RemoveApk,
         ScriptGoes
  <1>2. Supervised
      BY DEF BootInv, OtherBuildInv, Uninstall, UninstallFails, Install, RemoveApk,
         ScriptGoes, ScriptMoves
  <1>3. OtherBuildInv'
      BY <1>1, <1>2 DEF OtherBuildInv
  <1>4. CASE Uninstall
    <2>1. TypeOK'
        BY <1>1, <1>4, UninstallRemoves DEF BootInv, TypeOK
    <2>2. ScriptInv' /\ CalmInv' /\ VerdictInv'
        BY <1>4, UninstallRemoves DEF ScriptInv, CalmInv, VerdictInv
    <2> QED BY <1>3, <2>1, <2>2 DEF BootInv
  <1>5. CASE UninstallFails
    <2>1. /\ at = "uninstall" /\ at' = "install" /\ kept' = TRUE
          /\ UNCHANGED <<apps, pre, running, firmware>>
        BY <1>5 DEF UninstallFails, ScriptMoves
    <2>2. Installed' = Installed /\ Installed # {}
        BY <1>1, <1>2, <2>1, SameApps DEF BootInv, ScriptInv, Listed, Supervised
    <2>3. TypeOK'
        BY <1>1, <2>1 DEF BootInv, TypeOK
    <2>4. ScriptInv' /\ CalmInv' /\ VerdictInv'
        BY <2>1, <2>2 DEF ScriptInv, CalmInv, VerdictInv
    <2> QED BY <1>3, <2>3, <2>4 DEF BootInv
  <1>6. CASE Install
    <2>1. TypeOK'
        BY <1>1, <1>6, InstallAdds DEF BootInv, TypeOK
    <2>2. ScriptInv' /\ VerdictInv'
        BY <1>6, InstallAdds DEF ScriptInv, VerdictInv
    <2>3. ASSUME firmware \in Archives, firmware.installs
          PROVE  Installed' # {}
        BY <1>6, <2>3, InstallAdds, NothingIsOlder
    <2>4. CalmInv'
        BY <1>6, <2>3, InstallAdds DEF CalmInv, BootInv, TypeOK
    <2> QED BY <1>3, <2>1, <2>2, <2>4 DEF BootInv
  <1>7. CASE RemoveApk
    <2>1. /\ at = "rm" /\ at' = "post" /\ kept' = FALSE /\ disturbed' = FALSE
          /\ firmware' = Absent /\ UNCHANGED <<apps, pre, running>>
        BY <1>2, <1>7 DEF RemoveApk, ScriptGoes, ScriptMoves
    <2>2. TypeOK'
        BY <1>1, <2>1 DEF BootInv, TypeOK
    <2>3. ScriptInv' /\ CalmInv' /\ VerdictInv'
        BY <2>1 DEF ScriptInv, CalmInv, VerdictInv
    <2> QED BY <1>3, <2>2, <2>3 DEF BootInv
  <1> QED BY <1>4, <1>5, <1>6, <1>7

LEMMA StepKeepsBootInv == BootInv /\ [Next]_bootVars => BootInv'
  <1> SUFFICES ASSUME BootInv, [Next]_bootVars
               PROVE  BootInv'
      OBVIOUS
  <1>1. CASE ServerStep
      BY <1>1, ServerKeepsInv
  <1>2. CASE ScriptStep \/ PmNotReady
      BY <1>2, LookKeepsInv, ChangeKeepsInv DEF ScriptStep, LookStep
  <1>3. CASE Reboot \/ PowerLoss
    <2>1. Restart /\ losses' \in 0..MaxLosses
        BY <1>3, BootAssumption DEF Reboot, PowerLoss, BootInv, TypeOK
    <2>2. Installed' = Installed /\ Supervised' = Supervised
        BY <2>1, SameApps DEF Restart
    <2>3. TypeOK'
        BY <2>1 DEF Restart, BootInv, TypeOK
    <2>4. ScriptInv' /\ CalmInv' /\ VerdictInv' /\ OtherBuildInv'
        BY <2>1, <2>2 DEF Restart, BootInv, ScriptInv, CalmInv, VerdictInv,
           OtherBuildInv
    <2> QED BY <2>3, <2>4 DEF BootInv
  <1>4. CASE AppStarts \/ UNCHANGED bootVars
    <2>1. /\ UNCHANGED <<serverPackage, apps, at, pre, losses, kept, disturbed, server>>
          /\ running' \in BOOLEAN
        BY <1>4 DEF AppStarts, bootVars, server, BootInv, TypeOK
    <2>2. Installed' = Installed /\ Listed' = Listed /\ Supervised' = Supervised
        BY <2>1, SameApps
    <2>3. TypeOK'
        BY <2>1 DEF server, BootInv, TypeOK
    <2>4. ScriptInv' /\ CalmInv' /\ VerdictInv' /\ OtherBuildInv'
        BY <2>1, <2>2 DEF server, BootInv, ScriptInv, CalmInv, VerdictInv,
           OtherBuildInv
    <2> QED BY <2>3, <2>4 DEF BootInv
  <1> QED BY <1>1, <1>2, <1>3, <1>4 DEF Next

-----------------------------------------------------------------------------
(* The three scripts.                                                      *)

RunningChanges == running' \in BOOLEAN /\ OnlyRunningChanges

LEMMA StepsOfSupervision ==
    ASSUME BootInv, [SupervisionNext]_vars
    PROVE  [Next]_bootVars \/ ServerLoses \/ RunningChanges
  <1>1. CASE ServerRuns \/ Scripts \/ Reboots \/ LosesPower \/ RtuStarts
      BY <1>1 DEF ServerRuns, Scripts, Reboots, LosesPower, RtuStarts, Next
  <1>2. CASE ServerDies \/ Launch \/ LaunchFails \/ RestartServer \/ RestartFails
      BY <1>2 DEF ServerDies, Launch, LaunchFails, RestartServer, RestartFails,
         AmStartServer, AmStartFails
  <1>3. CASE RtuEnds \/ AmStartRtu
      BY <1>3 DEF RtuEnds, AmStartRtu, RunningChanges, BootInv, TypeOK
  <1>4. CASE UserStartsServer \/ IniAppears
      BY <1>4 DEF UserStartsServer, IniAppears
  <1>5. CASE DownloadApk
      BY <1>2, <1>5 DEF DownloadApk, FindIni, PmReady, PmSilent, InstallServer,
         InstallFails, Watch, InitRestarts
  <1>6. CASE ServiceState
      BY <1>3, <1>6 DEF ServiceState, CheckStatus, ListRtu, SeenRunning, NoActivity,
         NothingToStart, FindActivity, Launched, TryAgain, StartFailed, Sleep
  <1>7. CASE PmNotReady \/ UNCHANGED vars
      BY <1>7 DEF Next, vars
  <1> QED BY <1>1, <1>2, <1>3, <1>4, <1>5, <1>6, <1>7 DEF SupervisionNext

\* What concerns the RTU application and the file is the same after the end of the
\* server app, and after a start or an end of the application.
LEMMA OtherStepsKeep ==
    ASSUME ServerLoses \/ RunningChanges
    PROVE  UNCHANGED <<serverPackage, apps, firmware, at, pre, losses, kept, disturbed>>
    BY DEF ServerLoses, RunningChanges, OnlyRunningChanges, device, server

LEMMA SupervisionKeepsBootInv ==
    ASSUME BootInv, [SupervisionNext]_vars
    PROVE  BootInv'
  <1>1. CASE [Next]_bootVars
      BY <1>1, StepKeepsBootInv
  <1>2. CASE ServerLoses \/ RunningChanges
    <2>1. UNCHANGED <<serverPackage, apps, firmware, at, pre, losses, kept, disturbed>>
        BY <1>2, OtherStepsKeep
    <2>2. /\ running' \in BOOLEAN
          /\ upload' \in Archives \cup {Absent} /\ armed' \in Archives \cup {Absent}
          /\ session' = "idle" \/ session' = session
        BY <1>2 DEF ServerLoses, RunningChanges, OnlyRunningChanges, device, server,
           BootInv, TypeOK
    <2>3. Installed' = Installed /\ Listed' = Listed /\ Supervised' = Supervised
        BY <2>1, SameApps
    <2>4. TypeOK'
        BY <2>1, <2>2 DEF BootInv, TypeOK
    <2>5. ScriptInv' /\ CalmInv' /\ VerdictInv' /\ OtherBuildInv'
        BY <2>1, <2>2, <2>3 DEF BootInv, ScriptInv, CalmInv, VerdictInv, OtherBuildInv
    <2> QED BY <2>4, <2>5 DEF BootInv
  <1> QED BY <1>1, <1>2, StepsOfSupervision

LEMMA RetriesAreNumbers ==
    /\ MaxRetries \in Nat /\ 0 \in 0..MaxRetries
    /\ \A n \in 0..MaxRetries : n < MaxRetries => n + 1 \in 0..MaxRetries
    BY DEF MaxRetries

LEMMA InitSupervisionInv == SupervisionInit => SupervisionInv
  <1> SUFFICES ASSUME SupervisionInit PROVE SupervisionInv
      OBVIOUS
  <1>1. BootInv
      BY InitBootInv DEF SupervisionInit
  <1> QED BY <1>1, RetriesAreNumbers DEF SupervisionInit, SupervisionInv, Init

\* What the places of the two scripts say, and the type of what is beside them.
PlacesOK ==
    /\ dl \in {"boot", "pm", "install", "launch", "watch", "restart", "stopped"}
    /\ watcher \in {"status", "list", "check", "none", "try", "look", "sleep"}
    /\ ini \in BOOLEAN /\ once \in BOOLEAN
    /\ package \subseteq Packages \cup ServerPackages
    /\ tries \in 0..MaxRetries
    /\ watcher \in {"list", "check", "none", "try", "look"} => once
    /\ watcher = "look" => tries < MaxRetries

ServerPlacesOK ==
    /\ serverApp \in {"absent", "dead", "up"}
    /\ dl \in {"launch", "watch", "restart"} => serverApp # "absent"
    /\ serverApp # "up" => upload = Absent /\ session = "idle" /\ armed = Absent

LEMMA SupervisionParts == SupervisionInv <=> BootInv /\ PlacesOK /\ ServerPlacesOK
    BY DEF SupervisionInv, PlacesOK, ServerPlacesOK

LEMMA StepKeepsPlaces ==
    ASSUME BootInv, PlacesOK, [SupervisionNext]_vars
    PROVE  PlacesOK'
  <1> USE DEF PlacesOK
  <1>1. CASE UNCHANGED supervisionVars
      BY <1>1 DEF supervisionVars, watchVars
  <1>2. CASE ServerDies \/ UserStartsServer \/ IniAppears
      BY <1>2 DEF ServerDies, UserStartsServer, IniAppears, watchVars
  <1>3. CASE DownloadApk
      BY <1>3 DEF DownloadApk, FindIni, PmReady, PmSilent, InstallServer, InstallFails,
         Launch, LaunchFails, Watch, RestartServer, RestartFails, InitRestarts,
         Download, watchVars
  <1>4. CASE CheckStatus \/ SeenRunning \/ NoActivity \/ NothingToStart \/ Launched \/ Sleep
    <2>1. CASE CheckStatus \/ NoActivity \/ Sleep
        BY <2>1 DEF CheckStatus, NoActivity, Sleep, Goes
    <2>2. CASE SeenRunning \/ NothingToStart \/ Launched
        BY <2>2, RetriesAreNumbers DEF SeenRunning, NothingToStart, Launched, Goes,
           Checked
    <2> QED BY <1>4, <2>1, <2>2
  <1>5. CASE ListRtu
    <2>1. Listed \subseteq Packages \cup ServerPackages
        BY DEF Listed, Installed, BootInv, TypeOK
    <2> QED BY <1>5, <2>1 DEF ListRtu, Goes
  <1>6. CASE FindActivity \/ AmStartRtu \/ TryAgain \/ StartFailed
    <2>1. CASE FindActivity
        BY <2>1, RetriesAreNumbers DEF FindActivity, Goes
    <2>2. CASE AmStartRtu
        BY <2>2 DEF AmStartRtu, Goes
    <2>3. CASE TryAgain
        BY <2>3, RetriesAreNumbers DEF TryAgain, Goes
    <2>4. CASE StartFailed
        BY <2>4, RetriesAreNumbers DEF StartFailed, Goes, Checked
    <2> QED BY <1>6, <2>1, <2>2, <2>3, <2>4
  <1>7. CASE Reboots \/ LosesPower
      BY <1>7, RetriesAreNumbers DEF Reboots, LosesPower, SupervisionRestarts
  <1> QED BY <1>1, <1>2, <1>3, <1>4, <1>5, <1>6, <1>7 DEF SupervisionNext, ServerRuns,
          Scripts, RtuStarts, RtuEnds, ServiceState, vars

LEMMA StepKeepsServerPlaces ==
    ASSUME BootInv, ServerPlacesOK, [SupervisionNext]_vars
    PROVE  ServerPlacesOK'
  <1> USE DEF ServerPlacesOK
  <1>1. CASE ServerRuns
      BY <1>1 DEF ServerRuns, supervisionVars
  <1>2. CASE ServerDies
      BY <1>2 DEF ServerDies, ServerLoses
  <1>3. CASE UserStartsServer \/ IniAppears
      BY <1>3 DEF UserStartsServer, IniAppears, bootVars
  <1>4. CASE Launch \/ RestartServer \/ LaunchFails \/ RestartFails
      BY <1>4 DEF Launch, RestartServer, LaunchFails, RestartFails, Download,
         AmStartServer, AmStartFails, ServerLoses, bootVars
  <1>5. CASE DownloadApk
      BY <1>4, <1>5 DEF DownloadApk, FindIni, PmReady, PmSilent, InstallServer,
         InstallFails, Watch, InitRestarts, Download, bootVars
  <1>6. CASE ServiceState
    <2>1. serverApp' = serverApp /\ UNCHANGED server
        BY <1>6 DEF ServiceState, CheckStatus, ListRtu, SeenRunning, NoActivity,
           NothingToStart, FindActivity, AmStartRtu, Launched, TryAgain, StartFailed,
           Sleep, Goes, OnlyRunningChanges, bootVars, server
    <2>2. dl' = dl \/ dl' = "boot"
        BY <1>6 DEF ServiceState, CheckStatus, ListRtu, SeenRunning, NoActivity,
           NothingToStart, FindActivity, AmStartRtu, Launched, TryAgain, StartFailed,
           Sleep, Checked
    <2> QED BY <2>1, <2>2 DEF server
  <1>7. CASE Reboots \/ LosesPower
      BY <1>7 DEF Reboots, LosesPower, Reboot, PowerLoss, Restart, SupervisionRestarts
  <1>8. CASE Scripts \/ (PmNotReady /\ UNCHANGED supervisionVars) \/ RtuStarts \/ RtuEnds
    <2>1. UNCHANGED <<upload, session, armed, supervisionVars>>
        BY <1>8 DEF Scripts, ScriptStep, ListPackages, CheckFile, NothingToDo,
           Uninstall, UninstallFails, Install, RemoveApk, StartApp, PmNotReady,
           ScriptGoes, ScriptMoves, RtuStarts, AppStarts, RtuEnds,
           OnlyRunningChanges, server
    <2> QED BY <2>1 DEF supervisionVars
  <1>9. CASE UNCHANGED vars
      BY <1>9 DEF vars, bootVars, supervisionVars
  <1> QED BY <1>1, <1>2, <1>3, <1>5, <1>6, <1>7, <1>8, <1>9 DEF SupervisionNext

\* Whatever the scripts do at the same time, and whenever the server app or the
\* RTU application ends: the list that the boot script removes from is the one
\* there is, what it removes it has seen an archive for, and a server app under
\* another package never gets it so far.
THEOREM SupervisionInvariant == SupervisionSpec => []SupervisionInv
  <1>1. SupervisionInit => SupervisionInv
      BY InitSupervisionInv
  <1>2. SupervisionInv /\ [SupervisionNext]_vars => SupervisionInv'
      BY SupervisionParts, SupervisionKeepsBootInv, StepKeepsPlaces,
         StepKeepsServerPlaces DEF SupervisionInv, PlacesOK, ServerPlacesOK
  <1> QED BY <1>1, <1>2, PTL DEF SupervisionSpec

-----------------------------------------------------------------------------
(* The applications change in two steps of the script only.                *)

LEMMA OnlyScriptChangesApps ==
    ASSUME BootInv, [SupervisionNext]_vars, ~Uninstall, ~Install
    PROVE  UNCHANGED <<serverPackage, apps>>
  <1>1. CASE ServerLoses \/ RunningChanges
      BY <1>1, OtherStepsKeep
  <1>2. CASE ServerStep
      BY <1>2, ServerKeepsDevice DEF BootInv, device
  <1>3. CASE LookStep
      BY <1>3, LookKeepsApps
  <1>4. CASE UninstallFails \/ RemoveApk
      BY <1>4 DEF UninstallFails, RemoveApk, ScriptGoes, ScriptMoves
  <1>5. CASE Reboot \/ PowerLoss \/ AppStarts \/ UNCHANGED bootVars
      BY <1>5 DEF Reboot, PowerLoss, Restart, AppStarts, bootVars
  <1> QED BY <1>1, <1>2, <1>3, <1>4, <1>5, StepsOfSupervision
         DEF Next, ScriptStep, LookStep

\* A server app under another package than the scripts know may accept what it
\* likes: no application is ever removed or installed for it.
THEOREM OtherBuildKeepsApp == SupervisionSpec => OtherBuildNeverUpdates
  <1>1. SupervisionInv /\ [SupervisionNext]_vars
            => [~Supervised => apps' = apps]_bootVars
    <2> SUFFICES ASSUME BootInv, [SupervisionNext]_vars, ~Supervised
                 PROVE  apps' = apps
        BY DEF SupervisionInv
    <2>1. ~Uninstall /\ ~Install
        BY DEF BootInv, OtherBuildInv, Uninstall, Install, ScriptGoes, ScriptMoves
    <2> QED BY <2>1, OnlyScriptChangesApps
  <1> QED BY <1>1, SupervisionInvariant, PTL DEF SupervisionSpec, OtherBuildNeverUpdates

\* An update leaves a second RTU application behind only if pm uninstall has failed
\* in it: the script has no other way to install one beside another.
THEOREM SecondAppFromFailure == SupervisionSpec => SecondAppHasCause
  <1>1. SupervisionInv /\ [SupervisionNext]_vars
            => [OneApp /\ ~OneApp' => kept]_bootVars
    <2> SUFFICES ASSUME BootInv, [SupervisionNext]_vars, OneApp, ~kept
                 PROVE  OneApp'
        BY DEF SupervisionInv
    <2>1. CASE Uninstall
      <3>1. Installed' = {}
          BY <2>1, UninstallRemoves
      <3> QED BY <3>1 DEF OneApp
    <2>2. CASE Install
      <3>1. \/ Installed' = Installed
            \/ Installed = {} /\ Installed' = {firmware.package}
          BY <2>2, InstallAdds
      <3> QED BY <3>1 DEF OneApp
    <2>3. CASE ~Uninstall /\ ~Install
      <3>1. Installed' = Installed
          BY <2>3, OnlyScriptChangesApps, SameApps
      <3> QED BY <3>1 DEF OneApp
    <2> QED BY <2>1, <2>2, <2>3
  <1> QED BY <1>1, SupervisionInvariant, PTL DEF SupervisionSpec, SecondAppHasCause

-----------------------------------------------------------------------------
(* The abstract device.                                                    *)

deviceVars == <<DeviceApp, ApkFile, Changing, kept, disturbed>>

LEMMA InitDevice ==
    ASSUME Init
    PROVE  D!Init
  <1>1. Installed = {FirstPackage} /\ apps[FirstPackage] = InitialVersion
      BY BootAssumption DEF Installed, Init
  <1>2. Apps = {[package |-> FirstPackage, version |-> InitialVersion]}
      BY <1>1 DEF Apps
  <1>3. ApkFile = Absent
      BY DEF ApkFile, Init
  <1> QED BY <1>1, <1>2, <1>3 DEF D!Init, DeviceApp, Changing, Init

\* The application of the device, where the applications are the same.
LEMMA SameDevice ==
    ASSUME UNCHANGED <<serverPackage, apps>>
    PROVE  /\ Changing' = Changing
           /\ ~Changing => DeviceApp' = DeviceApp
           /\ Changing => DeviceApp' = NewApp'
           /\ ApkFile' = ApkFile => DeviceApp' = DeviceApp
  <1>1. Installed' = Installed
      BY SameApps
  <1>2. Changing' = Changing /\ Apps' = Apps
      BY <1>1 DEF Changing, Apps
  <1>3. ApkFile' = ApkFile => NewApp' = NewApp
      BY DEF NewApp
  <1> QED BY <1>2, <1>3 DEF DeviceApp

LEMMA NewAppOfFile ==
    /\ ApkFile = Absent => NewApp = {}
    /\ ApkFile # Absent => NewApp = {D!App(ApkFile)}
    /\ ApkFile' = Absent => NewApp' = {}
    /\ ApkFile' # Absent => NewApp' = {D!App(ApkFile')}
    BY DEF NewApp, D!App

\* What the device knows of an update is over, and nothing else happens.
LEMMA DeviceRests ==
    ASSUME UNCHANGED <<serverPackage, apps>>, ApkFile' = ApkFile,
           kept' \in {kept, FALSE}, disturbed' \in {disturbed, FALSE}
    PROVE  D!Next
    BY SameDevice DEF D!Next, D!Rest

LEMMA FileReceived ==
    ASSUME BootInv, Supervised, Publish
    PROVE  D!Next
  <1>1. /\ upload \in Archives /\ firmware' = upload
        /\ UNCHANGED <<serverPackage, apps, kept>> /\ ChangesFile
      BY DEF Publish, U!Publish, device, BootInv, TypeOK
  <1>2. upload # Absent /\ ApkFile' = upload
      BY <1>1, BootAssumption DEF Supervised, ApkFile
  <1>3. disturbed' \in {disturbed, TRUE}
      BY <1>1 DEF ChangesFile, BootInv, TypeOK
  <1>4. DeviceApp' = IF Changing THEN {D!App(upload)} ELSE DeviceApp
      BY <1>1, <1>2, SameDevice, NewAppOfFile
  <1>5. D!Receive(upload)
      BY <1>1, <1>2, <1>3, <1>4, SameDevice DEF D!Receive, D!MayDisturb
  <1> QED BY <1>1, <1>5 DEF D!Next

\* The file of a verdict goes.  Where there is no application, it is one that cannot
\* be read, or the script is at work.
LEMMA FileDeleted ==
    ASSUME BootInv, Supervised, Delete
    PROVE  D!Next \/ UNCHANGED deviceVars
  <1>1. /\ session = "refused" /\ firmware' = Absent
        /\ UNCHANGED <<serverPackage, apps, kept>>
        /\ disturbed' = (disturbed \/ at \in {"uninstall", "install", "rm"})
      BY DEF Delete, device, ChangesFile
  <1>2. /\ ApkFile = firmware /\ ApkFile' = Absent
        /\ disturbed \in BOOLEAN /\ disturbed' \in BOOLEAN
      BY <1>1 DEF Supervised, ApkFile, BootInv, TypeOK
  <1>3. CASE ~Changing
      BY <1>1, <1>2, <1>3, SameDevice DEF D!Next, D!Discard
  <1>4. CASE Changing
    <2>1. Changing' = Changing /\ DeviceApp' = {}
        BY <1>1, <1>2, <1>4, SameDevice, NewAppOfFile
    <2>2. CASE disturbed'
        BY <1>1, <1>2, <1>4, <2>1, <2>2 DEF D!Next, D!LoseDisturbed
    <2>3. CASE ~disturbed' /\ firmware # Absent
      <3>1. firmware \in Archives /\ ~firmware.readable /\ ~disturbed
          BY <1>1, <1>4, <2>3 DEF BootInv, VerdictInv, TypeOK, Changing
      <3>2. firmware \notin Usable
          BY <3>1 DEF Usable
      <3>3. disturbed' = disturbed
          BY <1>2, <2>3, <3>1
      <3> QED BY <1>1, <1>2, <1>4, <2>1, <2>3, <3>2, <3>3 DEF D!Next, D!Lose
    <2>4. CASE ~disturbed' /\ firmware = Absent
      <3>1. disturbed' = disturbed
          BY <1>1, <1>2, <2>4
      <3>2. ApkFile' = ApkFile
          BY <1>2, <2>4
      <3> QED BY <1>1, <3>1, <3>2, SameDevice DEF deviceVars
    <2> QED BY <2>2, <2>3, <2>4
  <1> QED BY <1>3, <1>4

\* The application that is installed goes for the file, or for one that is gone.
LEMMA AppReplaced ==
    ASSUME BootInv, Uninstall
    PROVE  D!Next
  <1>1. /\ Supervised /\ at = "uninstall"
        /\ Installed # {} /\ Installed' = {} /\ UNCHANGED firmware
        /\ UNCHANGED <<kept, disturbed>>
      BY UninstallRemoves
  <1>2. serverPackage' = serverPackage
      BY DEF Uninstall, ScriptGoes, ScriptMoves
  <1>3. ApkFile = firmware /\ ApkFile' = firmware
      BY <1>1, <1>2 DEF ApkFile, Supervised
  <1>4. ~Changing /\ Changing' /\ DeviceApp' = NewApp'
      BY <1>1 DEF Changing, DeviceApp
  <1>5. CASE firmware # Absent
    <2>1. DeviceApp' = {D!App(firmware)}
        BY <1>3, <1>4, <1>5, NewAppOfFile
    <2>2. Changing' = TRUE
        BY <1>4 DEF Changing
    <2> QED BY <1>1, <1>3, <1>4, <1>5, <2>1, <2>2 DEF D!Next, D!Replace
  <1>6. CASE firmware = Absent
    <2>1. disturbed /\ disturbed' \in BOOLEAN
        BY <1>1, <1>6 DEF BootInv, CalmInv, TypeOK
    <2>2. DeviceApp' = {}
        BY <1>3, <1>4, <1>6, NewAppOfFile
    <2>3. Changing' = TRUE
        BY <1>4 DEF Changing
    <2> QED BY <1>1, <1>3, <1>6, <2>1, <2>2, <2>3 DEF D!Next, D!LoseDisturbed
  <1> QED BY <1>5, <1>6

LEMMA AppKept ==
    ASSUME BootInv, UninstallFails
    PROVE  D!Next
  <1>1. /\ at = "uninstall" /\ kept' = TRUE /\ disturbed' = (at # "rm" /\ disturbed)
        /\ UNCHANGED <<serverPackage, apps, pre, firmware>>
      BY DEF UninstallFails, ScriptMoves
  <1>2. Supervised /\ Installed # {}
      BY <1>1 DEF BootInv, OtherBuildInv, ScriptInv, Listed, Supervised
  <1>3. ~Changing /\ ApkFile' = ApkFile /\ disturbed' = disturbed
      BY <1>1, <1>2 DEF Changing, ApkFile, Supervised, BootInv, TypeOK
  <1> QED BY <1>1, <1>3, SameDevice DEF D!Next, D!Keep

\* The applications after an installation.
LEMMA AppsAfterInstall ==
    ASSUME BootInv, Install, Installs(firmware)
    PROVE  Apps' = {a \in Apps : a.package # firmware.package}
                       \cup {D!App(firmware)}
  <1>1. /\ firmware \in Archives
        /\ apps' = [apps EXCEPT ![firmware.package] = firmware.version]
        /\ Installed' = Installed \cup {firmware.package}
      BY InstallAdds
  <1>2. firmware.package \in Packages /\ apps \in [Packages -> Nat]
      BY <1>1, BootAssumption DEF BootInv, TypeOK
  <1>3. Installed \subseteq Packages
      BY DEF Installed
  <1>4. /\ apps'[firmware.package] = firmware.version
        /\ \A p \in Packages : p # firmware.package => apps'[p] = apps[p]
      BY <1>1, <1>2
  <1>5. Apps' = {[package |-> p, version |-> apps'[p]] : p \in Installed'}
      BY DEF Apps
  <1>6. ASSUME NEW a \in Apps'
        PROVE  a \in {b \in Apps : b.package # firmware.package}
                         \cup {D!App(firmware)}
    <2>1. PICK p \in Installed' : a = [package |-> p, version |-> apps'[p]]
        BY <1>5, <1>6
    <2>2. CASE p = firmware.package
        BY <1>4, <2>1, <2>2 DEF D!App
    <2>3. CASE p # firmware.package
      <3>1. p \in Installed /\ apps'[p] = apps[p]
          BY <1>1, <1>3, <1>4, <2>1, <2>3
      <3>2. a \in Apps
          BY <2>1, <3>1 DEF Apps
      <3> QED BY <2>1, <2>3, <3>2
    <2> QED BY <2>2, <2>3
  <1>7. ASSUME NEW a \in Apps, a.package # firmware.package
        PROVE  a \in Apps'
    <2>1. PICK p \in Installed : a = [package |-> p, version |-> apps[p]]
        BY <1>7 DEF Apps
    <2>2. p # firmware.package /\ apps'[p] = apps[p] /\ p \in Installed'
        BY <1>1, <1>3, <1>4, <1>7, <2>1
    <2> QED BY <1>5, <2>1, <2>2
  <1>8. D!App(firmware) \in Apps'
      BY <1>1, <1>4, <1>5 DEF D!App
  <1> HIDE DEF Apps, D!App
  <1> QED BY <1>6, <1>7, <1>8

\* The new application is there: in the place of the old one, or beside it.
LEMMA AppInstalled ==
    ASSUME BootInv, Install
    PROVE  D!Next
  <1>1. /\ Supervised /\ (kept <=> Installed # {}) /\ UNCHANGED firmware
        /\ kept' = FALSE /\ disturbed' = disturbed
      BY InstallAdds
  <1>2. serverPackage' = serverPackage
      BY DEF Install, ScriptGoes, ScriptMoves
  <1>3. ApkFile = firmware /\ ApkFile' = firmware
      BY <1>1, <1>2 DEF ApkFile, Supervised
  <1>4. CASE ~Installs(firmware)
    <2>1. apps' = apps
        BY <1>4, InstallAdds
    <2> QED BY <1>1, <1>2, <1>3, <2>1, DeviceRests
  <1>5. CASE Installs(firmware)
    <2>1. firmware # Absent
        BY <1>5 DEF Installs
    <2>2. ~Changing' /\ DeviceApp' = Apps'
        BY <1>5, InstallAdds DEF Changing, DeviceApp
    <2>3. Apps' = {a \in Apps : a.package # firmware.package}
                      \cup {D!App(firmware)}
        BY <1>5, AppsAfterInstall
    <2>4. CASE Changing
      <3>1. Apps = {} /\ kept = FALSE
          BY <1>1, <2>4 DEF Apps, Changing, BootInv, TypeOK
      <3>2. DeviceApp = {D!App(firmware)}
          BY <1>3, <2>1, <2>4, NewAppOfFile DEF DeviceApp
      <3>3. DeviceApp' = DeviceApp
          BY <2>2, <2>3, <3>1, <3>2
      <3>4. Changing' = FALSE
          BY <2>2 DEF Changing
      <3> QED BY <1>1, <1>3, <2>1, <2>4, <3>1, <3>3, <3>4 DEF D!Next, D!Finish
    <2>5. CASE ~Changing
      <3>1. kept /\ DeviceApp = Apps
          BY <1>1, <2>5 DEF Changing, DeviceApp
      <3>2. Changing' = Changing
          BY <2>2, <2>5 DEF Changing
      <3> QED BY <1>1, <1>3, <2>1, <2>2, <2>3, <2>5, <3>1, <3>2 DEF D!Next, D!Add
    <2> QED BY <2>4, <2>5
  <1> QED BY <1>4, <1>5

\* The file goes when its application is installed, or cannot be.
LEMMA FileRemoved ==
    ASSUME BootInv, RemoveApk
    PROVE  D!Next \/ UNCHANGED deviceVars
  <1>1. /\ at = "rm" /\ kept' = FALSE /\ disturbed' = FALSE
        /\ UNCHANGED <<serverPackage, apps>>
      BY DEF RemoveApk, ScriptGoes, ScriptMoves
  <1>2. Supervised /\ kept = FALSE /\ disturbed \in BOOLEAN
      BY <1>1 DEF BootInv, OtherBuildInv, ScriptInv, TypeOK
  <1>3. firmware' = Absent
      BY <1>2 DEF RemoveApk
  <1>4. ApkFile = firmware /\ ApkFile' = Absent
      BY <1>1, <1>2, <1>3 DEF ApkFile, Supervised
  <1>5. CASE ~Changing
      BY <1>1, <1>2, <1>4, <1>5, SameDevice DEF D!Next, D!Discard
  <1>6. CASE Changing
    <2>1. Changing' = Changing /\ DeviceApp' = {}
        BY <1>1, <1>4, <1>6, SameDevice, NewAppOfFile
    <2>2. CASE disturbed
        BY <1>1, <1>2, <1>4, <1>6, <2>1, <2>2 DEF D!Next, D!LoseDisturbed
    <2>3. CASE ~disturbed /\ firmware # Absent
      <3>1. firmware \notin Usable
          BY <1>1, <1>6, <2>3 DEF BootInv, CalmInv, Changing, Usable
      <3> QED BY <1>1, <1>2, <1>4, <1>6, <2>1, <2>3, <3>1 DEF D!Next, D!Lose
    <2>4. CASE ~disturbed /\ firmware = Absent
        BY <1>1, <1>2, <1>4, <2>4, DeviceRests
    <2> QED BY <2>2, <2>3, <2>4
  <1> QED BY <1>5, <1>6

\* All other steps, and all steps with a server app under another package, leave
\* what the device sees of the file and of the applications as it is.
LEMMA DeviceStays ==
    ASSUME BootInv, [SupervisionNext]_vars, ~Uninstall, ~Install,
           Supervised => ~Publish /\ ~Delete /\ ~UninstallFails /\ ~RemoveApk
    PROVE  D!Next
  <1>1. UNCHANGED <<serverPackage, apps>>
      BY OnlyScriptChangesApps
  <1>2. CASE ServerLoses \/ RunningChanges
    <2>1. UNCHANGED <<firmware, kept, disturbed>>
        BY <1>2, OtherStepsKeep
    <2>2. ApkFile' = ApkFile
        BY <1>1, <2>1 DEF ApkFile, Supervised
    <2> QED BY <1>1, <2>1, <2>2, DeviceRests
  <1>3. CASE ServerStep
    <2>1. kept' = kept
        BY <1>3, ServerKeepsDevice DEF BootInv, device
    <2>2. \/ UNCHANGED <<firmware, disturbed>>
          \/ (Publish \/ Delete) /\ ChangesFile
        BY <1>3 DEF ServerStep, Begin, Abort, Publish, Forget, Delete, Disarm,
           Accept, Reject, U!Abort, U!Disarm, U!Begin, U!Arm
    <2>3. disturbed' = disturbed /\ ApkFile' = ApkFile
      <3>1. CASE UNCHANGED <<firmware, disturbed>>
          BY <1>1, <3>1 DEF ApkFile, Supervised
      <3>2. CASE (Publish \/ Delete) /\ ChangesFile
        <4>1. ~Supervised /\ at \notin {"uninstall", "install", "rm"}
            BY <3>2 DEF BootInv, OtherBuildInv
        <4>2. disturbed' = disturbed
            BY <3>2, <4>1 DEF ChangesFile, BootInv, TypeOK
        <4> QED BY <1>1, <4>1, <4>2 DEF ApkFile, Supervised
      <3> QED BY <2>2, <3>1, <3>2
    <2> QED BY <1>1, <2>1, <2>3, DeviceRests
  <1>4. CASE LookStep
    <2>1. UNCHANGED firmware /\ kept' = FALSE /\ (disturbed' => disturbed)
        BY <1>4, LookKeepsApps
    <2>2. disturbed' \in BOOLEAN /\ disturbed \in BOOLEAN
        BY <1>4 DEF BootInv, TypeOK, LookStep, PmNotReady, ListPackages, CheckFile,
           NothingToDo, StartApp, ScriptGoes, ScriptMoves
    <2>3. disturbed' \in {disturbed, FALSE}
        BY <2>1, <2>2
    <2>4. ApkFile' = ApkFile
        BY <1>1, <2>1 DEF ApkFile, Supervised
    <2> QED BY <1>1, <2>1, <2>3, <2>4, DeviceRests
  <1>5. CASE UninstallFails \/ RemoveApk
      BY <1>5 DEF BootInv, OtherBuildInv, UninstallFails, RemoveApk, ScriptGoes,
         ScriptMoves
  <1>6. CASE Reboot \/ PowerLoss \/ AppStarts \/ UNCHANGED bootVars
    <2>1. /\ UNCHANGED firmware
          /\ kept' \in {kept, FALSE} /\ disturbed' \in {disturbed, FALSE}
        BY <1>6 DEF Reboot, PowerLoss, Restart, AppStarts, server, bootVars
    <2>2. ApkFile' = ApkFile
        BY <1>1, <2>1 DEF ApkFile, Supervised
    <2> QED BY <1>1, <2>1, <2>2, DeviceRests
  <1> QED BY <1>2, <1>3, <1>4, <1>5, <1>6, StepsOfSupervision
         DEF Next, ScriptStep, LookStep

LEMMA StepOfDevice ==
    ASSUME BootInv, [SupervisionNext]_vars
    PROVE  [D!Next]_deviceVars
  <1>1. CASE Supervised /\ Publish
      BY <1>1, FileReceived
  <1>2. CASE Supervised /\ Delete
      BY <1>2, FileDeleted
  <1>3. CASE Uninstall
      BY <1>3, AppReplaced
  <1>4. CASE UninstallFails
      BY <1>4, AppKept
  <1>5. CASE Install
      BY <1>5, AppInstalled
  <1>6. CASE RemoveApk
      BY <1>6, FileRemoved
  <1> QED BY <1>1, <1>2, <1>3, <1>4, <1>5, <1>6, DeviceStays

\* The three scripts, the server app under either package and all that interrupts
\* them implement the abstract device: whoever ends in the middle of what, an
\* application changes only into a file that has arrived whole, and nobody takes
\* that file away between the two steps of the change, unless it is no usable
\* archive, or a file came or went while the script was at work.
THEOREM DeviceImplemented == SupervisionSpec => DeviceSpec
  <1>1. SupervisionInit => D!Init
      BY InitDevice DEF SupervisionInit
  <1>2. SupervisionInv /\ [SupervisionNext]_vars => [D!Next]_deviceVars
      BY StepOfDevice DEF SupervisionInv
  <1> QED BY <1>1, <1>2, SupervisionInvariant, PTL
         DEF SupervisionSpec, DeviceSpec, D!Spec, deviceVars

-----------------------------------------------------------------------------
(* What follows from the abstract device.                                  *)

LEMMA AppIsThere ==
    /\ AppOrArchive <=> DeviceApp # {}
    /\ AppOrArchive' <=> DeviceApp' # {}
  <1>1. AppOrArchive <=> DeviceApp # {}
      BY DEF AppOrArchive, DeviceApp, NewApp, Apps, Changing
  <1>2. AppOrArchive' <=> DeviceApp' # {}
      BY DEF AppOrArchive, DeviceApp, NewApp, Apps, Changing
  <1> QED BY <1>1, <1>2

\* The only steps of the device after which there is no application and none to
\* come.
LEMMA OnlyLoseLoses ==
    ASSUME [D!Next]_deviceVars, DeviceApp # {}, DeviceApp' = {}
    PROVE  \/ ApkFile # Absent /\ ApkFile \notin Usable
           \/ disturbed \/ disturbed'
    BY DEF D!Next, D!Receive, D!Discard, D!Replace, D!Finish, D!Keep, D!Add, D!Lose,
           D!LoseDisturbed, D!Rest, deviceVars

\* Whatever ends whom in the middle of what, the last of application and file is
\* lost only to an archive that cannot be read or that the package manager refuses,
\* or to a server app that stores or deletes the file while the script is at work.
THEOREM OnlyTwoLosses == SupervisionSpec => LossHasCause
  <1>1. SupervisionInv /\ [SupervisionNext]_vars
            => [AppOrArchive /\ ~AppOrArchive' =>
                    disturbed \/ disturbed' \/ firmware \in Archives \ Usable]_bootVars
    <2> SUFFICES ASSUME BootInv, [SupervisionNext]_vars,
                        AppOrArchive, ~AppOrArchive', ~disturbed, ~disturbed'
                 PROVE  firmware \in Archives \ Usable
        BY DEF SupervisionInv
    <2>1. DeviceApp # {} /\ DeviceApp' = {}
        BY AppIsThere
    <2>2. ApkFile # Absent /\ ApkFile \notin Usable
        BY <2>1, OnlyLoseLoses, StepOfDevice
    <2>3. ApkFile = firmware
        BY <2>2, ApkFileIsFirmware
    <2> QED BY <2>2, <2>3 DEF BootInv, TypeOK
  <1> QED BY <1>1, SupervisionInvariant, PTL DEF SupervisionSpec, LossHasCause
=============================================================================
