----------------------------- MODULE Supervision -----------------------------
(***************************************************************************)
(* The three scripts that init starts at every boot, at work together:     *)
(* update_smartrtu (BootUpdate) replaces the RTU application, while        *)
(* download_apk brings the server app up and restarts it when its process  *)
(* is gone, and service_state looks after download_apk and once after the  *)
(* RTU application, which it may look for in the middle of the update.     *)
(* A server app under another package than download_apk knows is nobody's  *)
(* to look after; the app that download_apk starts then is not modelled.   *)
(***************************************************************************)
EXTENDS BootUpdate

VARIABLES
    serverApp,  \* the server app: "absent", "dead" or "up"
    ini,        \* staticIP.ini is at one of the places where it is looked for
    dl,         \* where download_apk is
    watcher,    \* where service_state is
    once,       \* its EXECUTED_ONCE: the RTU application is still to be looked at
    package,    \* its APP_PACKAGE, as a set, as long as it is used
    tries       \* its RETRY_COUNT, likewise

watchVars == <<watcher, once, package, tries>>
supervisionVars == <<serverApp, ini, dl, watchVars>>
vars == <<bootVars, supervisionVars>>

MaxRetries == 3

-----------------------------------------------------------------------------
(* The server app                                                          *)

\* A process that ends takes the upload and the posted reboot with it.
ServerLoses ==
    /\ upload' = Absent
    /\ session' = "idle"
    /\ armed' = Absent
    /\ UNCHANGED <<firmware, disturbed, device>>

ServerRuns == serverApp = "up" /\ ServerStep /\ UNCHANGED supervisionVars

ServerDies ==
    /\ serverApp = "up"
    /\ serverApp' = "dead"
    /\ ServerLoses
    /\ UNCHANGED <<ini, dl, watchVars>>

UserStartsServer ==
    /\ serverApp = "dead"
    /\ serverApp' = "up"
    /\ UNCHANGED <<ini, dl, watchVars, bootVars>>

-----------------------------------------------------------------------------
(* download_apk                                                            *)

Download(from, to) == dl = from /\ dl' = to /\ UNCHANGED <<ini, watchVars>>

\* am start -S: an instance that runs is stopped first.
AmStartServer == Supervised /\ serverApp' = "up" /\ ServerLoses

\* The start fails, before or after the end of the instance; or the server app is
\* another one.
AmStartFails ==
    \/ Supervised /\ serverApp' = "dead" /\ ServerLoses
    \/ UNCHANGED <<serverApp, bootVars>>

\* Both counters of the loop are unset: the first test has one operand and is
\* true, the second has two and is an error, so the places are looked at once.
FindIni ==
    /\ Download("boot", IF ini THEN "pm" ELSE "stopped")
    /\ UNCHANGED <<serverApp, bootVars>>

PmReady == Download("pm", "install") /\ UNCHANGED <<serverApp, bootVars>>

PmSilent == Download("pm", "stopped") /\ UNCHANGED <<serverApp, bootVars>>

\* Mutant: what pm install has done is not looked at.
InstallUnchecked ==
    /\ Download("install", "launch")
    /\ serverApp' \in {serverApp, "dead"}
    /\ UNCHANGED bootVars

InstallServer ==
    /\ Download("install", "launch")
    /\ serverApp' = IF serverApp = "absent" THEN "dead" ELSE serverApp
    /\ UNCHANGED bootVars

\* Without the file of the vendor, or with one that does not install: exit 1.
InstallFails ==
    /\ Download("install", "stopped")
    /\ serverApp = "absent" \/ ~Supervised
    /\ UNCHANGED <<serverApp, bootVars>>

Launch == Download("launch", "watch") /\ AmStartServer

\* Nobody looks at what the first am start has done.
LaunchFails == Download("launch", "watch") /\ AmStartFails

\* Mutant: the package of the RTU application matches, too.
WatchAnyApp ==
    /\ serverApp # "up" /\ ~running
    /\ Download("watch", "restart")
    /\ UNCHANGED <<serverApp, bootVars>>

Watch ==
    /\ serverApp # "up" \/ ~Supervised
    /\ Download("watch", "restart")
    /\ UNCHANGED <<serverApp, bootVars>>

RestartServer == Download("restart", "watch") /\ AmStartServer

RestartFails == Download("restart", "watch") /\ AmStartFails

\* init starts a service again that has exited and is not oneshot.
InitRestarts == Download("stopped", "boot") /\ UNCHANGED <<serverApp, bootVars>>

DownloadApk ==
    \/ FindIni \/ PmReady \/ PmSilent \/ InstallServer \/ InstallFails
    \/ Launch \/ LaunchFails \/ Watch \/ RestartServer \/ RestartFails \/ InitRestarts

-----------------------------------------------------------------------------
(* service_state                                                           *)

OnlyRunningChanges ==
    UNCHANGED <<serverPackage, apps, at, pre, losses, kept, disturbed, server>>

\* ps | grep -q "$APP_PACKAGE": the empty pattern is in every line.
Seen == package = {} \/ (running /\ package \cap Installed # {})

Goes(from, to) ==
    /\ watcher = from
    /\ watcher' = to
    /\ UNCHANGED <<serverApp, ini>>

CheckStatus ==
    /\ Goes("status", IF once THEN "list" ELSE "sleep")
    /\ dl' = IF dl = "stopped" THEN "boot" ELSE dl
    /\ UNCHANGED <<once, package, tries, bootVars>>


ListRtu ==
    /\ Goes("list", "check")
    /\ package' = Listed
    /\ UNCHANGED <<dl, once, tries, bootVars>>

Checked ==
    /\ once' = FALSE
    /\ package' = {}
    /\ tries' = 0
    /\ UNCHANGED dl

SeenRunning ==
    /\ Goes("check", "sleep")
    /\ Seen
    /\ Checked
    /\ UNCHANGED bootVars

\* dumpsys knows one package that is installed.
CanStart == \E p \in Installed : package = {p}

\* It does not print the line that is looked for, or not as it is expected.
NoActivity ==
    /\ Goes("check", "none")
    /\ ~Seen
    /\ UNCHANGED <<dl, once, package, tries, bootVars>>

NothingToStart ==
    /\ Goes("none", "sleep")
    /\ Checked
    /\ UNCHANGED bootVars

FindActivity ==
    /\ Goes("check", "try")
    /\ ~Seen /\ CanStart
    /\ tries' = 0
    /\ UNCHANGED <<dl, once, package, bootVars>>

\* While the application is seen here, the loop turns without a sleep.
AmStartRtu ==
    /\ Goes("try", "look")
    /\ tries < MaxRetries /\ ~Seen
    /\ running' \in {running} \cup (IF CanStart THEN {TRUE} ELSE {})
    /\ UNCHANGED <<dl, once, package, tries>>
    /\ OnlyRunningChanges

Launched ==
    /\ Goes("look", "sleep")
    /\ Seen
    /\ Checked
    /\ UNCHANGED bootVars

\* Mutant: the counter is left as it is.
TryForever ==
    /\ Goes("look", "try")
    /\ ~Seen
    /\ UNCHANGED <<dl, once, package, tries, bootVars>>

TryAgain ==
    /\ Goes("look", "try")
    /\ ~Seen
    /\ tries' = tries + 1
    /\ UNCHANGED <<dl, once, package, bootVars>>

StartFailed ==
    /\ Goes("try", "sleep")
    /\ tries = MaxRetries
    /\ Checked
    /\ UNCHANGED bootVars

Sleep ==
    /\ Goes("sleep", "status")
    /\ UNCHANGED <<dl, once, package, tries, bootVars>>

ServiceState ==
    \/ CheckStatus \/ ListRtu \/ SeenRunning \/ NoActivity \/ NothingToStart
    \/ FindActivity \/ AmStartRtu \/ Launched \/ TryAgain \/ StartFailed \/ Sleep

-----------------------------------------------------------------------------
(* The device                                                              *)

Scripts == ScriptStep /\ UNCHANGED supervisionVars

SupervisionRestarts ==
    /\ serverApp' = IF serverApp = "up" THEN "dead" ELSE serverApp
    /\ dl' = "boot"
    /\ watcher' = "status"
    /\ once' = TRUE
    /\ package' = {}
    /\ tries' = 0
    /\ UNCHANGED ini

Reboots == Reboot /\ SupervisionRestarts

LosesPower == PowerLoss /\ SupervisionRestarts

RtuStarts == AppStarts /\ UNCHANGED supervisionVars

RtuEnds ==
    /\ running
    /\ running' = FALSE
    /\ OnlyRunningChanges
    /\ UNCHANGED supervisionVars

\* The card is mounted, or the RTU application writes the file.
IniAppears ==
    /\ ~ini
    /\ ini' = TRUE
    /\ UNCHANGED <<serverApp, dl, watchVars, bootVars>>

SupervisionInit ==
    /\ Init
    /\ serverApp \in {"dead"} \cup (IF Supervised THEN {"absent"} ELSE {})
    /\ ini = FALSE
    /\ dl = "boot"
    /\ watcher = "status"
    /\ once = TRUE
    /\ package = {}
    /\ tries = 0

SupervisionNext ==
    \/ ServerRuns \/ ServerDies \/ UserStartsServer
    \/ DownloadApk \/ ServiceState \/ Scripts
    \/ PmNotReady /\ UNCHANGED supervisionVars
    \/ Reboots \/ LosesPower \/ RtuStarts \/ RtuEnds \/ IniAppears

SupervisionSpec == SupervisionInit /\ [][SupervisionNext]_vars

\* The scripts run on, init restarts what has exited and the posted reboot is
\* run.  A package manager that is asked again and again answers in the end, and
\* a server app that is started again and again starts.
FairSupervision ==
    /\ SupervisionSpec
    /\ WF_vars(Scripts)
    /\ WF_vars(Reboots)
    /\ WF_vars(DownloadApk)
    /\ WF_vars(ServiceState)
    /\ SF_vars(PmReady)
    /\ SF_vars(RestartServer)

-----------------------------------------------------------------------------
(* Properties                                                              *)

\* The type invariant, with what the scripts know of their own progress; and an
\* end of the server app leaves nothing but the file behind, for the next boot.
SupervisionInv ==
    /\ BootInv
    /\ serverApp \in {"absent", "dead", "up"}
    /\ ini \in BOOLEAN
    /\ dl \in {"boot", "pm", "install", "launch", "watch", "restart", "stopped"}
    /\ watcher \in {"status", "list", "check", "none", "try", "look", "sleep"}
    /\ once \in BOOLEAN
    /\ package \subseteq Packages \cup ServerPackages
    /\ tries \in 0..MaxRetries
    /\ watcher \in {"list", "check", "none", "try", "look"} => once
    /\ watcher = "look" => tries < MaxRetries
    /\ dl \in {"launch", "watch", "restart"} => serverApp # "absent"
    /\ serverApp # "up" => upload = Absent /\ session = "idle" /\ armed = Absent

\* A server app that has ended comes back, whatever ended it and wherever the
\* scripts are, on a device that has its configuration file, if it is the one that
\* download_apk looks after.
ServerAppComesBack == Supervised /\ ini /\ serverApp = "dead" ~> serverApp = "up"

\* service_state comes back to look after download_apk, but for one case: the RTU
\* application that comes up between two attempts to start it keeps the script in
\* a loop for as long as it runs.
WatcherReturns ==
    watcher # "status" ~> watcher = "status" \/ (watcher = "try" /\ Seen)

=============================================================================
