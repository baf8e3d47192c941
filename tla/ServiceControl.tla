---------------------------- MODULE ServiceControl ----------------------------
(***************************************************************************)
(* How the server is started, switched and stopped: the buttons of         *)
(* MainActivity, the commands Android puts into the main thread of the     *)
(* process, the callbacks of YModemUnifiedService, and the script          *)
(* download_apk, which looks for the process every minute.                 *)
(*                                                                         *)
(* What a server does between startServer and stopServer is TcpServer; here *)
(* it is one of a number of started servers, and its serving thread lives  *)
(* or has given up.  The app is installed under the package download_apk   *)
(* knows; what another package means for the scripts is in Supervision.    *)
(***************************************************************************)
EXTENDS Naturals, Sequences

CONSTANTS
    Adapters,           \* whether a device may have a Bluetooth adapter, or none
    PermissionMissing,  \* a Bluetooth permission may be missing
    StartMayFail,       \* startService may throw
    ServerMayGiveUp,    \* a serving thread may end, as GiveUp of TcpServer
    MaxQueue,           \* bound: commands in the main thread
    MaxKills            \* bound: ends of the process from outside

ASSUME ControlAssumption ==
    /\ Adapters \subseteq BOOLEAN
    /\ PermissionMissing \in BOOLEAN
    /\ StartMayFail \in BOOLEAN /\ ServerMayGiveUp \in BOOLEAN
    /\ MaxQueue \in Nat \ {0, 1}
    /\ MaxKills \in Nat

ServerType == {"TCP", "BLUETOOTH"}

VARIABLES
    process,        \* the process of the app is there
    activity,       \* "none", "paused" or "resumed"
    radio,          \* the radio button that is checked
    startEnabled,   \* btnStartServer
    stopEnabled,    \* btnStopServer
    adapter,        \* getDefaultAdapter is not null
    granted,        \* the Bluetooth permissions are granted
    asking,         \* their dialog is shown
    record,         \* Android has the service as started
    queue,          \* commands for the service, in the main thread
    service,        \* currentServerType of the service, or "none"
    servers,        \* started servers that were not stopped, by type
    serving,        \* the serving thread of the service's server lives
    saved,          \* server_type of the preferences, in memory
    disk,           \* and in their file
    script,         \* download_apk: "check" or "start"
    asked,          \* the last call: start of a type, "stop", or "nothing"
    kills

view == <<radio, startEnabled, stopEnabled>>
permission == <<adapter, granted, asking>>
calls == <<record, queue, asked>>
inside == <<service, servers, serving>>
outside == <<disk, script, kills>>
controlVars == <<process, activity, view, permission, calls, inside, saved, outside>>

Command(op, t) == [op |-> op, type |-> t]

Commands ==
    [op : {"create", "start", "destroy"}, type : ServerType \cup {"none"}]

-----------------------------------------------------------------------------
(* Android                                                                 *)

\* The process ends, and may start again with an activity.
Begins(up) ==
    /\ process' = up
    /\ activity' = IF up THEN "paused" ELSE "none"
    /\ radio' = disk
    /\ startEnabled' = TRUE
    /\ stopEnabled' = FALSE
    /\ asking' = FALSE
    /\ record' = FALSE
    /\ queue' = <<>>
    /\ asked' = "nothing"
    /\ service' = "none"
    /\ servers' = [t \in ServerType |-> 0]
    /\ serving' = FALSE
    /\ saved' = disk

StartService(t) ==
    /\ Len(queue) < MaxQueue - 1
    /\ queue' = queue \o (IF record THEN <<>> ELSE <<Command("create", "none")>>)
                      \o <<Command("start", t)>>
    /\ record' = TRUE
    /\ asked' = t

StopService ==
    /\ Len(queue) < MaxQueue
    /\ queue' = IF record THEN Append(queue, Command("destroy", "none")) ELSE queue
    /\ record' = FALSE
    /\ asked' = "stop"

-----------------------------------------------------------------------------
(* MainActivity                                                            *)

Buttons(start, stop) == startEnabled' = start /\ stopEnabled' = stop

\* Mutant: the stop button is left as it is.
ResetStartButton == startEnabled' = TRUE /\ UNCHANGED stopEnabled

ResetButtonState == Buttons(TRUE, FALSE)

\* The activity is started by a user: loadSavedServerType.
OnCreateActivity ==
    /\ activity = "none"
    /\ process' = TRUE
    /\ activity' = "paused"
    /\ radio' = saved
    /\ ResetButtonState
    /\ UNCHANGED <<permission, calls, inside, saved, outside>>

NeedsPermission == radio = "BLUETOOTH" /\ ~granted

\* Android pauses the activity while its dialog is shown.
RequestPermissions ==
    /\ NeedsPermission
    /\ activity' = "paused"
    /\ asking' = TRUE
    /\ Buttons(FALSE, TRUE)
    /\ UNCHANGED <<process, radio, adapter, granted, calls, inside, saved, outside>>

\* A failure is caught and resets the buttons, which are then set all the same.
StartServer ==
    /\ ~NeedsPermission
    /\ radio = "TCP" \/ adapter
    /\ \/ StartService(radio)
       \/ StartMayFail /\ UNCHANGED calls
    /\ activity' = "resumed"
    /\ Buttons(FALSE, TRUE)
    /\ UNCHANGED <<process, radio, permission, inside, saved, outside>>

\* bluetoothAdapter.getState() comes before the test for null.
NoAdapter ==
    /\ radio = "BLUETOOTH" /\ granted /\ ~adapter
    /\ Begins(FALSE)
    /\ UNCHANGED <<adapter, granted, outside>>

StartSelectedServer == RequestPermissions \/ StartServer \/ NoAdapter

\* performClick does not ask whether the button is enabled.
OnResume == activity = "paused" /\ ~asking /\ StartSelectedServer

ClickStart == activity = "resumed" /\ startEnabled /\ StartSelectedServer

\* stopService twice: the second finds no service.
StopCurrentServer ==
    /\ activity = "resumed"
    /\ stopEnabled
    /\ StopService
    /\ ResetButtonState
    /\ UNCHANGED <<process, activity, radio, permission, inside, saved, outside>>

\* setEnabled(FALSE) on the group leaves its radio buttons enabled.
OnCheckedChanged ==
    /\ activity = "resumed"
    /\ radio' \in ServerType \ {radio}
    /\ saved' = radio'
    /\ UNCHANGED <<process, activity, startEnabled, stopEnabled, permission, calls,
                   inside, outside>>

OnRequestPermissionsResult ==
    /\ asking
    /\ asking' = FALSE
    /\ granted' \in BOOLEAN
    /\ ResetButtonState
    /\ UNCHANGED <<process, activity, radio, adapter, calls, inside, saved, outside>>

\* The user goes elsewhere, or back.
Leave ==
    /\ activity = "resumed"
    /\ activity' \in {"paused", "none"}
    /\ UNCHANGED <<process, view, permission, calls, inside, saved, outside>>

-----------------------------------------------------------------------------
(* YModemUnifiedService                                                    *)

IsNext(op) == queue # <<>> /\ Head(queue).op = op

\* Mutant: the old server is left to itself.
SwitchWithoutStop(t) ==
    /\ servers' = [servers EXCEPT ![t] = @ + 1]
    /\ service' = t
    /\ serving' = TRUE
    /\ saved' = t

SwitchServerType(t) ==
    /\ servers' = [servers EXCEPT ![service] = @ - 1, ![t] = @ + 1]
    /\ service' = t
    /\ serving' = TRUE
    /\ saved' = t

\* Mutant: the service keeps the type it was created with.
OnStartCommandRuns ==
    /\ IsNext("start")
    /\ queue' = Tail(queue)
    /\ UNCHANGED <<process, activity, view, permission, record, asked, inside, saved,
                   outside>>

OnStartCommand ==
    /\ IsNext("start")
    /\ queue' = Tail(queue)
    /\ LET t == Head(queue).type
       IN  IF t = service THEN UNCHANGED <<inside, saved>> ELSE SwitchServerType(t)
    /\ UNCHANGED <<process, activity, view, permission, record, asked, outside>>

\* The server of the saved type is started first, whatever is asked for.
OnCreate ==
    /\ IsNext("create")
    /\ queue' = Tail(queue)
    /\ service' = saved
    /\ servers' = [servers EXCEPT ![saved] = @ + 1]
    /\ serving' = TRUE
    /\ UNCHANGED <<process, activity, view, permission, record, asked, saved, outside>>

OnDestroy ==
    /\ IsNext("destroy")
    /\ queue' = Tail(queue)
    /\ service' = "none"
    /\ servers' = [servers EXCEPT ![service] = @ - 1]
    /\ serving' = FALSE
    /\ UNCHANGED <<process, activity, view, permission, record, asked, saved, outside>>

MainThread == OnCreate \/ OnStartCommand \/ OnDestroy

\* The socket could not be bound: the thread ends, the service stays.
ServerGivesUp ==
    /\ ServerMayGiveUp
    /\ serving
    /\ serving' = FALSE
    /\ UNCHANGED <<process, activity, view, permission, calls, service, servers, saved,
                   outside>>

-----------------------------------------------------------------------------
(* The file of the preferences, the end of the process, and download_apk   *)

\* apply() writes later.
WritePreferences ==
    /\ process
    /\ disk' = saved
    /\ UNCHANGED <<process, activity, view, permission, calls, inside, saved, script,
                   kills>>

\* Low memory, or an exception in a thread of a server.
Kill ==
    /\ process
    /\ kills < MaxKills
    /\ kills' = kills + 1
    /\ Begins(FALSE)
    /\ UNCHANGED <<adapter, granted, disk, script>>

\* Mutant: the script only reports.
SuperviseReports == script = "check" /\ UNCHANGED controlVars

\* ps | grep
Supervise ==
    /\ script = "check"
    /\ ~process
    /\ script' = "start"
    /\ UNCHANGED <<process, activity, view, permission, calls, inside, saved, disk, kills>>

\* am start -S: stops what may have been started in the meantime.
AmStart ==
    /\ script = "start"
    /\ script' = "check"
    /\ Begins(TRUE)
    /\ UNCHANGED <<adapter, granted, disk, kills>>

\* The app is not started: nothing has happened, or the instance is stopped.
AmStartFails ==
    /\ script = "start"
    /\ script' = "check"
    /\ \/ Begins(FALSE)
       \/ UNCHANGED <<process, activity, view, asking, calls, inside, saved>>
    /\ UNCHANGED <<adapter, granted, disk, kills>>

-----------------------------------------------------------------------------
Init ==
    /\ process = FALSE
    /\ activity = "none"
    /\ disk \in ServerType
    /\ saved = disk
    /\ radio = disk
    /\ startEnabled = TRUE
    /\ stopEnabled = FALSE
    /\ adapter \in Adapters
    /\ granted \in {TRUE, ~PermissionMissing}
    /\ asking = FALSE
    /\ record = FALSE
    /\ queue = <<>>
    /\ asked = "nothing"
    /\ service = "none"
    /\ servers = [t \in ServerType |-> 0]
    /\ serving = FALSE
    /\ script = "start"
    /\ kills = 0

User ==
    \/ OnCreateActivity \/ ClickStart \/ StopCurrentServer \/ OnCheckedChanged
    \/ OnRequestPermissionsResult \/ Leave

Next ==
    \/ User \/ OnResume \/ MainThread \/ ServerGivesUp
    \/ WritePreferences \/ Kill \/ Supervise \/ AmStart \/ AmStartFails

Spec == Init /\ [][Next]_controlVars

\* The main thread takes its messages, Android resumes what it has started,
\* the script goes round, and an app that is started again and again starts; a user
\* may stay away for ever.
FairSpec ==
    /\ Spec
    /\ WF_controlVars(OnResume)
    /\ WF_controlVars(MainThread)
    /\ WF_controlVars(Supervise)
    /\ WF_controlVars(AmStart \/ AmStartFails)
    /\ SF_controlVars(AmStart)

-----------------------------------------------------------------------------
(* Properties                                                              *)

\* Every variable has its type.
TypeOK ==
    /\ process \in BOOLEAN
    /\ startEnabled \in BOOLEAN /\ stopEnabled \in BOOLEAN
    /\ adapter \in BOOLEAN /\ granted \in BOOLEAN /\ asking \in BOOLEAN
    /\ record \in BOOLEAN
    /\ serving \in BOOLEAN
    /\ activity \in {"none", "paused", "resumed"}
    /\ radio \in ServerType /\ saved \in ServerType /\ disk \in ServerType
    /\ queue \in Seq(Commands)
    /\ Len(queue) <= MaxQueue
    /\ service \in ServerType \cup {"none"}
    /\ servers \in [ServerType -> Nat]
    /\ script \in {"check", "start"}
    /\ asked \in ServerType \cup {"stop", "nothing"}
    /\ kills \in 0..MaxKills

\* The servers that run are the one of the service, and none without it.
OneServer ==
    servers = [t \in ServerType |-> IF t = service THEN 1 ELSE 0]

\* When the main thread has done what it was asked for, the last call has won:
\* the service is gone, or its server has the type that was asked for last.
LastCallWins ==
    queue = <<>> =>
        service = IF asked \in ServerType THEN asked ELSE "none"

\* Is there a service after the first i of the waiting commands?
ServiceAfter(i) == IF i = 0 THEN service # "none" ELSE queue[i].op # "destroy"

\* The commands fit each other: a service is created where there is none, and
\* nothing else is asked of none.
QueueInv ==
    \A i \in 1..Len(queue) :
        /\ queue[i].op = "create" <=> ~ServiceAfter(i - 1)
        /\ queue[i].op = "start" => queue[i].type \in ServerType

\* What Android and the last caller think of the service is what the last
\* command will make of it.
RecordInv ==
    /\ record <=> ServiceAfter(Len(queue))
    /\ record <=> asked \in ServerType
    /\ IF queue = <<>> THEN record => service = asked
       ELSE record => queue[Len(queue)] = Command("start", asked)

\* Between the commands of Android and the service nothing is lost, and no order of
\* starts, switches and stops leaves a server behind.
ControlInv == TypeOK /\ OneServer /\ QueueInv /\ RecordInv

\* A service that runs can be stopped from the screen, and one of the buttons
\* can always be pressed, once the main thread has done what it was asked for.
ServiceIsStoppable ==
    activity = "resumed" /\ queue = <<>> =>
        (service # "none" => stopEnabled) /\ startEnabled = ~stopEnabled

\* On a device with Bluetooth a process that is gone comes back with a server,
\* without a user: unless one stops it, is asked for a permission, or Android
\* refuses to start the service.
ServerComesBack ==
    ~process /\ adapter ~>
        \/ serving \/ asking \/ asked = "stop"
        \/ activity = "resumed" /\ asked = "nothing"
=============================================================================
