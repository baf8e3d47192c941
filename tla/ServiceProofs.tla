---------------------------- MODULE ServiceProofs ----------------------------
(***************************************************************************)
(* ControlInv is an invariant of ServiceControl for every value of its     *)
(* constants, and with it LastCallWins and, with ButtonsInv,               *)
(* ServiceIsStoppable.                                                     *)
(***************************************************************************)
EXTENDS ServiceControl, SequenceTheorems, TLAPS

LEMMA NoCommands == <<>> \in Seq(Commands) /\ Len(<<>>) = 0
OBVIOUS

LEMMA InitInv == ASSUME ControlAssumption, Init PROVE ControlInv
<1>1. /\ queue \in Seq(Commands) /\ Len(queue) <= MaxQueue
      /\ servers \in [ServerType -> Nat]
  BY NoCommands DEF ControlAssumption, Init
<1>2. TypeOK
  <2>1. adapter \in BOOLEAN /\ granted \in BOOLEAN
    BY Zenon DEF ControlAssumption, Init
  <2>2. kills \in 0..MaxKills
    BY DEF ControlAssumption, Init
  <2>3. /\ radio \in ServerType /\ saved \in ServerType /\ disk \in ServerType
        /\ service \in ServerType \cup {"none"}
        /\ asked \in ServerType \cup {"stop", "nothing"}
        /\ activity \in {"none", "paused", "resumed"}
        /\ script \in {"check", "start"}
    BY Zenon DEF Init
  <2>4. /\ process \in BOOLEAN /\ startEnabled \in BOOLEAN /\ stopEnabled \in BOOLEAN
        /\ asking \in BOOLEAN /\ record \in BOOLEAN /\ serving \in BOOLEAN
    BY Zenon DEF Init
  <2> QED BY <1>1, <2>1, <2>2, <2>3, <2>4 DEF TypeOK
<1>3. OneServer /\ QueueInv /\ RecordInv
  BY NoCommands DEF Init, OneServer, QueueInv, RecordInv, ServiceAfter, ServerType
<1> QED BY <1>2, <1>3 DEF ControlInv

\* A process that begins has no service, no server and no command.
LEMMA BeginsInv ==
    ASSUME ControlAssumption, ControlInv, NEW up \in BOOLEAN, Begins(up),
           adapter' = adapter, granted' = granted, disk' = disk,
           script' \in {"check", "start"}, kills' \in 0..MaxKills
    PROVE  ControlInv'
<1>0. /\ queue' \in Seq(Commands) /\ Len(queue') <= MaxQueue
      /\ servers' \in [ServerType -> Nat]
  BY NoCommands DEF ControlAssumption, Begins
<1>1. TypeOK'
  BY <1>0 DEF ControlInv, TypeOK, Begins, ServerType
<1>2. OneServer' /\ QueueInv' /\ RecordInv'
  BY NoCommands DEF Begins, OneServer, QueueInv, RecordInv, ServiceAfter, ServerType
<1> QED BY <1>1, <1>2 DEF ControlInv

\* What a step that touches neither the commands nor the service leaves alone.
LEMMA UntouchedInv ==
    ASSUME ControlInv, TypeOK', UNCHANGED <<record, queue, asked, service, servers>>
    PROVE  ControlInv'
BY DEF ControlInv, OneServer, QueueInv, RecordInv, ServiceAfter

\* A command that is appended is asked of the service the others leave.
LEMMA AppendInv ==
    ASSUME ControlInv, NEW c \in Commands, queue' = Append(queue, c),
           service' = service,
           c.op = "create" <=> ~ServiceAfter(Len(queue)),
           c.op = "start" => c.type \in ServerType
    PROVE  QueueInv' /\ (ServiceAfter(Len(queue))' <=> c.op # "destroy")
<1>1. queue \in Seq(Commands)
  BY DEF ControlInv, TypeOK
<1>2. /\ Len(queue') = Len(queue) + 1 /\ Len(queue) \in Nat
      /\ \A i \in 1..Len(queue) : queue'[i] = queue[i]
      /\ queue'[Len(queue) + 1] = c
  BY <1>1
<1>3. \A i \in 0..Len(queue) : ServiceAfter(i)' <=> ServiceAfter(i)
  BY <1>2 DEF ServiceAfter
<1>4. QueueInv'
  <2> SUFFICES ASSUME NEW i \in 1..Len(queue')
               PROVE  /\ queue'[i].op = "create" <=> ~ServiceAfter(i - 1)'
                      /\ queue'[i].op = "start" => queue'[i].type \in ServerType
    BY DEF QueueInv
  <2>1. CASE i \in 1..Len(queue)
    BY <2>1, <1>2, <1>3 DEF ControlInv, QueueInv
  <2>2. CASE i = Len(queue) + 1
    BY <2>2, <1>2, <1>3
  <2> QED BY <2>1, <2>2, <1>2
<1>5. ServiceAfter(Len(queue))' <=> c.op # "destroy"
  BY <1>2 DEF ServiceAfter
<1> QED BY <1>4, <1>5

LEMMA StartServiceInv ==
    ASSUME ControlInv, NEW t \in ServerType, StartService(t),
           UNCHANGED <<service, servers>>, TypeOK'
    PROVE  ControlInv'
<1>0. queue \in Seq(Commands) /\ (record <=> ServiceAfter(Len(queue)))
  BY DEF ControlInv, TypeOK, RecordInv
<1>1. OneServer'
  BY DEF ControlInv, OneServer
<1> DEFINE c == Command("start", t)
           d == Command("create", "none")
<1>2. c \in Commands /\ c.op = "start" /\ c.type = t
      /\ d \in Commands /\ d.op = "create"
  BY DEF Command, Commands, ServerType
<1>3. CASE record
  <2>1. queue' = Append(queue, c)
    BY <1>3, <1>0, <1>2 DEF StartService
  <2>2. QueueInv' /\ ServiceAfter(Len(queue))'
    BY <2>1, <1>2, <1>0, <1>3, AppendInv
  <2>3. queue' # <<>> /\ queue'[Len(queue')] = c
    BY <2>1, <1>0, <1>2
  <2>4. RecordInv'
    BY <2>2, <2>3 DEF RecordInv, StartService
  <2> QED BY <1>1, <2>2, <2>4 DEF ControlInv
<1>4. CASE ~record
  <2> DEFINE q == Append(queue, d)
  <2>1. queue' = Append(q, c) /\ q \in Seq(Commands)
    BY <1>4, <1>0, <1>2 DEF StartService
  <2>2. /\ Len(q) = Len(queue) + 1 /\ Len(queue') = Len(queue) + 2 /\ Len(queue) \in Nat
        /\ \A i \in 1..Len(queue) : queue'[i] = queue[i]
        /\ queue'[Len(queue) + 1] = d
        /\ queue'[Len(queue) + 2] = c
    BY <2>1, <1>0, <1>2
  <2>3. \A i \in 0..Len(queue) : ServiceAfter(i)' <=> ServiceAfter(i)
    BY <2>2 DEF ServiceAfter
  <2> PICK n \in Nat : n = Len(queue)
    BY <2>2
  <2>4. ServiceAfter(n + 1)' /\ ServiceAfter(n + 2)' /\ Len(queue') = n + 2
    BY <2>2, <1>2 DEF ServiceAfter
  <2>5. QueueInv'
    <3> SUFFICES ASSUME NEW i \in 1..Len(queue')
                 PROVE  /\ queue'[i].op = "create" <=> ~ServiceAfter(i - 1)'
                        /\ queue'[i].op = "start" => queue'[i].type \in ServerType
      BY DEF QueueInv
    <3>1. CASE i \in 1..Len(queue)
      BY <3>1, <2>2, <2>3 DEF ControlInv, QueueInv
    <3>2. CASE i = Len(queue) + 1
      BY <3>2, <2>2, <2>3, <1>0, <1>2, <1>4
    <3>3. CASE i = n + 2
      <4>1. i - 1 = n + 1
        BY <3>3
      <4> QED BY <4>1, <3>3, <2>2, <2>4, <1>2
    <3> QED BY <3>1, <3>2, <3>3, <2>2
  <2>6. queue' # <<>> /\ queue'[Len(queue')] = c
    BY <2>2, <2>1
  <2>7. RecordInv'
    BY <2>4, <2>6 DEF RecordInv, StartService
  <2> QED BY <1>1, <2>5, <2>7 DEF ControlInv
<1> QED BY <1>3, <1>4

LEMMA StartServiceType ==
    ASSUME ControlInv, NEW t \in ServerType, StartService(t)
    PROVE  /\ queue' \in Seq(Commands) /\ Len(queue') <= MaxQueue
           /\ record' \in BOOLEAN
           /\ asked' \in ServerType \cup {"stop", "nothing"}
<1> DEFINE c == Command("start", t)
           d == Command("create", "none")
<1>1. c \in Commands /\ d \in Commands
  BY DEF Command, Commands
<1>2. queue \in Seq(Commands) /\ Len(queue) \in Nat /\ MaxQueue \in Nat
      /\ Len(queue) < MaxQueue - 1
  BY ControlAssumption DEF ControlInv, TypeOK, StartService, ControlAssumption
<1>3. CASE record
  <2>1. queue' = Append(queue, c)
    BY <1>1, <1>2, <1>3 DEF StartService
  <2> QED BY <2>1, <1>1, <1>2 DEF StartService
<1>4. CASE ~record
  <2>1. queue' = Append(Append(queue, d), c)
    BY <1>1, <1>2, <1>4 DEF StartService
  <2> QED BY <2>1, <1>1, <1>2 DEF StartService
<1> QED BY <1>3, <1>4

LEMMA StopServiceInv ==
    ASSUME ControlInv, StopService, UNCHANGED <<service, servers>>, TypeOK'
    PROVE  ControlInv'
<1>0. queue \in Seq(Commands) /\ (record <=> ServiceAfter(Len(queue))) /\ Len(queue) \in Nat
  BY DEF ControlInv, TypeOK, RecordInv
<1>1. OneServer'
  BY DEF ControlInv, OneServer
<1> DEFINE c == Command("destroy", "none")
<1>2. c \in Commands /\ c.op = "destroy"
  BY DEF Command, Commands, ServerType
<1>3. CASE record
  <2>1. queue' = Append(queue, c)
    BY <1>3 DEF StopService
  <2>2. QueueInv' /\ ~ServiceAfter(Len(queue))'
    BY <2>1, <1>2, <1>0, <1>3, AppendInv
  <2>4. queue' # <<>>
    BY <2>1, <1>0, <1>2
  <2>3. RecordInv'
    BY <2>2, <2>4 DEF RecordInv, StopService, ServerType
  <2> QED BY <1>1, <2>2, <2>3 DEF ControlInv
<1>4. CASE ~record
  <2>1. queue' = queue
    BY <1>4 DEF StopService
  <2>2. QueueInv'
    BY <2>1 DEF ControlInv, QueueInv, ServiceAfter
  <2>3. ServiceAfter(Len(queue))' <=> ServiceAfter(Len(queue))
    BY <2>1 DEF ServiceAfter
  <2>4. RecordInv'
    BY <2>3, <1>0, <1>4 DEF RecordInv, StopService, ServerType
  <2> QED BY <1>1, <2>2, <2>4 DEF ControlInv
<1> QED BY <1>3, <1>4

\* A callback takes the first command and does with the service what the
\* command says: the rest still fits.
LEMMA TakeInv ==
    ASSUME ControlInv, queue # <<>>, queue' = Tail(queue), UNCHANGED <<record, asked>>,
           service' # "none" <=> Head(queue).op # "destroy",
           Head(queue).op = "start" => service' = Head(queue).type
    PROVE  QueueInv' /\ RecordInv'
<1>1. queue \in Seq(Commands)
  BY DEF ControlInv, TypeOK
<1>2. /\ Len(queue') = Len(queue) - 1 /\ Len(queue) \in Nat \ {0}
      /\ \A i \in 1..Len(queue') : queue'[i] = queue[i + 1]
      /\ Head(queue) = queue[1]
  BY <1>1
<1>3. \A i \in 0..Len(queue') : ServiceAfter(i)' <=> ServiceAfter(i + 1)
  <2> SUFFICES ASSUME NEW i \in 0..Len(queue')
               PROVE  ServiceAfter(i)' <=> ServiceAfter(i + 1)
    OBVIOUS
  <2>1. CASE i = 0
    BY <2>1, <1>2 DEF ServiceAfter
  <2>2. CASE i # 0
    BY <2>2, <1>2 DEF ServiceAfter
  <2> QED BY <2>1, <2>2
<1>4. QueueInv'
  <2> SUFFICES ASSUME NEW i \in 1..Len(queue')
               PROVE  /\ queue'[i].op = "create" <=> ~ServiceAfter(i - 1)'
                      /\ queue'[i].op = "start" => queue'[i].type \in ServerType
    BY DEF QueueInv
  <2>1. i + 1 \in 1..Len(queue) /\ i - 1 \in 0..Len(queue') /\ (i + 1) - 1 = (i - 1) + 1
    BY <1>2
  <2>2. /\ queue[i + 1].op = "create" <=> ~ServiceAfter((i + 1) - 1)
        /\ queue[i + 1].op = "start" => queue[i + 1].type \in ServerType
    BY <2>1 DEF ControlInv, QueueInv
  <2> QED BY <2>1, <2>2, <1>2, <1>3
<1>5. record' <=> ServiceAfter(Len(queue))'
  BY <1>2, <1>3 DEF ControlInv, RecordInv
<1>6. record' => IF queue' = <<>> THEN service' = asked'
                 ELSE queue'[Len(queue')] = Command("start", asked')
  <2> SUFFICES ASSUME record PROVE IF queue' = <<>> THEN service' = asked
                                   ELSE queue'[Len(queue')] = Command("start", asked)
    OBVIOUS
  <2>1. queue[Len(queue)] = Command("start", asked)
    BY DEF ControlInv, RecordInv
  <2>2. CASE queue' = <<>>
    <3>1. Len(queue) = 1
      <4>1. Len(queue') = 0
        BY <2>2, NoCommands
      <4> QED BY <4>1, <1>2
    <3> QED BY <3>1, <2>1, <2>2, <1>2 DEF Command
  <2>3. CASE queue' # <<>>
    <3>1. Len(queue') \in 1..Len(queue') /\ Len(queue') + 1 = Len(queue)
      BY <2>3, <1>1, <1>2
    <3> QED BY <3>1, <2>1, <2>3, <1>2
  <2> QED BY <2>2, <2>3
<1>7. RecordInv'
  BY <1>5, <1>6 DEF ControlInv, RecordInv
<1> QED BY <1>4, <1>7

-----------------------------------------------------------------------------
USE DEF view, permission, calls, inside, outside

LEMMA StartSelectedInv ==
    ASSUME ControlAssumption, ControlInv, StartSelectedServer
    PROVE  ControlInv'
<1>1. CASE RequestPermissions
  <2>1. TypeOK'
    BY <1>1 DEF RequestPermissions, Buttons, ControlInv, TypeOK
  <2> QED BY <1>1, <2>1, UntouchedInv DEF RequestPermissions
<1>2. CASE StartServer
  <2>1. CASE StartService(radio)
    <3>1. TypeOK'
      BY <1>2, <2>1, StartServiceType DEF StartServer, Buttons, ControlInv, TypeOK
    <3> QED BY <1>2, <2>1, <3>1, StartServiceInv DEF StartServer, ControlInv, TypeOK
  <2>2. CASE UNCHANGED calls
    <3>1. TypeOK'
      BY <1>2, <2>2 DEF StartServer, Buttons, ControlInv, TypeOK
    <3> QED BY <1>2, <2>2, <3>1, UntouchedInv DEF StartServer
  <2> QED BY <1>2, <2>1, <2>2 DEF StartServer
<1>3. CASE NoAdapter
  BY <1>3, BeginsInv DEF NoAdapter, ControlInv, TypeOK
<1> QED BY <1>1, <1>2, <1>3 DEF StartSelectedServer

LEMMA UserInv ==
    ASSUME ControlAssumption, ControlInv, User
    PROVE  ControlInv'
<1>1. CASE OnCreateActivity
  <2>1. TypeOK'
    BY <1>1 DEF OnCreateActivity, ResetButtonState, Buttons, ControlInv, TypeOK
  <2> QED BY <1>1, <2>1, UntouchedInv DEF OnCreateActivity
<1>2. CASE ClickStart
  BY <1>2, StartSelectedInv DEF ClickStart
<1>3. CASE StopCurrentServer
  <2>1. TypeOK'
    <3>1. queue' \in Seq(Commands) /\ Len(queue') <= MaxQueue
      <4>1. Command("destroy", "none") \in Commands
        BY DEF Command, Commands
      <4>2. queue \in Seq(Commands) /\ Len(queue) < MaxQueue /\ MaxQueue \in Nat
        BY <1>3 DEF StopCurrentServer, StopService, ControlInv, TypeOK, ControlAssumption
      <4> QED BY <4>1, <4>2, <1>3 DEF StopCurrentServer, StopService
    <3> QED BY <1>3, <3>1 DEF StopCurrentServer, StopService, ResetButtonState, Buttons,
                              ControlInv, TypeOK
  <2> QED BY <1>3, <2>1, StopServiceInv DEF StopCurrentServer
<1>4. CASE OnCheckedChanged
  <2>1. TypeOK'
    BY <1>4 DEF OnCheckedChanged, ControlInv, TypeOK
  <2> QED BY <1>4, <2>1, UntouchedInv DEF OnCheckedChanged
<1>5. CASE OnRequestPermissionsResult
  <2>1. TypeOK'
    BY <1>5 DEF OnRequestPermissionsResult, ResetButtonState, Buttons, ControlInv, TypeOK
  <2> QED BY <1>5, <2>1, UntouchedInv DEF OnRequestPermissionsResult
<1>6. CASE Leave
  <2>1. TypeOK'
    BY <1>6 DEF Leave, ControlInv, TypeOK
  <2> QED BY <1>6, <2>1, UntouchedInv DEF Leave
<1> QED BY <1>1, <1>2, <1>3, <1>4, <1>5, <1>6 DEF User

\* The types of a step that changes at most the commands, the service, its
\* servers and what is saved.
LEMMA TypesOfCalls ==
    ASSUME TypeOK,
           UNCHANGED <<process, activity, radio, startEnabled, stopEnabled, adapter,
                       granted, asking, record, asked, disk, script, kills>>,
           serving' \in BOOLEAN, saved' \in ServerType,
           service' \in ServerType \cup {"none"},
           servers' \in [ServerType -> Nat],
           queue' \in Seq(Commands), Len(queue') <= MaxQueue
    PROVE  TypeOK'
<1>1. /\ process' \in BOOLEAN /\ startEnabled' \in BOOLEAN /\ stopEnabled' \in BOOLEAN
      /\ adapter' \in BOOLEAN /\ granted' \in BOOLEAN /\ asking' \in BOOLEAN
      /\ record' \in BOOLEAN
  BY Zenon DEF TypeOK
<1>2. /\ activity' \in {"none", "paused", "resumed"}
      /\ radio' \in ServerType /\ disk' \in ServerType
      /\ script' \in {"check", "start"}
      /\ asked' \in ServerType \cup {"stop", "nothing"}
      /\ kills' \in 0..MaxKills
  BY Zenon DEF TypeOK
<1> QED BY <1>1, <1>2, Zenon DEF TypeOK

LEMMA MainThreadInv ==
    ASSUME ControlAssumption, ControlInv, MainThread
    PROVE  ControlInv'
<1>1. queue # <<>> /\ queue' = Tail(queue) /\ UNCHANGED <<record, asked>>
  BY DEF MainThread, OnCreate, OnStartCommand, OnDestroy, IsNext
<1>2. queue \in Seq(Commands) /\ queue' \in Seq(Commands) /\ Len(queue') <= MaxQueue
      /\ Head(queue) = queue[1] /\ 1 \in 1..Len(queue)
  BY <1>1 DEF ControlInv, TypeOK, ControlAssumption
<1>3. /\ Head(queue).op = "create" <=> service = "none"
      /\ Head(queue).op = "start" => Head(queue).type \in ServerType
  BY <1>2 DEF ControlInv, QueueInv, ServiceAfter
<1>4. CASE OnCreate
  <2>1. service = "none" /\ service' = saved /\ saved \in ServerType
    BY <1>3, <1>4 DEF OnCreate, IsNext, ControlInv, TypeOK
  <2>2. OneServer'
    <3>1. servers = [t \in ServerType |-> 0]
      BY <1>3, <2>1 DEF ControlInv, OneServer, ServerType
    <3>2. servers' = [t \in ServerType |-> IF t = saved THEN 1 ELSE 0]
      BY <3>1, <2>1, <1>4 DEF OnCreate
    <3> QED BY <3>2, <2>1 DEF OneServer
  <2>3. TypeOK'
    <3>1. servers' \in [ServerType -> Nat]
      BY <2>2 DEF OneServer
    <3>2. UNCHANGED <<process, activity, radio, startEnabled, stopEnabled, adapter,
                      granted, asking, record, asked, disk, script, kills>>
      BY <1>4 DEF OnCreate
    <3>3. TypeOK
      BY DEF ControlInv
    <3>4. serving' \in BOOLEAN /\ saved' \in ServerType
      BY <2>1, <1>4 DEF OnCreate
    <3>5. service' \in ServerType \cup {"none"}
      BY <2>1
    <3> QED BY <3>1, <3>2, <3>3, <3>4, <3>5, <1>2, TypesOfCalls
  <2>4. QueueInv' /\ RecordInv'
    BY <2>1, <1>1, <1>4, TakeInv DEF OnCreate, IsNext, ServerType
  <2> QED BY <2>2, <2>3, <2>4 DEF ControlInv
<1>5. CASE OnStartCommand
  <2> DEFINE t == Head(queue).type
  <2>1. service # "none" /\ service' = t /\ t \in ServerType /\ service \in ServerType
    BY <1>3, <1>5 DEF OnStartCommand, IsNext, SwitchServerType, ControlInv, TypeOK
  <2>2. OneServer'
    <3>1. CASE t = service
      BY <3>1, <1>5 DEF OnStartCommand, ControlInv, OneServer
    <3>2. CASE t # service
      BY <3>2, <2>1, <1>5 DEF OnStartCommand, SwitchServerType, ControlInv, OneServer,
                              ServerType
    <3> QED BY <3>1, <3>2
  <2>3. TypeOK'
    <3>1. servers' \in [ServerType -> Nat]
      BY <2>2 DEF OneServer
    <3>2. UNCHANGED <<process, activity, radio, startEnabled, stopEnabled, adapter,
                      granted, asking, record, asked, disk, script, kills>>
      BY <1>5 DEF OnStartCommand
    <3>3. TypeOK
      BY DEF ControlInv
    <3>4. serving' \in BOOLEAN /\ saved' \in ServerType
      BY <2>1, <3>3, <1>5 DEF OnStartCommand, SwitchServerType, TypeOK
    <3>5. service' \in ServerType \cup {"none"}
      BY <2>1
    <3> QED BY <3>1, <3>2, <3>3, <3>4, <3>5, <1>2, TypesOfCalls
  <2>4. QueueInv' /\ RecordInv'
    BY <2>1, <1>1, <1>5, TakeInv DEF OnStartCommand, IsNext, ServerType
  <2> QED BY <2>2, <2>3, <2>4 DEF ControlInv
<1>6. CASE OnDestroy
  <2>1. service \in ServerType /\ service' = "none"
    BY <1>3, <1>6 DEF OnDestroy, IsNext, ControlInv, TypeOK
  <2>2. OneServer'
    <3>1. servers = [t \in ServerType |-> IF t = service THEN 1 ELSE 0]
      BY DEF ControlInv, OneServer
    <3>2. servers' = [t \in ServerType |-> 0]
      BY <3>1, <2>1, <1>6 DEF OnDestroy
    <3> QED BY <3>2, <2>1 DEF OneServer, ServerType
  <2>3. TypeOK'
    <3>1. servers' \in [ServerType -> Nat]
      BY <2>2 DEF OneServer
    <3>2. UNCHANGED <<process, activity, radio, startEnabled, stopEnabled, adapter,
                      granted, asking, record, asked, disk, script, kills>>
      BY <1>6 DEF OnDestroy
    <3>3. TypeOK
      BY DEF ControlInv
    <3>4. serving' \in BOOLEAN /\ saved' \in ServerType
      BY <3>3, <1>6 DEF OnDestroy, TypeOK
    <3>5. service' \in ServerType \cup {"none"}
      BY <2>1
    <3> QED BY <3>1, <3>2, <3>3, <3>4, <3>5, <1>2, TypesOfCalls
  <2>4. QueueInv' /\ RecordInv'
    BY <2>1, <1>1, <1>6, TakeInv DEF OnDestroy, IsNext
  <2> QED BY <2>2, <2>3, <2>4 DEF ControlInv
<1> QED BY <1>4, <1>5, <1>6 DEF MainThread

LEMMA StepInv ==
    ASSUME ControlAssumption, ControlInv, [Next]_controlVars
    PROVE  ControlInv'
<1>1. CASE User
  BY <1>1, UserInv
<1>2. CASE OnResume
  BY <1>2, StartSelectedInv DEF OnResume
<1>3. CASE MainThread
  BY <1>3, MainThreadInv
<1>4. CASE ServerGivesUp
  <2>1. TypeOK'
    <3>1. serving' = FALSE /\ UNCHANGED <<process, activity, radio, startEnabled,
              stopEnabled, adapter, granted, asking, record, queue, asked, service,
              servers, saved, disk, script, kills>>
      BY <1>4 DEF ServerGivesUp
    <3>2. TypeOK
      BY DEF ControlInv
    <3>3. /\ queue \in Seq(Commands) /\ Len(queue) <= MaxQueue
          /\ servers \in [ServerType -> Nat] /\ saved \in ServerType
          /\ service \in ServerType \cup {"none"}
      BY <3>2, Zenon DEF TypeOK
    <3> QED BY <3>1, <3>2, <3>3, TypesOfCalls
  <2> QED BY <1>4, <2>1, UntouchedInv DEF ServerGivesUp
<1>5. CASE WritePreferences
  <2>1. TypeOK'
    BY <1>5 DEF WritePreferences, ControlInv, TypeOK
  <2> QED BY <1>5, <2>1, UntouchedInv DEF WritePreferences
<1>6. CASE Kill
  <2>1. kills' \in 0..MaxKills
    BY <1>6 DEF Kill, ControlAssumption, ControlInv, TypeOK
  <2> QED BY <1>6, <2>1, BeginsInv DEF Kill, ControlInv, TypeOK
<1>7. CASE Supervise
  <2>1. TypeOK'
    BY <1>7 DEF Supervise, ControlInv, TypeOK
  <2> QED BY <1>7, <2>1, UntouchedInv DEF Supervise
<1>8. CASE AmStart
  BY <1>8, BeginsInv DEF AmStart, ControlInv, TypeOK
<1>9. CASE AmStartFails
  <2>1. CASE Begins(FALSE)
    BY <1>9, <2>1, BeginsInv DEF AmStartFails, ControlInv, TypeOK
  <2>2. CASE UNCHANGED <<process, activity, view, asking, calls, inside, saved>>
    <3>1. TypeOK'
      BY <1>9, <2>2 DEF AmStartFails, view, calls, inside, ControlInv, TypeOK
    <3> QED BY <2>2, <3>1, UntouchedInv DEF calls, inside
  <2> QED BY <1>9, <2>1, <2>2 DEF AmStartFails
<1>10. CASE UNCHANGED controlVars
  <2>1. TypeOK'
    BY <1>10 DEF controlVars, ControlInv, TypeOK
  <2> QED BY <1>10, <2>1, UntouchedInv DEF controlVars
<1> QED BY <1>1, <1>2, <1>3, <1>4, <1>5, <1>6, <1>7, <1>8, <1>9, <1>10 DEF Next

\* The commands in the main thread fit each other and the service, and no second
\* server is left behind, for every order of clicks, switches, ends of the process
\* and restarts by the script.
THEOREM ControlInvariant == Spec => []ControlInv
<1>1. Init => ControlInv
  BY InitInv, ControlAssumption
<1>2. ControlInv /\ [Next]_controlVars => ControlInv'
  BY StepInv, ControlAssumption
<1> QED BY <1>1, <1>2, PTL DEF Spec

\* When all commands are done, the service is what was last asked for.
THEOREM LastCallIsDone == Spec => []LastCallWins
<1>1. ControlInv => LastCallWins
  BY DEF ControlInv, RecordInv, LastCallWins, ServiceAfter, TypeOK
<1> QED BY <1>1, ControlInvariant, PTL

-----------------------------------------------------------------------------
\* What the buttons are worth: one of them can be pressed; a service that Android has
\* as started can be stopped from a screen that is in front; and a screen that shows
\* the dialog is not.
ButtonsInv ==
    /\ startEnabled = ~stopEnabled
    /\ activity = "resumed" => ~asking /\ (record => stopEnabled)

LEMMA StartKeepsButtons ==
    ASSUME ButtonsInv, ~asking, StartSelectedServer
    PROVE  ButtonsInv'
<1>1. CASE RequestPermissions
  BY <1>1 DEF RequestPermissions, Buttons, ButtonsInv
<1>2. CASE StartServer
  <2>1. startEnabled' = FALSE /\ stopEnabled' = TRUE /\ asking' = asking
    BY <1>2 DEF StartServer, Buttons
  <2> QED BY <2>1, Zenon DEF ButtonsInv
<1>3. CASE NoAdapter
  <2>1. startEnabled' = TRUE /\ stopEnabled' = FALSE /\ activity' = "none"
    BY <1>3 DEF NoAdapter, Begins
  <2> QED BY <2>1 DEF ButtonsInv
<1> QED BY <1>1, <1>2, <1>3 DEF StartSelectedServer

LEMMA StepKeepsButtons ==
    ASSUME TypeOK, ButtonsInv, [Next]_controlVars
    PROVE  ButtonsInv'
<1>1. CASE User
  <2>1. CASE OnCreateActivity
    BY <2>1 DEF OnCreateActivity, ResetButtonState, Buttons, ButtonsInv
  <2>2. CASE ClickStart
    BY <2>2, StartKeepsButtons DEF ClickStart, ButtonsInv
  <2>3. CASE StopCurrentServer
    <3>1. /\ startEnabled' = TRUE /\ stopEnabled' = FALSE /\ record' = FALSE
          /\ activity = "resumed" /\ asking' = asking
      BY <2>3 DEF StopCurrentServer, StopService, ResetButtonState, Buttons
    <3> QED BY <3>1, Zenon DEF ButtonsInv
  <2>4. CASE OnCheckedChanged
    BY <2>4 DEF OnCheckedChanged, ButtonsInv
  <2>5. CASE OnRequestPermissionsResult
    BY <2>5 DEF OnRequestPermissionsResult, ResetButtonState, Buttons, ButtonsInv
  <2>6. CASE Leave
    BY <2>6 DEF Leave, ButtonsInv
  <2> QED BY <1>1, <2>1, <2>2, <2>3, <2>4, <2>5, <2>6 DEF User
<1>2. CASE OnResume
  BY <1>2, StartKeepsButtons DEF OnResume
<1>3. CASE MainThread
  BY <1>3 DEF MainThread, OnCreate, OnStartCommand, OnDestroy, ButtonsInv
<1>4. CASE ServerGivesUp \/ WritePreferences \/ Supervise \/ UNCHANGED controlVars
  BY <1>4 DEF ServerGivesUp, WritePreferences, Supervise, controlVars, ButtonsInv
<1>5. CASE Kill \/ AmStart
  BY <1>5 DEF Kill, AmStart, Begins, ButtonsInv
<1>6. CASE AmStartFails
  <2>1. CASE Begins(FALSE)
    BY <2>1 DEF Begins, ButtonsInv
  <2>2. CASE UNCHANGED <<activity, startEnabled, stopEnabled, asking, record>>
    BY <2>2 DEF ButtonsInv
  <2> QED BY <1>6, <2>1, <2>2 DEF AmStartFails, view, calls
<1> QED BY <1>1, <1>2, <1>3, <1>4, <1>5, <1>6 DEF Next

\* A service that runs can be stopped from the screen, whatever resumes, permission
\* dialogs and failing starts have done to the buttons.
THEOREM ServiceCanBeStopped == Spec => []ServiceIsStoppable
<1>1. Init => ButtonsInv
  BY DEF Init, ButtonsInv
<1>2. ControlInv /\ ButtonsInv /\ [Next]_controlVars => ButtonsInv'
  BY StepKeepsButtons DEF ControlInv
<1>3. ControlInv /\ ButtonsInv => ServiceIsStoppable
  <2> SUFFICES ASSUME ControlInv, ButtonsInv, activity = "resumed", queue = <<>>
               PROVE  (service # "none" => stopEnabled) /\ startEnabled = ~stopEnabled
    BY DEF ServiceIsStoppable
  <2>1. record <=> service # "none"
    BY NoCommands DEF ControlInv, RecordInv, ServiceAfter
  <2> QED BY <2>1 DEF ButtonsInv
<1> QED BY <1>1, <1>2, <1>3, ControlInvariant, PTL DEF Spec
=============================================================================
