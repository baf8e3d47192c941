---------------------------- MODULE UploadProofs ----------------------------
(***************************************************************************)
(* What a session promises its client and the boot script: an upload is    *)
(* answered, a verdict is the last word, and the sessions implement the    *)
(* abstract service of Upload.                                             *)
(***************************************************************************)
EXTENDS TransferProofs

-----------------------------------------------------------------------------
(* What the client is told.                                                *)

\* Behind receive_APK, and behind what ends it early.
AnswerInv ==
    phase = "apk" =>
        /\ pc = "integrity" => LastSent = "ACK"
        /\ pc \in {"awaitEot", "validate"} => LastSent = "EOT"
        /\ pc = "error" /\ conn # "rst" =>
               \/ LastSent \in {"NAK", "EOT"}
               \/ LastSent = "ACK" /\ exc = "close"

\* Where the session may be when it has sent a verdict.
VerdictInv ==
    VerdictSent =>
        \/ pc \in {"awaitEot", "validate", "error", "close", "idle"}
        \/ pc = "thrown" /\ phase = "header" /\ exc = "runtime"

ReplyInv == AnswerInv /\ UploadAnswered /\ VerdictInv

LEMMA LastOfSend ==
    ASSUME tx \in Seq(Replies), NEW bytes \in Seq(Replies), bytes # <<>>, Send(bytes)
    PROVE  LastSent' = bytes[Len(bytes)]
  <1>1. tx' = tx \o bytes
      BY DEF Send
  <1>2. Len(bytes) \in Nat \ {0} /\ Len(tx) \in Nat
      OBVIOUS
  <1>3. Len(tx') = Len(tx) + Len(bytes) /\ tx'[Len(tx) + Len(bytes)] = bytes[Len(bytes)]
      BY <1>1, <1>2
  <1>4. tx' # <<>>
      BY <1>2, <1>3
  <1> QED BY <1>3, <1>4 DEF LastSent

LEMMA LastOfReply ==
    ASSUME TypeOK
    PROVE  /\ \A r \in Replies : Send(<<r>>) => LastSent' = r
           /\ \A r \in Replies : Send(<<r, r>>) => LastSent' = r
           /\ tx' = tx => LastSent' = LastSent
  <1>1. tx \in Seq(Replies)
      BY DEF TypeOK
  <1>2. ASSUME NEW r \in Replies, Send(<<r>>) PROVE LastSent' = r
    <2>1. <<r>> \in Seq(Replies) /\ <<r>> # <<>> /\ Len(<<r>>) = 1
        OBVIOUS
    <2> QED BY <1>1, <1>2, <2>1, LastOfSend
  <1>3. ASSUME NEW r \in Replies, Send(<<r, r>>) PROVE LastSent' = r
    <2>1. <<r, r>> \in Seq(Replies) /\ <<r, r>> # <<>> /\ Len(<<r, r>>) = 2
        OBVIOUS
    <2> QED BY <1>1, <1>3, <2>1, LastOfSend
  <1> QED BY <1>2, <1>3 DEF LastSent

LEMMA ReplyModem ==
    ASSUME TypeInv, ReplyInv, ModemStep \/ ModemTimeout, UNCHANGED fileVars
    PROVE  ReplyInv' /\ (VerdictSent => tx' = tx)
  <1>1. TypeOK /\ Flow
      BY DEF TypeInv
  <1> USE DEF ReplyInv, AnswerInv, UploadAnswered, VerdictInv, VerdictSent, Replies
  <1>2. CASE SendStartSignal
    <2>1. LastSent' = "C" /\ pc' = "first"
        BY <1>1, <1>2, LastOfReply DEF SendStartSignal
    <2>2. pc = "signal"
        BY <1>2 DEF SendStartSignal
    <2> QED BY <2>1, <2>2
  <1>3. CASE GiveUpStart
    <2>1. LastSent' = "CAN" /\ pc' = "thrown" /\ exc' = "runtime" /\ phase' = phase
        BY <1>1, <1>3, LastOfReply DEF GiveUpStart, Throw
    <2>2. pc = "signal" /\ phase = "header"
        BY <1>1, <1>3 DEF GiveUpStart, Flow, HeaderStates
    <2> QED BY <2>1, <2>2
  <1>4. CASE NextStartTimeout
    <2>1. LastSent' = "ACK" /\ pc' = "thrown" /\ pc = "next"
        BY <1>1, <1>4, LastOfReply DEF NextStartTimeout, Throw
    <2> QED BY <2>1
  <1>5. CASE \/ ReadFirstByte \/ SeekBlockStart \/ SkipByte \/ FalseStart
             \/ ReadNextBlockStart \/ FirstByteTimeout \/ SeekTimeout \/ BlockRead
             \/ RepeatedBlock \/ BlockMismatch \/ ComplementMismatch \/ DataEnds
             \/ CrcMismatch \/ BlockTimeout
    <2>1. /\ tx' = tx
          /\ pc \in {"first", "seek", "next", "block"}
          /\ pc' \in {"first", "seek", "next", "block", "eot", "signal", "parse",
                      "write", "thrown"}
        BY <1>5 DEF ReadFirstByte, SeekBlockStart, SkipByte, FalseStart,
           ReadNextBlockStart, FirstByteTimeout, SeekTimeout, BlockRead, RepeatedBlock,
           BlockMismatch, ComplementMismatch, DataEnds, CrcMismatch, BlockTimeout,
           RejectBlock, Throw, NumberArrived, NumberMatches, ComplementMatches,
           DataArrived, CrcArrived
    <2>2. LastSent' = LastSent
        BY <1>1, <2>1, LastOfReply
    <2> QED BY <2>1, <2>2
  <1> QED BY <1>2, <1>3, <1>4, <1>5 DEF ModemStep, ModemTimeout

LEMMA ReplyYModem ==
    ASSUME TypeInv, ReplyInv, YModemStep \/ YModemTimeout
    PROVE  ReplyInv' /\ (VerdictSent => tx' = tx)
  <1>1. TypeOK /\ Flow
      BY DEF TypeInv
  <1>2. CASE (ModemStep \/ ModemTimeout) /\ UNCHANGED fileVars
      BY <1>2, ReplyModem
  <1> USE DEF ReplyInv, AnswerInv, UploadAnswered, VerdictInv, VerdictSent, Replies
  <1>3. CASE ParseHeader \/ MalformedHeader \/ OpenFile \/ OpenFileFails
             \/ WriteBlock \/ WriteBlockFails
    <2>1. /\ tx' = tx
          /\ pc \in {"parse", "open", "write"}
          /\ pc' \in {"ackHeader", "thrown", "next"}
        BY <1>3 DEF ParseHeader, MalformedHeader, OpenFile, OpenFileFails, WriteBlock,
           WriteBlockFails, Throw
    <2>2. LastSent' = LastSent
        BY <1>1, <2>1, LastOfReply
    <2> QED BY <2>1, <2>2
  <1>4. CASE CatchInHeader
    <2>1. /\ pc = "thrown" /\ phase = "header" /\ phase' = phase /\ pc' = "error"
          /\ exc = "runtime" => tx' = tx
        BY <1>4 DEF CatchInHeader
    <2> QED BY <2>1
  <1>5. CASE EndOfTransmission
    <2>1. pc = "eot" /\ pc' = "integrity" /\ LastSent' = "ACK"
        BY <1>1, <1>5, LastOfReply DEF EndOfTransmission
    <2> QED BY <2>1
  <1>6. CASE CloseFileFails
    <2>1. pc = "eot" /\ pc' = "error" /\ exc' = "close" /\ LastSent' = "ACK"
        BY <1>1, <1>6, LastOfReply DEF CloseFileFails
    <2> QED BY <2>1
  <1>7. CASE CatchInApk
    <2>1. pc = "thrown" /\ phase = "apk" /\ pc' = "error" /\ LastSent' = "NAK"
        BY <1>1, <1>7, LastOfReply DEF CatchInApk, AnswerFailure
    <2> QED BY <2>1
  <1>8. CASE WriteFails
    <2>1. /\ conn' = "rst" /\ tx' = tx /\ phase' = phase
          /\ pc \in {"eot", "signal", "next", "thrown", "ackHeader", "sendEot"}
          /\ pc = "thrown" => phase = "apk" \/ exc # "runtime"
          /\ pc' \in {"thrown", "error"}
        BY <1>8 DEF WriteFails
    <2>2. LastSent' = LastSent
        BY <1>1, <2>1, LastOfReply
    <2> QED BY <2>1, <2>2
  <1> QED BY <1>2, <1>3, <1>4, <1>5, <1>6, <1>7, <1>8 DEF YModemStep, YModemTimeout

LEMMA ReplySession ==
    ASSUME TypeInv, ReplyInv, SessionStep \/ SessionTimeout
    PROVE  ReplyInv' /\ (VerdictSent => tx' = tx)
  <1>1. TypeOK /\ Flow
      BY DEF TypeInv
  <1>2. CASE YModemStep \/ YModemTimeout
      BY <1>2, ReplyYModem
  <1> USE DEF ReplyInv, AnswerInv, UploadAnswered, VerdictInv, VerdictSent, Replies
  <1>3. CASE AckHeader
    <2>1. /\ pc = "ackHeader" /\ pc' \in {"sync", "reboot", "open"}
          /\ LastSent' = "ACK"
        BY <1>1, <1>3, LastOfReply DEF AckHeader
    <2> QED BY <2>1
  <1>4. CASE SyncData \/ RebootNow
    <2>1. /\ pc \in {"sync", "reboot"} /\ pc' \in {"close", "error"} /\ phase' = phase
        BY <1>4 DEF SyncData, RebootNow
    <2>2. phase = "header"
        BY <1>1, <2>1 DEF Flow, HeaderStates
    <2> QED BY <2>1, <2>2
  <1>5. CASE EmptyFile
    <2>1. /\ pc = "integrity" /\ pc' = "close" /\ fs[filePath] = <<>>
          /\ UNCHANGED <<tx, phase, conn, fs, filePath>>
        BY <1>5 DEF EmptyFile, fileVars
    <2>2. LastSent' = "ACK"
        BY <1>1, <2>1, LastOfReply DEF Flow, ApkStates
    <2> QED BY <2>1, <2>2
  <1>6. CASE FileAccepted \/ RenameFile
    <2>1. pc \in {"integrity", "rename"} /\ pc' \in {"rename", "sendEot"} /\ tx' = tx
        BY <1>6 DEF FileAccepted, RenameFile
    <2>2. LastSent' = LastSent
        BY <1>1, <2>1, LastOfReply
    <2> QED BY <2>1, <2>2
  <1>7. CASE FileRefused
    <2>1. /\ pc = "integrity"
          /\ \/ LastSent' = "NAK" /\ pc' = "close"
             \/ conn' = "rst" /\ pc' = "error"
        BY <1>1, <1>7, LastOfReply DEF FileRefused
    <2> QED BY <2>1
  <1>8. CASE SendEot
    <2>1. pc = "sendEot" /\ pc' = "awaitEot" /\ LastSent' = "EOT"
        BY <1>1, <1>8, LastOfReply DEF SendEot
    <2> QED BY <2>1
  <1>9. CASE AwaitEot \/ ArmUpdate \/ RefuseUpdate \/ ValidateNull
    <2>1. /\ pc \in {"awaitEot", "validate"} /\ tx' = tx
          /\ pc' \in {"awaitEot", "validate", "error", "close"}
        BY <1>9 DEF AwaitEot, ArmUpdate, RefuseUpdate, ValidateNull
    <2>2. phase = "apk"
        BY <1>1, <2>1 DEF Flow, ApkStates
    <2>3. LastSent' = "EOT"
        BY <1>1, <2>1, <2>2, LastOfReply
    <2> QED BY <2>1, <2>3
  <1>10. CASE SessionError
    <2>1. /\ pc = "error" /\ pc' = "close"
          /\ UNCHANGED <<tx, phase, conn, exc>>
        BY <1>10 DEF SessionError
    <2>2. LastSent' = LastSent
        BY <1>1, <2>1, LastOfReply
    <2> QED BY <2>1, <2>2
  <1>11. CASE CloseConnection
    <2>1. pc = "close" /\ pc' = "idle" /\ tx' = tx
        BY <1>11 DEF CloseConnection
    <2> QED BY <2>1
  <1> QED BY <1>2, <1>3, <1>4, <1>5, <1>6, <1>7, <1>8, <1>9, <1>10, <1>11
          DEF SessionStep, SessionTimeout

LEMMA ReplyInit == Init => ReplyInv
    BY DEF Init, ReplyInv, AnswerInv, UploadAnswered, VerdictInv, VerdictSent, LastSent

\* The client, the link and the main looper write nothing to the connection; the
\* peer may reset it, which takes the promise back.
LEMMA ReplyOthers ==
    ASSUME TypeInv, ReplyInv,
           UNCHANGED <<tx, pc, phase, exc, fs, filePath>>,
           conn' = conn \/ conn' = "rst" \/ conn # "rst"
    PROVE  ReplyInv'
  <1>1. LastSent' = LastSent
      BY LastOfReply DEF TypeInv
  <1> QED BY <1>1 DEF ReplyInv, AnswerInv, UploadAnswered, VerdictInv, VerdictSent

LEMMA ReplyNext ==
    ASSUME TypeInv, ReplyInv, [Next]_vars
    PROVE  ReplyInv' /\ (VerdictSent /\ sessions' = sessions => tx' = tx)
  <1>1. CASE ServerStep \/ TimerExpires
      BY <1>1, ReplySession DEF ServerStep, TimerExpires
  <1>2. CASE RebootTimer \/ Rebind \/ ClientSends \/ LinkFault \/ UNCHANGED vars
    <2>1. /\ UNCHANGED <<tx, pc, phase, exc, fs, filePath>>
          /\ conn' = conn \/ conn' = "rst" \/ conn # "rst"
        BY <1>2 DEF RebootTimer, PostedReboot, Rebind, ClientSends, LinkFault, HangUp,
           SendHeader, BeginData, SendData, SendEndOfFile, ConfirmEot, LoseBlock,
           RepeatBlock, DamageBlock, DamageHeader, CutBlock, CutHeader, Arrive, vars,
           serverVars, modemVars, fileVars, sessionVars
    <2> QED BY <2>1, ReplyOthers
  <1>3. CASE \E j \in Jobs : Connect(j)
    <2>1. pc' = "signal" /\ phase' = "header" /\ tx' = <<>> /\ sessions' = sessions + 1
        BY <1>3 DEF Connect
    <2>2. sessions' # sessions
        BY <2>1, TransferAssumption DEF TypeInv, TypeOK
    <2>3. ReplyInv'
        BY <2>1 DEF ReplyInv, AnswerInv, UploadAnswered, VerdictInv, VerdictSent, LastSent
    <2> QED BY <2>2, <2>3
  <1> QED BY <1>1, <1>2, <1>3 DEF Next

LEMMA RepliesInvariant == Spec => [](TypeInv /\ ReplyInv)
  <1>1. Init => TypeInv /\ ReplyInv
      BY TypeInit, ReplyInit
  <1>2. TypeInv /\ ReplyInv /\ [Next]_vars => (TypeInv /\ ReplyInv)'
      BY TypeNext, ReplyNext
  <1> QED BY <1>1, <1>2, PTL DEF Spec

\* A client that got as far as receive_APK learns how it ended, as long as it can
\* be written to, but for the two silences of the code.
THEOREM ClientIsTold == Spec => []UploadAnswered
  <1>1. TypeInv /\ ReplyInv => UploadAnswered
      BY DEF ReplyInv
  <1> QED BY <1>1, RepliesInvariant, PTL

\* The server says nothing after NAK, CAN, EOT or the status data.
THEOREM NothingAfterVerdict == Spec => VerdictIsFinal
  <1>1. TypeInv /\ ReplyInv /\ [Next]_vars
            => [VerdictSent /\ sessions' = sessions => tx' = tx]_vars
      BY ReplyNext
  <1> QED BY <1>1, RepliesInvariant, PTL DEF Spec, VerdictIsFinal

-----------------------------------------------------------------------------
(* The service.  What reads and writes the firmware file, and the upload   *)
(* in progress, step by step of the sessions.                              *)

\* An upload does not write to the firmware file before it is renamed.
NoneDirect == \A j \in Jobs : j.info.name # Firmware

LEMMA ValidMeansReadable ==
    ASSUME NEW apk, NEW force, NEW app, ValidateAPK(apk, force, app)
    PROVE  apk # NoApp
    BY DEF ValidateAPK

LEMMA SourceIsThere ==
    ASSUME NEW j \in Jobs
    PROVE  j.source # Absent /\ j.source \in Seq(Payload)
  <1>1. j.source \in Seq(Units)
      BY JobAssumption
  <1>2. j.source \in Seq(Payload)
      BY <1>1 DEF Payload
  <1> QED BY <1>1, <1>2, YModemAssumption

\* Only the decision arms the reboot, and only the posted reboot takes it back.
LEMMA ArmedChanges ==
    ASSUME [Next]_vars
    PROVE  \/ armed' = armed
           \/ armed' = Absent /\ RebootTimer
           \/ ArmUpdate
  <1>1. CASE ServerStep
    <2>1. CASE YModemStep /\ UNCHANGED sessionVars
        BY <2>1 DEF sessionVars
    <2> QED BY <1>1, <2>1 DEF ServerStep, SessionStep, AckHeader, SyncData, RebootNow,
            EmptyFile, FileAccepted, FileRefused, RenameFile, SendEot, AwaitEot,
            RefuseUpdate, ValidateNull, SessionError, CloseConnection, sessionVars
  <1>2. CASE TimerExpires
      BY <1>2 DEF TimerExpires, SessionTimeout, sessionVars
  <1>3. CASE RebootTimer
      BY <1>3 DEF RebootTimer, PostedReboot
  <1>4. CASE Rebind \/ (\E j \in Jobs : Connect(j)) \/ ClientSends \/ LinkFault
             \/ UNCHANGED vars
      BY <1>4 DEF Rebind, Connect, ClientSends, LinkFault, HangUp,
         SendHeader, BeginData, SendData, SendEndOfFile, ConfirmEot, LoseBlock,
         RepeatBlock, DamageBlock, DamageHeader, CutBlock, CutHeader, Arrive, vars,
         serverVars, sessionVars
  <1> QED BY <1>1, <1>2, <1>3, <1>4 DEF Next

LEMMA ArmingIsSound ==
    ASSUME TypeInv, AcceptInv, ArmUpdate
    PROVE  /\ armed' = fs[Firmware]
           /\ fs[Firmware] = job.source
           /\ ArchiveInfo(job.source) # NoApp
  <1>1. received = Firmware /\ pc = "validate"
      BY DEF ArmUpdate, TypeInv, TypeOK
  <1>2. fs[Firmware] = job.source /\ armed' = fs[Firmware]
      BY <1>1 DEF AcceptInv, OrderInv, ArmUpdate
  <1>3. ArchiveInfo(fs[Firmware]) # NoApp
      BY <1>1, ValidMeansReadable DEF ArmUpdate, IsUpdate
  <1> QED BY <1>2, <1>3

\* The reboot is armed for nothing but a file that a client sent completely and
\* that can be read as an archive.
THEOREM RebootIsForWholeFile ==
    ASSUME SizeTellsHeader, MaxFaults < Modulus
    PROVE  Spec => []ArmedIsWhole
  <1>1. Init => ArmedIsWhole
      BY DEF Init, ArmedIsWhole
  <1>2. TypeInv /\ AcceptInv /\ ArmedIsWhole /\ [Next]_vars => ArmedIsWhole'
    <2> SUFFICES ASSUME TypeInv, AcceptInv, ArmedIsWhole, [Next]_vars
                 PROVE  ArmedIsWhole'
        OBVIOUS
    <2>1. CASE ArmUpdate
      <3>1. job \in Jobs
          BY DEF TypeInv, TypeOK
      <3> QED BY <2>1, <3>1, ArmingIsSound DEF ArmedIsWhole
    <2>2. CASE armed' = armed \/ armed' = Absent
        BY <2>2 DEF ArmedIsWhole
    <2> QED BY <2>1, <2>2, ArmedChanges
  <1>3. Spec => []TypeInv
      BY TypeInit, TypeNext, PTL DEF Spec
  <1> QED BY <1>1, <1>2, <1>3, AcceptanceInvariant, PTL DEF Spec

-----------------------------------------------------------------------------
(* The refinement: each step of the sessions is a step of U or stutters.   *)

UploadStep ==
    [U!Next]_<<IF UploadInProgress THEN job.source ELSE Absent, fs[Firmware], armed>>

\* A step that touches neither the firmware file nor the reboot: the upload in
\* progress begins, ends or goes on.
LEMMA QuietStep ==
    ASSUME TypeInv, UNCHANGED <<fs[Firmware], armed, job>>
    PROVE  UploadStep
  <1>1. job \in Jobs /\ job.source # Absent
      BY SourceIsThere DEF TypeInv, TypeOK
  <1>2. CASE UploadInProgress' = UploadInProgress
      BY <1>2 DEF UploadStep
  <1>3. CASE ~UploadInProgress /\ UploadInProgress'
    <2>1. U!Begin(job.source)
        BY <1>3 DEF U!Begin
    <2> QED BY <1>1, <2>1 DEF UploadStep, U!Next
  <1>4. CASE UploadInProgress /\ ~UploadInProgress'
    <2>1. U!Abort
        BY <1>1, <1>4 DEF U!Abort
    <2> QED BY <2>1 DEF UploadStep, U!Next
  <1>5. UploadInProgress \in BOOLEAN /\ UploadInProgress' \in BOOLEAN
      BY DEF UploadInProgress
  <1> QED BY <1>2, <1>3, <1>4, <1>5

LEMMA WriteElsewhere ==
    ASSUME TypeInv, NoneDirect, filePath = job.info.name,
           NEW c, fs' = [fs EXCEPT ![filePath] = c], UNCHANGED <<armed, job>>
    PROVE  UploadStep
  <1>1. filePath # Firmware
      BY DEF NoneDirect, TypeInv, TypeOK
  <1>2. fs'[Firmware] = fs[Firmware]
      BY <1>1, FirmwareAssumption DEF TypeInv, TypeOK
  <1> QED BY <1>2, QuietStep

LEMMA YModemImplements ==
    ASSUME TypeInv, NoneDirect, YModemStep \/ YModemTimeout,
           UNCHANGED <<sessionVars, clientVars>>
    PROVE  UploadStep
  <1>1. UNCHANGED <<armed, job>>
      BY DEF sessionVars, clientVars
  <1>2. CASE OpenFile \/ WriteBlock
    <2>1. filePath = job.info.name
        BY <1>2 DEF OpenFile, WriteBlock, TypeInv, HeaderKnown, Flow, ApkStates
    <2>2. \/ fs' = [fs EXCEPT ![filePath] = <<>>]
          \/ fs' = [fs EXCEPT ![filePath] = fs[filePath] \o cur.data]
        BY <1>2 DEF OpenFile, WriteBlock
    <2> QED BY <1>1, <2>1, <2>2, WriteElsewhere
  <1>3. CASE UNCHANGED fs
      BY <1>1, <1>3, QuietStep
  <1>4. YModemStep \/ YModemTimeout => OpenFile \/ WriteBlock \/ UNCHANGED fs
      BY DEF YModemStep, YModemTimeout, ParseHeader, MalformedHeader, CatchInHeader,
         OpenFileFails, WriteBlockFails, EndOfTransmission, CloseFileFails, CatchInApk,
         WriteFails, fileVars
  <1> QED BY <1>2, <1>3, <1>4

LEMMA RenameImplements ==
    ASSUME TypeInv, AcceptInv, NoneDirect, RenameFile, UNCHANGED clientVars
    PROVE  UploadStep
  <1>1. /\ pc = "rename" /\ pc' = "sendEot" /\ phase = "apk"
        /\ UNCHANGED <<armed, job>>
      BY DEF RenameFile, TypeInv, Flow, ApkStates, clientVars
  <1>2. CASE UNCHANGED fs
      BY <1>1, <1>2, QuietStep
  <1>3. CASE fs' = Renamed(filePath, Firmware)
    <2>1. filePath \in Names /\ filePath # Firmware /\ fs[filePath] = job.source
        BY <1>1, JobAssumption DEF AcceptInv, OrderInv, NoneDirect, TypeInv, TypeOK,
           HeaderKnown, Headers
    <2>2. fs'[Firmware] = job.source
        BY <1>3, <2>1, FirmwareAssumption DEF Renamed, TypeInv, TypeOK
    <2>3. UploadInProgress /\ ~UploadInProgress'
        BY <1>1 DEF UploadInProgress, Receiving
    <2>4. job.source # Absent
        BY SourceIsThere DEF TypeInv, TypeOK
    <2>5. U!Publish
        BY <1>1, <2>2, <2>3, <2>4 DEF U!Publish
    <2> QED BY <2>5 DEF UploadStep, U!Next
  <1> QED BY <1>2, <1>3 DEF RenameFile

LEMMA DecisionImplements ==
    ASSUME TypeInv, AcceptInv, ArmUpdate \/ RefuseUpdate, UNCHANGED clientVars
    PROVE  UploadStep
  <1>1. /\ pc = "validate" /\ pc' = "close" /\ received = Firmware /\ phase' = phase
        /\ job' = job
      BY DEF ArmUpdate, RefuseUpdate, TypeInv, TypeOK, clientVars
  <1>2. ~UploadInProgress /\ ~UploadInProgress'
      BY <1>1 DEF UploadInProgress, Receiving
  <1>3. fs[Firmware] = job.source /\ job.source # Absent
      BY <1>1, SourceIsThere DEF AcceptInv, OrderInv, TypeInv, TypeOK
  <1>4. CASE ArmUpdate
    <2>1. U!Arm
        BY <1>1, <1>2, <1>3, <1>4 DEF ArmUpdate, U!Arm, fileVars
    <2> QED BY <2>1 DEF UploadStep, U!Next
  <1>5. CASE RefuseUpdate
    <2>1. fs'[Firmware] = Absent /\ armed' = armed
        BY <1>1, <1>5, FirmwareAssumption DEF RefuseUpdate, TypeInv, TypeOK, sessionVars
    <2>2. U!Refuse
        BY <1>2, <1>3, <2>1 DEF U!Refuse
    <2> QED BY <2>2 DEF UploadStep, U!Next
  <1> QED BY <1>4, <1>5

LEMMA SessionImplements ==
    ASSUME TypeInv, AcceptInv, NoneDirect, SessionStep \/ SessionTimeout,
           UNCHANGED clientVars
    PROVE  UploadStep
  <1>1. CASE (YModemStep \/ YModemTimeout) /\ UNCHANGED sessionVars
      BY <1>1, YModemImplements
  <1>2. CASE RenameFile
      BY <1>2, RenameImplements
  <1>3. CASE ArmUpdate \/ RefuseUpdate
      BY <1>3, DecisionImplements
  <1>4. CASE FileAccepted \/ FileRefused
    <2>1. filePath = job.info.name
        BY <1>4 DEF FileAccepted, FileRefused, TypeInv, HeaderKnown, Flow, ApkStates
    <2>2. UNCHANGED <<armed, job>>
        BY <1>4 DEF FileAccepted, FileRefused, sessionVars, clientVars
    <2>3. \/ fs' = [fs EXCEPT ![filePath] = Stripped]
          \/ fs' = [fs EXCEPT ![filePath] = Absent]
        BY <1>4 DEF FileAccepted, FileRefused
    <2> QED BY <2>1, <2>2, <2>3, WriteElsewhere
  <1>5. CASE UNCHANGED <<fs, armed>>
      BY <1>5, QuietStep DEF clientVars
  <1>6. AckHeader \/ SyncData \/ RebootNow \/ EmptyFile \/ SendEot \/ AwaitEot
            \/ ValidateNull \/ SessionError \/ CloseConnection
            => UNCHANGED <<fs, armed>>
      BY DEF AckHeader, SyncData, RebootNow, EmptyFile, SendEot, AwaitEot, ValidateNull,
         SessionError, CloseConnection, fileVars, sessionVars
  <1> QED BY <1>1, <1>2, <1>3, <1>4, <1>5, <1>6 DEF SessionStep, SessionTimeout

LEMMA NextImplements ==
    ASSUME TypeInv, AcceptInv, NoneDirect, [Next]_vars
    PROVE  UploadStep
  <1>1. CASE ServerStep \/ TimerExpires
      BY <1>1, SessionImplements DEF ServerStep, TimerExpires
  <1>2. CASE RebootTimer
    <2>1. UNCHANGED <<fs, job, pc, phase>>
        BY <1>2 DEF RebootTimer, PostedReboot, modemVars, fileVars, clientVars
    <2>2. CASE armed' = armed
        BY <2>1, <2>2, QuietStep
    <2>3. CASE armed # Absent /\ armed' = Absent
      <3>1. U!Disarm
          BY <2>1, <2>3 DEF U!Disarm, UploadInProgress
      <3> QED BY <3>1 DEF UploadStep, U!Next
    <2> QED BY <1>2, <2>2, <2>3 DEF RebootTimer, PostedReboot
  <1>3. CASE \E j \in Jobs : Connect(j)
    <2>1. /\ pc = "idle" /\ pc' = "signal" /\ UNCHANGED <<fs, armed>>
        BY <1>3 DEF Connect
    <2>2. ~UploadInProgress /\ ~UploadInProgress'
        BY <2>1 DEF UploadInProgress, Receiving
    <2> QED BY <2>1, <2>2 DEF UploadStep
  <1>4. CASE Rebind \/ ClientSends \/ LinkFault \/ UNCHANGED vars
    <2>1. UNCHANGED <<fs, armed, job>>
        BY <1>4 DEF Rebind, ClientSends, LinkFault, HangUp, SendHeader, BeginData,
           SendData, SendEndOfFile, ConfirmEot, LoseBlock, RepeatBlock, DamageBlock,
           DamageHeader, CutBlock, CutHeader, Arrive, vars, serverVars, modemVars,
           fileVars, sessionVars, clientVars
    <2> QED BY <2>1, QuietStep
  <1> QED BY <1>1, <1>2, <1>3, <1>4 DEF Next

\* The sessions implement the abstract upload service: the firmware file holds one
\* complete upload or none, it changes in one step, and what the reboot is armed
\* for is the file that is there at that moment.
THEOREM SessionsImplementUpload ==
    ASSUME SizeTellsHeader, MaxFaults < Modulus, NoneDirect
    PROVE  Spec => UploadSpec
  <1>1. Init => U!Init
      BY FirmwareAssumption DEF Init, U!Init, UploadInProgress, Receiving
  <1>2. TypeInv /\ AcceptInv /\ [Next]_vars => UploadStep
      BY NextImplements
  <1>3. Spec => []TypeInv
      BY TypeInit, TypeNext, PTL DEF Spec
  <1> QED BY <1>1, <1>2, <1>3, AcceptanceInvariant, PTL
          DEF Spec, UploadSpec, U!Spec, UploadStep
=============================================================================
