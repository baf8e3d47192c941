---------------------------- MODULE YModemSession ----------------------------
(***************************************************************************)
(* handleYModemTransmission of AbstractYModemServer: one session with one  *)
(* client, from the header to the decision to install and reboot.  TCP and *)
(* Bluetooth servers run the same code.                                    *)
(***************************************************************************)
EXTENDS YModem, ApkValidation

CONSTANTS
    Firmware,   \* NEW_APK_FILE_NAME, "firmware.apk"
    Archive     \* file content -> what getPackageArchiveInfo reads in it

ASSUME FirmwareAssumption == Firmware \in Names

VARIABLES
    received,   \* receivedFile after renameFile
    listening,  \* the server socket is open
    armed,      \* content of firmware.apk the posted reboot is for, or Absent
    device      \* "up", or "rebooting" once ssu -c reboot has run

sessionVars == <<received, listening, armed, device>>

ArchiveInfo(f) == IF f \in DOMAIN Archive THEN Archive[f] ELSE NoApp

-----------------------------------------------------------------------------
AckHeader ==
    /\ pc = "ackHeader"
    /\ Send(<<"ACK">>)
    /\ pc' = IF header.sync THEN "sync"
             ELSE IF header.reboot THEN "reboot" ELSE "open"
    /\ UNCHANGED <<rx, conn, phase, exc, errorCount, blockNumber, cur,
                   fileVars, sessionVars>>

\* syncData: the status file is stamped and sent.  An I/O error of the file or of
\* the connection is swallowed, and the client gets nothing.  A file that is no
\* JSON makes the session fail.
SyncData ==
    /\ pc = "sync"
    /\ \/ Send(<<"JSON">>) /\ pc' = "close"
       \/ (conn = "rst" \/ OsMayFail) /\ pc' = "close" /\ UNCHANGED tx
       \/ OsMayFail /\ pc' = "error" /\ UNCHANGED tx
    /\ UNCHANGED <<rx, conn, phase, exc, errorCount, blockNumber, cur,
                   fileVars, sessionVars>>

RebootNow ==
    /\ pc = "reboot"
    /\ \/ device' = "rebooting" /\ pc' = "close"
       \/ OsMayFail /\ pc' = "error" /\ UNCHANGED device
    /\ UNCHANGED <<rx, tx, conn, phase, exc, errorCount, blockNumber, cur,
                   fileVars, received, listening, armed>>

-----------------------------------------------------------------------------
(* checkFileIntegrity                                                      *)

Stripped == RemovePadding(fs[filePath], header.size)

\* Mutant: the comparison is one-sided.
SizeNotExceeded == Len(Stripped) <= header.size

SizeMatches == Len(Stripped) = header.size

\* An empty file is refused without a word to the client.
EmptyFile ==
    /\ pc = "integrity"
    /\ fs[filePath] = <<>>
    /\ pc' = "close"
    /\ UNCHANGED <<rx, tx, conn, phase, exc, errorCount, blockNumber, cur,
                   fileVars, sessionVars>>

FileAccepted ==
    /\ pc = "integrity"
    /\ fs[filePath] # <<>>
    /\ SizeMatches
    /\ fs' = [fs EXCEPT ![filePath] = Stripped]
    /\ pc' = "rename"
    /\ UNCHANGED <<rx, tx, conn, phase, exc, errorCount, blockNumber, cur,
                   header, filePath, sessionVars>>

\* NAK first, delete afterwards: a failing write leaves the stripped file.
FileRefused ==
    /\ pc = "integrity"
    /\ fs[filePath] # <<>>
    /\ ~SizeMatches
    /\ \/ /\ Send(<<"NAK">>)
          /\ fs' = [fs EXCEPT ![filePath] = Absent]
          /\ pc' = "close"
       \/ /\ conn = "rst"
          /\ fs' = [fs EXCEPT ![filePath] = Stripped]
          /\ pc' = "error"
          /\ UNCHANGED tx
    /\ UNCHANGED <<rx, conn, phase, exc, errorCount, blockNumber, cur,
                   header, filePath, sessionVars>>

-----------------------------------------------------------------------------
Renamed(from, to) ==
    [[fs EXCEPT ![from] = Absent] EXCEPT ![to] = fs[from]]

RenameFile ==
    /\ pc = "rename"
    /\ \/ /\ fs' = Renamed(filePath, Firmware)
          /\ received' = Firmware
       \/ /\ OsMayFail
          /\ received' = NoFile
          /\ UNCHANGED fs
    /\ pc' = "sendEot"
    /\ UNCHANGED <<rx, tx, conn, phase, exc, errorCount, blockNumber, cur,
                   header, filePath, listening, armed, device>>

\* The result of renameFile is not looked at before the EOT goes out.
SendEot ==
    /\ pc = "sendEot"
    /\ Send(<<"EOT">>)
    /\ pc' = "awaitEot"
    /\ UNCHANGED <<rx, conn, phase, exc, errorCount, blockNumber, cur,
                   fileVars, sessionVars>>

\* Blocking reads without a timer.  At the end of the stream receiveByte
\* returns -1 for ever and the loop spins: no step of the model.
AwaitEot ==
    /\ pc = "awaitEot"
    /\ \/ /\ rx # <<>>
          /\ rx' = Tail(rx)
          /\ pc' = IF Head(rx).b = "EOT" THEN "validate" ELSE "awaitEot"
       \/ /\ rx = <<>> /\ conn = "rst"
          /\ pc' = "error"
          /\ UNCHANGED rx
    /\ UNCHANGED <<tx, conn, phase, exc, errorCount, blockNumber, cur,
                   fileVars, sessionVars>>

-----------------------------------------------------------------------------
IsUpdate(app) == ValidateAPK(ArchiveInfo(fs[received]), header.force, app)

\* The reboot is posted for 5 seconds later and the session ends.
ArmUpdate ==
    /\ pc = "validate"
    /\ received # NoFile
    /\ \E app \in FindInstalledPackage : IsUpdate(app)
    /\ armed' = fs[received]
    /\ pc' = "close"
    /\ UNCHANGED <<rx, tx, conn, phase, exc, errorCount, blockNumber, cur,
                   fileVars, received, listening, device>>

RefuseUpdate ==
    /\ pc = "validate"
    /\ received # NoFile
    /\ \E app \in FindInstalledPackage : ~IsUpdate(app)
    /\ fs' = [fs EXCEPT ![received] = Absent]
    /\ pc' = "close"
    /\ UNCHANGED <<rx, tx, conn, phase, exc, errorCount, blockNumber, cur,
                   header, filePath, sessionVars>>

\* receivedFile.getPath() on the null of a failed rename.
ValidateNull ==
    /\ pc = "validate"
    /\ received = NoFile
    /\ pc' = "error"
    /\ UNCHANGED <<rx, tx, conn, phase, exc, errorCount, blockNumber, cur,
                   fileVars, sessionVars>>

\* The runnable on the main looper: rebootDevice, 5 seconds after arming.  It
\* runs once; a command that cannot be started is only logged.
PostedReboot ==
    /\ armed # Absent
    /\ device = "up"
    /\ \/ device' = "rebooting" /\ UNCHANGED armed
       \/ OsMayFail /\ armed' = Absent /\ UNCHANGED device
    /\ UNCHANGED <<modemVars, fileVars, received, listening>>

-----------------------------------------------------------------------------
\* Every branch of handleError closes the server socket.  Deleting the save
\* directory fails as long as it holds a file.
SessionError ==
    /\ pc = "error"
    /\ listening' = FALSE
    /\ pc' = "close"
    /\ UNCHANGED <<rx, tx, conn, phase, exc, errorCount, blockNumber, cur,
                   fileVars, received, armed, device>>

\* finally: the streams and the connection are closed.
CloseConnection ==
    /\ pc = "close"
    /\ conn' = "closed"
    /\ pc' = "idle"
    /\ UNCHANGED <<rx, tx, phase, exc, errorCount, blockNumber, cur,
                   fileVars, sessionVars>>

SessionStep ==
    \/ YModemStep /\ UNCHANGED sessionVars
    \/ AckHeader \/ SyncData \/ RebootNow
    \/ EmptyFile \/ FileAccepted \/ FileRefused
    \/ RenameFile \/ SendEot \/ AwaitEot
    \/ ArmUpdate \/ RefuseUpdate \/ ValidateNull
    \/ SessionError \/ CloseConnection

SessionTimeout == YModemTimeout /\ UNCHANGED sessionVars
=============================================================================
