------------------------------- MODULE YModem --------------------------------
(***************************************************************************)
(* YModem.java: receive_Header and receive_APK, on top of Modem.  The      *)
(* fields of the YModem object are header and filePath; fs is the          *)
(* directory uploads are stored in.                                        *)
(***************************************************************************)
EXTENDS Modem

CONSTANTS
    Names,      \* the file names that occur
    NoFile,     \* a Java null where a File is expected
    Absent,     \* the content of a file that does not exist
    NoHeader    \* no header was parsed, or these bytes are not a header

ASSUME YModemAssumption ==
    /\ NoFile \notin Names
    /\ Absent \notin Seq(Units)

VARIABLES
    header,     \* fileName, expectedFileSize and the three mode flags
    filePath,   \* where receive_APK stores the data
    fs,         \* Names -> content, or Absent
    ideal       \* never changes: neither client, link nor device fails

fileVars == <<header, filePath, fs>>

\* File operations and commands may fail.
OsMayFail == ~ideal

-----------------------------------------------------------------------------
(* receive_Header                                                          *)

\* At least five fields, a size that is there and is a number.
ParseHeader ==
    /\ pc = "parse"
    /\ cur.info.wellFormed
    /\ header' = cur.info
    /\ filePath' = cur.info.name
    /\ pc' = "ackHeader"
    /\ UNCHANGED <<rx, tx, conn, phase, exc, errorCount, blockNumber, cur, fs>>

MalformedHeader ==
    /\ pc = "parse"
    /\ ~cur.info.wellFormed
    /\ Throw("io")
    /\ UNCHANGED <<rx, tx, conn, phase, errorCount, blockNumber, cur, fileVars>>

\* Mutant: a NAKed header is asked for again.
RetryHeader ==
    /\ pc = "thrown"
    /\ phase = "header"
    /\ \/ exc = "invalid" /\ Send(<<"NAK">>) /\ pc' = "signal"
       \/ exc # "invalid" /\ pc' = "error" /\ UNCHANGED tx
    /\ UNCHANGED <<rx, conn, phase, exc, errorCount, blockNumber, cur, fileVars>>

\* After an InvalidBlockException the method returns a null file, which its
\* caller turns into an IOException; the other handlers throw themselves.
CatchInHeader ==
    /\ pc = "thrown"
    /\ phase = "header"
    /\ \/ exc = "invalid" /\ Send(<<"NAK">>)
       \/ exc \in {"repeated", "sync"} /\ Send(<<"CAN", "CAN">>)
       \/ exc \in {"timeout", "io", "runtime"} /\ UNCHANGED tx
    /\ pc' = "error"
    /\ UNCHANGED <<rx, conn, phase, exc, errorCount, blockNumber, cur, fileVars>>

-----------------------------------------------------------------------------
(* receive_APK with ack_mode = FALSE                                       *)

\* new FileOutputStream(filePath) truncates what was there.
OpenFile ==
    /\ pc = "open"
    /\ fs' = [fs EXCEPT ![filePath] = <<>>]
    /\ phase' = "apk"
    /\ blockNumber' = 0
    /\ pc' = "next"
    /\ UNCHANGED <<rx, tx, conn, exc, errorCount, cur, header, filePath>>

OpenFileFails ==
    /\ OsMayFail
    /\ pc = "open"
    /\ phase' = "apk"
    /\ Throw("io")
    /\ UNCHANGED <<rx, tx, conn, errorCount, blockNumber, cur, fileVars>>

WriteBlock ==
    /\ pc = "write"
    /\ blockNumber' = NextBlockNumber(blockNumber)
    /\ fs' = [fs EXCEPT ![filePath] = @ \o cur.data]
    /\ pc' = "next"
    /\ UNCHANGED <<rx, tx, conn, phase, exc, errorCount, cur, header, filePath>>

WriteBlockFails ==
    /\ OsMayFail
    /\ pc = "write"
    /\ blockNumber' = NextBlockNumber(blockNumber)
    /\ Throw("io")
    /\ UNCHANGED <<rx, tx, conn, phase, errorCount, cur, fileVars>>

\* One ACK inside the loop, one behind it, and the stream is closed.
EndOfTransmission ==
    /\ pc = "eot"
    /\ Send(<<"ACK", "ACK">>)
    /\ pc' = "integrity"
    /\ UNCHANGED <<rx, conn, phase, exc, errorCount, blockNumber, cur, fileVars>>

\* The stream buffers 8 KB: closing it in finally may be the write that fails.
\* That is behind every handler, and behind the ACKs.
CloseFileFails ==
    /\ OsMayFail
    /\ pc = "eot"
    /\ Send(<<"ACK", "ACK">>)
    /\ pc' = "error"
    /\ exc' = "close"
    /\ UNCHANGED <<rx, conn, phase, errorCount, blockNumber, cur, fileVars>>

\* Mutant: a handler that only throws again.
AnswerNothing == UNCHANGED tx

AnswerFailure == Send(<<"NAK">>)

\* Each of the six handlers sends NAK and throws again; finally closes the
\* stream and leaves what was written so far.
CatchInApk ==
    /\ pc = "thrown"
    /\ phase = "apk"
    /\ AnswerFailure
    /\ pc' = "error"
    /\ UNCHANGED <<rx, conn, phase, exc, errorCount, blockNumber, cur, fileVars>>

-----------------------------------------------------------------------------
\* Writing to a connection the peer has reset throws an IOException: it is
\* caught where receive_APK writes, and leaves every other place.
WriteFails ==
    /\ conn = "rst"
    /\ \/ /\ pc = "eot"
          /\ pc' = "thrown"
       \/ /\ pc = "signal"
          /\ pc' = "thrown"
       \/ /\ pc = "next" /\ rx = <<>>
          /\ pc' = "thrown"
       \/ /\ pc = "thrown"
          /\ phase = "apk" \/ exc \in {"invalid", "repeated", "sync"}
          /\ pc' = "error"
       \/ /\ pc \in {"ackHeader", "sendEot"}
          /\ pc' = "error"
    /\ exc' = "io"
    /\ UNCHANGED <<rx, tx, conn, phase, errorCount, blockNumber, cur, fileVars>>

YModemStep ==
    \/ ModemStep /\ UNCHANGED fileVars
    \/ ParseHeader \/ MalformedHeader \/ CatchInHeader
    \/ OpenFile \/ OpenFileFails \/ WriteBlock \/ WriteBlockFails
    \/ EndOfTransmission \/ CloseFileFails \/ CatchInApk \/ WriteFails

YModemTimeout == ModemTimeout /\ UNCHANGED fileVars
=============================================================================
