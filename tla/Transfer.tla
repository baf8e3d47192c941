------------------------------- MODULE Transfer -------------------------------
(***************************************************************************)
(* Sessions of the server with clients, one after the other, and the link  *)
(* between them.  The client is not part of the repository: its steps are  *)
(* what the server's code and log lines expect of it, and what can go      *)
(* wrong with it and with the link.                                        *)
(***************************************************************************)
EXTENDS YModemSession

CONSTANTS
    Jobs,           \* what a client may come with, see JobAssumption
    Sessions,       \* bound: number of connections
    HeaderReplies,  \* bound: headers a client sends in one session
    Echoes,         \* subset of BOOLEAN: does the client answer C with C?
    Faults,         \* which faults the link and the client may have
    MaxFaults,      \* bound: packets lost, repeated or damaged per session
    Junk            \* a unit that is in no file

FaultKinds == {"lose", "repeat", "number", "complement", "crc", "cut",
               "fin", "rst"}

ASSUME TransferAssumption ==
    /\ Sessions \in Nat \ {0}
    /\ HeaderReplies \in Nat \ {0}
    /\ Echoes \subseteq BOOLEAN
    /\ Faults \subseteq FaultKinds
    /\ MaxFaults \in Nat
    /\ Junk \notin Units

\* short: the client uses SOH packets.  The header of an honest client states
\* the size of the file it sends.
Headers == [name : Names, size : Nat, sync : BOOLEAN, reboot : BOOLEAN,
            force : BOOLEAN, wellFormed : BOOLEAN]

ASSUME JobAssumption ==
    \A j \in Jobs :
        /\ j.source \in Seq(Units)
        /\ j.short \in BOOLEAN
        /\ j.info \in Headers
        /\ j.info.size = Len(j.source)

VARIABLES
    job,        \* what the connected client came for
    cpc,        \* "hello", "data", "eot", "done", or "silent" for ever
    sent,       \* data blocks the client has sent
    hdrs,       \* headers it has sent
    faults,     \* faults spent in this session
    sessions    \* connections so far

clientVars == <<job, cpc, sent, hdrs, faults, sessions>>
serverVars == <<modemVars, fileVars, sessionVars>>
vars == <<serverVars, clientVars, ideal>>

-----------------------------------------------------------------------------
(* What the client sends                                                   *)

DataLen(j) == IF j.short THEN ShortLen ELSE LongLen

Blocks(j) == BlockCount(j.source, DataLen(j))

Packet(b, num, data, src, info) ==
    [b |-> b, num |-> num, inv |-> TRUE, data |-> data, crc |-> TRUE,
     cut |-> "none", src |-> src, info |-> info]

\* Packet 0 of the protocol; taken for data its bytes are none of the file's.
HeaderPacket(j) ==
    Packet("SOH", 0, [x \in 1..ShortLen |-> Junk], -1, j.info)

\* Blocks of the file count from 0 again, like the server's.
DataPacket(j, i) ==
    Packet(IF j.short THEN "SOH" ELSE "STX", i % Modulus,
           BlockData(j.source, DataLen(j), i), i, NoHeader)

\* One of the two number bytes is hit, or the data; the CRC covers the data.
Damaged(p) ==
    (IF "number" \in Faults
        THEN {[p EXCEPT !.num = n, !.inv = FALSE] : n \in 0..(Modulus - 1)}
        ELSE {})
    \cup (IF "complement" \in Faults THEN {[p EXCEPT !.inv = FALSE]} ELSE {})
    \cup (IF "crc" \in Faults THEN {[p EXCEPT !.data[1] = Junk, !.crc = FALSE]}
        ELSE {})

CutShort(p) ==
    IF "cut" \in Faults
        THEN {[p EXCEPT !.cut = c] : c \in Cuts \ {"none"}} ELSE {}

-----------------------------------------------------------------------------
(* Client and link                                                         *)

CanSend == conn = "open" /\ pc # "idle"

\* The server thread accepts: a fresh YModem and Modem over the new streams.
Connect(j) ==
    /\ pc = "idle"
    /\ listening
    /\ sessions < Sessions
    /\ rx' = <<>> /\ tx' = <<>>
    /\ conn' = "open"
    /\ pc' = "signal" /\ phase' = "header" /\ exc' = "none"
    /\ errorCount' = 0 /\ blockNumber' = 0 /\ cur' = NoPacket
    /\ header' = NoHeader /\ filePath' = NoFile /\ received' = NoFile
    /\ job' = j /\ cpc' = "hello"
    /\ sent' = 0 /\ hdrs' = 0 /\ faults' = 0
    /\ sessions' = sessions + 1
    /\ UNCHANGED <<fs, listening, armed, device>>

\* The accept after a failed session throws; 5 s later the server binds anew.
Rebind ==
    /\ pc = "idle"
    /\ ~listening
    /\ listening' = TRUE
    /\ UNCHANGED <<modemVars, fileVars, received, armed, device, clientVars>>

Arrive(tokens) ==
    /\ CanSend
    /\ rx' = rx \o tokens
    /\ UNCHANGED <<tx, conn, pc, phase, exc, errorCount, blockNumber, cur,
                   fileVars, sessionVars, job, sessions>>

Seen(b) == \E i \in 1..Len(tx) : tx[i] = b

Requests == Len(SelectSeq(tx, LAMBDA b : b = "C"))

\* From the first C on, and again as long as the client has seen no ACK.
HeaderDue ==
    /\ cpc = "hello"
    /\ hdrs < HeaderReplies
    /\ Requests > 0

\* The answer to a C: the header, with or without an echo of the C before it.
SendHeader(echo, p) ==
    /\ HeaderDue
    /\ hdrs' = hdrs + 1
    /\ Arrive(IF echo THEN <<Byte("C"), p>> ELSE <<p>>)
    /\ UNCHANGED <<cpc, sent>>

BeginData ==
    /\ CanSend
    /\ cpc = "hello"
    /\ Seen("ACK")
    /\ cpc' = IF job.info.sync \/ job.info.reboot THEN "done" ELSE "data"
    /\ UNCHANGED <<serverVars, job, sent, hdrs, faults, sessions>>

SendData ==
    /\ cpc = "data"
    /\ sent < Blocks(job)
    /\ sent' = sent + 1
    /\ Arrive(<<DataPacket(job, sent)>>)
    /\ UNCHANGED <<cpc, hdrs, faults>>

SendEndOfFile ==
    /\ cpc = "data"
    /\ sent = Blocks(job)
    /\ cpc' = "eot"
    /\ Arrive(<<Byte("EOT")>>)
    /\ UNCHANGED <<sent, hdrs, faults>>

\* The client answers the server's EOT with its own.
ConfirmEot ==
    /\ cpc = "eot"
    /\ Seen("EOT")
    /\ cpc' = "done"
    /\ Arrive(<<Byte("EOT")>>)
    /\ UNCHANGED <<sent, hdrs, faults>>

Fault(kind) ==
    /\ kind \in Faults
    /\ faults < MaxFaults
    /\ faults' = faults + 1

LoseBlock ==
    /\ Fault("lose")
    /\ cpc = "data" /\ sent < Blocks(job)
    /\ sent' = sent + 1
    /\ Arrive(<<>>)
    /\ UNCHANGED <<cpc, hdrs>>

RepeatBlock ==
    /\ Fault("repeat")
    /\ cpc = "data" /\ sent > 0
    /\ Arrive(<<DataPacket(job, sent - 1)>>)
    /\ UNCHANGED <<cpc, sent, hdrs>>

DamageBlock ==
    /\ faults < MaxFaults /\ faults' = faults + 1
    /\ cpc = "data" /\ sent < Blocks(job)
    /\ sent' = sent + 1
    /\ \E p \in Damaged(DataPacket(job, sent)) : Arrive(<<p>>)
    /\ UNCHANGED <<cpc, hdrs>>

DamageHeader ==
    /\ faults < MaxFaults /\ faults' = faults + 1
    /\ \E p \in Damaged(HeaderPacket(job)), echo \in Echoes : SendHeader(echo, p)

\* The client stops in the middle of a packet and says nothing any more.
CutBlock ==
    /\ faults < MaxFaults /\ faults' = faults + 1
    /\ cpc = "data" /\ sent < Blocks(job)
    /\ sent' = sent + 1
    /\ cpc' = "silent"
    /\ \E p \in CutShort(DataPacket(job, sent)) : Arrive(<<p>>)
    /\ UNCHANGED hdrs

CutHeader ==
    /\ faults < MaxFaults /\ faults' = faults + 1
    /\ HeaderDue
    /\ hdrs' = hdrs + 1
    /\ cpc' = "silent"
    /\ \E p \in CutShort(HeaderPacket(job)) : Arrive(<<Byte("C"), p>>)
    /\ UNCHANGED sent

\* The peer closes its end, in order after what it sent, or resets it.
HangUp ==
    /\ pc # "idle"
    /\ \/ "fin" \in Faults /\ conn = "open" /\ conn' = "fin"
       \/ "rst" \in Faults /\ conn \in {"open", "fin"} /\ conn' = "rst"
    /\ UNCHANGED <<rx, tx, pc, phase, exc, errorCount, blockNumber, cur,
                   fileVars, sessionVars, clientVars>>

\* The first byte after a C is lost: an ideal client answers with a C first.
ClientSends ==
    \/ \E echo \in Echoes :
           (ideal => echo) /\ SendHeader(echo, HeaderPacket(job)) /\ UNCHANGED faults
    \/ BeginData \/ SendData \/ SendEndOfFile \/ ConfirmEot

LinkFault ==
    \/ LoseBlock \/ RepeatBlock \/ DamageBlock \/ DamageHeader
    \/ CutBlock \/ CutHeader \/ HangUp

\* The client has something to send without waiting for the server.
ClientReady ==
    /\ CanSend
    /\ \/ HeaderDue
       \/ cpc = "hello" /\ Seen("ACK")
       \/ cpc = "data"
       \/ cpc = "eot" /\ Seen("EOT")

-----------------------------------------------------------------------------
Init ==
    /\ rx = <<>> /\ tx = <<>> /\ conn = "closed"
    /\ pc = "idle" /\ phase = "header" /\ exc = "none"
    /\ errorCount = 0 /\ blockNumber = 0 /\ cur = NoPacket
    /\ header = NoHeader /\ filePath = NoFile
    /\ fs = [n \in Names |-> Absent]
    /\ received = NoFile /\ listening = TRUE /\ armed = Absent /\ device = "up"
    /\ job \in Jobs /\ cpc = "done"
    /\ sent = 0 /\ hdrs = 0 /\ faults = 0 /\ sessions = 0
    /\ ideal \in BOOLEAN

ServerStep == SessionStep /\ UNCHANGED clientVars

\* An ideal client answers before a timer expires.
TimerExpires ==
    /\ ideal => ~ClientReady
    /\ SessionTimeout
    /\ UNCHANGED clientVars

RebootTimer == PostedReboot /\ UNCHANGED clientVars

Next ==
    /\ device = "up"
    /\ UNCHANGED ideal
    /\ \/ ServerStep \/ TimerExpires \/ RebootTimer \/ Rebind
       \/ (\E j \in Jobs : Connect(j)) \/ ClientSends \/ (~ideal /\ LinkFault)

Spec == Init /\ [][Next]_vars

Up(A) == device = "up" /\ A /\ UNCHANGED ideal

\* The JVM runs the serving thread, the main looper and the timers for ever;
\* nothing is assumed of the link or of the client, unless it is ideal: then it
\* does what it came for as soon as it can.
FairSpec ==
    /\ Spec
    /\ WF_vars(Up(ServerStep))
    /\ WF_vars(Up(TimerExpires))
    /\ WF_vars(Up(Rebind))
    /\ WF_vars(Up(RebootTimer))
    /\ WF_vars(Up(ideal /\ ClientSends))

-----------------------------------------------------------------------------
(* Properties                                                              *)

Payload == Units \cup {Junk}

Packets == [b : PacketStarts, num : Nat, inv : BOOLEAN, data : Seq(Payload),
            crc : BOOLEAN, cut : Cuts, src : Int,
            info : Headers \cup {NoHeader}]

Bytes == {Byte(b) : b \in {"C", "EOT", "rest", "none"}}

Replies == {"C", "ACK", "NAK", "CAN", "EOT", "JSON"}

ServerStates == {"idle", "signal", "first", "seek", "block", "parse",
    "ackHeader", "sync", "reboot", "open", "next", "write", "eot", "thrown",
    "integrity", "rename", "sendEot", "awaitEot", "validate", "error",
    "close"}

Contents == Seq(Payload) \cup {Absent}

\* The types of all that steps change; ideal keeps the Boolean that Init gave it.
TypeOK ==
    /\ rx \in Seq(Packets \cup Bytes)
    /\ tx \in Seq(Replies)
    /\ conn \in {"open", "fin", "rst", "closed"}
    /\ pc \in ServerStates
    /\ phase \in {"header", "apk"}
    /\ exc \in Exceptions \cup {"none"}
    /\ errorCount \in 0..MaxErrors
    /\ blockNumber \in 0..(Modulus - 1)
    /\ cur \in Packets \cup Bytes
    /\ header \in Headers \cup {NoHeader}
    /\ filePath \in Names \cup {NoFile}
    /\ fs \in [Names -> Contents]
    /\ received \in {Firmware, NoFile}
    /\ listening \in BOOLEAN
    /\ armed \in Contents
    /\ device \in {"up", "rebooting"}
    /\ job \in Jobs
    /\ cpc \in {"hello", "data", "eot", "done", "silent"}
    /\ sent \in Nat
    /\ hdrs \in 0..HeaderReplies
    /\ faults \in 0..MaxFaults
    /\ sessions \in 0..Sessions

\* When the server tells the client that the upload arrived (EOT), and until
\* the session has decided about it, firmware.apk is byte for byte the file
\* the client sent, whatever was lost, repeated or damaged on the way.
AcceptedIsSource ==
    pc \in {"sendEot", "awaitEot", "validate"} /\ received = Firmware
        => fs[Firmware] = job.source

Receiving == {"next", "block", "write", "eot", "integrity"}

\* receive_APK never stores a block twice, skips one, or stores one out of
\* order: what is on disk is always the beginning of the padded file.
ReceivedInOrder ==
    phase = "apk" /\ pc \in Receiving
        => IsPaddedPrefix(fs[filePath], job.source)

\* The reboot is only ever armed for a file some client sent completely and
\* whose package information could be read.
ArmedIsWhole ==
    armed # Absent =>
        /\ \E j \in Jobs : armed = j.source
        /\ ArchiveInfo(armed) # NoApp

\* The last byte written, or the status data.
LastSent == IF tx = <<>> THEN "nothing" ELSE tx[Len(tx)]

\* A client that sent data is told how it went: each session that reached
\* receive_APK on a connection that can still be written to ends with NAK or
\* EOT.  The exceptions: checkFileIntegrity is silent about an empty file, and
\* nobody catches what closing the file throws.
UploadAnswered ==
    pc = "close" /\ phase = "apk" /\ conn # "rst" =>
        \/ LastSent \in {"NAK", "EOT"}
        \/ LastSent = "ACK" /\ (fs[filePath] = <<>> \/ exc = "close")

VerdictSent == LastSent \in {"NAK", "CAN", "EOT", "JSON"}

\* NAK, CAN, EOT and the status data are verdicts: the server writes nothing
\* after one of them in the same session.
VerdictIsFinal ==
    [][VerdictSent /\ sessions' = sessions => tx' = tx]_vars

\* receive_APK works, from the truncation of the file to the last exception.
UploadInProgress == phase = "apk" /\ pc \in Receiving \cup {"thrown", "rename"}

U == INSTANCE Upload WITH
        Sources  <- {j.source : j \in Jobs},
        upload   <- IF UploadInProgress THEN job.source ELSE Absent,
        firmware <- fs[Firmware]

\* The sessions implement the abstract upload service.
UploadSpec == U!Spec

\* The two waits without a timer: readFully inside a packet, and the wait for
\* the client's EOT.
AwaitsUntimed == pc = "awaitEot" \/ (pc = "block" /\ cur.cut = "data")

\* Every session ends, whatever the client does or leaves undone, unless it gets
\* into one of the waits without a timer.  A client has a finite number of packets to
\* send; one that sends other bytes for ever is read for ever by the loop that looks
\* for the start of a block, which asks the timer only when no byte is there.
TimedWaitsEnd == pc # "idle" ~> pc = "idle" \/ AwaitsUntimed \/ device # "up"

\* A client that has a file to send and sends it the way the code expects it.
SendsFile ==
    /\ job.source # <<>> /\ ~job.short
    /\ job.info.wellFormed /\ ~job.info.sync /\ ~job.info.reboot

\* An upload from a client that follows the protocol, on a device and over a link
\* without faults, gets to the decision about the update.
GoodTransferSucceeds ==
    ideal /\ SendsFile /\ pc = "signal" ~> pc = "validate" /\ received = Firmware
=============================================================================
