-------------------------------- MODULE Modem --------------------------------
(***************************************************************************)
(* Modem.java: the receiving half of YMODEM over one connection.  Its      *)
(* methods run on the thread that serves the connection, one after the     *)
(* other, so they share one program counter with their callers.            *)
(*                                                                         *)
(* rx holds what has arrived and was not read yet.  A token of rx is a     *)
(* single byte or a whole packet; cut says which part of the packet is the *)
(* first that never arrives, "none" for a complete one.                    *)
(***************************************************************************)
EXTENDS ApkFile

CONSTANTS
    MaxErrors,  \* MAXERRORS
    Modulus     \* block numbers are kept modulo this (256)

ASSUME ModemAssumption ==
    /\ MaxErrors \in Nat \ {0}
    /\ Modulus \in Nat \ {0, 1}

VARIABLES
    rx,           \* received and unread
    tx,           \* everything the server wrote to this connection
    conn,         \* "open", "fin" (peer closed), "rst" (peer reset), "closed"
    pc,           \* where the serving thread is
    phase,        \* "header" or "apk": which caller readBlock works for
    exc,          \* the exception on its way up, "none" otherwise
    errorCount,   \* local of sendStartSignal
    blockNumber,  \* number of the data block expected next
    cur           \* the packet whose start byte was read last

modemVars == <<rx, tx, conn, pc, phase, exc, errorCount, blockNumber, cur>>

-----------------------------------------------------------------------------
Byte(b) == [b |-> b, src |-> -2]

\* What is left of a packet once its start byte was taken for something else.
Rest == Byte("rest")

NoPacket == Byte("none")

PacketStarts == {"SOH", "STX"}

IsPacket(t) == t.b \in PacketStarts

Cuts == {"number", "complement", "data", "crc", "none"}

Exceptions ==
    {"timeout", "invalid", "repeated", "sync", "io", "runtime", "close"}

\* A write fails once the peer has reset the connection; after a mere close
\* by the peer it still succeeds.
Send(bytes) ==
    /\ conn # "rst"
    /\ tx' = tx \o bytes

Throw(e) ==
    /\ pc' = "thrown"
    /\ exc' = e

-----------------------------------------------------------------------------
\* Mutants: the number is not kept in a byte, or not counted.
NumberNotWrapped(n) == n + 1
NumberNotCounted(n) == n

\* incrementBlockNumber
NextBlockNumber(n) == (n + 1) % Modulus

-----------------------------------------------------------------------------
(* sendStartSignal: ask for the header until a packet starts.              *)

SendStartSignal ==
    /\ pc = "signal"
    /\ errorCount < MaxErrors
    /\ Send(<<"C">>)
    /\ pc' = "first"
    /\ UNCHANGED <<rx, conn, phase, exc, errorCount, blockNumber, cur>>

\* The first byte after each C is read for its log line only: whatever it is,
\* it is gone, the start byte of a packet included.
ReadFirstByte ==
    /\ pc = "first"
    /\ rx # <<>>
    /\ rx' = IF IsPacket(Head(rx)) THEN [rx EXCEPT ![1] = Rest] ELSE Tail(rx)
    /\ pc' = "seek"
    /\ UNCHANGED <<tx, conn, phase, exc, errorCount, blockNumber, cur>>

\* That read is outside the try block: its timeout leaves the method.
FirstByteTimeout ==
    /\ pc = "first"
    /\ rx = <<>>
    /\ Throw("timeout")
    /\ UNCHANGED <<rx, tx, conn, phase, errorCount, blockNumber, cur>>

SeekBlockStart ==
    /\ pc = "seek"
    /\ rx # <<>>
    /\ IsPacket(Head(rx))
    /\ cur' = Head(rx)
    /\ rx' = Tail(rx)
    /\ pc' = "block"
    /\ UNCHANGED <<tx, conn, phase, exc, errorCount, blockNumber>>

SkipByte ==
    /\ pc \in {"seek", "next"}
    /\ rx # <<>>
    /\ ~IsPacket(Head(rx))
    /\ pc = "next" => Head(rx).b # "EOT"
    /\ rx' = Tail(rx)
    /\ UNCHANGED <<tx, conn, pc, phase, exc, errorCount, blockNumber, cur>>

\* The CRC of a beheaded packet may contain a byte that looks like SOH or STX.
\* readBlock then starts inside the CRC and finds a wrong number, or nothing; or
\* the number, and behind the packet something else than its complement.
FalseStart ==
    /\ pc = "seek"
    /\ rx # <<>>
    /\ Head(rx) = Rest
    /\ rx' = Tail(rx)
    /\ \/ Throw("sync")
       \/ Tail(rx) = <<>> /\ Throw("timeout")
       \/ Tail(rx) # <<>> /\ Throw("invalid")
    /\ UNCHANGED <<tx, conn, phase, errorCount, blockNumber, cur>>

SeekTimeout ==
    /\ pc = "seek"
    /\ rx = <<>>
    /\ errorCount' = errorCount + 1
    /\ pc' = "signal"
    /\ UNCHANGED <<rx, tx, conn, phase, exc, blockNumber, cur>>

GiveUpStart ==
    /\ pc = "signal"
    /\ errorCount >= MaxErrors
    /\ Send(<<"CAN", "CAN">>)
    /\ Throw("runtime")
    /\ UNCHANGED <<rx, conn, phase, errorCount, blockNumber, cur>>

-----------------------------------------------------------------------------
(* readNextBlockStart: the start of a data packet, or the end of the file. *)

ReadNextBlockStart ==
    /\ pc = "next"
    /\ rx # <<>>
    /\ \/ IsPacket(Head(rx)) /\ pc' = "block"
       \/ Head(rx).b = "EOT" /\ pc' = "eot"
    /\ cur' = Head(rx)
    /\ rx' = Tail(rx)
    /\ UNCHANGED <<tx, conn, phase, exc, errorCount, blockNumber>>

\* The first timeout already throws: ++errorCount is 1 in a fresh counter.
NextStartTimeout ==
    /\ pc = "next"
    /\ rx = <<>>
    /\ Send(<<"ACK">>)
    /\ Throw("invalid")
    /\ UNCHANGED <<rx, conn, phase, errorCount, blockNumber, cur>>

-----------------------------------------------------------------------------
(* readBlock: number, complement, data and CRC of the packet cur.          *)

\* The number readBlock is called with: 0 for the header.
Expected == IF phase = "header" THEN 0 ELSE blockNumber

\* A number one below the expected one, not modulo 256: after block 255 the
\* expected number is 0 and nothing counts as a repetition.
IsRepeated == cur.num = Expected - 1

\* Mutant: any number is taken.
AnyNumberMatches == pc = "block" /\ cur.cut # "number"

NumberArrived == pc = "block" /\ cur.cut # "number"
NumberMatches == NumberArrived /\ cur.num = Expected
ComplementMatches == NumberMatches /\ cur.cut # "complement" /\ cur.inv
DataArrived == ComplementMatches /\ cur.cut # "data"
CrcArrived == DataArrived /\ cur.cut # "crc"

RejectBlock(e) ==
    /\ Throw(e)
    /\ UNCHANGED <<rx, tx, conn, phase, errorCount, blockNumber, cur>>

RepeatedBlock ==
    /\ NumberArrived /\ IsRepeated
    /\ RejectBlock("repeated")

BlockMismatch ==
    /\ NumberArrived /\ ~IsRepeated /\ ~NumberMatches
    /\ RejectBlock("sync")

ComplementMismatch ==
    /\ NumberMatches /\ cur.cut # "complement" /\ ~cur.inv
    /\ RejectBlock("invalid")

\* readFully has no timer: only the end of the connection ends its wait.
DataEnds ==
    /\ ComplementMatches /\ cur.cut = "data"
    /\ conn \in {"fin", "rst"}
    /\ RejectBlock("io")

CrcMismatch ==
    /\ CrcArrived /\ ~cur.crc
    /\ RejectBlock("invalid")

\* Mutant: the CRC bytes are read without the timer.
BlockTimeoutBeforeData ==
    /\ \/ pc = "block" /\ cur.cut = "number"
       \/ NumberMatches /\ cur.cut = "complement"
    /\ RejectBlock("timeout")

\* The timer of readBlock covers the single bytes, not the data.
BlockTimeout ==
    /\ \/ pc = "block" /\ cur.cut = "number"
       \/ NumberMatches /\ cur.cut = "complement"
       \/ DataArrived /\ cur.cut = "crc"
    /\ RejectBlock("timeout")

BlockRead ==
    /\ CrcArrived /\ cur.crc
    /\ pc' = IF phase = "header" THEN "parse" ELSE "write"
    /\ UNCHANGED <<rx, tx, conn, phase, exc, errorCount, blockNumber, cur>>

-----------------------------------------------------------------------------
ModemStep ==
    \/ SendStartSignal \/ ReadFirstByte \/ SeekBlockStart \/ SkipByte
    \/ FalseStart \/ GiveUpStart \/ ReadNextBlockStart
    \/ RepeatedBlock \/ BlockMismatch \/ ComplementMismatch
    \/ DataEnds \/ CrcMismatch \/ BlockRead

\* The steps an expired timer takes.
ModemTimeout ==
    \/ FirstByteTimeout \/ SeekTimeout \/ NextStartTimeout \/ BlockTimeout
=============================================================================
