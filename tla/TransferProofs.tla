---------------------------- MODULE TransferProofs ----------------------------
(***************************************************************************)
(* Theorems about Transfer, for every value of the constants: its types,   *)
(* and AcceptedIsSource and ReceivedInOrder by the invariant of            *)
(* Acceptance, which is inductive.                                         *)
(***************************************************************************)
EXTENDS Acceptance, SequenceTheorems, TLAPS

-----------------------------------------------------------------------------
(* RemovePadding.                                                          *)

LEMMA RemainderBounds ==
    ASSUME NEW n \in Nat
    PROVE  Remainder(n) \in 1..LongLen
    BY LengthAssumption DEF Remainder

\* RemovePadding returns the file, or the file without its tail.
LEMMA RemovePaddingPrefix ==
    ASSUME NEW S, NEW f \in Seq(S), NEW n \in Nat
    PROVE  /\ RemovePadding(f, n) \in Seq(S)
           /\ Len(RemovePadding(f, n)) <= Len(f)
           /\ \A i \in 1..Len(RemovePadding(f, n)) :
                  RemovePadding(f, n)[i] = f[i]
  <1> DEFINE r == Remainder(n)
  <1>1. r \in 1..LongLen
      BY RemainderBounds
  <1>2. CASE EndsInPadding(f, r)
    <2>1. RemovePadding(f, n) = SubSeq(f, 1, Len(f) - r)
        BY <1>2 DEF RemovePadding
    <2>2. Len(f) - r \in Nat /\ Len(f) \in Nat
        BY <1>1, <1>2, LengthAssumption DEF EndsInPadding
    <2>3. \A i \in 1..(Len(f) - r) : f[i] \in S
        BY <1>1, <2>2, LengthAssumption
    <2> QED BY <1>1, <2>1, <2>2, <2>3, SubSeqProperties, LengthAssumption
  <1>3. CASE ~EndsInPadding(f, r)
      BY <1>3 DEF RemovePadding
  <1> QED BY <1>2, <1>3

-----------------------------------------------------------------------------
(* The inductive invariant behind type correctness.                        *)

HeaderStates == {"signal", "first", "seek", "parse", "ackHeader", "sync",
                 "reboot", "open"}

ApkStates == {"next", "write", "eot", "integrity", "rename", "sendEot",
              "awaitEot", "validate"}

Flow ==
    /\ pc \in HeaderStates => phase = "header"
    /\ pc \in ApkStates => phase = "apk"
    /\ pc \in {"block", "parse", "write"} => cur \in Packets
    /\ pc \in {"first", "seek"} => errorCount < MaxErrors

\* Once the header is parsed, the session works with what the client sent.
HeaderKnown ==
    phase = "apk" \/ pc \in {"ackHeader", "sync", "reboot", "open"}
        => header = job.info /\ filePath = job.info.name

\* No data is on its way before the header is acknowledged.
NoDataYet ==
    Asking =>
        /\ cpc \in {"hello", "silent"}
        /\ \A i \in 1..Len(tx) : tx[i] # "ACK"
        /\ \A i \in 1..Len(rx) : IsPacket(rx[i]) => rx[i].info = job.info
        /\ pc \in {"block", "parse"} => cur.info = job.info

FilePresent ==
    phase = "apk" /\ pc \in Receiving \cup {"block", "rename"}
        => fs[filePath] \in Seq(Payload)

TypeInv == TypeOK /\ Flow /\ HeaderKnown /\ NoDataYet /\ FilePresent

LEMMA BytesNotPackets == \A t \in Bytes : ~IsPacket(t)
    BY DEF Bytes, Byte, IsPacket, PacketStarts

LEMMA PacketsArePackets == \A t \in Packets : IsPacket(t)
    BY DEF Packets, IsPacket

LEMMA TokenKinds ==
    ASSUME NEW t \in Packets \cup Bytes
    PROVE  IsPacket(t) <=> t \in Packets
    BY BytesNotPackets, PacketsArePackets

LEMMA RestIsByte == Rest \in Bytes /\ ~IsPacket(Rest)
    BY DEF Rest, Bytes, Byte, IsPacket, PacketStarts

LEMMA SendReplies ==
    ASSUME tx \in Seq(Replies), NEW bytes \in Seq(Replies), Send(bytes)
    PROVE  tx' \in Seq(Replies)
    BY ConcatProperties DEF Send

LEMMA TypeInit == Init => TypeInv
  <1> SUFFICES ASSUME Init PROVE TypeInv
      OBVIOUS
  <1>1. NoPacket \in Bytes
      BY DEF NoPacket, Bytes
  <1>2. TypeOK
      BY <1>1, ModemAssumption, TransferAssumption
      DEF Init, TypeOK, ServerStates, Contents
  <1>3. Flow /\ HeaderKnown /\ NoDataYet /\ FilePresent
      BY DEF Init, Flow, HeaderKnown, NoDataYet, FilePresent, Asking,
             HeaderStates, ApkStates, Receiving
  <1> QED BY <1>2, <1>3 DEF TypeInv

\* The steps of Modem leave the files, the session and the client alone.
LEMMA TypeModem ==
    ASSUME TypeInv, ModemStep \/ ModemTimeout,
           UNCHANGED <<fileVars, sessionVars, clientVars>>
    PROVE  TypeInv'
  <1> USE DEF TypeInv, TypeOK, Flow, HeaderKnown, NoDataYet, FilePresent,
              Asking, HeaderStates, ApkStates, Receiving, ServerStates,
              Exceptions, Replies, fileVars, sessionVars, clientVars
  <1>1. CASE SendStartSignal
      BY <1>1 DEF SendStartSignal, Send
  <1>2. CASE ReadFirstByte
    <2>1. CASE IsPacket(Head(rx))
      <3>1. rx' = [rx EXCEPT ![1] = Rest] /\ 1 \in 1..Len(rx)
          BY <1>2, <2>1 DEF ReadFirstByte
      <3>2. /\ rx' \in Seq(Packets \cup Bytes)
            /\ Len(rx') = Len(rx)
            /\ \A j \in 1..Len(rx) : rx'[j] = IF j = 1 THEN Rest ELSE rx[j]
          BY <3>1, RestIsByte, ExceptSeq
      <3> QED BY <1>2, <3>2, RestIsByte DEF ReadFirstByte
    <2> QED BY <1>2, <2>1 DEF ReadFirstByte
  <1>3. CASE SeekBlockStart
      BY <1>3, TokenKinds DEF SeekBlockStart
  <1>4. CASE SkipByte
      BY <1>4 DEF SkipByte
  <1>5. CASE FalseStart
      BY <1>5 DEF FalseStart, Throw
  <1>6. CASE GiveUpStart
      BY <1>6 DEF GiveUpStart, Send, Throw
  <1>7. CASE ReadNextBlockStart
      BY <1>7, TokenKinds DEF ReadNextBlockStart
  <1>8. CASE RepeatedBlock \/ BlockMismatch \/ ComplementMismatch \/ DataEnds
             \/ CrcMismatch \/ BlockTimeout
      BY <1>8 DEF RepeatedBlock, BlockMismatch, ComplementMismatch, DataEnds,
                  CrcMismatch, BlockTimeout, RejectBlock, Throw, NumberMatches,
                  NumberArrived, ComplementMatches, DataArrived, CrcArrived
  <1>9. CASE BlockRead
      BY <1>9 DEF BlockRead, NumberMatches,
                  NumberArrived, ComplementMatches, DataArrived, CrcArrived
  <1>10. CASE FirstByteTimeout
      BY <1>10 DEF FirstByteTimeout, Throw
  <1>11. CASE SeekTimeout
      BY <1>11, ModemAssumption DEF SeekTimeout
  <1>12. CASE NextStartTimeout
      BY <1>12 DEF NextStartTimeout, Send, Throw
  <1> QED BY <1>1, <1>2, <1>3, <1>4, <1>5, <1>6, <1>7, <1>8, <1>9, <1>10,
             <1>11, <1>12 DEF ModemStep, ModemTimeout

LEMMA TypeYModem ==
    ASSUME TypeInv, YModemStep \/ YModemTimeout,
           UNCHANGED <<sessionVars, clientVars>>
    PROVE  TypeInv'
  <1> USE DEF TypeInv, TypeOK, Flow, HeaderKnown, NoDataYet, FilePresent,
              Asking, HeaderStates, ApkStates, Receiving, ServerStates,
              Exceptions, Replies, fileVars, sessionVars, clientVars
  <1>1. CASE (ModemStep \/ ModemTimeout) /\ UNCHANGED fileVars
      BY <1>1, TypeModem
  <1>2. CASE ParseHeader
      BY <1>2, JobAssumption DEF ParseHeader, Headers
  <1>3. CASE MalformedHeader
      BY <1>3 DEF MalformedHeader, Throw
  <1>4. CASE CatchInHeader
    <2>1. <<"NAK">> \in Seq(Replies) /\ <<"CAN", "CAN">> \in Seq(Replies)
        OBVIOUS
    <2>2. tx' \in Seq(Replies)
        BY <1>4, <2>1, SendReplies DEF CatchInHeader
    <2> QED BY <1>4, <2>2 DEF CatchInHeader
  <1>5. CASE OpenFile
      BY <1>5, ModemAssumption, JobAssumption DEF OpenFile, Headers, Contents
  <1>6. CASE OpenFileFails
      BY <1>6 DEF OpenFileFails, Throw
  <1>7. CASE WriteBlock
    <2>1. cur.data \in Seq(Payload)
        BY <1>7 DEF WriteBlock, Packets
    <2>2. filePath \in Names
        BY <1>7, JobAssumption DEF WriteBlock, Headers
    <2>3. fs[filePath] \o cur.data \in Seq(Payload)
        BY <1>7, <2>1, ConcatProperties DEF WriteBlock
    <2>4. NextBlockNumber(blockNumber) \in 0..(Modulus - 1)
        BY ModemAssumption DEF NextBlockNumber
    <2> QED BY <1>7, <2>2, <2>3, <2>4 DEF WriteBlock, Contents
  <1>8. CASE WriteBlockFails
    <2>1. NextBlockNumber(blockNumber) \in 0..(Modulus - 1)
        BY ModemAssumption DEF NextBlockNumber
    <2> QED BY <1>8, <2>1 DEF WriteBlockFails, Throw
  <1>9. CASE EndOfTransmission
      BY <1>9 DEF EndOfTransmission, Send
  <1>12. CASE CloseFileFails
      BY <1>12 DEF CloseFileFails, Send
  <1>10. CASE CatchInApk
      BY <1>10 DEF CatchInApk, AnswerFailure, Send
  <1>11. CASE WriteFails
      BY <1>11 DEF WriteFails
  <1> QED BY <1>1, <1>2, <1>3, <1>4, <1>5, <1>6, <1>7, <1>8, <1>9, <1>10,
             <1>11, <1>12 DEF YModemStep, YModemTimeout

LEMMA TypeSession ==
    ASSUME TypeInv, SessionStep \/ SessionTimeout, UNCHANGED clientVars
    PROVE  TypeInv'
  <1> USE DEF TypeInv, TypeOK, Flow, HeaderKnown, NoDataYet, FilePresent,
              Asking, HeaderStates, ApkStates, Receiving, ServerStates,
              Exceptions, Replies, fileVars, sessionVars, clientVars
  <1>1. CASE (YModemStep \/ YModemTimeout) /\ UNCHANGED sessionVars
      BY <1>1, TypeYModem
  <1>2. CASE AckHeader
      BY <1>2 DEF AckHeader, Send
  <1>3. CASE SyncData
    <2>1. <<"JSON">> \in Seq(Replies)
        OBVIOUS
    <2>2. tx' \in Seq(Replies)
        BY <1>3, <2>1, SendReplies DEF SyncData
    <2> QED BY <1>3, <2>2 DEF SyncData
  <1>4. CASE RebootNow
      BY <1>4 DEF RebootNow
  <1>5. CASE EmptyFile
      BY <1>5 DEF EmptyFile
  <1>6. CASE pc = "integrity" /\ (FileAccepted \/ FileRefused)
    <2>1. fs[filePath] \in Seq(Payload)
        BY <1>6
    <2>2. header.size \in Nat /\ filePath \in Names
        BY <1>6, JobAssumption DEF Headers
    <2>3. Stripped \in Seq(Payload)
        BY <2>1, <2>2, RemovePaddingPrefix DEF Stripped
    <2>4. CASE FileAccepted
        BY <2>2, <2>3, <2>4 DEF FileAccepted, Contents
    <2>5. CASE FileRefused
      <3>1. <<"NAK">> \in Seq(Replies)
          OBVIOUS
      <3>2. tx' \in Seq(Replies)
          BY <2>5, <3>1, SendReplies DEF FileRefused
      <3>3. fs' \in [Names -> Contents]
          BY <2>2, <2>3, <2>5 DEF FileRefused, Contents
      <3>4. /\ pc' \in {"close", "error"}
            /\ UNCHANGED <<rx, conn, phase, exc, errorCount, blockNumber, cur,
                           header, filePath, sessionVars>>
          BY <2>5 DEF FileRefused
      <3>5. TypeOK'
          BY <3>2, <3>3, <3>4
      <3>6. Flow' /\ HeaderKnown' /\ NoDataYet' /\ FilePresent'
          BY <1>6, <3>4
      <3> QED BY <3>5, <3>6
    <2> QED BY <1>6, <2>4, <2>5
  <1>7. CASE RenameFile
    <2>1. Renamed(filePath, Firmware) \in [Names -> Contents]
        BY <1>7, FirmwareAssumption, JobAssumption
        DEF RenameFile, Renamed, Contents, Headers
    <2> QED BY <1>7, <2>1, FirmwareAssumption DEF RenameFile
  <1>8. CASE SendEot
      BY <1>8 DEF SendEot, Send
  <1>9. CASE AwaitEot
    <2>1. rx' \in Seq(Packets \cup Bytes)
      <3>1. CASE rx # <<>>
        <4>1. rx' = Tail(rx)
            BY <1>9, <3>1 DEF AwaitEot
        <4> QED BY <3>1, <4>1
      <3>2. CASE rx = <<>>
          BY <1>9, <3>2 DEF AwaitEot
      <3> QED BY <3>1, <3>2
    <2>2. pc' \in {"awaitEot", "validate", "error"} /\ pc = "awaitEot"
        BY <1>9 DEF AwaitEot
    <2>3. UNCHANGED <<tx, conn, phase, exc, errorCount, blockNumber, cur,
                      fileVars, sessionVars, clientVars>>
        BY <1>9 DEF AwaitEot
    <2>4. TypeOK'
        BY <2>1, <2>2, <2>3
    <2>5. Flow' /\ HeaderKnown' /\ NoDataYet' /\ FilePresent'
        BY <2>2, <2>3
    <2> QED BY <2>4, <2>5
  <1>10. CASE ArmUpdate
      BY <1>10, FirmwareAssumption DEF ArmUpdate
  <1>11. CASE RefuseUpdate
      BY <1>11, FirmwareAssumption DEF RefuseUpdate, Contents
  <1>12. CASE ValidateNull
      BY <1>12 DEF ValidateNull
  <1>13. CASE SessionError
    <2>1. /\ pc' = "close"
          /\ listening' \in BOOLEAN
          /\ UNCHANGED <<rx, tx, conn, phase, exc, errorCount, blockNumber,
                         cur, fileVars, received, armed, device, clientVars>>
        BY <1>13 DEF SessionError
    <2>2. TypeOK'
        BY <2>1
    <2>3. Flow' /\ HeaderKnown' /\ NoDataYet' /\ FilePresent'
        BY <2>1
    <2> QED BY <2>2, <2>3
  <1>14. CASE CloseConnection
      BY <1>14 DEF CloseConnection
  <1>15. FileAccepted \/ FileRefused => pc = "integrity"
      BY DEF FileAccepted, FileRefused
  <1> QED BY <1>1, <1>2, <1>3, <1>4, <1>5, <1>6, <1>7, <1>8, <1>9, <1>10,
             <1>11, <1>12, <1>13, <1>14, <1>15
          DEF SessionStep, SessionTimeout

-----------------------------------------------------------------------------
(* What the client sends.                                                  *)

LEMMA DataLenPositive ==
    ASSUME NEW j \in Jobs
    PROVE  DataLen(j) \in Nat \ {0}
    BY JobAssumption, LengthAssumption DEF DataLen

LEMMA BlockDataType ==
    ASSUME NEW j \in Jobs, NEW i \in Nat
    PROVE  /\ BlockData(j.source, DataLen(j), i) \in Seq(Payload)
           /\ Len(BlockData(j.source, DataLen(j), i)) = DataLen(j)
           /\ \A x \in 1..DataLen(j) :
                  BlockData(j.source, DataLen(j), i)[x]
                      = PaddedAt(j.source, i * DataLen(j) + x)
  <1> DEFINE L == DataLen(j)
             d == BlockData(j.source, L, i)
  <1>1. L \in Nat \ {0}
      BY DataLenPositive
  <1>2. \A y \in Nat \ {0} : PaddedAt(j.source, y) \in Payload
      BY JobAssumption, LengthAssumption DEF PaddedAt, Payload
  <1>3. \A x \in 1..L : i * L + x \in Nat \ {0}
      BY <1>1
  <1>4. d \in [1..L -> Payload]
      BY <1>1, <1>2, <1>3 DEF BlockData
  <1>5. d \in Seq(Payload) /\ Len(d) = L
      BY <1>1, <1>4
  <1> QED BY <1>5 DEF BlockData

LEMMA DataPacketType ==
    ASSUME NEW j \in Jobs, NEW i \in Nat
    PROVE  DataPacket(j, i) \in Packets
  <1> DEFINE d == BlockData(j.source, DataLen(j), i)
  <1>1. d \in Seq(Payload)
      BY BlockDataType
  <1>2. i % Modulus \in Nat
      BY ModemAssumption
  <1> HIDE DEF d
  <1>3. Packet(IF j.short THEN "SOH" ELSE "STX", i % Modulus, d, i, NoHeader)
            \in Packets
      BY <1>1, <1>2 DEF Packet, Packets, PacketStarts, Cuts
  <1> QED BY <1>3 DEF DataPacket, d

LEMMA HeaderPacketType ==
    ASSUME NEW j \in Jobs
    PROVE  /\ HeaderPacket(j) \in Packets
           /\ HeaderPacket(j).info = j.info
  <1> DEFINE d == [x \in 1..ShortLen |-> Junk]
  <1>1. d \in Seq(Payload)
      BY LengthAssumption DEF Payload
  <1>2. j.info \in Headers
      BY JobAssumption
  <1> HIDE DEF d
  <1>3. /\ Packet("SOH", 0, d, -1, j.info) \in Packets
        /\ Packet("SOH", 0, d, -1, j.info).info = j.info
      BY <1>1, <1>2 DEF Packet, Packets, PacketStarts, Cuts
  <1> QED BY <1>3 DEF HeaderPacket, d

\* A damaged packet is still a packet, and its damage shows.
LEMMA DamagedType ==
    ASSUME NEW p \in Packets, NEW q \in Damaged(p), Len(p.data) # 0
    PROVE  /\ q \in Packets
           /\ q.info = p.info
           /\ q.src = p.src
           /\ ~q.inv \/ ~q.crc
  <1>1. CASE \E n \in 0..(Modulus - 1) : q = [p EXCEPT !.num = n, !.inv = FALSE]
    <2>1. PICK n \in 0..(Modulus - 1) : q = [p EXCEPT !.num = n, !.inv = FALSE]
        BY <1>1
    <2>2. n \in Nat
        BY ModemAssumption
    <2> QED BY <2>1, <2>2 DEF Packets
  <1>2. CASE q = [p EXCEPT !.inv = FALSE]
      BY <1>2 DEF Packets
  <1>3. CASE q = [p EXCEPT !.data[1] = Junk, !.crc = FALSE]
    <2>1. [p.data EXCEPT ![1] = Junk] \in Seq(Payload)
        BY ExceptSeq DEF Packets, Payload
    <2>2. q = [p EXCEPT !.data = [p.data EXCEPT ![1] = Junk], !.crc = FALSE]
        BY <1>3 DEF Packets
    <2> HIDE <1>3
    <2>3. \A d \in Seq(Payload) :
              LET r == [p EXCEPT !.data = d, !.crc = FALSE]
              IN  r \in Packets /\ r.info = p.info /\ r.src = p.src /\ ~r.crc
        BY DEF Packets
    <2> QED BY <2>1, <2>2, <2>3
  <1> QED BY <1>1, <1>2, <1>3 DEF Damaged

LEMMA CutShortType ==
    ASSUME NEW p \in Packets, NEW q \in CutShort(p)
    PROVE  /\ q \in Packets
           /\ q.info = p.info
           /\ q.src = p.src
           /\ q.cut # "none"
  <1>1. PICK c \in Cuts \ {"none"} : q = [p EXCEPT !.cut = c]
      BY DEF CutShort
  <1> QED BY <1>1 DEF Packets, Cuts

LEMMA PacketDataNotEmpty ==
    ASSUME NEW j \in Jobs
    PROVE  /\ \A i \in Nat : Len(DataPacket(j, i).data) # 0
           /\ Len(HeaderPacket(j).data) # 0
  <1>1. ASSUME NEW i \in Nat PROVE Len(DataPacket(j, i).data) # 0
    <2>1. DataPacket(j, i).data = BlockData(j.source, DataLen(j), i)
        BY DEF DataPacket, Packet
    <2> QED BY <2>1, BlockDataType, DataLenPositive
  <1>2. Len(HeaderPacket(j).data) = ShortLen
    <2>1. HeaderPacket(j).data = [x \in 1..ShortLen |-> Junk]
        BY DEF HeaderPacket, Packet
    <2> QED BY <2>1, LengthAssumption
  <1> QED BY <1>1, <1>2, LengthAssumption

\* Whatever arrives, the types hold, if it is no data before the header's ACK.
LEMMA ArriveType ==
    ASSUME TypeInv, NEW tokens \in Seq(Packets \cup Bytes), Arrive(tokens),
           cpc' \in {"hello", "data", "eot", "done", "silent"},
           sent' \in Nat, hdrs' \in 0..HeaderReplies, faults' \in 0..MaxFaults,
           Asking =>
               /\ cpc' \in {"hello", "silent"}
               /\ \A i \in 1..Len(tokens) :
                      IsPacket(tokens[i]) => tokens[i].info = job.info
    PROVE  TypeInv'
  <1> USE DEF TypeInv, fileVars, sessionVars
  <1>1. /\ rx' = rx \o tokens
        /\ UNCHANGED <<tx, conn, pc, phase, exc, errorCount, blockNumber, cur,
                       fileVars, sessionVars, job, sessions>>
      BY DEF Arrive
  <1>2. /\ rx' \in Seq(Packets \cup Bytes)
        /\ Len(rx') = Len(rx) + Len(tokens)
        /\ \A i \in 1..Len(rx') :
               rx'[i] = IF i <= Len(rx) THEN rx[i] ELSE tokens[i - Len(rx)]
      BY <1>1, ConcatProperties DEF TypeOK
  <1>3. TypeOK'
      BY <1>1, <1>2 DEF TypeOK
  <1>4. Flow' /\ HeaderKnown' /\ FilePresent'
      BY <1>1 DEF Flow, HeaderKnown, FilePresent
  <1>5. NoDataYet'
    <2> SUFFICES ASSUME Asking
                 PROVE  \A i \in 1..Len(rx') :
                            IsPacket(rx'[i]) => rx'[i].info = job.info
        BY <1>1 DEF NoDataYet, Asking
    <2>1. Len(rx) \in Nat /\ Len(tokens) \in Nat
        BY DEF TypeOK
    <2>2. ASSUME NEW i \in 1..Len(rx'), IsPacket(rx'[i])
          PROVE  rx'[i].info = job.info
      <3>1. CASE i <= Len(rx)
        <4>1. i \in 1..Len(rx) /\ rx'[i] = rx[i]
            BY <1>2, <2>1, <3>1
        <4> QED BY <2>2, <4>1 DEF NoDataYet
      <3>2. CASE i > Len(rx)
        <4>1. i - Len(rx) \in 1..Len(tokens) /\ rx'[i] = tokens[i - Len(rx)]
            BY <1>2, <2>1, <3>2
        <4> QED BY <2>2, <4>1
      <3> QED BY <2>1, <3>1, <3>2
    <2> QED BY <2>2
  <1> QED BY <1>3, <1>4, <1>5

LEMMA TokenSeqs ==
    /\ <<>> \in Seq(Packets \cup Bytes)
    /\ \A t \in Packets \cup Bytes : <<t>> \in Seq(Packets \cup Bytes)
    /\ \A t, u \in Packets \cup Bytes : <<t, u>> \in Seq(Packets \cup Bytes)
    OBVIOUS

\* The answer to a C, sound or not.
LEMMA HeaderArrives ==
    ASSUME TypeInv, HeaderDue, hdrs' = hdrs + 1, faults' \in 0..MaxFaults,
           cpc' \in {"hello", "silent"}, sent' = sent,
           NEW p \in Packets, p.info = job.info, NEW echo,
           Arrive(IF echo THEN <<Byte("C"), p>> ELSE <<p>>)
    PROVE  TypeInv'
  <1> DEFINE tokens == IF echo THEN <<Byte("C"), p>> ELSE <<p>>
  <1>1. Byte("C") \in Bytes /\ ~IsPacket(Byte("C"))
      BY BytesNotPackets DEF Bytes
  <1>2. tokens \in Seq(Packets \cup Bytes)
      BY <1>1, TokenSeqs
  <1>3. \A i \in 1..Len(tokens) : IsPacket(tokens[i]) => tokens[i].info = job.info
      BY <1>1
  <1>4. hdrs' \in 0..HeaderReplies /\ sent' \in Nat
      BY TransferAssumption DEF HeaderDue, TypeInv, TypeOK
  <1>5. Arrive(tokens)
      OBVIOUS
  <1> HIDE DEF tokens
  <1> QED BY <1>2, <1>3, <1>4, <1>5, ArriveType

\* Data and the end of the file: the header was acknowledged long ago.
LEMMA DataArrives ==
    ASSUME TypeInv, cpc # "hello", cpc # "silent",
           cpc' \in {"data", "eot", "done", "silent"}, sent' \in Nat,
           hdrs' = hdrs, faults' \in 0..MaxFaults,
           NEW tokens \in Seq(Packets \cup Bytes), Arrive(tokens)
    PROVE  TypeInv'
  <1>1. ~Asking
      BY DEF TypeInv, NoDataYet
  <1>2. hdrs' \in 0..HeaderReplies
      BY DEF TypeInv, TypeOK
  <1> QED BY <1>1, <1>2, ArriveType

LEMMA TypeClient ==
    ASSUME TypeInv, ClientSends \/ (LinkFault /\ ~HangUp)
    PROVE  TypeInv'
  <1>1. /\ job \in Jobs /\ sent \in Nat /\ sent + 1 \in Nat
        /\ faults \in 0..MaxFaults
        /\ faults < MaxFaults => faults + 1 \in 0..MaxFaults
      BY TransferAssumption DEF TypeInv, TypeOK
  <1>2. Byte("EOT") \in Bytes
      BY DEF Bytes
  <1>3. CASE \E echo \in Echoes :
                 SendHeader(echo, HeaderPacket(job)) /\ UNCHANGED faults
    <2>1. PICK echo \in Echoes :
              SendHeader(echo, HeaderPacket(job)) /\ UNCHANGED faults
        BY <1>3
    <2>2. cpc' \in {"hello", "silent"} /\ sent' = sent
        BY <2>1 DEF SendHeader, HeaderDue
    <2> QED BY <1>1, <2>1, <2>2, HeaderArrives, HeaderPacketType DEF SendHeader
  <1>4. CASE BeginData
    <2>1. ~Asking
        BY <1>4 DEF BeginData, Seen, TypeInv, NoDataYet
    <2>2. /\ cpc' \in {"done", "data"}
          /\ UNCHANGED <<serverVars, job, sent, hdrs, faults, sessions>>
        BY <1>4 DEF BeginData
    <2>3. TypeOK'
        BY <2>2 DEF TypeInv, TypeOK, serverVars, modemVars, fileVars, sessionVars
    <2>4. Flow' /\ HeaderKnown' /\ NoDataYet' /\ FilePresent'
        BY <2>1, <2>2 DEF TypeInv, Flow, HeaderKnown, NoDataYet, FilePresent,
           Asking, serverVars, modemVars, fileVars, sessionVars
    <2> QED BY <2>3, <2>4 DEF TypeInv
  <1>5. CASE SendData
    <2>1. <<DataPacket(job, sent)>> \in Seq(Packets \cup Bytes)
        BY <1>1, DataPacketType, TokenSeqs
    <2> QED BY <1>1, <1>5, <2>1, DataArrives DEF SendData
  <1>6. CASE SendEndOfFile
    <2>1. <<Byte("EOT")>> \in Seq(Packets \cup Bytes)
        BY <1>2, TokenSeqs
    <2> QED BY <1>1, <1>6, <2>1, DataArrives DEF SendEndOfFile
  <1>7. CASE ConfirmEot
    <2>1. <<Byte("EOT")>> \in Seq(Packets \cup Bytes)
        BY <1>2, TokenSeqs
    <2> QED BY <1>1, <1>7, <2>1, DataArrives DEF ConfirmEot
  <1>8. CASE LoseBlock
      BY <1>1, <1>8, TokenSeqs, DataArrives DEF LoseBlock, Fault
  <1>9. CASE RepeatBlock
    <2>1. sent - 1 \in Nat
        BY <1>1, <1>9 DEF RepeatBlock
    <2>2. <<DataPacket(job, sent - 1)>> \in Seq(Packets \cup Bytes)
        BY <1>1, <2>1, DataPacketType, TokenSeqs
    <2> QED BY <1>1, <1>9, <2>2, DataArrives DEF RepeatBlock, Fault
  <1>10. CASE DamageBlock
    <2>1. PICK p \in Damaged(DataPacket(job, sent)) : Arrive(<<p>>)
        BY <1>10 DEF DamageBlock
    <2>2. p \in Packets
        BY <1>1, DamagedType, DataPacketType, PacketDataNotEmpty
    <2>3. <<p>> \in Seq(Packets \cup Bytes)
        BY <2>2, TokenSeqs
    <2> QED BY <1>1, <1>10, <2>1, <2>3, DataArrives DEF DamageBlock
  <1>11. CASE DamageHeader
    <2>1. PICK p \in Damaged(HeaderPacket(job)), echo \in Echoes :
              SendHeader(echo, p)
        BY <1>11 DEF DamageHeader
    <2>2. p \in Packets /\ p.info = job.info
        BY <1>1, DamagedType, HeaderPacketType, PacketDataNotEmpty
    <2>3. cpc' \in {"hello", "silent"} /\ sent' = sent
        BY <2>1 DEF SendHeader, HeaderDue
    <2> QED BY <1>1, <1>11, <2>1, <2>2, <2>3, HeaderArrives
            DEF DamageHeader, SendHeader
  <1>12. CASE CutBlock
    <2>1. PICK p \in CutShort(DataPacket(job, sent)) : Arrive(<<p>>)
        BY <1>12 DEF CutBlock
    <2>2. p \in Packets
        BY <1>1, CutShortType, DataPacketType
    <2>3. <<p>> \in Seq(Packets \cup Bytes)
        BY <2>2, TokenSeqs
    <2> QED BY <1>1, <1>12, <2>1, <2>3, DataArrives DEF CutBlock
  <1>13. CASE CutHeader
    <2>1. PICK p \in CutShort(HeaderPacket(job)) : Arrive(<<Byte("C"), p>>)
        BY <1>13 DEF CutHeader
    <2>2. p \in Packets /\ p.info = job.info
        BY <1>1, CutShortType, HeaderPacketType
    <2>3. Arrive(IF TRUE THEN <<Byte("C"), p>> ELSE <<p>>)
        BY <2>1
    <2> QED BY <1>1, <1>13, <2>2, <2>3, HeaderArrives DEF CutHeader
  <1> QED BY <1>3, <1>4, <1>5, <1>6, <1>7, <1>8, <1>9, <1>10, <1>11, <1>12,
             <1>13 DEF ClientSends, LinkFault

LEMMA TypeConnect ==
    ASSUME TypeInv, NEW j \in Jobs, Connect(j)
    PROVE  TypeInv'
  <1>1. NoPacket \in Bytes
      BY DEF NoPacket, Bytes
  <1>2. TypeOK'
      BY <1>1, ModemAssumption, TransferAssumption
      DEF TypeInv, Connect, TypeOK, ServerStates
  <1>3. Flow' /\ HeaderKnown' /\ NoDataYet' /\ FilePresent'
      BY DEF Connect, Flow, HeaderKnown, NoDataYet, FilePresent, Asking,
             HeaderStates, ApkStates, Receiving
  <1> QED BY <1>2, <1>3 DEF TypeInv

LEMMA TypeNext == TypeInv /\ [Next]_vars => TypeInv'
  <1> SUFFICES ASSUME TypeInv, [Next]_vars PROVE TypeInv'
      OBVIOUS
  <1> USE DEF TypeInv, TypeOK, Flow, HeaderKnown, NoDataYet, FilePresent, Asking
  <1>1. CASE ServerStep \/ TimerExpires
      BY <1>1, TypeSession DEF ServerStep, TimerExpires
  <1>2. CASE RebootTimer
      BY <1>2 DEF RebootTimer, PostedReboot, modemVars, fileVars, clientVars, Contents
  <1>3. CASE Rebind
      BY <1>3 DEF Rebind, modemVars, fileVars, clientVars
  <1>4. CASE \E j \in Jobs : Connect(j)
      BY <1>4, TypeConnect
  <1>5. CASE ClientSends \/ (LinkFault /\ ~HangUp)
      BY <1>5, TypeClient
  <1>6. CASE HangUp
      BY <1>6 DEF HangUp, fileVars, sessionVars, clientVars
  <1>7. CASE UNCHANGED vars
      BY <1>7 DEF vars, serverVars, modemVars, fileVars, sessionVars, clientVars
  <1> QED BY <1>1, <1>2, <1>3, <1>4, <1>5, <1>6, <1>7 DEF Next, LinkFault

\* Type correctness: every variable keeps its type, in particular the block
\* number stays a byte and the retry counter within MAXERRORS.
THEOREM TypeCorrect == Spec => []TypeOK
  <1>1. TypeInv => TypeOK
      BY DEF TypeInv
  <1> QED BY TypeInit, TypeNext, <1>1, PTL DEF Spec

-----------------------------------------------------------------------------
(* Arithmetic and sequences.                                               *)

LEMMA MultipleBound ==
    ASSUME NEW m \in Nat \ {0}, NEW q \in Int, q > 0
    PROVE  m * q >= m
    OBVIOUS

LEMMA NothingLeft ==
    ASSUME NEW S, NEW s \in Seq(S), Len(s) = 0
    PROVE  s = <<>>
    BY EmptySeq

LEMMA DivideBy ==
    ASSUME NEW m \in Nat \ {0}, NEW x \in Nat
    PROVE  x % m \in 0..(m - 1) /\ x \div m \in Int /\ x = m * (x \div m) + (x % m)
    OBVIOUS

\* Two numbers less than m apart with the same remainder are the same.
LEMMA SameRemainder ==
    ASSUME NEW m \in Nat \ {0, 1}, NEW a \in Nat, NEW b \in Nat,
           a % m = b % m, b - 1 <= a, a < b + m
    PROVE  a = b
  <1> DEFINE p == a \div m
             q == b \div m
  <1>1. p \in Int /\ q \in Int
      OBVIOUS
  <1>2. a = m * p + (a % m) /\ b = m * q + (b % m)
      OBVIOUS
  <1>3. a - b = m * (p - q)
      BY <1>1, <1>2
  <1>4. ~(p - q > 0)
    <2> SUFFICES ASSUME p - q > 0 PROVE FALSE
        OBVIOUS
    <2>1. m * (p - q) >= m
        BY <1>1, MultipleBound
    <2> QED BY <1>3, <2>1
  <1>5. ~(q - p > 0)
    <2> SUFFICES ASSUME q - p > 0 PROVE FALSE
        OBVIOUS
    <2>1. m * (q - p) >= m
        BY <1>1, MultipleBound
    <2>2. b - a = m * (q - p)
        BY <1>1, <1>2
    <2> QED BY <2>1, <2>2
  <1>6. p = q
      BY <1>1, <1>4, <1>5
  <1> QED BY <1>2, <1>6

\* Block k goes behind what ends with block k - 1, wherever it begins.
LEMMA AppendBlock ==
    ASSUME NEW j \in Jobs, NEW k \in Nat, NEW f \in Seq(Payload),
           NEW lo \in Nat, NEW off \in Nat,
           lo <= Len(f), Len(f) + off = k * DataLen(j),
           \A i \in (lo + 1)..Len(f) : f[i] = PaddedAt(j.source, i + off)
    PROVE  LET g == f \o BlockData(j.source, DataLen(j), k)
           IN  /\ lo <= Len(g)
               /\ Len(g) = Len(f) + DataLen(j)
               /\ \A i \in (lo + 1)..Len(g) : g[i] = PaddedAt(j.source, i + off)
  <1> DEFINE L == DataLen(j)
             d == BlockData(j.source, L, k)
             g == f \o d
             c == k * L
  <1>1. L \in Nat \ {0}
      BY DataLenPositive
  <1>2. /\ d \in Seq(Payload)
        /\ Len(d) = L
        /\ \A x \in 1..L : d[x] = PaddedAt(j.source, c + x)
      BY BlockDataType
  <1>3. c = Len(f) + off
      OBVIOUS
  <1> HIDE DEF d, L, c
  <1>4. /\ Len(g) = Len(f) + Len(d)
        /\ \A i \in 1..(Len(f) + Len(d)) :
               g[i] = IF i <= Len(f) THEN f[i] ELSE d[i - Len(f)]
      BY <1>2, ConcatProperties
  <1>5. Len(f) \in Nat
      OBVIOUS
  <1>6. ASSUME NEW i \in (lo + 1)..Len(g) PROVE g[i] = PaddedAt(j.source, i + off)
    <2>1. CASE i <= Len(f)
        BY <1>1, <1>2, <1>4, <1>5, <2>1
    <2>2. CASE i > Len(f)
      <3>1. i - Len(f) \in 1..L /\ c + (i - Len(f)) = i + off /\ i \in 1..Len(g)
          BY <1>1, <1>2, <1>3, <1>4, <1>5, <2>2
      <3>2. g[i] = d[i - Len(f)]
          BY <1>1, <1>2, <1>4, <1>5, <2>2, <3>1
      <3> QED BY <1>2, <3>1, <3>2
    <2> QED BY <1>1, <1>2, <1>4, <1>5, <2>1, <2>2
  <1> QED BY <1>1, <1>2, <1>4, <1>5, <1>6 DEF d, L

\* A prefix of the padded file that has the file's size without its padding
\* is the file.
LEMMA StrippedIsSource ==
    ASSUME NEW j \in Jobs, NEW f \in Seq(Payload), IsPaddedPrefix(f, j.source),
           Len(RemovePadding(f, Len(j.source))) = Len(j.source)
    PROVE  RemovePadding(f, Len(j.source)) = j.source
  <1> DEFINE s == j.source
             g == RemovePadding(f, Len(s))
  <1>1. s \in Seq(Payload) /\ Len(s) \in Nat
      BY JobAssumption DEF Payload
  <1>2. /\ g \in Seq(Payload)
        /\ Len(g) <= Len(f)
        /\ \A i \in 1..Len(g) : g[i] = f[i]
      BY <1>1, RemovePaddingPrefix
  <1>3. \A i \in 1..Len(g) : g[i] = s[i]
      BY <1>1, <1>2 DEF IsPaddedPrefix, PaddedAt
  <1> QED BY <1>1, <1>2, <1>3, SeqEqual

LEMMA RemainderIs ==
    ASSUME NEW m \in Nat \ {0, 1}, NEW x \in Nat, NEW q \in Int,
           NEW r \in 0..(m - 1), x = m * q + r
    PROVE  x % m = r
  <1> DEFINE p == x \div m
             t == x % m
  <1>1. p \in Int /\ t \in 0..(m - 1) /\ x = m * p + t
      OBVIOUS
  <1> HIDE DEF p, t
  <1>2. m * (p - q) = r - t /\ m * (q - p) = t - r
      BY <1>1
  <1>3. ~(p - q > 0)
    <2> SUFFICES ASSUME p - q > 0 PROVE FALSE
        OBVIOUS
    <2>1. m * (p - q) >= m
        BY <1>1, MultipleBound
    <2> QED BY <1>1, <1>2, <2>1
  <1>4. ~(q - p > 0)
    <2> SUFFICES ASSUME q - p > 0 PROVE FALSE
        OBVIOUS
    <2>1. m * (q - p) >= m
        BY <1>1, MultipleBound
    <2> QED BY <1>1, <1>2, <2>1
  <1>5. p = q
      BY <1>1, <1>3, <1>4
  <1>6. t = r
      BY <1>1, <1>5
  <1> QED BY <1>6 DEF t

\* Counting in a byte is counting, seen through the remainder.
LEMMA NextRemainder ==
    ASSUME NEW k \in Nat
    PROVE  NextBlockNumber(k % Modulus) = (k + 1) % Modulus
  <1> DEFINE m == Modulus
             r == k % m
             q == k \div m
  <1>1. m \in Nat \ {0, 1}
      BY ModemAssumption
  <1>2. r \in 0..(m - 1) /\ q \in Int /\ k = m * q + r
      BY <1>1
  <1>3. CASE r + 1 < m
    <2>1. (r + 1) % m = r + 1
        BY <1>1, <1>2, <1>3
    <2>2. (k + 1) % m = r + 1
      <3> HIDE DEF m, r, q
      <3>1. k + 1 = m * q + (r + 1) /\ r + 1 \in 0..(m - 1)
          BY <1>1, <1>2, <1>3
      <3> QED BY <1>1, <1>2, <3>1, RemainderIs, k + 1 \in Nat
    <2> QED BY <2>1, <2>2 DEF NextBlockNumber
  <1>4. CASE r + 1 = m
    <2>1. (r + 1) % m = 0
        BY <1>1, <1>4
    <2>2. (k + 1) % m = 0
      <3> HIDE DEF m, r, q
      <3>1. k + 1 = m * (q + 1) + 0 /\ 0 \in 0..(m - 1) /\ q + 1 \in Int
          BY <1>1, <1>2, <1>4
      <3> QED BY <1>1, <3>1, RemainderIs, k + 1 \in Nat
    <2> QED BY <2>1, <2>2 DEF NextBlockNumber
  <1> QED BY <1>1, <1>2, <1>3, <1>4

\* A file with a header in the place of block 0 never has the stated size: with
\* the padding taken off, as without, it is a header too long or too short.
LEMMA SpoiledIsRefused ==
    ASSUME job \in Jobs, NEW f \in Seq(Payload), NEW k \in Nat, Spoiled(f, k),
           SizeTellsHeader
    PROVE  Len(RemovePadding(f, Len(job.source))) # Len(job.source)
  <1> DEFINE s == Len(job.source)
             L == LongLen
             S == ShortLen
             m == (k - 1) * L
             t == s % L
             q == s \div L
  <1>1. /\ L \in Nat \ {0, 1} /\ S \in Nat \ {0} /\ S < L
        /\ s \in Nat /\ s # S /\ DataLen(job) = L
      BY LengthAssumption, JobAssumption DEF SizeTellsHeader, Spoiled, DataLen
  <1>2. /\ t \in 0..(L - 1) /\ q \in Int /\ s = L * q + t
        /\ Remainder(s) = L - t
    <2>1. Remainder(s) = L - t
        BY DEF Remainder
    <2> QED BY <1>1, <2>1, DivideBy
  <1>3. /\ Len(f) = S + m
        /\ \A i \in (S + 1)..Len(f) : f[i] = PaddedAt(job.source, i + (L - S))
        /\ k - 1 \in Nat
      BY <1>1 DEF Spoiled
  <1>4. m \in Nat
      BY <1>1, <1>3
  <1> HIDE DEF t, q
  <1>5. CASE EndsInPadding(f, Remainder(s))
    <2>1. Len(f) - (L - t) \in Nat
      <3>1. L - t <= Len(f)
          BY <1>2, <1>5 DEF EndsInPadding
      <3> HIDE DEF m
      <3> QED BY <1>1, <1>2, <1>3, <1>4, <3>1
    <2>2. RemovePadding(f, s) = SubSeq(f, 1, Len(f) - (L - t))
        BY <1>2, <1>5 DEF RemovePadding
    <2>3. Len(RemovePadding(f, s)) = S + m - (L - t)
      <3>1. Len(f) \in Nat /\ L - t > 0
          BY <1>1, <1>2
      <3>2. Len(SubSeq(f, 1, Len(f) - (L - t))) = Len(f) - (L - t)
        <4> DEFINE n == L - t
        <4>1. n \in Nat /\ Len(f) - n \in Nat
            BY <1>1, <1>2, <2>1
        <4> HIDE DEF n
        <4>2. Len(SubSeq(f, 1, Len(f) - n)) = Len(f) - n
            BY <3>1, <4>1
        <4> QED BY <4>2 DEF n
      <3>3. L - t \in Int /\ S \in Int /\ m \in Int /\ Len(f) = S + m
          BY <1>1, <1>2, <1>3, <1>4
      <3> HIDE DEF m
      <3>4. Len(f) - (L - t) = S + m - (L - t)
          BY <3>3
      <3> QED BY <2>2, <3>2, <3>4
    <2> SUFFICES ASSUME S + m - (L - t) = L * q + t PROVE FALSE
        BY <1>2, <2>3
    <2> DEFINE d == q + 2 - k
    <2>4. S = L * d /\ d \in Int
      <3>1. k \in Int /\ q \in Int /\ t \in Int /\ m = (k - 1) * L
          BY <1>2, <1>3
      <3> HIDE DEF m
      <3> QED BY <1>1, <3>1
    <2> HIDE DEF d, m, s
    <2>5. ~(d > 0)
      <3> SUFFICES ASSUME d > 0 PROVE FALSE
          OBVIOUS
      <3>1. L * d >= L
          BY <1>1, <2>4, MultipleBound
      <3> QED BY <1>1, <2>4, <3>1
    <2>6. ~(-d > 0)
      <3> SUFFICES ASSUME -d > 0 PROVE FALSE
          OBVIOUS
      <3>1. L * (-d) >= L /\ L * (-d) = -(L * d)
          BY <1>1, <2>4, MultipleBound
      <3> QED BY <1>1, <2>4, <3>1
    <2>7. d = 0
        BY <2>4, <2>5, <2>6
    <2> QED BY <1>1, <2>4, <2>7
  <1>6. CASE ~EndsInPadding(f, Remainder(s))
    <2>1. RemovePadding(f, s) = f
        BY <1>6 DEF RemovePadding
    <2> SUFFICES ASSUME S + m = s PROVE FALSE
        BY <1>3, <2>1
    <2>2. k - 1 > 0
      <3> SUFFICES ASSUME k - 1 = 0 PROVE FALSE
          BY <1>3
      <3> QED BY <1>1
    <2>3. m >= L
        BY <1>1, <2>2, MultipleBound
    <2>4. t = S
      <3>1. s = L * (k - 1) + S /\ S \in 0..(L - 1) /\ k - 1 \in Int
          BY <1>1, <1>3
      <3> QED BY <1>1, <3>1, RemainderIs DEF t
    <2> HIDE DEF m
    <2>5. L - S <= Len(f)
        BY <1>1, <1>3, <1>4, <2>3
    <2>6. ASSUME NEW i \in (Len(f) - (L - S) + 1)..Len(f) PROVE f[i] = PAD
      <3>1. i \in (S + 1)..Len(f) /\ i + (L - S) > s
          BY <1>1, <1>3, <1>4, <2>3
      <3> QED BY <1>1, <1>3, <3>1 DEF PaddedAt
    <2> QED BY <1>2, <1>6, <2>4, <2>5, <2>6 DEF EndsInPadding
  <1> QED BY <1>5, <1>6

-----------------------------------------------------------------------------
(* The server's steps.                                                     *)

LEMMA OrderInit == Init => AcceptInv
    BY DEF Init, AcceptInv, OrderInv, HeadersOnly, HeaderOnce, Asking, Storing

\* Before the header is acknowledged the server only takes from the queue.
LEMMA EarlyModem ==
    ASSUME TypeInv, HeadersOnly, ModemStep \/ ModemTimeout,
           UNCHANGED <<fileVars, sessionVars, clientVars>>
    PROVE  HeadersOnly'
  <1>1. Asking' => Asking
      BY DEF ModemStep, ModemTimeout, SendStartSignal, ReadFirstByte, SeekBlockStart,
         SkipByte, FalseStart, SeekTimeout, GiveUpStart, FirstByteTimeout,
         ReadNextBlockStart, NextStartTimeout, RepeatedBlock, BlockMismatch,
         ComplementMismatch, DataEnds, CrcMismatch, BlockTimeout, RejectBlock, Throw,
         BlockRead, NumberMatches, NumberArrived, ComplementMatches, DataArrived,
         CrcArrived, Asking, TypeInv, Flow, HeaderStates, ApkStates
  <1>2. \/ rx' = rx
        \/ rx # <<>> /\ rx' = Tail(rx)
        \/ rx # <<>> /\ rx' = [rx EXCEPT ![1] = Rest]
      BY DEF ModemStep, ModemTimeout, SendStartSignal, ReadFirstByte, SeekBlockStart,
         SkipByte, FalseStart, SeekTimeout, GiveUpStart, FirstByteTimeout,
         ReadNextBlockStart, NextStartTimeout, RepeatedBlock, BlockMismatch,
         ComplementMismatch, DataEnds, CrcMismatch, BlockTimeout, RejectBlock, BlockRead
  <1>3. sent' = sent /\ job' = job
      BY DEF clientVars
  <1>4. rx \in Seq(Packets \cup Bytes) /\ EarlyToken(job, Rest)
      BY RestIsByte DEF TypeInv, TypeOK, EarlyToken, Rest, EndByte, Byte
  <1> SUFFICES ASSUME Asking, NEW i \in 1..Len(rx') PROVE EarlyToken(job, rx'[i])
      BY <1>1, <1>3 DEF HeadersOnly
  <1>5. \A l \in 1..Len(rx) : EarlyToken(job, rx[l])
      BY DEF HeadersOnly
  <1>6. CASE rx' = rx
      BY <1>5, <1>6
  <1>7. CASE rx # <<>> /\ rx' = Tail(rx)
    <2>1. i + 1 \in 1..Len(rx) /\ rx'[i] = rx[i + 1]
        BY <1>4, <1>7, HeadTailProperties
    <2> QED BY <1>5, <2>1
  <1>8. CASE rx # <<>> /\ rx' = [rx EXCEPT ![1] = Rest]
    <2>1. i \in 1..Len(rx) /\ rx'[i] = IF i = 1 THEN Rest ELSE rx[i]
      <3>1. 1 \in 1..Len(rx)
          BY <1>4, <1>8
      <3> QED BY <1>4, <1>8, <3>1, RestIsByte, ExceptSeq
    <2> QED BY <1>4, <1>5, <2>1
  <1> QED BY <1>2, <1>6, <1>7, <1>8

\* The only header of a client that sends one.
LEMMA HeaderModem ==
    ASSUME TypeInv, HeaderOnce, HeaderReplies = 1, ModemStep \/ ModemTimeout,
           UNCHANGED <<fileVars, sessionVars, clientVars>>
    PROVE  HeaderOnce'
  <1> USE DEF HeaderOnce, Asking, clientVars
  <1>1. rx \in Seq(Packets \cup Bytes) /\ hdrs \in 0..1
      BY DEF TypeInv, TypeOK
  <1>2. CASE SendStartSignal
      BY <1>2 DEF SendStartSignal
  <1>3. CASE ReadFirstByte
    <2>1. pc = "first" /\ pc' = "seek" /\ rx # <<>> /\ hdrs' = hdrs /\ sent' = sent
        BY <1>3 DEF ReadFirstByte
    <2>2. CASE IsPacket(Head(rx))
      <3>1. rx' = [rx EXCEPT ![1] = Rest] /\ 1 \in 1..Len(rx)
          BY <1>1, <1>3, <2>2 DEF ReadFirstByte
      <3>2. /\ Len(rx') = Len(rx)
            /\ \A i \in 1..Len(rx) : rx'[i] = IF i = 1 THEN Rest ELSE rx[i]
          BY <1>1, <3>1, RestIsByte, ExceptSeq
      <3> QED BY <2>1, <3>2, RestIsByte
    <2>3. CASE ~IsPacket(Head(rx))
      <3>1. /\ Len(rx') = Len(rx) - 1
            /\ \A i \in 1..Len(rx') : rx'[i] = rx[i + 1]
          BY <1>1, <1>3, <2>1, <2>3, HeadTailProperties DEF ReadFirstByte
      <3> QED BY <1>1, <2>1, <3>1
    <2> QED BY <2>2, <2>3
  <1>4. CASE SeekBlockStart
    <2>1. /\ pc = "seek" /\ pc' = "block" /\ rx # <<>> /\ IsPacket(Head(rx))
          /\ rx' = Tail(rx) /\ hdrs' = hdrs /\ sent' = sent
        BY <1>4 DEF SeekBlockStart
    <2>2. /\ Len(rx) \in Nat \ {0} /\ Head(rx) = rx[1]
          /\ Tail(rx) \in Seq(Packets \cup Bytes) /\ Len(Tail(rx)) = Len(rx) - 1
        BY <1>1, <2>1, HeadTailProperties
    <2>3. Len(rx) = 1
        BY <2>1, <2>2
    <2>4. Tail(rx) = <<>>
      <3>1. Len(Tail(rx)) = 0
          BY <2>2, <2>3
      <3> QED BY <2>2, <3>1, NothingLeft, Zenon
    <2>5. hdrs = 1
        BY <1>1, <2>1
    <2> QED BY <2>1, <2>4, <2>5
  <1>5. CASE SkipByte
    <2>1. /\ pc' = pc /\ pc \in {"seek", "next"} /\ rx # <<>>
          /\ rx' = Tail(rx) /\ hdrs' = hdrs /\ sent' = sent
        BY <1>5 DEF SkipByte
    <2>2. /\ Len(rx') = Len(rx) - 1
          /\ \A i \in 1..Len(rx') : rx'[i] = rx[i + 1]
        BY <1>1, <2>1, HeadTailProperties
    <2> QED BY <1>1, <2>1, <2>2
  <1>6. CASE FalseStart
    <2>1. /\ pc = "seek" /\ pc' = "thrown" /\ rx # <<>> /\ rx' = Tail(rx)
          /\ hdrs' = hdrs /\ sent' = sent
        BY <1>6 DEF FalseStart, Throw
    <2>2. /\ Len(rx') = Len(rx) - 1
          /\ \A i \in 1..Len(rx') : rx'[i] = rx[i + 1]
        BY <1>1, <2>1, HeadTailProperties
    <2> QED BY <1>1, <2>1, <2>2
  <1>7. CASE ReadNextBlockStart
      BY <1>7 DEF ReadNextBlockStart, TypeInv, Flow, ApkStates
  <1>8. CASE RepeatedBlock \/ BlockMismatch \/ ComplementMismatch \/ DataEnds
             \/ CrcMismatch \/ BlockTimeout
      BY <1>8 DEF RepeatedBlock, BlockMismatch, ComplementMismatch, DataEnds,
                  CrcMismatch, BlockTimeout, RejectBlock, Throw, NumberMatches,
                  NumberArrived, ComplementMatches, DataArrived, CrcArrived
  <1>9. CASE BlockRead
      BY <1>9 DEF BlockRead, NumberMatches, TypeInv, Flow, ApkStates,
                  NumberArrived, ComplementMatches, DataArrived, CrcArrived
  <1>10. CASE GiveUpStart \/ FirstByteTimeout \/ SeekTimeout
      BY <1>10 DEF GiveUpStart, FirstByteTimeout, SeekTimeout, Throw
  <1>11. CASE NextStartTimeout
      BY <1>11 DEF NextStartTimeout, Throw, TypeInv, Flow, ApkStates
  <1> QED BY <1>2, <1>3, <1>4, <1>5, <1>6, <1>7, <1>8, <1>9, <1>10, <1>11
          DEF ModemStep, ModemTimeout

LEMMA EarlyTokens ==
    ASSUME NEW j, NEW t, EarlyToken(j, t)
    PROVE  /\ t \in Packets \cup Bytes
           /\ t # EndByte
           /\ ~DataToken(j, t)
           /\ IsPacket(t) => HeaderToken(j, t) /\ t.src = -1
  <1>1. CASE t \in Bytes \ {EndByte}
      BY <1>1, BytesNotPackets, PacketsArePackets DEF DataToken
  <1>2. CASE HeaderToken(j, t)
    <2>1. t \in Packets /\ t.src = -1
        BY <1>2 DEF HeaderToken
    <2>2. t # EndByte
        BY <2>1, PacketsArePackets DEF EndByte, Byte, IsPacket, PacketStarts
    <2> QED BY <1>2, <2>1, <2>2 DEF DataToken
  <1> QED BY <1>1, <1>2 DEF EarlyToken

\* What is left of the early tokens when the first token is taken.
Fewer(n) == IF n = 0 THEN 0 ELSE n - 1

\* The first token of the queue is taken, into the hand if it is a block.
LEMMA QueueShifts ==
    ASSUME TypeInv, NEW k \in Nat, NEW n \in 0..Len(rx), InOrder(k, n),
           NEW m, m = Fewer(n), pc = "next", rx # <<>>, rx' = Tail(rx),
           n = 0 => InHand', UNCHANGED <<job, cpc, sent, hdrs, faults>>
    PROVE  /\ m \in 0..Len(rx')
           /\ QueueFits(k, m)' /\ QueueSorted' /\ HeadersFit(k, m)'
           /\ ClientFits(k, m)'
  <1>1. /\ Len(rx) \in Nat \ {0}
        /\ Len(rx') = Len(rx) - 1
        /\ \A i \in 1..Len(rx') : rx'[i] = rx[i + 1] /\ i + 1 \in 1..Len(rx)
      BY HeadTailProperties DEF TypeInv, TypeOK
  <1>2. sent \in Nat /\ faults \in Nat /\ n \in Nat /\ m \in Nat
        /\ m = IF n = 0 THEN 0 ELSE n - 1
      BY TransferAssumption DEF TypeInv, TypeOK, Fewer
  <1>3. Taken = 0 /\ Taken' \in {0, 1} /\ (n = 0 => Taken' = 1)
      BY DEF Taken, InHand
  <1>4. m \in 0..Len(rx')
      BY <1>1, <1>2
  <1>5. QueueFits(k, m)'
    <2>1. ASSUME NEW i \in 1..m PROVE EarlyToken(job, rx'[i])
      <3>1. i + 1 \in 1..n /\ i \in 1..Len(rx')
          BY <1>1, <1>2, <1>4
      <3> QED BY <1>1, <3>1 DEF InOrder, QueueFits
    <2>2. ASSUME NEW i \in (m + 1)..Len(rx'), rx'[i] # EndByte
          PROVE  /\ DataToken(job, rx'[i])
                 /\ k - 1 <= rx'[i].src
                 /\ rx'[i].src <= k + (i - m - 1) + Taken' + faults
                 /\ rx'[i].src < sent
      <3>1. i + 1 \in (n + 1)..Len(rx) /\ i \in 1..Len(rx')
          BY <1>1, <1>2
      <3>2. /\ DataToken(job, rx[i + 1])
            /\ k - 1 <= rx[i + 1].src
            /\ rx[i + 1].src <= k + ((i + 1) - n - 1) + 0 + faults
            /\ rx[i + 1].src < sent
          BY <1>1, <1>3, <2>2, <3>1 DEF InOrder, QueueFits
      <3>3. rx'[i] = rx[i + 1] /\ rx[i + 1].src \in Nat
          BY <1>1, <3>1, <3>2 DEF DataToken
      <3>4. rx[i + 1].src <= k + (i - m - 1) + Taken' + faults
          BY <1>1, <1>2, <1>3, <3>1, <3>2, <3>3
      <3> QED BY <3>2, <3>3, <3>4
    <2> QED BY <2>1, <2>2 DEF QueueFits, EndByte, Byte
  <1>6. QueueSorted'
    <2> SUFFICES ASSUME NEW i \in 1..Len(rx'), NEW l \in 1..Len(rx'),
                        i < l, IsPacket(rx'[i]), IsPacket(rx'[l])
                 PROVE  rx'[i].src <= rx'[l].src
        BY DEF QueueSorted, IsPacket
    <2>1. i + 1 < l + 1
        BY <1>1
    <2> QED BY <1>1, <2>1 DEF InOrder, QueueSorted
  <1>7. HeadersFit(k, m)'
      BY <1>2 DEF InOrder, HeadersFit
  <1>8. ClientFits(k, m)'
    <2>1. cpc = "hello" => m = Len(rx') /\ sent = 0
        BY <1>1, <1>2 DEF InOrder, ClientFits
    <2>2. ASSUME cpc = "data"
          PROVE  /\ \A i \in 1..Len(rx') : rx'[i] # EndByte
                 /\ sent <= k + (Len(rx') - m) + Taken' + faults
      <3>1. /\ \A i \in 1..Len(rx) : rx[i] # EndByte
            /\ sent <= k + (Len(rx) - n) + 0 + faults
          BY <1>3, <2>2 DEF InOrder, ClientFits
      <3>2. sent <= k + (Len(rx') - m) + Taken' + faults
          BY <1>1, <1>2, <1>3, <3>1
      <3> QED BY <1>1, <3>1, <3>2
    <2> QED BY <2>1, <2>2 DEF InOrder, ClientFits, EndByte, Byte
  <1> QED BY <1>4, <1>5, <1>6, <1>7, <1>8

\* The first packet of the queue is taken in hand.
LEMMA PacketTaken ==
    ASSUME TypeInv, NEW k \in Nat, NEW n \in 0..Len(rx), InOrder(k, n),
           ReadNextBlockStart, IsPacket(Head(rx)),
           UNCHANGED <<fileVars, sessionVars, clientVars>>
    PROVE  \E m \in 0..Len(rx') : InOrder(k, m)'
  <1>1. /\ pc = "next" /\ pc' = "block" /\ rx # <<>>
        /\ cur' = Head(rx) /\ rx' = Tail(rx)
        /\ UNCHANGED <<job, cpc, sent, hdrs, faults, blockNumber>>
      BY DEF ReadNextBlockStart, IsPacket, PacketStarts, clientVars
  <1>2. PICK m : m = Fewer(n)
      OBVIOUS
  <1>3. /\ m \in 0..Len(rx')
        /\ QueueFits(k, m)' /\ QueueSorted' /\ HeadersFit(k, m)'
        /\ ClientFits(k, m)'
      BY <1>1, <1>2, QueueShifts DEF InHand
  <1>4. /\ Len(rx) \in Nat \ {0} /\ cur' = rx[1] /\ 1 \in 1..Len(rx)
        /\ Len(rx') = Len(rx) - 1
        /\ \A i \in 1..Len(rx') : rx'[i] = rx[i + 1] /\ i + 1 \in 1..Len(rx)
      BY <1>1, HeadTailProperties DEF TypeInv, TypeOK
  <1>5. \A i \in 1..Len(rx') : IsPacket(rx'[i]) => rx[1].src <= rx'[i].src
    <2> TAKE i \in 1..Len(rx')
    <2>1. 1 < i + 1
        BY <1>4
    <2> QED BY <1>1, <1>4, <2>1 DEF InOrder, QueueSorted
  <1>6. HandFits(k, m)'
    <2>1. CASE n = 0
      <3>1. rx[1] # EndByte
          BY <1>1, <1>4 DEF EndByte, Byte, IsPacket, PacketStarts
      <3>2. Taken = 0 /\ faults \in Nat
          BY <1>1, TransferAssumption DEF Taken, InHand, TypeInv, TypeOK
      <3>3. /\ DataToken(job, rx[1])
            /\ k - 1 <= rx[1].src /\ rx[1].src <= k + (1 - 0 - 1) + 0 + faults
            /\ rx[1].src < sent
          BY <1>4, <2>1, <3>1, <3>2 DEF InOrder, QueueFits
      <3>4. rx[1].src <= k + faults
          BY <3>2, <3>3
      <3>5. m = 0
          BY <1>2, <2>1 DEF Fewer
      <3> QED BY <1>1, <1>4, <1>5, <3>3, <3>4, <3>5
              DEF HandFits, HeaderToken, DataToken, IsPacket
    <2>2. CASE n > 0
      <3>1. EarlyToken(job, rx[1])
          BY <2>2 DEF InOrder, QueueFits
      <3>2. HeaderToken(job, rx[1])
          BY <1>1, <1>4, <3>1, EarlyTokens
      <3>3. k <= 1 /\ HeaderReplies > 1
          BY <2>2, TransferAssumption DEF InOrder, HeadersFit
      <3> QED BY <1>1, <1>4, <1>5, <3>2, <3>3
              DEF HandFits, HeaderToken, HeaderPacket, DataToken, IsPacket
    <2> QED BY <2>1, <2>2
  <1>7. HandAccepted'
      BY <1>1 DEF HandAccepted
  <1> QED BY <1>3, <1>6, <1>7 DEF InOrder

\* A byte from before the data is skipped.
LEMMA ByteSkipped ==
    ASSUME TypeInv, NEW k \in Nat, NEW n \in 0..Len(rx), InOrder(k, n),
           pc = "next", SkipByte, UNCHANGED <<fileVars, sessionVars, clientVars>>
    PROVE  \E m \in 0..Len(rx') : InOrder(k, m)'
  <1>1. /\ pc' = "next" /\ rx # <<>> /\ rx' = Tail(rx) /\ Head(rx) = rx[1]
        /\ ~IsPacket(rx[1]) /\ rx[1].b # "EOT" /\ 1 \in 1..Len(rx)
        /\ UNCHANGED <<job, cpc, sent, hdrs, faults, blockNumber>>
      BY DEF SkipByte, clientVars, TypeInv, TypeOK
  <1>2. n > 0
    <2> SUFFICES ASSUME n = 0 PROVE FALSE
        OBVIOUS
    <2>1. rx[1] = EndByte \/ rx[1] \in Packets
        BY <1>1 DEF InOrder, QueueFits, DataToken
    <2> QED BY <1>1, <2>1, PacketsArePackets DEF EndByte, Byte
  <1>3. PICK m : m = Fewer(n)
      OBVIOUS
  <1>4. /\ m \in 0..Len(rx')
        /\ QueueFits(k, m)' /\ QueueSorted' /\ HeadersFit(k, m)'
        /\ ClientFits(k, m)'
    <2>1. n = 0 => InHand'
        BY <1>2
    <2> QED BY <1>1, <1>3, <2>1, QueueShifts
  <1>5. HandFits(k, m)' /\ HandAccepted'
      BY <1>1 DEF HandFits, HandAccepted, InHand
  <1> QED BY <1>4, <1>5 DEF InOrder

\* FileFits looks only at what the server knows and at the job.
LEMMA FileFitsUnchanged ==
    ASSUME NEW k, FileFits(k), UNCHANGED <<blockNumber, fs, filePath, job>>
    PROVE  FileFits(k)'
    BY DEF FileFits, Clean, Spoiled

LEMMA OrderModem ==
    ASSUME TypeInv, AcceptInv, ModemStep \/ ModemTimeout,
           UNCHANGED <<fileVars, sessionVars, clientVars>>
    PROVE  AcceptInv'
  <1>1. HeadersOnly' /\ HeaderOnce'
    <2>1. CASE HeaderReplies = 1
        BY <2>1, EarlyModem, HeaderModem DEF AcceptInv
    <2>2. CASE HeaderReplies # 1
        BY <2>2, EarlyModem DEF AcceptInv, HeaderOnce
    <2> QED BY <2>1, <2>2
  <1> SUFFICES OrderInv'
      BY <1>1 DEF AcceptInv
  <1> USE DEF Storing, fileVars, sessionVars, clientVars
  <1>2. CASE ReadNextBlockStart
    <2>1. PICK k \in 0..(sent + 1), n \in 0..Len(rx) : InOrder(k, n) /\ FileFits(k)
        BY <1>2 DEF ReadNextBlockStart, AcceptInv, OrderInv
    <2>2. k \in Nat
        BY DEF TypeInv, TypeOK
    <2>3. FileFits(k)'
        BY <1>2, <2>1, FileFitsUnchanged DEF ReadNextBlockStart
    <2>4. CASE IsPacket(Head(rx))
      <3>1. \E m \in 0..Len(rx') : InOrder(k, m)'
          BY <1>2, <2>1, <2>2, <2>4, PacketTaken
      <3>2. pc' = "block" /\ sent' = sent
          BY <1>2, <2>4 DEF ReadNextBlockStart, IsPacket, PacketStarts
      <3> QED BY <2>3, <3>1, <3>2 DEF OrderInv
    <2>5. CASE ~IsPacket(Head(rx))
      <3>1. pc' = "eot" /\ sent' = sent
          BY <1>2, <2>5 DEF ReadNextBlockStart
      <3>2. (Clean(fs[filePath], k) \/ Spoiled(fs[filePath], k))'
          BY <2>3 DEF FileFits
      <3> QED BY <3>1, <3>2 DEF OrderInv
    <2> QED BY <2>4, <2>5
  <1>3. CASE SkipByte
    <2>1. CASE pc = "seek"
        BY <1>3, <2>1 DEF SkipByte, OrderInv
    <2>2. CASE pc = "next"
      <3>1. PICK k \in 0..(sent + 1), n \in 0..Len(rx) : InOrder(k, n) /\ FileFits(k)
          BY <2>2 DEF AcceptInv, OrderInv
      <3>2. k \in Nat
          BY DEF TypeInv, TypeOK
      <3>3. FileFits(k)' /\ pc' = "next" /\ sent' = sent
          BY <1>3, <2>2, <3>1, FileFitsUnchanged DEF SkipByte
      <3>4. \E m \in 0..Len(rx') : InOrder(k, m)'
          BY <1>3, <2>2, <3>1, <3>2, ByteSkipped
      <3> QED BY <3>3, <3>4 DEF OrderInv
    <2> QED BY <1>3, <2>1, <2>2 DEF SkipByte
  <1>4. CASE BlockRead
    <2>1. CASE phase = "header"
        BY <1>4, <2>1 DEF BlockRead, OrderInv
    <2>2. CASE phase = "apk"
      <3>1. pc = "block" /\ pc' = "write"
            /\ UNCHANGED <<rx, tx, conn, phase, exc, errorCount, blockNumber, cur>>
          BY <1>4, <2>2 DEF BlockRead, CrcArrived, DataArrived,
                            ComplementMatches, NumberMatches, NumberArrived
      <3>2. PICK k \in 0..(sent + 1), n \in 0..Len(rx) : InOrder(k, n) /\ FileFits(k)
          BY <2>2, <3>1 DEF AcceptInv, OrderInv
      <3>3. HandAccepted'
        <4>1. cur.inv /\ cur.crc /\ cur.num = blockNumber
              /\ cur.cut \notin {"number", "complement", "data", "crc"}
            BY <1>4, <2>2 DEF BlockRead, CrcArrived, DataArrived, Expected,
                              ComplementMatches, NumberMatches, NumberArrived
        <4>2. cur.cut \in Cuts
            BY <3>1 DEF TypeInv, Flow, Packets
        <4> QED BY <3>1, <4>1, <4>2 DEF HandAccepted, Cuts
      <3>4. InOrder(k, n)'
          BY <3>1, <3>2, <3>3 DEF InOrder, QueueFits, QueueSorted, HeadersFit, HandFits,
                                  ClientFits, InHand, Taken
      <3>5. FileFits(k)'
          BY <3>1, <3>2, FileFitsUnchanged
      <3> QED BY <3>1, <3>4, <3>5 DEF OrderInv
    <2> QED BY <2>1, <2>2 DEF TypeInv, TypeOK
  <1>5. CASE SendStartSignal \/ ReadFirstByte \/ FalseStart \/ GiveUpStart
             \/ FirstByteTimeout \/ SeekTimeout \/ NextStartTimeout
      BY <1>5 DEF SendStartSignal, ReadFirstByte, FalseStart, GiveUpStart,
                  FirstByteTimeout, SeekTimeout, NextStartTimeout, Throw, OrderInv
  <1>6. CASE SeekBlockStart
      BY <1>6 DEF SeekBlockStart, OrderInv, TypeInv, Flow, HeaderStates
  <1>7. CASE RepeatedBlock \/ BlockMismatch \/ ComplementMismatch \/ DataEnds
             \/ CrcMismatch \/ BlockTimeout
      BY <1>7 DEF RepeatedBlock, BlockMismatch, ComplementMismatch, DataEnds,
                  CrcMismatch, BlockTimeout, RejectBlock, Throw, OrderInv
  <1> QED BY <1>2, <1>3, <1>4, <1>5, <1>6, <1>7 DEF ModemStep, ModemTimeout

\* The packet that passed readBlock is the next block of the file, or a header
\* that comes first.
LEMMA BlockInHand ==
    ASSUME TypeInv, NEW k \in Nat, NEW n, InOrder(k, n), FileFits(k),
           MaxFaults < Modulus, pc = "write"
    PROVE  \/ cur = DataPacket(job, k) /\ cur.src = k /\ k < sent /\ n = 0
           \/ cur = HeaderPacket(job) /\ k = 0 /\ HeaderReplies > 1
  <1>1. cur.inv /\ cur.crc /\ cur.cut = "none" /\ cur.num = blockNumber
      BY DEF InOrder, HandAccepted
  <1>2. blockNumber = k % Modulus
      BY DEF FileFits
  <1>3. CASE HeaderToken(job, cur) /\ k <= 1 /\ HeaderReplies > 1
    <2>1. cur = HeaderPacket(job)
        BY <1>1, <1>3 DEF HeaderToken
    <2>2. cur.num = 0
        BY <2>1 DEF HeaderPacket, Packet
    <2>3. k # 1
        BY <1>1, <1>2, <2>2, ModemAssumption
    <2> QED BY <1>3, <2>1, <2>3
  <1>4. CASE /\ DataToken(job, cur) /\ k - 1 <= cur.src /\ cur.src <= k + faults
             /\ cur.src < sent /\ n = 0
    <2>1. cur.src \in Nat /\ cur = DataPacket(job, cur.src)
        BY <1>1, <1>4 DEF DataToken
    <2>2. cur.num = cur.src % Modulus
      <3>1. \A i : DataPacket(job, i).num = i % Modulus
          BY DEF DataPacket, Packet
      <3> QED BY <2>1, <3>1
    <2>3. faults \in Nat /\ faults < Modulus
        BY ModemAssumption, TransferAssumption DEF TypeInv, TypeOK
    <2>4. cur.src = k
      <3> DEFINE q == cur.src
      <3>1. q \in Nat /\ q % Modulus = k % Modulus /\ k - 1 <= q /\ q < k + Modulus
          BY <1>1, <1>2, <1>4, <2>1, <2>2, <2>3, ModemAssumption
      <3> QED BY <3>1, SameRemainder, ModemAssumption
    <2> QED BY <1>4, <2>1, <2>4
  <1> QED BY <1>3, <1>4 DEF InOrder, HandFits, InHand

\* The queue moves on when what was in hand is stored.
LEMMA QueueMovesOn ==
    ASSUME TypeInv, NEW k \in Nat, NEW n \in 0..Len(rx), InOrder(k, n),
           pc = "write", pc' = "next",
           UNCHANGED <<rx, cur, job, cpc, sent, hdrs, faults>>,
           k = 0 \/ (cur.src = k /\ k < sent /\ n = 0)
    PROVE  InOrder(k + 1, n)'
  <1>1. sent \in Nat /\ faults \in Nat /\ Len(rx) \in Nat
      BY TransferAssumption DEF TypeInv, TypeOK
  <1>2. Taken = 1 /\ Taken' = 0
      BY DEF Taken, InHand
  <1>3. QueueFits(k + 1, n)'
    <2> SUFFICES ASSUME NEW i \in (n + 1)..Len(rx), rx[i] # EndByte
                 PROVE  /\ DataToken(job, rx[i])
                        /\ (k + 1) - 1 <= rx[i].src
                        /\ rx[i].src <= (k + 1) + (i - n - 1) + 0 + faults
                        /\ rx[i].src < sent
        BY <1>2 DEF InOrder, QueueFits, EndByte, Byte
    <2>1. /\ DataToken(job, rx[i])
          /\ rx[i].src <= k + (i - n - 1) + 1 + faults
          /\ rx[i].src < sent
        BY <1>2 DEF InOrder, QueueFits
    <2>2. IsPacket(rx[i]) /\ rx[i].src \in Nat /\ i \in 1..Len(rx)
        BY <1>1, <2>1, PacketsArePackets DEF DataToken
    <2>3. k <= rx[i].src
        BY <2>2 DEF InOrder, HandFits, InHand
    <2>4. rx[i].src <= (k + 1) + (i - n - 1) + 0 + faults
        BY <1>1, <2>1, <2>2
    <2> QED BY <2>1, <2>2, <2>3, <2>4
  <1>4. QueueSorted' /\ HandFits(k + 1, n)' /\ HandAccepted'
      BY DEF InOrder, QueueSorted, HandFits, HandAccepted, InHand, IsPacket
  <1>5. HeadersFit(k + 1, n)'
      BY DEF InOrder, HeadersFit
  <1>6. ClientFits(k + 1, n)'
    <2>1. cpc = "data" => sent <= (k + 1) + (Len(rx) - n) + 0 + faults
      <3>1. cpc = "data" => sent <= k + (Len(rx) - n) + 1 + faults
          BY <1>2 DEF InOrder, ClientFits
      <3> QED BY <1>1, <3>1
    <2>2. k + 1 <= sent \/ k + 1 <= 1
        BY <1>1
    <2> QED BY <1>2, <2>1, <2>2 DEF InOrder, ClientFits, EndByte, Byte
  <1> QED BY <1>3, <1>4, <1>5, <1>6 DEF InOrder

\* A block makes a file longer that is clean, or spoiled already.
LEMMA DataAppended ==
    ASSUME job \in Jobs, NEW f \in Seq(Payload), NEW k \in Nat,
           Clean(f, k) \/ Spoiled(f, k)
    PROVE  LET g == f \o BlockData(job.source, DataLen(job), k)
           IN  Clean(g, k + 1) \/ Spoiled(g, k + 1)
  <1> DEFINE D == DataLen(job)
             d == BlockData(job.source, D, k)
             g == f \o d
  <1>1. /\ D \in Nat \ {0} /\ ShortLen \in Nat \ {0} /\ D - ShortLen \in Nat
        /\ Len(f) \in Nat
      BY LengthAssumption, JobAssumption DEF DataLen
  <1>2. k * D + D = (k + 1) * D /\ (k > 0 => (k - 1) * D + D = k * D)
      BY <1>1
  <1>3. CASE Clean(f, k)
    <2>1. /\ 0 \in Nat /\ 0 <= Len(f) /\ Len(f) + 0 = k * D
          /\ \A i \in (0 + 1)..Len(f) : f[i] = PaddedAt(job.source, i + 0)
        BY <1>1, <1>3 DEF Clean, IsPaddedPrefix
    <2>2. /\ Len(g) = Len(f) + D
          /\ \A i \in (0 + 1)..Len(g) : g[i] = PaddedAt(job.source, i + 0)
        BY <2>1, AppendBlock, Zenon
    <2> HIDE DEF g, D
    <2>3. Len(g) = (k + 1) * D
      <3>1. Len(f) = k * D
          BY <1>3 DEF Clean, D
      <3>2. Len(g) = Len(f) + D
          BY <2>2
      <3>3. Len(g) = k * D + D
          BY <3>1, <3>2, Zenon
      <3> QED BY <1>2, <3>3, Zenon
    <2>4. \A i \in 1..Len(g) : g[i] = PaddedAt(job.source, i)
        BY <2>2
    <2> QED BY <2>3, <2>4 DEF Clean, IsPaddedPrefix, D, g
  <1>4. CASE Spoiled(f, k)
    <2> DEFINE c == (k - 1) * D
    <2>1. /\ k > 0 /\ HeaderReplies > 1 /\ Len(f) = ShortLen + c
          /\ \A i \in (ShortLen + 1)..Len(f) :
                 f[i] = PaddedAt(job.source, i + (D - ShortLen))
        BY <1>4 DEF Spoiled
    <2>2. c \in Nat
        BY <1>1, <2>1
    <2>3. /\ ShortLen \in Nat /\ D - ShortLen \in Nat /\ ShortLen <= Len(f)
          /\ Len(f) + (D - ShortLen) = k * D
      <3>1. c + D = k * D
          BY <1>2, <2>1
      <3> HIDE DEF c, D
      <3> QED BY <1>1, <2>1, <2>2, <3>1
    <2>4. /\ Len(g) = Len(f) + D
          /\ \A i \in (ShortLen + 1)..Len(g) :
                 g[i] = PaddedAt(job.source, i + (D - ShortLen))
        BY <2>1, <2>3, AppendBlock, Zenon
    <2>5. Len(g) = ShortLen + ((k + 1) - 1) * D
      <3> DEFINE e == k * D
      <3>1. (k + 1) - 1 = k /\ e \in Nat /\ Len(f) + (D - ShortLen) = e
          BY <1>1, <2>3
      <3>2. ((k + 1) - 1) * D = e
          BY <3>1, Zenon
      <3>3. Len(g) = Len(f) + D
          BY <2>4
      <3> HIDE DEF g, D, e
      <3>4. Len(g) = ShortLen + e
          BY <1>1, <3>1, <3>3
      <3> QED BY <3>2, <3>4, Zenon
    <2>6. Spoiled(g, k + 1)
      <3>1. k + 1 > 0
          BY <2>1
      <3> HIDE DEF g
      <3> QED BY <2>1, <2>4, <2>5, <3>1, Zenon DEF Spoiled
    <2> QED BY <2>6
  <1> QED BY <1>3, <1>4

LEMMA BlockStored ==
    ASSUME TypeInv, NEW k \in 0..(sent + 1), NEW n \in 0..Len(rx), InOrder(k, n),
           FileFits(k), WriteBlock, MaxFaults < Modulus,
           UNCHANGED <<sessionVars, clientVars>>
    PROVE  k + 1 \in 0..(sent + 1) /\ InOrder(k + 1, n)' /\ FileFits(k + 1)'
  <1>1. /\ pc = "write" /\ pc' = "next"
        /\ blockNumber' = NextBlockNumber(blockNumber)
        /\ fs' = [fs EXCEPT ![filePath] = @ \o cur.data]
        /\ UNCHANGED <<rx, cur, filePath, job, cpc, sent, hdrs, faults>>
      BY DEF WriteBlock, clientVars
  <1>2. k \in Nat /\ sent \in Nat /\ job \in Jobs
      BY DEF TypeInv, TypeOK
  <1>3. \/ cur = DataPacket(job, k) /\ cur.src = k /\ k < sent /\ n = 0
        \/ cur = HeaderPacket(job) /\ k = 0 /\ HeaderReplies > 1
      BY <1>1, <1>2, BlockInHand
  <1>4. InOrder(k + 1, n)'
      BY <1>1, <1>2, <1>3, QueueMovesOn
  <1>5. k + 1 \in 0..(sent + 1)
      BY <1>2, <1>3
  <1>6. blockNumber' = (k + 1) % Modulus
      BY <1>1, <1>2, NextRemainder DEF FileFits
  <1>7. filePath \in Names /\ fs[filePath] \in Seq(Payload)
      BY <1>1, <1>2, JobAssumption
      DEF TypeInv, Flow, ApkStates, HeaderKnown, FilePresent, Receiving, Headers
  <1> DEFINE f == fs[filePath]
             g == f \o cur.data
  <1>8. fs'[filePath] = g
      BY <1>1, <1>7 DEF TypeInv, TypeOK
  <1>9. Clean(g, k + 1) \/ Spoiled(g, k + 1)
    <2>1. CASE cur = DataPacket(job, k)
      <3>1. cur.data = BlockData(job.source, DataLen(job), k)
          BY <2>1 DEF DataPacket, Packet
      <3>2. Clean(f, k) \/ Spoiled(f, k)
          BY DEF FileFits
      <3> QED BY <1>2, <1>7, <3>1, <3>2, DataAppended
    <2>2. CASE cur = HeaderPacket(job) /\ k = 0 /\ HeaderReplies > 1
      <3>1. cur.data \in Seq(Payload) /\ Len(cur.data) = ShortLen
        <4>1. cur.data = [x \in 1..ShortLen |-> Junk]
            BY <2>2 DEF HeaderPacket, Packet
        <4> QED BY <4>1, LengthAssumption DEF Payload
      <3>2. Len(f) = 0
        <4>1. Len(f) = 0 * DataLen(job) /\ DataLen(job) \in Nat
            BY <1>2, <2>2, DataLenPositive DEF FileFits, Clean, Spoiled
        <4> QED BY <4>1
      <3>3. Len(g) = ShortLen
        <4>1. Len(f \o cur.data) = Len(f) + Len(cur.data)
            BY <1>7, <3>1, ConcatProperties
        <4> QED BY <3>1, <3>2, <4>1, LengthAssumption
      <3>4. ((k + 1) - 1) * DataLen(job) = 0
          BY <1>2, <2>2, DataLenPositive
      <3> HIDE DEF g
      <3> QED BY <2>2, <3>3, <3>4, LengthAssumption DEF Spoiled
    <2> QED BY <1>3, <2>1, <2>2
  <1>10. FileFits(k + 1)'
    <2> HIDE DEF g
    <2> QED BY <1>1, <1>6, <1>8, <1>9 DEF FileFits, Clean, Spoiled
  <1> QED BY <1>4, <1>5, <1>10

LEMMA OrderYModem ==
    ASSUME TypeInv, AcceptInv, MaxFaults < Modulus,
           YModemStep \/ YModemTimeout, UNCHANGED <<sessionVars, clientVars>>
    PROVE  AcceptInv'
  <1> USE DEF Storing
  <1>1. CASE (ModemStep \/ ModemTimeout) /\ UNCHANGED fileVars
      BY <1>1, OrderModem
  <1>2. CASE OpenFile
    <2>1. /\ pc = "open" /\ pc' = "next" /\ phase' = "apk" /\ blockNumber' = 0
          /\ fs' = [fs EXCEPT ![filePath] = <<>>]
          /\ UNCHANGED <<rx, cur, filePath, job, cpc, sent, hdrs, faults>>
        BY <1>2 DEF OpenFile, clientVars
    <2>2. filePath \in Names /\ job \in Jobs /\ sent \in Nat
        BY <2>1, JobAssumption DEF TypeInv, TypeOK, HeaderKnown, Headers
    <2>3. fs'[filePath] = <<>>
        BY <2>1, <2>2 DEF TypeInv, TypeOK
    <2>4. PICK n \in 0..Len(rx) : InOrder(0, n)
        BY <2>1 DEF AcceptInv, OrderInv
    <2>5. InOrder(0, n)'
        BY <2>1, <2>4 DEF InOrder, QueueFits, QueueSorted, HeadersFit, HandFits,
                          HandAccepted, ClientFits, InHand, Taken
    <2>6. FileFits(0)'
      <3>1. 0 % Modulus = 0
          BY ModemAssumption
      <3>2. 0 * DataLen(job) = 0
          BY <2>2, DataLenPositive
      <3> QED BY <2>1, <2>3, <3>1, <3>2 DEF FileFits, Clean, IsPaddedPrefix, DataLen
    <2> QED BY <2>1, <2>2, <2>5, <2>6 DEF AcceptInv, OrderInv, HeadersOnly, HeaderOnce, Asking
  <1>3. CASE WriteBlock
    <2>1. pc = "write" /\ pc' = "next" /\ UNCHANGED <<sent, phase, rx>>
        BY <1>3 DEF WriteBlock, clientVars
    <2>2. PICK k \in 0..(sent + 1), n \in 0..Len(rx) : InOrder(k, n) /\ FileFits(k)
        BY <2>1 DEF AcceptInv, OrderInv
    <2>3. k + 1 \in 0..(sent + 1) /\ InOrder(k + 1, n)' /\ FileFits(k + 1)'
        BY <1>3, <2>2, BlockStored
    <2> QED BY <2>1, <2>3 DEF AcceptInv, OrderInv, HeadersOnly, HeaderOnce, Asking
  <1>4. CASE EndOfTransmission
    <2>1. /\ pc = "eot" /\ pc' = "integrity"
          /\ UNCHANGED <<phase, fs, filePath, job, sent>>
        BY <1>4 DEF EndOfTransmission, fileVars, clientVars
    <2> QED BY <2>1 DEF AcceptInv, OrderInv, HeadersOnly, HeaderOnce, Asking, Clean,
                        Spoiled
  <1>5. CASE ParseHeader
      BY <1>5 DEF ParseHeader, clientVars, AcceptInv, OrderInv, HeadersOnly, HeaderOnce, Asking
  <1>6. CASE MalformedHeader
    <2>1. /\ pc = "parse" /\ pc' = "thrown"
          /\ UNCHANGED <<rx, phase, sent, hdrs, job>>
        BY <1>6 DEF MalformedHeader, Throw, clientVars
    <2> QED BY <2>1 DEF AcceptInv, OrderInv, HeadersOnly, HeaderOnce, Asking
  <1>7. CASE CatchInHeader \/ CatchInApk \/ CloseFileFails
      BY <1>7 DEF CatchInHeader, CatchInApk, CloseFileFails, AcceptInv, OrderInv, HeadersOnly, HeaderOnce, Asking
  <1>8. CASE OpenFileFails \/ WriteBlockFails
      BY <1>8 DEF OpenFileFails, WriteBlockFails, Throw, AcceptInv, OrderInv,
                  HeadersOnly, HeaderOnce, Asking, TypeInv, Flow, ApkStates
  <1>9. CASE WriteFails
    <2>1. /\ pc' \in {"thrown", "error"}
          /\ pc' = "thrown" => pc \in {"eot", "signal", "next"}
          /\ UNCHANGED <<rx, phase, sent, hdrs, job>>
        BY <1>9 DEF WriteFails, clientVars
    <2> QED BY <2>1 DEF AcceptInv, OrderInv, HeadersOnly, HeaderOnce, Asking, TypeInv,
                        Flow, ApkStates
  <1> QED BY <1>1, <1>2, <1>3, <1>4, <1>5, <1>6, <1>7, <1>8, <1>9
          DEF YModemStep, YModemTimeout

LEMMA OrderSession ==
    ASSUME TypeInv, AcceptInv, SizeTellsHeader, MaxFaults < Modulus,
           SessionStep \/ SessionTimeout, UNCHANGED clientVars
    PROVE  AcceptInv'
  <1> USE DEF Storing
  <1>1. CASE (YModemStep \/ YModemTimeout) /\ UNCHANGED sessionVars
      BY <1>1, OrderYModem
  <1>2. CASE AckHeader
    <2>1. /\ pc = "ackHeader" /\ pc' \in {"sync", "reboot", "open"}
          /\ UNCHANGED <<rx, cur, phase, fs, filePath, received>>
          /\ UNCHANGED <<job, cpc, sent, hdrs, faults>>
        BY <1>2 DEF AckHeader, fileVars, sessionVars, clientVars
    <2>2. /\ \A i \in 1..Len(rx) : EarlyToken(job, rx[i])
          /\ HeaderReplies = 1 => rx = <<>> /\ hdrs = 1
          /\ sent = 0 /\ cpc # "data"
        BY <2>1 DEF AcceptInv, HeadersOnly, HeaderOnce, Asking, TypeInv, NoDataYet
    <2>3. PICK n \in Nat : n = Len(rx)
        BY DEF TypeInv, TypeOK
    <2>4. pc' = "open" => InOrder(0, n)'
      <3>1. QueueFits(0, n)'
          BY <2>1, <2>2, <2>3 DEF QueueFits
      <3>2. QueueSorted'
        <4>1. \A i \in 1..Len(rx) : IsPacket(rx[i]) => rx[i].src = -1
            BY <2>2, EarlyTokens
        <4> QED BY <2>1, <4>1 DEF QueueSorted, IsPacket
      <3>3. HeadersFit(0, n)' /\ ClientFits(0, n)'
          BY <2>1, <2>2, <2>3 DEF HeadersFit, ClientFits
      <3> QED BY <3>1, <3>2, <3>3 DEF InOrder, HandFits, HandAccepted, InHand
    <2>5. n \in 0..Len(rx)'
        BY <2>1, <2>3
    <2> QED BY <2>1, <2>4, <2>5 DEF AcceptInv, OrderInv, HeadersOnly, HeaderOnce, Asking
  <1>3. CASE SyncData \/ RebootNow
      BY <1>3 DEF SyncData, RebootNow, AcceptInv, OrderInv, HeadersOnly, HeaderOnce, Asking
  <1>4. CASE FileAccepted
    <2>1. /\ pc = "integrity" /\ pc' = "rename" /\ SizeMatches
          /\ fs' = [fs EXCEPT ![filePath] = Stripped]
          /\ UNCHANGED <<filePath, job, phase>>
        BY <1>4 DEF FileAccepted, clientVars
    <2>2. /\ job \in Jobs /\ filePath \in Names /\ fs[filePath] \in Seq(Payload)
          /\ header.size = Len(job.source)
        BY <2>1, JobAssumption DEF TypeInv, TypeOK, Flow, ApkStates, HeaderKnown,
                                   FilePresent, Receiving, Headers
    <2>3. PICK k \in 0..(sent + 1) : Clean(fs[filePath], k) \/ Spoiled(fs[filePath], k)
        BY <2>1 DEF AcceptInv, OrderInv
    <2>4. Stripped = job.source
      <3>1. Len(RemovePadding(fs[filePath], Len(job.source))) = Len(job.source)
          BY <2>1, <2>2 DEF Stripped, SizeMatches
      <3>2. k \in Nat
          BY DEF TypeInv, TypeOK
      <3>3. IsPaddedPrefix(fs[filePath], job.source)
          BY <2>2, <2>3, <3>1, <3>2, SpoiledIsRefused DEF Clean
      <3> QED BY <2>2, <3>1, <3>3, StrippedIsSource DEF Stripped
    <2>5. fs'[filePath] = job.source
        BY <2>1, <2>2, <2>4 DEF TypeInv, TypeOK
    <2> QED BY <2>1, <2>5 DEF AcceptInv, OrderInv, HeadersOnly, HeaderOnce, Asking
  <1>5. CASE EmptyFile \/ FileRefused
      BY <1>5 DEF EmptyFile, FileRefused, AcceptInv, OrderInv, HeadersOnly, HeaderOnce, Asking
  <1>6. CASE RenameFile
    <2>1. pc = "rename" /\ pc' = "sendEot" /\ UNCHANGED job
        BY <1>6 DEF RenameFile, clientVars
    <2>2. filePath \in Names /\ fs[filePath] = job.source
        BY <2>1, JobAssumption DEF AcceptInv, OrderInv, TypeInv, TypeOK, Flow,
                                   ApkStates, HeaderKnown, Headers
    <2>3. received' = Firmware => fs'[Firmware] = job.source
      <3>1. CASE fs' = Renamed(filePath, Firmware)
          BY <2>2, <3>1, FirmwareAssumption DEF Renamed, TypeInv, TypeOK
      <3>2. CASE received' = NoFile
          BY <3>2, FirmwareAssumption, YModemAssumption
      <3> QED BY <1>6, <3>1, <3>2 DEF RenameFile
    <2> QED BY <2>1, <2>3 DEF AcceptInv, OrderInv, HeadersOnly, HeaderOnce, Asking
  <1>7. CASE SendEot
      BY <1>7 DEF SendEot, fileVars, sessionVars, clientVars, AcceptInv,
                  OrderInv, HeadersOnly, HeaderOnce, Asking
  <1>8. CASE AwaitEot
    <2>1. /\ pc = "awaitEot" /\ pc' \in {"awaitEot", "validate", "error"}
          /\ UNCHANGED <<fs, received, job>>
        BY <1>8 DEF AwaitEot, fileVars, sessionVars, clientVars
    <2> QED BY <2>1 DEF AcceptInv, OrderInv, HeadersOnly, HeaderOnce, Asking
  <1>9. CASE ArmUpdate \/ RefuseUpdate \/ ValidateNull \/ SessionError
             \/ CloseConnection
      BY <1>9 DEF ArmUpdate, RefuseUpdate, ValidateNull, SessionError,
                  CloseConnection, AcceptInv, OrderInv, HeadersOnly, HeaderOnce, Asking
  <1> QED BY <1>1, <1>2, <1>3, <1>4, <1>5, <1>6, <1>7, <1>8, <1>9
          DEF SessionStep, SessionTimeout

-----------------------------------------------------------------------------
(* The client's steps and the link.                                        *)

\* A data packet is put into the queue, sound or damaged.
LEMMA BlockArrives ==
    ASSUME TypeInv, NEW k \in Nat, NEW n \in 0..Len(rx), InOrder(k, n),
           NEW t, DataToken(job, t),
           Arrive(<<t>>), cpc = "data", cpc' \in {"data", "silent"},
           hdrs' = hdrs, faults' \in {faults, faults + 1},
           \/ t.src = sent /\ sent' = sent + 1
           \/ t.src = sent - 1 /\ sent' = sent
    PROVE  n \in 0..Len(rx') /\ InOrder(k, n)'
  <1>1. /\ rx' = rx \o <<t>>
        /\ UNCHANGED <<pc, phase, cur, blockNumber, job>>
      BY DEF Arrive
  <1>2. /\ sent \in Nat /\ faults \in Nat /\ Len(rx) \in Nat
        /\ sent' \in Nat /\ faults' \in Nat /\ t.src \in Nat
        /\ sent <= sent' /\ faults <= faults' /\ t.src < sent' /\ sent - 1 <= t.src
        /\ n \in Nat /\ n <= Len(rx)
      BY TransferAssumption DEF TypeInv, TypeOK, DataToken
  <1>3. t \in Packets /\ t # EndByte
      BY PacketsArePackets
      DEF DataToken, EndByte, Byte, IsPacket, PacketStarts
  <1>4. /\ Len(rx') = Len(rx) + 1
        /\ \A i \in 1..Len(rx) : rx'[i] = rx[i]
        /\ rx'[Len(rx) + 1] = t
    <2>1. rx \in Seq(Packets \cup Bytes) /\ <<t>> \in Seq(Packets \cup Bytes)
        BY <1>3, TokenSeqs DEF TypeInv, TypeOK
    <2> QED BY <1>1, <2>1
  <1>5. Taken \in {0, 1} /\ Taken' = Taken
      BY <1>1 DEF Taken, InHand
  <1>6. /\ \A i \in 1..Len(rx) : rx[i] # EndByte
        /\ sent <= k + (Len(rx) - n) + Taken + faults
        /\ k <= sent \/ k <= 1
      BY DEF InOrder, ClientFits
  <1>7. \A i \in 1..Len(rx) : IsPacket(rx[i]) => rx[i].src \in Int /\ rx[i].src <= t.src
    <2> SUFFICES ASSUME NEW i \in 1..Len(rx), IsPacket(rx[i])
                 PROVE  rx[i].src \in Int /\ rx[i].src <= t.src
        OBVIOUS
    <2>1. CASE i \in 1..n
      <3>1. rx[i].src = -1
          BY <2>1, EarlyTokens DEF InOrder, QueueFits
      <3> QED BY <1>2, <3>1
    <2>2. CASE i \in (n + 1)..Len(rx)
      <3>1. rx[i].src \in Nat /\ rx[i].src < sent
          BY <1>6, <2>2 DEF InOrder, QueueFits, DataToken
      <3> QED BY <1>2, <3>1
    <2> QED BY <1>2, <2>1, <2>2
  <1>8. QueueFits(k, n)'
    <2>1. ASSUME NEW i \in 1..n PROVE EarlyToken(job, rx'[i])
      <3>1. rx'[i] = rx[i]
          BY <1>2, <1>4
      <3> QED BY <3>1 DEF InOrder, QueueFits
    <2>2. ASSUME NEW i \in (n + 1)..Len(rx')
          PROVE  /\ DataToken(job, rx'[i])
                 /\ k - 1 <= rx'[i].src
                 /\ rx'[i].src <= k + (i - n - 1) + Taken + faults'
                 /\ rx'[i].src < sent'
      <3>1. CASE i \in (n + 1)..Len(rx)
        <4>1. i \in 1..Len(rx) /\ i \in Nat
            BY <1>2, <3>1
        <4>2. /\ DataToken(job, rx[i])
              /\ k - 1 <= rx[i].src
              /\ rx[i].src <= k + (i - n - 1) + Taken + faults
              /\ rx[i].src < sent
            BY <1>6, <3>1, <4>1 DEF InOrder, QueueFits
        <4>3. rx[i].src \in Nat
            BY <4>2 DEF DataToken
        <4>4. rx[i].src <= k + (i - n - 1) + Taken + faults'
            BY <1>2, <1>5, <4>1, <4>2, <4>3
        <4>5. rx[i].src < sent'
          <5>1. \A x \in Nat : x < sent => x < sent'
              BY <1>2
          <5> QED BY <4>2, <4>3, <5>1
        <4> QED BY <1>4, <4>1, <4>2, <4>4, <4>5
      <3>2. CASE i = Len(rx) + 1
        <4>1. k - 1 <= t.src
            BY <1>2, <1>6
        <4>2. t.src <= k + (Len(rx) - n) + Taken + faults'
            BY <1>2, <1>5, <1>6
        <4>3. (i - n) - 1 = Len(rx) - n
            BY <1>2, <3>2
        <4> QED BY <1>2, <1>4, <3>2, <4>1, <4>2, <4>3
      <3> QED BY <1>2, <1>4, <3>1, <3>2
    <2> QED BY <1>1, <1>5, <2>1, <2>2
            DEF QueueFits, EarlyToken, HeaderToken, EndByte, Byte, DataToken
  <1>9. QueueSorted'
    <2> SUFFICES ASSUME NEW i \in 1..Len(rx'), NEW l \in 1..Len(rx'),
                        i < l, IsPacket(rx'[i]), IsPacket(rx'[l])
                 PROVE  rx'[i].src <= rx'[l].src
        BY DEF QueueSorted, IsPacket
    <2>1. i \in 1..Len(rx) /\ rx'[i] = rx[i]
        BY <1>2, <1>4
    <2>2. CASE l \in 1..Len(rx)
        BY <1>4, <2>1, <2>2 DEF InOrder, QueueSorted
    <2>3. CASE l = Len(rx) + 1
        BY <1>2, <1>4, <1>7, <2>1, <2>3
    <2> QED BY <1>2, <1>4, <2>2, <2>3
  <1>10. HandFits(k, n)'
    <2> SUFFICES ASSUME InHand PROVE HandFits(k, n)'
        BY <1>1 DEF HandFits, InHand
    <2>1. /\ \/ HeaderToken(job, cur) /\ k <= 1 /\ HeaderReplies > 1
             \/ /\ DataToken(job, cur) /\ k - 1 <= cur.src
                /\ cur.src <= k + faults /\ cur.src < sent /\ n = 0
          /\ \A i \in 1..Len(rx) : IsPacket(rx[i]) => cur.src <= rx[i].src
        BY DEF InOrder, HandFits
    <2>2. cur.src <= t.src
        BY <1>2, <2>1 DEF DataToken, HeaderToken
    <2>3. \/ HeaderToken(job, cur) /\ k <= 1 /\ HeaderReplies > 1
          \/ /\ DataToken(job, cur) /\ k - 1 <= cur.src
             /\ cur.src <= k + faults' /\ cur.src < sent' /\ n = 0
      <3>1. ASSUME cur.src \in Nat, cur.src <= k + faults, cur.src < sent
            PROVE  cur.src <= k + faults' /\ cur.src < sent'
          BY <1>2, <3>1
      <3> QED BY <2>1, <3>1 DEF DataToken
    <2>4. ASSUME NEW i \in 1..Len(rx'), IsPacket(rx'[i])
          PROVE  cur.src <= rx'[i].src
      <3>1. CASE i \in 1..Len(rx)
          BY <1>4, <2>1, <2>4, <3>1
      <3>2. CASE i = Len(rx) + 1
          BY <1>4, <2>2, <3>2
      <3> QED BY <1>2, <1>4, <3>1, <3>2
    <2> QED BY <1>1, <2>3, <2>4 DEF HandFits, HeaderToken, DataToken, IsPacket
  <1>11. HandAccepted' /\ HeadersFit(k, n)'
      BY <1>1 DEF InOrder, HandAccepted, HeadersFit
  <1>12. ClientFits(k, n)'
    <2>1. \A i \in 1..Len(rx') : rx'[i] # EndByte
      <3> TAKE i \in 1..Len(rx')
      <3>1. CASE i \in 1..Len(rx)
          BY <1>4, <1>6, <3>1
      <3>2. CASE i = Len(rx) + 1
          BY <1>3, <1>4, <3>2
      <3> QED BY <1>2, <1>4, <3>1, <3>2
    <2>2. k <= sent' \/ k <= 1
        BY <1>2, <1>6
    <2>3. sent' <= k + (Len(rx') - n) + Taken + faults'
        BY <1>2, <1>4, <1>5, <1>6
    <2> QED BY <1>5, <2>1, <2>2, <2>3 DEF ClientFits, EndByte, Byte
  <1>13. n \in 0..Len(rx')
      BY <1>2, <1>4
  <1> QED BY <1>8, <1>9, <1>10, <1>11, <1>12, <1>13 DEF InOrder

\* The end of the file, or the answer to the server's, is put into the queue.
LEMMA EndArrives ==
    ASSUME TypeInv, NEW k \in Nat, NEW n \in 0..Len(rx), InOrder(k, n),
           Arrive(<<EndByte>>), cpc' \in {"eot", "done"},
           UNCHANGED <<sent, hdrs, faults>>
    PROVE  n \in 0..Len(rx') /\ InOrder(k, n)'
  <1>1. /\ rx' = rx \o <<EndByte>>
        /\ UNCHANGED <<pc, phase, cur, blockNumber, job>>
      BY DEF Arrive
  <1>2. EndByte \in Bytes /\ ~IsPacket(EndByte) /\ Len(rx) \in Nat
      BY BytesNotPackets DEF Bytes, EndByte, TypeInv, TypeOK
  <1>3. /\ Len(rx') = Len(rx) + 1
        /\ \A i \in 1..Len(rx) : rx'[i] = rx[i]
        /\ rx'[Len(rx) + 1] = EndByte
    <2>1. rx \in Seq(Packets \cup Bytes) /\ <<EndByte>> \in Seq(Packets \cup Bytes)
        BY <1>2, TokenSeqs DEF TypeInv, TypeOK
    <2> QED BY <1>1, <2>1
  <1>4. \A i \in 1..Len(rx') : i \in 1..Len(rx) \/ rx'[i] = EndByte
      BY <1>2, <1>3
  <1>5. QueueFits(k, n)'
    <2>1. ASSUME NEW i \in 1..n PROVE EarlyToken(job, rx'[i])
        BY <1>2, <1>3 DEF InOrder, QueueFits
    <2>2. ASSUME NEW i \in (n + 1)..Len(rx'), rx'[i] # EndByte
          PROVE  /\ DataToken(job, rx'[i])
                 /\ k - 1 <= rx'[i].src
                 /\ rx'[i].src <= k + (i - n - 1) + Taken + faults
                 /\ rx'[i].src < sent
      <3>1. i \in (n + 1)..Len(rx) /\ rx'[i] = rx[i]
          BY <1>2, <1>3, <1>4, <2>2
      <3> QED BY <2>2, <3>1 DEF InOrder, QueueFits
    <2> QED BY <1>1, <2>1, <2>2
            DEF QueueFits, EarlyToken, HeaderToken, EndByte, Byte, DataToken,
                Taken, InHand
  <1>6. QueueSorted'
    <2> SUFFICES ASSUME NEW i \in 1..Len(rx'), NEW l \in 1..Len(rx'),
                        i < l, IsPacket(rx'[i]), IsPacket(rx'[l])
                 PROVE  rx'[i].src <= rx'[l].src
        BY DEF QueueSorted, IsPacket
    <2>1. /\ i \in 1..Len(rx) /\ rx'[i] = rx[i]
          /\ l \in 1..Len(rx) /\ rx'[l] = rx[l]
        BY <1>2, <1>3, <1>4
    <2> QED BY <2>1 DEF InOrder, QueueSorted
  <1>7. HandFits(k, n)'
    <2>1. \A i \in 1..Len(rx') :
              IsPacket(rx'[i]) => i \in 1..Len(rx) /\ rx'[i] = rx[i]
        BY <1>2, <1>3, <1>4
    <2> QED BY <1>1, <2>1
            DEF InOrder, HandFits, InHand, HeaderToken, DataToken, IsPacket
  <1>8. HandAccepted' /\ HeadersFit(k, n)' /\ ClientFits(k, n)'
      BY <1>1 DEF InOrder, HandAccepted, HeadersFit, ClientFits
  <1>9. n \in 0..Len(rx')
      BY <1>2, <1>3
  <1> QED BY <1>5, <1>6, <1>7, <1>8, <1>9 DEF InOrder

\* A block that is lost leaves a gap, and a fault is spent.
LEMMA BlockLost ==
    ASSUME TypeInv, NEW k \in Nat, NEW n \in 0..Len(rx), InOrder(k, n),
           Arrive(<<>>), cpc = "data", cpc' = "data", hdrs' = hdrs,
           sent' = sent + 1, faults' = faults + 1
    PROVE  n \in 0..Len(rx') /\ InOrder(k, n)'
  <1>1. rx' = rx /\ UNCHANGED <<pc, phase, cur, blockNumber, job>>
      BY DEF Arrive, TypeInv, TypeOK
  <1>2. /\ sent \in Nat /\ faults \in Nat /\ Len(rx) \in Nat
        /\ Taken \in {0, 1} /\ Taken' = Taken /\ n \in Nat
      BY <1>1, TransferAssumption DEF TypeInv, TypeOK, Taken, InHand
  <1>3. QueueFits(k, n)'
    <2>1. ASSUME NEW i \in (n + 1)..Len(rx), rx[i] # EndByte
          PROVE  /\ DataToken(job, rx[i])
                 /\ k - 1 <= rx[i].src
                 /\ rx[i].src <= k + (i - n - 1) + Taken + (faults + 1)
                 /\ rx[i].src < sent + 1
      <3>1. /\ DataToken(job, rx[i])
            /\ k - 1 <= rx[i].src
            /\ rx[i].src <= k + (i - n - 1) + Taken + faults
            /\ rx[i].src < sent
          BY <2>1 DEF InOrder, QueueFits
      <3>2. rx[i].src \in Nat /\ i \in Nat
          BY <1>2, <3>1 DEF DataToken
      <3>3. rx[i].src <= k + (i - n - 1) + Taken + (faults + 1)
          BY <1>2, <3>1, <3>2
      <3>4. rx[i].src < sent + 1
          BY <1>2, <3>1, <3>2
      <3> QED BY <3>1, <3>3, <3>4
    <2>2. \A i \in 1..n : EarlyToken(job, rx[i])
        BY DEF InOrder, QueueFits
    <2> QED BY <1>1, <1>2, <2>1, <2>2
            DEF QueueFits, EarlyToken, HeaderToken, EndByte, Byte, DataToken
  <1>4. HandFits(k, n)'
    <2>1. ASSUME cur.src \in Nat, cur.src <= k + faults, cur.src < sent
          PROVE  cur.src <= k + (faults + 1) /\ cur.src < sent + 1
        BY <1>2, <2>1
    <2> QED BY <1>1, <2>1
            DEF InOrder, HandFits, InHand, HeaderToken, DataToken, IsPacket
  <1>5. ClientFits(k, n)'
    <2>1. /\ \A i \in 1..Len(rx) : rx[i] # EndByte
          /\ sent <= k + (Len(rx) - n) + Taken + faults
          /\ k <= sent \/ k <= 1
        BY DEF InOrder, ClientFits
    <2>2. /\ sent + 1 <= k + (Len(rx) - n) + Taken + (faults + 1)
          /\ k <= sent + 1 \/ k <= 1
        BY <1>2, <2>1
    <2> QED BY <1>1, <1>2, <2>1, <2>2 DEF ClientFits, EndByte, Byte
  <1>6. QueueSorted' /\ HandAccepted' /\ HeadersFit(k, n)'
      BY <1>1 DEF InOrder, QueueSorted, HandAccepted, HeadersFit, IsPacket
  <1> QED BY <1>1, <1>3, <1>4, <1>5, <1>6 DEF InOrder

\* The answer to a C, sound or damaged or cut short, with or without an echo.
LEMMA HeaderSent ==
    ASSUME job \in Jobs,
           \/ \E echo \in Echoes :
                  SendHeader(echo, HeaderPacket(job)) /\ UNCHANGED faults
           \/ DamageHeader \/ CutHeader
    PROVE  /\ HeaderDue
           /\ hdrs' = hdrs + 1 /\ sent' = sent /\ cpc' \in {"hello", "silent"}
           /\ \E tokens \in Seq(Packets \cup Bytes) :
                 /\ Arrive(tokens)
                 /\ \A i \in 1..Len(tokens) : EarlyToken(job, tokens[i])
                 /\ \A i \in 1..Len(tokens) : i < Len(tokens) => ~IsPacket(tokens[i])
  <1>1. /\ HeaderDue /\ hdrs' = hdrs + 1 /\ sent' = sent
        /\ cpc' \in {"hello", "silent"}
      BY DEF SendHeader, DamageHeader, CutHeader, HeaderDue
  <1>2. HeaderPacket(job) \in Packets /\ HeaderPacket(job).src = -1
      BY HeaderPacketType DEF HeaderPacket, Packet
  <1>3. PICK p \in Packets, echo \in BOOLEAN :
            /\ Arrive(IF echo THEN <<Byte("C"), p>> ELSE <<p>>)
            /\ HeaderToken(job, p)
    <2>1. CASE \E echo \in Echoes :
                   SendHeader(echo, HeaderPacket(job)) /\ UNCHANGED faults
      <3>1. PICK echo \in Echoes : SendHeader(echo, HeaderPacket(job))
          BY <2>1
      <3>2. /\ Arrive(IF echo THEN <<Byte("C"), HeaderPacket(job)>>
                              ELSE <<HeaderPacket(job)>>)
            /\ echo \in BOOLEAN
          BY <3>1, TransferAssumption DEF SendHeader
      <3>3. HeaderToken(job, HeaderPacket(job))
          BY <1>2 DEF HeaderToken
      <3> QED BY <1>2, <3>2, <3>3, Zenon
    <2>2. CASE DamageHeader
      <3>1. PICK p \in Damaged(HeaderPacket(job)), echo \in Echoes :
                SendHeader(echo, p)
          BY <2>2 DEF DamageHeader
      <3>2. p \in Packets /\ HeaderToken(job, p)
          BY <1>2, <3>1, DamagedType, PacketDataNotEmpty DEF HeaderToken
      <3>3. /\ Arrive(IF echo THEN <<Byte("C"), p>> ELSE <<p>>)
            /\ echo \in BOOLEAN
          BY <3>1, TransferAssumption DEF SendHeader
      <3> QED BY <3>2, <3>3, Zenon
    <2>3. CASE CutHeader
      <3>1. PICK p \in CutShort(HeaderPacket(job)) : Arrive(<<Byte("C"), p>>)
          BY <2>3 DEF CutHeader
      <3>2. p \in Packets /\ HeaderToken(job, p)
          BY <1>2, CutShortType DEF HeaderToken
      <3>3. Arrive(IF TRUE THEN <<Byte("C"), p>> ELSE <<p>>)
          BY <3>1
      <3>4. TRUE \in BOOLEAN
          OBVIOUS
      <3> QED BY <3>2, <3>3, <3>4, Zenon
    <2> QED BY <2>1, <2>2, <2>3, Zenon
  <1> DEFINE tokens == IF echo THEN <<Byte("C"), p>> ELSE <<p>>
  <1>4. p \in Packets /\ Byte("C") \in Bytes \ {EndByte}
      BY <1>3 DEF HeaderToken, Bytes, Byte, EndByte
  <1>5. EarlyToken(job, p) /\ EarlyToken(job, Byte("C")) /\ ~IsPacket(Byte("C"))
      BY <1>3, <1>4, BytesNotPackets DEF EarlyToken
  <1>6. tokens \in Seq(Packets \cup Bytes)
      BY <1>4, TokenSeqs
  <1>7. /\ \A i \in 1..Len(tokens) : EarlyToken(job, tokens[i])
        /\ \A i \in 1..Len(tokens) : i < Len(tokens) => ~IsPacket(tokens[i])
    <2>1. CASE echo
      <3>1. tokens = <<Byte("C"), p>>
          BY <2>1
      <3> HIDE DEF tokens
      <3> QED BY <1>5, <3>1
    <2>2. CASE ~echo
      <3>1. tokens = <<p>>
          BY <2>2
      <3> HIDE DEF tokens
      <3> QED BY <1>5, <3>1
    <2> QED BY <2>1, <2>2
  <1> QED BY <1>1, <1>3, <1>6, <1>7

\* Tokens from before the data are put behind such tokens.
LEMMA EarlyArrives ==
    ASSUME TypeInv, NEW tokens \in Seq(Packets \cup Bytes), Arrive(tokens),
           \A i \in 1..Len(rx) : EarlyToken(job, rx[i]),
           \A i \in 1..Len(tokens) : EarlyToken(job, tokens[i])
    PROVE  /\ Len(rx') \in Nat /\ UNCHANGED <<pc, phase, cur, blockNumber, job>>
           /\ \A i \in 1..Len(rx') : EarlyToken(job, rx'[i])
           /\ \A i \in 1..Len(rx') : IsPacket(rx'[i]) => rx'[i].src = -1
  <1>1. /\ rx' = rx \o tokens
        /\ UNCHANGED <<pc, phase, cur, blockNumber, job>>
      BY DEF Arrive
  <1>2. rx \in Seq(Packets \cup Bytes)
      BY DEF TypeInv, TypeOK
  <1>3. /\ Len(rx') = Len(rx) + Len(tokens)
        /\ \A i \in 1..Len(rx') :
               rx'[i] = IF i <= Len(rx) THEN rx[i] ELSE tokens[i - Len(rx)]
      BY <1>1, <1>2, ConcatProperties
  <1>4. Len(rx) \in Nat /\ Len(tokens) \in Nat
      BY <1>2
  <1>5. ASSUME NEW i \in 1..Len(rx') PROVE EarlyToken(job, rx'[i])
    <2>1. CASE i <= Len(rx)
        BY <1>3, <1>4, <2>1
    <2>2. CASE ~(i <= Len(rx))
      <3>1. i - Len(rx) \in 1..Len(tokens)
          BY <1>3, <1>4, <2>2
      <3> QED BY <1>3, <2>2, <3>1
    <2> QED BY <2>1, <2>2
  <1> QED BY <1>1, <1>3, <1>4, <1>5, EarlyTokens

\* A header that goes out when the server has begun with the file.
LEMMA LateHeader ==
    ASSUME TypeInv, NEW k \in Nat, NEW n \in 0..Len(rx), InOrder(k, n),
           \/ \E echo \in Echoes :
                  SendHeader(echo, HeaderPacket(job)) /\ UNCHANGED faults
           \/ DamageHeader \/ CutHeader
    PROVE  \E m \in 0..Len(rx') : InOrder(k, m)'
  <1>1. /\ HeaderDue /\ sent' = sent /\ cpc' \in {"hello", "silent"}
        /\ \E tokens \in Seq(Packets \cup Bytes) :
              /\ Arrive(tokens)
              /\ \A i \in 1..Len(tokens) : EarlyToken(job, tokens[i])
      BY HeaderSent DEF TypeInv, TypeOK
  <1>2. /\ n = Len(rx) /\ sent = 0 /\ k <= 1 /\ HeaderReplies > 1
        /\ \A i \in 1..Len(rx) : EarlyToken(job, rx[i])
    <2>1. cpc = "hello" /\ hdrs < HeaderReplies
        BY <1>1 DEF HeaderDue
    <2>2. /\ n = Len(rx) /\ sent = 0 /\ (k <= sent \/ k <= 1)
          /\ HeaderReplies = 1 => hdrs = 1
          /\ \A i \in 1..n : EarlyToken(job, rx[i])
        BY <2>1 DEF InOrder, ClientFits, HeadersFit, QueueFits
    <2> QED BY <2>1, <2>2, TransferAssumption
  <1>3. PICK tokens \in Seq(Packets \cup Bytes) :
            /\ Arrive(tokens)
            /\ \A i \in 1..Len(tokens) : EarlyToken(job, tokens[i])
      BY <1>1
  <1>4. /\ Len(rx') \in Nat /\ UNCHANGED <<pc, phase, cur, blockNumber, job>>
        /\ \A i \in 1..Len(rx') : EarlyToken(job, rx'[i])
        /\ \A i \in 1..Len(rx') : IsPacket(rx'[i]) => rx'[i].src = -1
      BY <1>2, <1>3, EarlyArrives
  <1>5. PICK m \in Nat : m = Len(rx')
      BY <1>4
  <1>6. QueueFits(k, m)'
      BY <1>4, <1>5 DEF QueueFits, EarlyToken, HeaderToken, EndByte, Byte
  <1>7. QueueSorted'
      BY <1>4 DEF QueueSorted, IsPacket
  <1>8. HeadersFit(k, m)' /\ HandAccepted' /\ ClientFits(k, m)'
      BY <1>1, <1>2, <1>4, <1>5 DEF InOrder, HandAccepted, HeadersFit, ClientFits
  <1>9. HandFits(k, m)'
    <2> SUFFICES ASSUME InHand PROVE HandFits(k, m)'
        BY <1>4 DEF HandFits, InHand
    <2>1. HeaderToken(job, cur)
        BY <1>2 DEF InOrder, HandFits, DataToken
    <2> QED BY <1>2, <1>4, <2>1 DEF HandFits, HeaderToken, IsPacket
  <1>10. m \in 0..Len(rx')
      BY <1>5
  <1> QED BY <1>6, <1>7, <1>8, <1>9, <1>10 DEF InOrder

\* What the client and the link do keeps the window around k: the sound and
\* the damaged block, the repeated and the lost one, the end of the file, and a
\* header that comes too late.
LEMMA WindowClient ==
    ASSUME TypeInv, NEW k \in 0..(sent + 1), NEW n \in 0..Len(rx), InOrder(k, n),
           ClientSends \/ (LinkFault /\ ~HangUp)
    PROVE  /\ k \in 0..(sent' + 1)
           /\ \E m \in 0..Len(rx') : InOrder(k, m)'
  <1>1. job \in Jobs /\ sent \in Nat /\ k \in Nat
      BY DEF TypeInv, TypeOK
  <1>2. \A i \in Nat : DataToken(job, DataPacket(job, i)) /\ DataPacket(job, i).src = i
    <2>1. \A i \in Nat : DataPacket(job, i).src = i
        BY DEF DataPacket, Packet
    <2> QED BY <1>1, <2>1, DataPacketType DEF DataToken
  <1>3. k \in 0..(sent' + 1)
    <2>1. sent' = sent \/ sent' = sent + 1
        BY DEF ClientSends, LinkFault, SendHeader, BeginData, SendData,
               SendEndOfFile, ConfirmEot, LoseBlock, RepeatBlock, DamageBlock,
               DamageHeader, CutBlock, CutHeader
    <2> QED BY <1>1, <2>1
  <1> SUFFICES \E m \in 0..Len(rx') : InOrder(k, m)'
      BY <1>3
  <1>4. CASE SendData
    <2>1. /\ cpc = "data" /\ cpc' = "data" /\ sent' = sent + 1
          /\ UNCHANGED <<hdrs, faults>> /\ Arrive(<<DataPacket(job, sent)>>)
        BY <1>4 DEF SendData
    <2>2. n \in 0..Len(rx') /\ InOrder(k, n)'
        BY <1>1, <1>2, <2>1, BlockArrives
    <2> QED BY <2>2
  <1>5. CASE SendEndOfFile \/ ConfirmEot
    <2>1. n \in 0..Len(rx') /\ InOrder(k, n)'
        BY <1>1, <1>5, EndArrives DEF SendEndOfFile, ConfirmEot, EndByte
    <2> QED BY <2>1
  <1>6. CASE LoseBlock
    <2>1. /\ cpc = "data" /\ cpc' = "data" /\ sent' = sent + 1
          /\ faults' = faults + 1 /\ hdrs' = hdrs /\ Arrive(<<>>)
        BY <1>6 DEF LoseBlock, Fault
    <2>2. n \in 0..Len(rx') /\ InOrder(k, n)'
        BY <1>1, <2>1, BlockLost
    <2> QED BY <2>2
  <1>7. CASE RepeatBlock
    <2>1. /\ cpc = "data" /\ cpc' = "data" /\ sent' = sent /\ sent > 0
          /\ faults' = faults + 1 /\ hdrs' = hdrs
          /\ Arrive(<<DataPacket(job, sent - 1)>>)
        BY <1>7 DEF RepeatBlock, Fault
    <2>2. sent - 1 \in Nat
        BY <1>1, <2>1
    <2>3. n \in 0..Len(rx') /\ InOrder(k, n)'
        BY <1>1, <1>2, <2>1, <2>2, BlockArrives
    <2> QED BY <2>3
  <1>8. CASE DamageBlock
    <2>1. /\ cpc = "data" /\ cpc' = "data" /\ sent' = sent + 1
          /\ faults' = faults + 1 /\ hdrs' = hdrs
        BY <1>8 DEF DamageBlock
    <2>2. PICK p \in Damaged(DataPacket(job, sent)) : Arrive(<<p>>)
        BY <1>8 DEF DamageBlock
    <2>3. p \in Packets /\ p.src = sent /\ (~p.inv \/ ~p.crc)
        BY <1>1, <1>2, DamagedType, DataPacketType, PacketDataNotEmpty
    <2>4. DataToken(job, p)
        BY <1>1, <2>3 DEF DataToken
    <2>5. n \in 0..Len(rx') /\ InOrder(k, n)'
        BY <1>1, <2>1, <2>2, <2>3, <2>4, BlockArrives
    <2> QED BY <2>5
  <1>9. CASE CutBlock
    <2>1. /\ cpc = "data" /\ cpc' = "silent" /\ sent' = sent + 1
          /\ faults' = faults + 1 /\ hdrs' = hdrs
        BY <1>9 DEF CutBlock
    <2>2. PICK p \in CutShort(DataPacket(job, sent)) : Arrive(<<p>>)
        BY <1>9 DEF CutBlock
    <2>3. p \in Packets /\ p.src = sent /\ p.cut # "none"
        BY <1>1, <1>2, CutShortType, DataPacketType
    <2>4. DataToken(job, p)
        BY <1>1, <2>3 DEF DataToken
    <2>5. n \in 0..Len(rx') /\ InOrder(k, n)'
        BY <1>1, <2>1, <2>2, <2>3, <2>4, BlockArrives
    <2> QED BY <2>5
  <1>10. CASE BeginData
    <2>1. /\ cpc = "hello" /\ cpc' \in {"done", "data"}
          /\ UNCHANGED <<serverVars, job, sent, hdrs, faults>>
        BY <1>10 DEF BeginData
    <2>2. /\ n = Len(rx) /\ sent = 0
          /\ \A i \in 1..Len(rx) : rx[i] # EndByte
        BY <2>1, EarlyTokens DEF InOrder, ClientFits, QueueFits
    <2>3. Taken \in {0, 1} /\ faults \in Nat /\ Len(rx) \in Nat
        BY TransferAssumption DEF Taken, TypeInv, TypeOK
    <2>4. sent <= k + (Len(rx) - n) + Taken + faults
        BY <1>1, <2>2, <2>3
    <2>5. InOrder(k, n)'
      <3>1. UNCHANGED <<rx, pc, cur, blockNumber, job, sent, hdrs, faults>>
          BY <2>1 DEF serverVars, modemVars
      <3>2. ClientFits(k, n)'
          BY <2>1, <2>2, <2>4, <3>1
          DEF InOrder, ClientFits, Taken, InHand, EndByte, Byte
      <3> QED BY <3>1, <3>2
              DEF InOrder, QueueFits, QueueSorted, HeadersFit, HandFits,
                  HandAccepted, InHand, Taken, IsPacket
    <2> QED BY <2>1, <2>5 DEF serverVars, modemVars
  <1>11. CASE \/ \E echo \in Echoes :
                  SendHeader(echo, HeaderPacket(job)) /\ UNCHANGED faults
              \/ DamageHeader \/ CutHeader
      BY <1>1, <1>11, LateHeader
  <1> QED BY <1>4, <1>5, <1>6, <1>7, <1>8, <1>9, <1>10, <1>11
          DEF ClientSends, LinkFault

\* Until the header is acknowledged the client sends nothing but headers; the
\* header of a client that sends one is the last thing it sends.
LEMMA EarlyClient ==
    ASSUME TypeInv, HeadersOnly, HeaderOnce,
           ClientSends \/ (LinkFault /\ ~HangUp)
    PROVE  HeadersOnly' /\ HeaderOnce'
  <1>1. UNCHANGED <<pc, phase>>
      BY DEF ClientSends, LinkFault, SendHeader, BeginData, SendData,
             SendEndOfFile, ConfirmEot, LoseBlock, RepeatBlock, DamageBlock,
             DamageHeader, CutBlock, CutHeader, Arrive, serverVars, modemVars
  <1> SUFFICES ASSUME Asking PROVE HeadersOnly' /\ HeaderOnce'
      BY <1>1 DEF HeadersOnly, HeaderOnce, Asking
  <1>2. cpc \in {"hello", "silent"} /\ ~Seen("ACK")
      BY DEF TypeInv, NoDataYet, Seen
  <1>3. \/ \E echo \in Echoes :
               SendHeader(echo, HeaderPacket(job)) /\ UNCHANGED faults
        \/ DamageHeader \/ CutHeader
      BY <1>2 DEF ClientSends, LinkFault, BeginData, SendData, SendEndOfFile,
                  ConfirmEot, LoseBlock, RepeatBlock, DamageBlock, CutBlock
  <1>4. HeaderDue /\ hdrs' = hdrs + 1 /\ sent' = sent
      BY <1>3, HeaderSent DEF TypeInv, TypeOK
  <1>5. PICK tokens \in Seq(Packets \cup Bytes) :
            /\ Arrive(tokens)
            /\ \A i \in 1..Len(tokens) : EarlyToken(job, tokens[i])
            /\ \A i \in 1..Len(tokens) : i < Len(tokens) => ~IsPacket(tokens[i])
      BY <1>3, HeaderSent DEF TypeInv, TypeOK
  <1>6. sent = 0 /\ \A i \in 1..Len(rx) : EarlyToken(job, rx[i])
      BY DEF HeadersOnly
  <1>7. job' = job /\ \A i \in 1..Len(rx') : EarlyToken(job, rx'[i])
      BY <1>5, <1>6, EarlyArrives
  <1>8. HeadersOnly'
      BY <1>4, <1>6, <1>7 DEF HeadersOnly, EarlyToken, HeaderToken, EndByte, Byte
  <1>9. ASSUME HeaderReplies = 1 PROVE HeaderOnce'
    <2>1. hdrs = 0 /\ hdrs' = 1 /\ rx = <<>>
        BY <1>4, <1>9 DEF HeaderOnce, HeaderDue, TypeInv, TypeOK
    <2>2. pc \notin {"block", "parse", "ackHeader"}
        BY <1>9, <2>1 DEF HeaderOnce
    <2>3. rx' = tokens
        BY <1>5, <2>1 DEF Arrive
    <2> QED BY <1>1, <1>5, <2>1, <2>2, <2>3 DEF HeaderOnce, IsPacket
  <1> QED BY <1>8, <1>9 DEF HeaderOnce

LEMMA OrderClient ==
    ASSUME TypeInv, AcceptInv,
           ClientSends \/ (LinkFault /\ ~HangUp)
    PROVE  AcceptInv'
  <1>1. HeadersOnly' /\ HeaderOnce'
      BY EarlyClient DEF AcceptInv
  <1>2. UNCHANGED <<pc, phase, blockNumber, fs, filePath, received, job>>
      BY DEF ClientSends, LinkFault, SendHeader, BeginData, SendData,
             SendEndOfFile, ConfirmEot, LoseBlock, RepeatBlock, DamageBlock,
             DamageHeader, CutBlock, CutHeader, Arrive, serverVars, modemVars,
             fileVars, sessionVars
  <1>3. ASSUME pc = "open" PROVE \E m \in 0..Len(rx') : InOrder(0, m)'
    <2>1. PICK n \in 0..Len(rx) : InOrder(0, n)
        BY <1>3 DEF AcceptInv, OrderInv
    <2>2. 0 \in 0..(sent + 1)
        BY DEF TypeInv, TypeOK
    <2> QED BY <2>1, <2>2, WindowClient
  <1>4. ASSUME Storing
        PROVE  \E k \in 0..(sent' + 1), m \in 0..Len(rx') :
                   InOrder(k, m)' /\ FileFits(k)'
    <2>1. PICK k \in 0..(sent + 1), n \in 0..Len(rx) : InOrder(k, n) /\ FileFits(k)
        BY <1>4 DEF AcceptInv, OrderInv
    <2>2. k \in 0..(sent' + 1) /\ \E m \in 0..Len(rx') : InOrder(k, m)'
        BY <2>1, WindowClient
    <2>3. FileFits(k)'
        BY <1>2, <2>1, FileFitsUnchanged
    <2> QED BY <2>2, <2>3
  <1>5. ASSUME pc \in {"eot", "integrity"}
        PROVE  \E k \in 0..(sent' + 1) :
                   Clean(fs[filePath], k) \/ Spoiled(fs[filePath], k)
    <2>1. PICK k \in 0..(sent + 1) : Clean(fs[filePath], k) \/ Spoiled(fs[filePath], k)
        BY <1>5 DEF AcceptInv, OrderInv
    <2>2. sent \in Nat /\ (sent' = sent \/ sent' = sent + 1)
        BY DEF TypeInv, TypeOK, ClientSends, LinkFault, SendHeader, BeginData,
               SendData, SendEndOfFile, ConfirmEot, LoseBlock, RepeatBlock,
               DamageBlock, DamageHeader, CutBlock, CutHeader
    <2>3. k \in 0..(sent' + 1)
        BY <2>2
    <2> QED BY <2>1, <2>3
  <1>6. OrderInv'
      BY <1>2, <1>3, <1>4, <1>5 DEF AcceptInv, OrderInv, Storing, Clean, Spoiled
  <1> QED BY <1>1, <1>6 DEF AcceptInv

-----------------------------------------------------------------------------
(* The theorems.                                                           *)

LEMMA OrderNext ==
    ASSUME TypeInv, AcceptInv, SizeTellsHeader, MaxFaults < Modulus, [Next]_vars
    PROVE  AcceptInv'
  <1>1. CASE ServerStep \/ TimerExpires
      BY <1>1, OrderSession DEF ServerStep, TimerExpires
  <1>2. CASE ClientSends \/ (LinkFault /\ ~HangUp)
      BY <1>2, OrderClient
  <1>3. CASE \E j \in Jobs : Connect(j)
      BY <1>3 DEF Connect, AcceptInv, OrderInv, HeadersOnly, HeaderOnce, Asking, Storing
  <1>4. CASE UNCHANGED <<rx, cur, pc, phase, blockNumber, fileVars, received,
                         clientVars>>
    <2>1. UNCHANGED <<rx, cur, pc, phase, blockNumber, fs, filePath, received,
                      job, cpc, sent, hdrs, faults>>
        BY <1>4 DEF fileVars, clientVars
    <2>2. HeadersOnly' /\ HeaderOnce'
        BY <2>1 DEF AcceptInv, HeadersOnly, HeaderOnce, Asking, IsPacket
    <2>3. ASSUME NEW k, NEW n, InOrder(k, n) PROVE InOrder(k, n)'
        BY <2>1, <2>3 DEF InOrder, QueueFits, QueueSorted, HeadersFit, HandFits,
                          HandAccepted, ClientFits, InHand, Taken, IsPacket
    <2>4. ASSUME NEW k, FileFits(k) PROVE FileFits(k)'
        BY <2>1, <2>4, FileFitsUnchanged
    <2>5. OrderInv'
        BY <2>1, <2>3, <2>4 DEF AcceptInv, OrderInv, Storing, Clean, Spoiled
    <2> QED BY <2>2, <2>5 DEF AcceptInv
  <1>5. RebootTimer \/ Rebind \/ HangUp \/ UNCHANGED vars =>
            UNCHANGED <<rx, cur, pc, phase, blockNumber, fileVars, received,
                        clientVars>>
      BY DEF RebootTimer, PostedReboot, Rebind, HangUp, vars, serverVars,
             modemVars, sessionVars
  <1> QED BY <1>1, <1>2, <1>3, <1>4, <1>5 DEF Next, LinkFault

\* The invariant of Acceptance holds if fewer packets suffer a fault in a session
\* than there are block numbers, and a client sends one header per session or an
\* upload in STX packets whose size is not that of a header.
THEOREM AcceptanceInvariant ==
    ASSUME SizeTellsHeader, MaxFaults < Modulus
    PROVE  Spec => []AcceptInv
  <1>1. Init => TypeInv /\ AcceptInv
      BY TypeInit, OrderInit
  <1>2. TypeInv /\ AcceptInv /\ [Next]_vars => (TypeInv /\ AcceptInv)'
      BY TypeNext, OrderNext
  <1> QED BY <1>1, <1>2, PTL DEF Spec

\* A file the server confirms is the file the client sent: EOT never goes out
\* over a lost, repeated, damaged or reordered block, nor over a header that was
\* stored in the place of block 0.
THEOREM AcceptedFileIsSource ==
    ASSUME SizeTellsHeader, MaxFaults < Modulus
    PROVE  Spec => []AcceptedIsSource
  <1>1. AcceptInv => AcceptedIsSource
      BY DEF AcceptInv, OrderInv, AcceptedIsSource
  <1> QED BY <1>1, AcceptanceInvariant, PTL

\* While receive_APK runs on an upload whose client sent one header, the file on
\* disk is the beginning of the padded source: no block is missing, stored twice
\* or out of order.
THEOREM BlocksStoredInOrder ==
    ASSUME HeaderReplies = 1, MaxFaults < Modulus
    PROVE  Spec => []ReceivedInOrder
  <1>1. SizeTellsHeader
      BY DEF SizeTellsHeader
  <1>2. AcceptInv => ReceivedInOrder
      BY DEF AcceptInv, OrderInv, ReceivedInOrder, Receiving, Storing, FileFits,
             Clean, Spoiled
  <1> QED BY <1>1, <1>2, AcceptanceInvariant, PTL
=============================================================================
