------------------------------ MODULE Acceptance ------------------------------
(***************************************************************************)
(* Why an upload arrives whole or not at all: the inductive invariant      *)
(* behind AcceptedIsSource and ReceivedInOrder of Transfer.  It holds as   *)
(* long as fewer packets are lost, repeated or damaged in a session than   *)
(* there are block numbers.                                                *)
(*                                                                         *)
(* A block is known by its number modulo Modulus only.  The argument is    *)
(* about the distance between the blocks on their way and the k blocks     *)
(* that are stored: a block is never more than one behind, and ahead by no *)
(* more than its place in the queue plus the faults so far.  Of the blocks *)
(* in that window only block k has the number the server expects.          *)
(*                                                                         *)
(* A client that answers every C may leave headers in front of its data.   *)
(* A header has number 0: one that is read while the file is empty is      *)
(* stored in the place of block 0, and the file is spoiled.                *)
(***************************************************************************)
EXTENDS Transfer

\* receive_Header is still running, or has just returned.
Asking ==
    \/ pc \in {"signal", "first", "seek", "parse", "ackHeader"}
    \/ pc \in {"block", "thrown"} /\ phase = "header"

\* The client's end of file on its way.
EndByte == Byte("EOT")

\* A data packet, or a damaged one whose damage readBlock notices.
DataToken(j, t) ==
    /\ t \in Packets
    /\ t.src \in Nat
    /\ t.inv /\ t.crc /\ t.cut = "none" => t = DataPacket(j, t.src)

\* One packet is out of the queue and being read.
InHand == pc \in {"block", "write"}

Taken == IF InHand THEN 1 ELSE 0

\* A header, or a damaged one whose damage readBlock notices.
HeaderToken(j, t) ==
    /\ t \in Packets
    /\ t.src = -1
    /\ t.inv /\ t.crc /\ t.cut = "none" => t = HeaderPacket(j)

\* What a client sends before its data.
EarlyToken(j, t) == t \in Bytes \ {EndByte} \/ HeaderToken(j, t)

\* What is in the queue when k blocks are stored: n tokens from before the
\* data, the blocks in the window, the end of the file.
QueueFits(k, n) ==
    /\ \A i \in 1..n : EarlyToken(job, rx[i])
    /\ \A i \in (n + 1)..Len(rx) :
        \/ rx[i] = EndByte
        \/ /\ DataToken(job, rx[i])
           /\ k - 1 <= rx[i].src
           /\ rx[i].src <= k + (i - n - 1) + Taken + faults
           /\ rx[i].src < sent

QueueSorted ==
    \A i, l \in 1..Len(rx) :
        i < l /\ IsPacket(rx[i]) /\ IsPacket(rx[l]) => rx[i].src <= rx[l].src

\* The headers are gone when block 1 is stored, and all but the first of them
\* are only there if the client may send more than one.
HeadersFit(k, n) ==
    /\ n > 0 => k <= 1
    /\ HeaderReplies = 1 => n = 0 /\ hdrs = 1

HandFits(k, n) ==
    InHand =>
        /\ \/ HeaderToken(job, cur) /\ k <= 1 /\ HeaderReplies > 1
           \/ /\ DataToken(job, cur)
              /\ k - 1 <= cur.src
              /\ cur.src <= k + faults
              /\ cur.src < sent
              /\ n = 0
        /\ \A i \in 1..Len(rx) : IsPacket(rx[i]) => cur.src <= rx[i].src

HandAccepted ==
    pc = "write" => cur.inv /\ cur.crc /\ cur.cut = "none" /\ cur.num = blockNumber

ClientFits(k, n) ==
    /\ k <= sent \/ k <= 1
    /\ cpc = "hello" => n = Len(rx) /\ sent = 0
    /\ cpc = "data" =>
        /\ \A i \in 1..Len(rx) : rx[i] # EndByte
        /\ sent <= k + (Len(rx) - n) + Taken + faults

InOrder(k, n) ==
    /\ QueueFits(k, n) /\ QueueSorted /\ HeadersFit(k, n)
    /\ HandFits(k, n) /\ HandAccepted /\ ClientFits(k, n)

\* The first k blocks of the file.
Clean(f, k) ==
    /\ Len(f) = k * DataLen(job)
    /\ IsPaddedPrefix(f, job.source)

\* The same with a header in the place of block 0.
Spoiled(f, k) ==
    /\ HeaderReplies > 1
    /\ k > 0
    /\ Len(f) = ShortLen + (k - 1) * DataLen(job)
    /\ \A i \in (ShortLen + 1)..Len(f) :
           f[i] = PaddedAt(job.source, i + (DataLen(job) - ShortLen))

FileFits(k) ==
    /\ blockNumber = k % Modulus
    /\ Clean(fs[filePath], k) \/ Spoiled(fs[filePath], k)

Storing == pc \in {"next", "write"} \/ (pc = "block" /\ phase = "apk")

OrderInv ==
    /\ pc = "open" => \E n \in 0..Len(rx) : InOrder(0, n)
    /\ Storing =>
           \E k \in 0..(sent + 1), n \in 0..Len(rx) : InOrder(k, n) /\ FileFits(k)
    /\ pc \in {"eot", "integrity"} =>
           \E k \in 0..(sent + 1) : Clean(fs[filePath], k) \/ Spoiled(fs[filePath], k)
    /\ pc = "rename" => fs[filePath] = job.source
    /\ pc \in {"sendEot", "awaitEot", "validate"} /\ received = Firmware
           => fs[Firmware] = job.source

\* Before the header is acknowledged there is nothing but headers on their way.
HeadersOnly ==
    Asking =>
        /\ sent = 0
        /\ \A i \in 1..Len(rx) : EarlyToken(job, rx[i])

\* The header of a client that sends one is read or is the last thing in the
\* queue.
HeaderOnce ==
    Asking /\ HeaderReplies = 1 =>
        /\ hdrs = 0 => rx = <<>>
        /\ \A i \in 1..Len(rx) : i < Len(rx) => ~IsPacket(rx[i])
        /\ pc \in {"block", "parse", "ackHeader"} => rx = <<>> /\ hdrs = 1

\* A file with a header in front is told from the client's file by its size: the
\* data comes in STX packets, whose size is not that of a header, and the file
\* does not have the size of a header.
SizeTellsHeader ==
    HeaderReplies > 1 =>
        /\ ShortLen < LongLen
        /\ \A j \in Jobs : ~j.short /\ Len(j.source) # ShortLen

\* While it runs, receive_APK has stored exactly the first k blocks, or a header
\* and the blocks 1 to k - 1, what is on its way is in the window around k, and a
\* file that passed the size check is the client's file.
AcceptInv == OrderInv /\ HeadersOnly /\ HeaderOnce
=============================================================================
