------------------------------- MODULE ApkFile -------------------------------
(***************************************************************************)
(* The bytes of an upload: how the sender cuts a file into YMODEM blocks,  *)
(* and how the server takes the padding of the last block off again        *)
(* (RemovePadding and checkFileIntegrity of AbstractYModemServer).         *)
(*                                                                         *)
(* A file is a sequence of units.  A unit stands for a group of bytes that *)
(* the properties never split; with a unit of one byte LongLen is 1024 and *)
(* ShortLen 128.  TLC uses larger units, the proofs use any.               *)
(***************************************************************************)
EXTENDS Integers, Sequences

CONSTANTS
    LongLen,    \* units in the data field of an STX packet
    ShortLen,   \* units in the data field of an SOH packet
    Units,      \* the values a unit may have
    PAD         \* the unit made of CPMEOF (0x1A) bytes

ASSUME LengthAssumption ==
    /\ LongLen \in Nat \ {0}
    /\ ShortLen \in Nat \ {0}
    /\ ShortLen <= LongLen
    /\ PAD \in Units

-----------------------------------------------------------------------------
(* The sender's side: a file continued for ever with CPMEOF, and the       *)
(* consecutive blocks of len units it is sent in.                          *)

PaddedAt(s, i) == IF i <= Len(s) THEN s[i] ELSE PAD

BlockData(s, len, i) == [x \in 1..len |-> PaddedAt(s, i * len + x)]

BlockCount(s, len) == (Len(s) + len - 1) \div len

\* f is how a file looks after some whole number of blocks of s, in order.
IsPaddedPrefix(f, s) == \A i \in 1..Len(f) : f[i] = PaddedAt(s, i)

-----------------------------------------------------------------------------
(* The server's side.                                                      *)

\* Mutant: only a whole block of padding is recognised.
WholeBlock(expectedSize) == LongLen

\* 1024 - expectedSize % 1024: a whole block when the size is a multiple.
Remainder(expectedSize) == LongLen - (expectedSize % LongLen)

\* The last n units of f are all CPMEOF.
EndsInPadding(f, n) ==
    /\ n <= Len(f)
    /\ \A i \in (Len(f) - n + 1)..Len(f) : f[i] = PAD

\* A file shorter than the remainder makes seek() throw; the exception is
\* swallowed and the file stays as it was, as it does without padding.
RemovePadding(f, expectedSize) ==
    LET n == Remainder(expectedSize)
    IN  IF EndsInPadding(f, n) THEN SubSeq(f, 1, Len(f) - n) ELSE f
=============================================================================
