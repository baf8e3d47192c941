--------------------------------- MODULE Crc ---------------------------------
(***************************************************************************)
(* calcCRC of YModemCRC16, one step for a byte, and the comparison that    *)
(* Modem makes with the two bytes behind a block.  An integer of Java is   *)
(* the set of its bits that are set, from 0 to 31, so that the exclusive   *)
(* or is the symmetric difference.  The sender divides bit by bit.         *)
(*                                                                         *)
(* The remainder is linear (CrcIsLinear in CrcProofs): the block here may  *)
(* be read as the difference of what was sent and what arrived, and crc as *)
(* that of their remainders.                                               *)
(***************************************************************************)
EXTENDS Integers, Sequences, FiniteSetsExt

CONSTANTS
    MaxLen      \* bound: bytes of a block

ASSUME CrcAssumption == MaxLen \in Nat

VARIABLES
    block,      \* the bytes that were fed
    crc,        \* of calcCRC
    remainder   \* what the sender has after the same bytes

vars == <<block, crc, remainder>>

Byte == SUBSET (0..7)

Short == SUBSET (0..15)

Zero == {}

a ^^ b == SymDiff(a, b)

Left(n, w) == {k \in n..31 : k - n \in w}

\* Of an int that is not negative.
Right(n, w) == {k \in 0..(31 - n) : k + n \in w}

\* A byte that becomes an int keeps its sign.
Extended(b) == b \cup (IF 7 \in b THEN 8..31 ELSE {})

Bits(n) == {k \in 0..15 : (n \div 2^k) % 2 = 1}

table ==
    <<\h0000, \h1021, \h2042, \h3063, \h4084, \h50A5, \h60C6, \h70E7,
      \h8108, \h9129, \hA14A, \hB16B, \hC18C, \hD1AD, \hE1CE, \hF1EF,
      \h1231, \h0210, \h3273, \h2252, \h52B5, \h4294, \h72F7, \h62D6,
      \h9339, \h8318, \hB37B, \hA35A, \hD3BD, \hC39C, \hF3FF, \hE3DE,
      \h2462, \h3443, \h0420, \h1401, \h64E6, \h74C7, \h44A4, \h5485,
      \hA56A, \hB54B, \h8528, \h9509, \hE5EE, \hF5CF, \hC5AC, \hD58D,
      \h3653, \h2672, \h1611, \h0630, \h76D7, \h66F6, \h5695, \h46B4,
      \hB75B, \hA77A, \h9719, \h8738, \hF7DF, \hE7FE, \hD79D, \hC7BC,
      \h48C4, \h58E5, \h6886, \h78A7, \h0840, \h1861, \h2802, \h3823,
      \hC9CC, \hD9ED, \hE98E, \hF9AF, \h8948, \h9969, \hA90A, \hB92B,
      \h5AF5, \h4AD4, \h7AB7, \h6A96, \h1A71, \h0A50, \h3A33, \h2A12,
      \hDBFD, \hCBDC, \hFBBF, \hEB9E, \h9B79, \h8B58, \hBB3B, \hAB1A,
      \h6CA6, \h7C87, \h4CE4, \h5CC5, \h2C22, \h3C03, \h0C60, \h1C41,
      \hEDAE, \hFD8F, \hCDEC, \hDDCD, \hAD2A, \hBD0B, \h8D68, \h9D49,
      \h7E97, \h6EB6, \h5ED5, \h4EF4, \h3E13, \h2E32, \h1E51, \h0E70,
      \hFF9F, \hEFBE, \hDFDD, \hCFFC, \hBF1B, \hAF3A, \h9F59, \h8F78,
      \h9188, \h81A9, \hB1CA, \hA1EB, \hD10C, \hC12D, \hF14E, \hE16F,
      \h1080, \h00A1, \h30C2, \h20E3, \h5004, \h4025, \h7046, \h6067,
      \h83B9, \h9398, \hA3FB, \hB3DA, \hC33D, \hD31C, \hE37F, \hF35E,
      \h02B1, \h1290, \h22F3, \h32D2, \h4235, \h5214, \h6277, \h7256,
      \hB5EA, \hA5CB, \h95A8, \h8589, \hF56E, \hE54F, \hD52C, \hC50D,
      \h34E2, \h24C3, \h14A0, \h0481, \h7466, \h6447, \h5424, \h4405,
      \hA7DB, \hB7FA, \h8799, \h97B8, \hE75F, \hF77E, \hC71D, \hD73C,
      \h26D3, \h36F2, \h0691, \h16B0, \h6657, \h7676, \h4615, \h5634,
      \hD94C, \hC96D, \hF90E, \hE92F, \h99C8, \h89E9, \hB98A, \hA9AB,
      \h5844, \h4865, \h7806, \h6827, \h18C0, \h08E1, \h3882, \h28A3,
      \hCB7D, \hDB5C, \hEB3F, \hFB1E, \h8BF9, \h9BD8, \hABBB, \hBB9A,
      \h4A75, \h5A54, \h6A37, \h7A16, \h0AF1, \h1AD0, \h2AB3, \h3A92,
      \hFD2E, \hED0F, \hDD6C, \hCD4D, \hBDAA, \hAD8B, \h9DE8, \h8DC9,
      \h7C26, \h6C07, \h5C64, \h4C45, \h3CA2, \h2C83, \h1CE0, \h0CC1,
      \hEF1F, \hFF3E, \hCF5D, \hDF7C, \hAF9B, \hBFBA, \h8FD9, \h9FF8,
      \h6E17, \h7E36, \h4E55, \h5E74, \h2E93, \h3EB2, \h0ED1, \h1EF0>>

\* table[index]; 0xFFFF and 0xff are masks.
Entry ==
    [index \in Byte |-> Bits(table[1 + (CHOOSE i \in 0..255 : Bits(i) = index)])]

\* Mutant: the half that is not looked up is dropped.
UpdateDropsHalf(c, b) == Entry[Right(8, c) ^^ (Extended(b) \cap 0..7)]

Update(c, b) ==
    (Left(8, c) ^^ Entry[Right(8, c) ^^ (Extended(b) \cap 0..7)]) \cap 0..15

\* Mutant: a negative number is left as it is.
ReceivedAsInt(b1, b2) == Left(8, Extended(b1)) \cup (Extended(b2) \cap 0..7)

\* The two bytes behind the block.  A negative number is cut down to 16 bits.
ReceivedCRC(b1, b2) ==
    LET received == Left(8, Extended(b1)) \cup (Extended(b2) \cap 0..7)
    IN  IF 31 \in received THEN received \cap 0..15 ELSE received

-----------------------------------------------------------------------------
(* The sender: division by x^16 + x^12 + x^5 + 1, which is the polynomial  *)
(* of YMODEM.                                                              *)

Polynomial == {16, 12, 5, 0}

DivideBit(r) == IF 15 \in r THEN Left(1, r) ^^ Polynomial ELSE Left(1, r)

DivideHalf(r) == DivideBit(DivideBit(DivideBit(DivideBit(r))))

Divide(r) == DivideHalf(DivideHalf(r))

DivideByte(r, b) == Divide(r ^^ Left(8, b))

UpperByte(r) == Right(8, r)

LowerByte(r) == r \cap 0..7

-----------------------------------------------------------------------------
Init == block = <<>> /\ crc = Zero /\ remainder = Zero

Feed(b) ==
    /\ Len(block) < MaxLen
    /\ block' = Append(block, b)
    /\ crc' = Update(crc, b)
    /\ remainder' = DivideByte(remainder, b)

Next == \E b \in Byte : Feed(b)

Spec == Init /\ [][Next]_vars

-----------------------------------------------------------------------------
(* Properties                                                              *)

\* Each of the 256 entries of the table is the remainder of its index.
ASSUME TableAssumption ==
    \A index \in Byte : Entry[index] = Divide(Left(8, index))

\* A block that arrives as it was sent is accepted: the table, the shifts and the
\* masks, and the two signed bytes that come behind the block, give the number that
\* the sender computes by the standard of YMODEM.
CrcIsRemainder == ReceivedCRC(UpperByte(remainder), LowerByte(remainder)) = crc

\* The block begins with zeros, has two bytes at i and i + 1, the first of which is
\* not zero, and ends with zeros.
Burst(i) ==
    /\ i \in 1..Len(block)
    /\ block[i] # Zero
    /\ \A j \in 1..Len(block) : block[j] # Zero => j \in {i, i + 1}

\* No change of up to two neighbouring bytes passes for the block that was sent, and
\* none is forgotten when another unchanged byte follows.
ChangeIsSeen ==
    (\E i \in 1..Len(block) : Burst(i)) => crc # Zero /\ Update(crc, Zero) # Zero
=============================================================================
