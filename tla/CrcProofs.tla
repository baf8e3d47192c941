------------------------------ MODULE CrcProofs ------------------------------
(***************************************************************************)
(* calcCRC computes the remainder, and sees every change of two            *)
(* neighbouring bytes, for blocks of every length.  That each entry of the *)
(* table is the remainder of its index is TableAssumption.                 *)
(***************************************************************************)
EXTENDS Crc, SequenceTheorems, TLAPS

-----------------------------------------------------------------------------
(* Words.                                                                  *)

LEMMA ByteIsShort == Byte \subseteq Short /\ Zero \in Byte
    BY DEF Byte, Short, Zero

LEMMA XorOfShorts ==
    ASSUME NEW r \in Short, NEW s \in Short
    PROVE  r ^^ s \in Short /\ (r ^^ s = Zero <=> r = s)
    BY DEF Short, Zero, ^^, SymDiff

LEMMA LeftOfByte ==
    ASSUME NEW b \in Byte
    PROVE  /\ Left(8, b) \in Short
           /\ \A k \in 0..15 : k \in Left(8, b) <=> k \in 8..15 /\ k - 8 \in b
    BY DEF Byte, Short, Left

LEMMA RightOfShort ==
    ASSUME NEW r \in Short
    PROVE  /\ Right(8, r) \in Byte
           /\ \A k \in 0..7 : k \in Right(8, r) <=> k + 8 \in r
    BY DEF Byte, Short, Right

LEMMA MaskedByte ==
    ASSUME NEW b \in Byte
    PROVE  Extended(b) \cap 0..7 = b
  <1>1. CASE 7 \in b
    <2>1. Extended(b) = b \cup 8..31
        BY <1>1 DEF Extended
    <2>2. ASSUME NEW k \in 8..31 PROVE k \notin 0..7
        OBVIOUS
    <2> QED BY <2>1, <2>2 DEF Byte
  <1>2. CASE 7 \notin b
      BY <1>2 DEF Byte, Extended
  <1> QED BY <1>1, <1>2

-----------------------------------------------------------------------------
(* Division.                                                               *)

LEMMA DivideBitType ==
    ASSUME NEW r \in Short
    PROVE  DivideBit(r) \in Short
    BY DEF Short, DivideBit, Left, Polynomial, ^^, SymDiff

LEMMA DivideBitLinear ==
    ASSUME NEW r \in Short, NEW s \in Short
    PROVE  DivideBit(r ^^ s) = DivideBit(r) ^^ DivideBit(s)
  <1>1. Left(1, r ^^ s) = Left(1, r) ^^ Left(1, s)
      BY DEF Left, ^^, SymDiff
  <1>2. 15 \in r ^^ s <=> ~(15 \in r <=> 15 \in s)
      BY DEF ^^, SymDiff
  <1>3. CASE 15 \in r /\ 15 \in s
      BY <1>1, <1>2, <1>3 DEF DivideBit, ^^, SymDiff
  <1>4. CASE 15 \in r /\ 15 \notin s
      BY <1>1, <1>2, <1>4 DEF DivideBit, ^^, SymDiff
  <1>5. CASE 15 \notin r /\ 15 \in s
      BY <1>1, <1>2, <1>5 DEF DivideBit, ^^, SymDiff
  <1>6. CASE 15 \notin r /\ 15 \notin s
      BY <1>1, <1>2, <1>6 DEF DivideBit
  <1> QED BY <1>3, <1>4, <1>5, <1>6

\* Nothing but 0 has remainder 0: the polynomial has the term 1.
LEMMA DivideBitKernel ==
    ASSUME NEW r \in Short, DivideBit(r) = Zero
    PROVE  r = Zero
  <1>1. CASE 15 \in r
    <2>1. 0 \notin Left(1, r) /\ 0 \in Polynomial
        BY DEF Left, Polynomial
    <2>2. 0 \in DivideBit(r)
        BY <1>1, <2>1 DEF DivideBit, ^^, SymDiff
    <2> QED BY <2>2 DEF Zero
  <1>2. CASE 15 \notin r
    <2>1. Left(1, r) = {}
        BY <1>2 DEF DivideBit, Zero
    <2>2. ASSUME NEW k \in r PROVE FALSE
      <3>1. k \in 0..15
          BY DEF Short
      <3>2. k + 1 \in Left(1, r)
          BY <3>1 DEF Left
      <3> QED BY <2>1, <3>2
    <2> QED BY <2>2 DEF Zero
  <1> QED BY <1>1, <1>2

LEMMA DivideHalfType ==
    ASSUME NEW r \in Short
    PROVE  DivideHalf(r) \in Short
    BY DivideBitType DEF DivideHalf

LEMMA DivideHalfLinear ==
    ASSUME NEW r \in Short, NEW s \in Short
    PROVE  DivideHalf(r ^^ s) = DivideHalf(r) ^^ DivideHalf(s)
    BY DivideBitType, DivideBitLinear DEF DivideHalf

LEMMA DivideHalfKernel ==
    ASSUME NEW r \in Short, DivideHalf(r) = Zero
    PROVE  r = Zero
    BY DivideBitType, DivideBitKernel DEF DivideHalf

LEMMA DivideType ==
    ASSUME NEW r \in Short
    PROVE  Divide(r) \in Short
    BY DivideHalfType DEF Divide

LEMMA DivideLinear ==
    ASSUME NEW r \in Short, NEW s \in Short
    PROVE  Divide(r ^^ s) = Divide(r) ^^ Divide(s)
    BY DivideHalfType, DivideHalfLinear DEF Divide

LEMMA DivideKernel ==
    ASSUME NEW r \in Short, Divide(r) = Zero
    PROVE  r = Zero
    BY DivideHalfType, DivideHalfKernel DEF Divide

\* As long as no bit comes to the top, division shifts and does no more.
LEMMA DivideBitOfLow ==
    ASSUME NEW b \in Byte, NEW n \in 0..7
    PROVE  DivideBit(Left(n, b)) = Left(n + 1, b)
  <1>1. 15 \notin Left(n, b)
      BY DEF Left, Byte
  <1>2. Left(1, Left(n, b)) = Left(n + 1, b)
    <2>1. ASSUME NEW k \in 0..31
          PROVE  k \in Left(1, Left(n, b)) <=> k \in Left(n + 1, b)
      <3>1. k \in Left(1, Left(n, b)) <=> k \in 1..31 /\ k - 1 \in Left(n, b)
          BY DEF Left
      <3>2. k - 1 \in Left(n, b) <=> k - 1 \in n..31 /\ (k - 1) - n \in b
          BY DEF Left
      <3>3. k \in Left(n + 1, b) <=> k \in (n + 1)..31 /\ k - (n + 1) \in b
          BY DEF Left
      <3>4. (k - 1) - n = k - (n + 1)
          OBVIOUS
      <3>5. k \in 1..31 /\ k - 1 \in n..31 <=> k \in (n + 1)..31
          OBVIOUS
      <3> QED BY <3>1, <3>2, <3>3, <3>4, <3>5
    <2>2. Left(1, Left(n, b)) \subseteq 0..31 /\ Left(n + 1, b) \subseteq 0..31
        BY DEF Left
    <2> QED BY <2>1, <2>2
  <1> QED BY <1>1, <1>2 DEF DivideBit

LEMMA DivideLow ==
    ASSUME NEW b \in Byte
    PROVE  Divide(b) = Left(8, b)
  <1>1. Left(0, b) = b
    <2>1. ASSUME NEW k \in 0..31 PROVE k \in Left(0, b) <=> k \in b
        BY DEF Left
    <2>2. Left(0, b) \subseteq 0..31
        BY DEF Left
    <2>3. ASSUME NEW k \in b PROVE k \in 0..31
        BY DEF Byte
    <2> QED BY <2>1, <2>2, <2>3
  <1>2. DivideHalf(Left(0, b)) = Left(4, b)
    <2>1. DivideBit(Left(0, b)) = Left(1, b) /\ DivideBit(Left(1, b)) = Left(2, b)
        BY DivideBitOfLow
    <2>2. DivideBit(Left(2, b)) = Left(3, b) /\ DivideBit(Left(3, b)) = Left(4, b)
        BY DivideBitOfLow
    <2> QED BY <2>1, <2>2 DEF DivideHalf
  <1>3. DivideHalf(Left(4, b)) = Left(8, b)
    <2>1. DivideBit(Left(4, b)) = Left(5, b) /\ DivideBit(Left(5, b)) = Left(6, b)
        BY DivideBitOfLow
    <2>2. DivideBit(Left(6, b)) = Left(7, b) /\ DivideBit(Left(7, b)) = Left(8, b)
        BY DivideBitOfLow
    <2> QED BY <2>1, <2>2 DEF DivideHalf
  <1> QED BY <1>1, <1>2, <1>3 DEF Divide

-----------------------------------------------------------------------------
(* One byte of calcCRC.                                                    *)

\* Shifting by a byte and looking the upper byte up is dividing eight times: the
\* lower byte only moves up, and the table has the rest.
LEMMA UpdateIsDivision ==
    ASSUME NEW c \in Short, NEW b \in Byte
    PROVE  Update(c, b) = DivideByte(c, b) /\ Update(c, b) \in Short
  <1> DEFINE index == Right(8, c) ^^ b
             low == c \cap 0..7
  <1>1. index \in Byte /\ low \in Byte /\ low \in Short
      BY RightOfShort DEF Byte, Short, ^^, SymDiff
  <1>2. /\ \A k \in 0..15 : k \in Left(8, b) <=> k \in 8..15 /\ k - 8 \in b
        /\ \A k \in 0..15 : k \in Left(8, index) <=> k \in 8..15 /\ k - 8 \in index
        /\ Left(8, b) \in Short /\ Left(8, index) \in Short /\ Left(8, low) \in Short
      BY <1>1, LeftOfByte
  <1>3. c ^^ Left(8, b) = low ^^ Left(8, index)
    <2>1. ASSUME NEW k \in 8..15
          PROVE  k \in Left(8, index) <=> k \in c ^^ Left(8, b)
      <3>1. k - 8 \in 0..7 /\ (k - 8) + 8 = k
          OBVIOUS
      <3>2. k - 8 \in Right(8, c) <=> k \in c
          BY <3>1, RightOfShort
      <3>3. k \in Left(8, b) <=> k - 8 \in b
          BY <1>2
      <3>4. k \in Left(8, index) <=> k - 8 \in index
          BY <1>2
      <3> QED BY <3>2, <3>3, <3>4 DEF ^^, SymDiff
    <2>2. ASSUME NEW k \in 0..7
          PROVE  k \notin Left(8, index) /\ k \notin Left(8, b)
        BY <1>2
    <2>3. ASSUME NEW k \in 0..15
          PROVE  k \in c ^^ Left(8, b) <=> k \in low ^^ Left(8, index)
      <3>1. CASE k \in 8..15
          BY <2>1, <3>1 DEF ^^, SymDiff
      <3>2. CASE k \in 0..7
          BY <2>2, <3>2 DEF ^^, SymDiff
      <3> QED BY <3>1, <3>2
    <2>4. c ^^ Left(8, b) \in Short /\ low ^^ Left(8, index) \in Short
        BY <1>1, <1>2, XorOfShorts
    <2> HIDE DEF index, low
    <2> QED BY <2>3, <2>4 DEF Short
  <1>4. Divide(low ^^ Left(8, index)) = Left(8, low) ^^ Entry[index]
      BY <1>1, <1>2, DivideLinear, DivideLow, TableAssumption
  <1>5. Entry[index] \in Short
      BY <1>1, <1>2, TableAssumption, DivideType
  <1>6. Update(c, b) = (Left(8, c) ^^ Entry[index]) \cap 0..15
      BY MaskedByte DEF Update
  <1>7. Left(8, c) \cap 0..15 = Left(8, low)
    <2>1. ASSUME NEW k \in 0..15
          PROVE  k \in Left(8, c) <=> k \in Left(8, low)
        BY DEF Left
    <2> QED BY <1>2, <2>1 DEF Short
  <1> HIDE DEF index, low
  <1>8. Update(c, b) = Left(8, low) ^^ Entry[index]
      BY <1>5, <1>6, <1>7 DEF Short, ^^, SymDiff
  <1>9. Left(8, low) ^^ Entry[index] \in Short
      BY <1>2, <1>5, XorOfShorts
  <1> QED BY <1>3, <1>4, <1>8, <1>9 DEF DivideByte

-----------------------------------------------------------------------------
(* The comparison behind a block.                                          *)

\* The two signed bytes become the number they were cut from.
LEMMA ReceivedIsSent ==
    ASSUME NEW r \in Short
    PROVE  ReceivedCRC(UpperByte(r), LowerByte(r)) = r
  <1> DEFINE upper == Right(8, r)
             lower == r \cap 0..7
             received == Left(8, Extended(upper)) \cup (Extended(lower) \cap 0..7)
  <1>1. upper \in Byte /\ lower \in Byte /\ \A k \in 0..7 : k \in upper <=> k + 8 \in r
      BY RightOfShort DEF Byte
  <1>2. Extended(lower) \cap 0..7 = lower /\ Extended(upper) \cap 0..7 = upper
      BY <1>1, MaskedByte
  <1> HIDE DEF upper
  <1>3. ASSUME NEW k \in 0..7 PROVE k \in received <=> k \in r
    <2>1. k \notin Left(8, Extended(upper))
        BY DEF Left
    <2> QED BY <1>2, <2>1
  <1>4. ASSUME NEW k \in 8..15 PROVE k \in received <=> k \in r
    <2>1. k \notin lower
        OBVIOUS
    <2>2. k \in Left(8, Extended(upper)) <=> k - 8 \in Extended(upper)
        BY DEF Left
    <2>3. k - 8 \in 0..7 /\ (k - 8) + 8 = k
        OBVIOUS
    <2>4. k - 8 \in Extended(upper) <=> k \in r
        BY <1>1, <1>2, <2>3
    <2> QED BY <1>2, <2>1, <2>2, <2>4
  <1>5. received \cap 0..15 = r
    <2>1. ASSUME NEW k \in 0..15 PROVE k \in received <=> k \in r
      <3>1. k \in 0..7 \/ k \in 8..15
          OBVIOUS
      <3> QED BY <1>3, <1>4, <3>1
    <2> HIDE DEF received
    <2> QED BY <2>1 DEF Short
  <1>6. CASE 31 \notin received
    <2>1. Extended(upper) = upper
      <3>1. 7 \notin upper
        <4>1. SUFFICES ASSUME 7 \in upper PROVE FALSE
            OBVIOUS
        <4>2. 31 - 8 \in Extended(upper)
            BY <4>1 DEF Extended
        <4>3. 31 \in Left(8, Extended(upper))
            BY <4>2 DEF Left
        <4> QED BY <1>6, <4>3
      <3> QED BY <3>1 DEF Extended
    <2>2. Left(8, upper) \in Short
        BY <1>1, LeftOfByte
    <2>3. received \subseteq 0..15
        BY <1>2, <2>1, <2>2 DEF Short
    <2> HIDE DEF received
    <2> QED BY <1>5, <1>6, <2>3 DEF ReceivedCRC, received, UpperByte, LowerByte, upper
  <1>7. CASE 31 \in received
      BY <1>5, <1>7 DEF ReceivedCRC, UpperByte, LowerByte, upper
  <1> QED BY <1>6, <1>7

CrcInv ==
    /\ block \in Seq(Byte)
    /\ crc \in Short
    /\ remainder = crc

LEMMA CrcInvariant == Spec => []CrcInv
  <1>1. Init => CrcInv
      BY ByteIsShort DEF Init, CrcInv
  <1>2. ASSUME CrcInv, [Next]_vars PROVE CrcInv'
    <2>1. ASSUME NEW b \in Byte, Feed(b) PROVE CrcInv'
        BY <1>2, <2>1, UpdateIsDivision, AppendProperties DEF CrcInv, Feed
    <2>2. CASE UNCHANGED vars
        BY <1>2, <2>2 DEF CrcInv, vars
    <2> QED BY <1>2, <2>1, <2>2 DEF Next
  <1> QED BY <1>1, <1>2, PTL DEF Spec

\* A block of any length that arrives as it was sent is accepted: what calcCRC has is
\* the remainder that the sender computes, put together from the two signed bytes.
THEOREM ReceivedBlockAccepted == Spec => []CrcIsRemainder
  <1>1. CrcInv => CrcIsRemainder
      BY ReceivedIsSent DEF CrcInv, CrcIsRemainder
  <1> QED BY <1>1, CrcInvariant, PTL

-----------------------------------------------------------------------------
(* Changes of a block.                                                     *)

\* The remainders of two blocks differ by the remainder of their difference: from two
\* pairs of remainders, and the same byte of both blocks, calcCRC goes on to two pairs
\* that are related in the same way. A change of a block is thus a block of its own.
THEOREM CrcIsLinear ==
    ASSUME NEW c \in Short, NEW d \in Short, NEW a \in Byte, NEW b \in Byte
    PROVE  Update(c ^^ d, a ^^ b) = Update(c, a) ^^ Update(d, b)
  <1> DEFINE s == c ^^ Left(8, a)
             t == d ^^ Left(8, b)
  <1>1. /\ Left(8, a) \in Short /\ Left(8, b) \in Short
        /\ Left(8, a ^^ b) = Left(8, a) ^^ Left(8, b)
    <2>1. Left(8, a ^^ b) = Left(8, a) ^^ Left(8, b)
        BY DEF Left, ^^, SymDiff
    <2> QED BY <2>1, LeftOfByte
  <1>2. s \in Short /\ t \in Short /\ c ^^ d \in Short
      BY <1>1, XorOfShorts
  <1>3. a ^^ b \in Byte
      BY DEF Byte, ^^, SymDiff
  <1>4. (c ^^ d) ^^ Left(8, a ^^ b) = s ^^ t
      BY <1>1 DEF ^^, SymDiff
  <1>5. Update(c, a) = Divide(s) /\ Update(d, b) = Divide(t)
      BY UpdateIsDivision DEF DivideByte
  <1>6. Update(c ^^ d, a ^^ b) = Divide(s ^^ t)
      BY <1>2, <1>3, <1>4, UpdateIsDivision DEF DivideByte
  <1> HIDE DEF s, t
  <1> QED BY <1>2, <1>5, <1>6, DivideLinear

LEMMA ZeroByte == Left(8, Zero) = Zero /\ Zero ^^ Zero = Zero
    BY DEF Left, Zero, ^^, SymDiff

LEMMA XorWithZero ==
    ASSUME NEW r \in Short
    PROVE  r ^^ Zero = r /\ Zero ^^ r = r
    BY DEF Zero, ^^, SymDiff

\* A byte 0 keeps what is zero zero, and what is not zero not zero.
LEMMA UpdateByZero ==
    ASSUME NEW c \in Short
    PROVE  Update(c, Zero) = Zero <=> c = Zero
  <1>1. Update(c, Zero) = Divide(c)
      BY ByteIsShort, UpdateIsDivision, ZeroByte, XorWithZero DEF DivideByte
  <1>2. Divide(Zero) = Zero
      BY DivideLow, ByteIsShort, ZeroByte
  <1> QED BY <1>1, <1>2, DivideKernel

LEMMA UpdateOfZero ==
    ASSUME NEW b \in Byte
    PROVE  /\ Update(Zero, b) = Divide(Left(8, b))
           /\ Update(Zero, b) = Zero => b = Zero
  <1>1. Left(8, b) \in Short /\ Update(Zero, b) = Divide(Left(8, b))
      BY ByteIsShort, LeftOfByte, UpdateIsDivision, XorWithZero DEF DivideByte
  <1>2. ASSUME Left(8, b) = Zero PROVE b = Zero
    <2>1. ASSUME NEW k \in b PROVE FALSE
      <3>1. k \in 0..7
          BY DEF Byte
      <3>2. k + 8 \in Left(8, b)
          BY <3>1 DEF Left
      <3> QED BY <1>2, <3>2 DEF Zero
    <2> QED BY <2>1 DEF Zero
  <1> QED BY <1>1, <1>2, DivideKernel

\* Two bytes behind zeros give 0 only if they are 0: they are not a multiple of the
\* polynomial, which has 17 bits.
LEMMA UpdateTwice ==
    ASSUME NEW b1 \in Byte, NEW b2 \in Byte, Update(Update(Zero, b1), b2) = Zero
    PROVE  b1 = Zero
  <1> DEFINE c == Update(Zero, b1)
  <1>1. c \in Short /\ c = Divide(Left(8, b1))
      BY ByteIsShort, UpdateIsDivision, UpdateOfZero
  <1>2. Left(8, b1) \in Short /\ Left(8, b2) \in Short /\ Divide(b2) = Left(8, b2)
      BY LeftOfByte, DivideLow
  <1>3. Divide(c ^^ Left(8, b2)) = Zero
      BY <1>1, UpdateIsDivision DEF DivideByte
  <1> HIDE DEF c
  <1>4. c = Left(8, b2)
      BY <1>1, <1>2, <1>3, XorOfShorts, DivideKernel
  <1>5. Divide(Left(8, b1) ^^ b2) = Zero
      BY <1>1, <1>2, <1>4, ByteIsShort, DivideLinear, XorOfShorts
  <1>6. Left(8, b1) = b2
      BY <1>2, <1>5, ByteIsShort, XorOfShorts, DivideKernel
  <1>7. ASSUME NEW k \in b1 PROVE FALSE
    <2>1. k \in 0..7
        BY DEF Byte
    <2>2. k + 8 \in Left(8, b1)
        BY <2>1 DEF Left
    <2>3. k + 8 \notin 0..7
        BY <2>1
    <2> QED BY <1>6, <2>2, <2>3 DEF Byte
  <1> QED BY <1>7 DEF Zero

\* The first n bytes are zeros.
ZerosUpTo(n) == \A j \in 1..n : block[j] = Zero

\* crc along a block that is zeros, zeros and one byte, or a burst of two.
ChangeInv ==
    /\ ZerosUpTo(Len(block)) => crc = Zero
    /\ block # <<>> /\ ZerosUpTo(Len(block) - 1) =>
           crc = Update(Zero, block[Len(block)])
    /\ (\E i \in 1..Len(block) : Burst(i)) => crc # Zero

LEMMA ChangeInvInductive ==
    ASSUME CrcInv, ChangeInv, NEW b \in Byte, Feed(b)
    PROVE  ChangeInv'
  <1> DEFINE n == Len(block)
  <1>1. /\ n \in Nat
        /\ Len(block') = n + 1
        /\ \A j \in 1..n : block'[j] = block[j] /\ block[j] \in Byte
        /\ block'[n + 1] = b
      BY AppendProperties, ElementOfSeq, LenProperties DEF CrcInv, Feed
  <1>2. crc' = Update(crc, b) /\ crc \in Short
      BY DEF Feed, CrcInv
  <1>4. ZerosUpTo(n) => crc = Zero
      BY DEF ChangeInv
  <1>5. ASSUME ZerosUpTo(Len(block))' PROVE crc' = Zero
    <2>1. ZerosUpTo(n) /\ b = Zero
        BY <1>1, <1>5 DEF ZerosUpTo
    <2> QED BY <1>2, <1>4, <2>1, UpdateByZero
  <1>6. ASSUME ZerosUpTo(Len(block) - 1)' PROVE crc' = Update(Zero, block[Len(block)])'
    <2>1. ZerosUpTo(n)
        BY <1>1, <1>6 DEF ZerosUpTo
    <2> QED BY <1>1, <1>2, <1>4, <2>1
  <1>7. ASSUME NEW i \in 1..(n + 1), Burst(i)' PROVE crc' # Zero
    <2>1. /\ block'[i] # Zero
          /\ \A j \in 1..(n + 1) : block'[j] # Zero => j \in {i, i + 1}
        BY <1>1, <1>7 DEF Burst
    <2>2. CASE i = n + 1
      <3>1. ZerosUpTo(n)
          BY <1>1, <2>1, <2>2 DEF ZerosUpTo
      <3> QED BY <1>1, <1>2, <1>4, <2>1, <2>2, <3>1, UpdateOfZero
    <2>3. CASE i = n
      <3>1. ZerosUpTo(n - 1) /\ block[n] # Zero /\ block[n] \in Byte /\ block # <<>>
          BY <1>1, <2>1, <2>3 DEF ZerosUpTo
      <3>2. crc = Update(Zero, block[n])
          BY <3>1 DEF ChangeInv
      <3> QED BY <1>2, <3>1, <3>2, UpdateTwice
    <2>4. CASE i < n
      <3>1. b = Zero
          BY <1>1, <2>1, <2>4
      <3>2. i \in 1..n /\ Burst(i)
          BY <1>1, <2>1, <2>4 DEF Burst
      <3>3. crc # Zero
          BY <3>2 DEF ChangeInv
      <3> QED BY <1>2, <3>1, <3>3, UpdateByZero
    <2> QED BY <1>1, <2>2, <2>3, <2>4
  <1> QED BY <1>1, <1>5, <1>6, <1>7 DEF ChangeInv

\* Whatever the length of a block, a change of up to two neighbouring bytes of it
\* leaves a difference of the two remainders, and zeros that follow keep it.
THEOREM ChangeDetected == Spec => []ChangeIsSeen
  <1>1. Init => ChangeInv
      BY LenProperties, EmptySeq DEF Init, ChangeInv
  <1>2. ASSUME CrcInv, ChangeInv, [Next]_vars PROVE ChangeInv'
    <2>1. CASE Next
        BY <1>2, <2>1, ChangeInvInductive DEF Next
    <2>2. CASE UNCHANGED vars
        BY <1>2, <2>2 DEF ChangeInv, ZerosUpTo, Burst, vars
    <2> QED BY <1>2, <2>1, <2>2
  <1>3. CrcInv /\ ChangeInv => ChangeIsSeen
      BY UpdateByZero DEF CrcInv, ChangeInv, ChangeIsSeen
  <1> QED BY <1>1, <1>2, <1>3, CrcInvariant, PTL DEF Spec
=============================================================================
