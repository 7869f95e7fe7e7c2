--------------------------- MODULE Enc3b11b_proofs ---------------------------
(***************************************************************************)
(* Proofs about Enc3b11b, for words of any size, any frames and any room.  *)
(***************************************************************************)
EXTENDS Enc3b11b, FiniteSetTheorems, TLAPS

-----------------------------------------------------------------------------
\* Arithmetic.

\* Remainders add up, and are that of a byte.
LEMMA ModAdds ==
  ASSUME NEW a \in Int, NEW b \in Int
  PROVE  ((a % 256) + b) % 256 = (a + b) % 256 /\ a % 256 \in Byte
BY DEF Byte

\* Whole bytes make no difference to a sum.
LEMMA ModSame ==
  ASSUME NEW a \in Int, NEW b \in Int, NEW c \in Int, b % 256 = c % 256
  PROVE  (a + b) % 256 = (a + c) % 256
BY SMT

\* Nothing added to a byte leaves it.
LEMMA ByteStays ==
  ASSUME NEW b \in 0 .. 255
  PROVE  (b + 0) % 256 = b
BY SMT

\* Multiplying keeps the order.
LEMMA TimesKeeps ==
  ASSUME NEW a \in Nat, NEW b \in Nat, NEW c \in Nat, a <= b
  PROVE  a * c <= b * c
BY SMT

\* Division rounds down, and not by more.
LEMMA DivRounds ==
  ASSUME NEW a \in Nat, NEW s \in Nat \ {0}
  PROVE  a \div s \in Nat /\ (a \div s) * s <= a /\ a < (a \div s) * s + s
BY SMT

\* What is a multiple no larger is a quotient no larger.
LEMMA DivKeeps ==
  ASSUME NEW a \in Nat, NEW q \in Nat, NEW s \in Nat \ {0}, q * s <= a
  PROVE  q <= a \div s
<1>1. a < (a \div s + 1) * s /\ a \div s \in Nat
  BY DivRounds
<1>2. CASE a \div s + 1 <= q
  <2>1. (a \div s + 1) * s <= q * s
    BY <1>1, <1>2, TimesKeeps
  <2>2. QED
    BY <1>1, <2>1
<1>3. QED
  BY <1>1, <1>2

\* The word of a pixel of the frame is one decode reads, that encode wrote and that
\* its bytes do not reach.
LEMMA MatrixApart ==
  ASSUME NEW size \in Nat, NEW i \in Nat, i < size
  PROVE  i < WordsRead(size) * StepSize /\ Intact(size, i \div StepSize)
<1> DEFINE q == i \div StepSize
<1> USE WordAssumption
<1>1. q \in Nat /\ q * StepSize <= i
  BY DivRounds
<1>2. q < Words(size)
  <2>1. (q + 1) * StepSize <= size + StepSize - 1
    BY <1>1
  <2>2. q + 1 <= (size + StepSize - 1) \div StepSize
    BY <1>1, <2>1, DivKeeps
  <2>3. (size + StepSize - 1) \div StepSize \in Nat
    BY DivRounds
  <2>4. QED
    BY <1>1, <2>2, <2>3 DEF Words
<1>3. (q + 1) * WordBytes <= PixelOffset(size)
  <2>1. (q * StepSize) * WordBytes <= size * WordBytes
    BY <1>1, TimesKeeps
  <2>2. (q * WordBytes) * StepSize <= size * WordBytes
    BY <1>1, <2>1
  <2>3. q * WordBytes <= (size * WordBytes) \div StepSize
    BY <1>1, <2>2, DivKeeps
  <2>4. (size * WordBytes) \div StepSize \in Nat
    BY DivRounds
  <2>5. QED
    BY <1>1, <2>3, <2>4 DEF PixelOffset
<1>4. i < WordsRead(size) * StepSize
  <2> DEFINE w == (size + WordBytes - 1) \div WordBytes
  <2>1. w \in Nat /\ size + WordBytes - 1 < w * WordBytes + WordBytes
    <3>1. size + WordBytes - 1 \in Nat /\ WordBytes \in Nat \ {0}
      OBVIOUS
    <3>2. QED
      BY <3>1, DivRounds
  <2>2. w * WordBytes <= w * StepSize
    BY <2>1, TimesKeeps
  <2>3. size <= w * WordBytes
    BY <2>1
  <2>4. QED
    BY <2>1, <2>2, <2>3 DEF WordsRead
<1>5. QED
  BY <1>2, <1>3, <1>4 DEF Intact

-----------------------------------------------------------------------------
\* Codes and bytes.

\* The rank of a difference is at most its place.
LEMMA RankType ==
  ASSUME NEW d, NEW i \in Nat
  PROVE  Rank(d, i) \in Nat /\ Rank(d, i) <= i
<1> DEFINE S == {j \in 0 .. i - 1 : Special(d[j])}
<1>1. IsFiniteSet(0 .. i - 1) /\ Cardinality(0 .. i - 1) = i
  BY FS_Interval
<1>2. S \subseteq 0 .. i - 1
  OBVIOUS
<1>3. IsFiniteSet(S) /\ Cardinality(S) <= Cardinality(0 .. i - 1)
  BY <1>1, <1>2, FS_Subset
<1>4. QED
  BY <1>1, <1>3, FS_CardinalityType DEF Rank

\* A difference that has a byte is counted from the next one on: no two of them have
\* the same rank.
LEMMA RankGrows ==
  ASSUME NEW d, NEW i \in Nat, NEW n \in Nat, i < n, Special(d[i])
  PROVE  Rank(d, i) < Rank(d, n)
<1> DEFINE S == {j \in 0 .. i - 1 : Special(d[j])}
           T == {j \in 0 .. n - 1 : Special(d[j])}
<1>1. IsFiniteSet(0 .. i - 1) /\ IsFiniteSet(0 .. n - 1)
  BY FS_Interval
<1>2. IsFiniteSet(S) /\ IsFiniteSet(T)
  <2>1. S \subseteq 0 .. i - 1 /\ T \subseteq 0 .. n - 1
    OBVIOUS
  <2>2. QED
    BY <1>1, <2>1, FS_Subset
<1>3. i \notin S /\ S \cup {i} \subseteq T
  OBVIOUS
<1>4. IsFiniteSet(S \cup {i}) /\ Cardinality(S \cup {i}) = Cardinality(S) + 1
  BY <1>2, <1>3, FS_AddElement
<1>5. Cardinality(S \cup {i}) <= Cardinality(T)
  BY <1>2, <1>3, FS_Subset
<1>6. Cardinality(S) \in Nat /\ Cardinality(T) \in Nat
  BY <1>2, FS_CardinalityType
<1>7. QED
  BY <1>4, <1>5, <1>6 DEF Rank

\* Three bits are read as they were written.
LEMMA CodeInverse ==
  ASSUME NEW d \in -3 .. 3
  PROVE  SetBits(d) # 4 /\ (IF SetBits(d) < 4 THEN SetBits(d) ELSE SetBits(d) - 8) = d
<1>1. d = -3 \/ d = -2 \/ d = -1 \/ d = 0 \/ d = 1 \/ d = 2 \/ d = 3
  BY SMT
<1>2. QED
  BY <1>1 DEF SetBits

\* A difference that has a byte is found there by its rank.
LEMMA ByteOfRank ==
  ASSUME NEW d, NEW n \in Nat, NEW i \in Nat, i < n, i < Room, Special(d[i])
  PROVE  Bytes(d, n)[Rank(d, i)] = d[i] % 256
<1> DEFINE P(k) == k \in 0 .. n - 1 /\ Special(d[k]) /\ Rank(d, k) = Rank(d, i)
<1>1. Rank(d, i) \in Nat /\ Rank(d, i) <= i /\ Rank(d, i) < Rank(d, n)
  BY RankType, RankGrows
<1>2. Rank(d, i) \in Pixels
  BY <1>1, RoomAssumption DEF Pixels
<1>3. P(i)
  OBVIOUS
<1>4. ASSUME NEW k \in 0 .. n - 1, P(k) PROVE k = i
  <2>1. CASE k < i
    <3>1. Rank(d, k) < Rank(d, i)
      BY <1>4, <2>1, RankGrows
    <3>2. QED
      BY <1>1, <1>4, <3>1
  <2>2. CASE i < k
    <3>1. Rank(d, i) < Rank(d, k)
      BY <1>4, <2>2, RankGrows
    <3>2. QED
      BY <1>1, <1>4, <3>1
  <2>3. QED
    BY <2>1, <2>2
<1>5. (CHOOSE k \in 0 .. n - 1 : Special(d[k]) /\ Rank(d, k) = Rank(d, i)) = i
  BY <1>3, <1>4
<1>6. QED
  BY <1>1, <1>2, <1>5 DEF Bytes

\* What the decoder adds to a pixel of the frame is its difference.
LEMMA ValueOfPixel ==
  ASSUME NEW d \in [Pixels -> -127 .. 127], NEW size \in 1 .. Room, NEW n \in size .. Room,
         NEW m, m.code = Matrix(d, size), m.byte = Bytes(d, n),
         NEW i \in Nat, i < size
  PROVE  Value(m, i) \in Int /\ Value(m, i) % 256 = d[i] % 256
<1> USE RoomAssumption, WordAssumption
<1>1. size <= Words(size) * StepSize /\ Words(size) \in Nat
  <2>1. /\ Words(size) \in Nat
        /\ size + StepSize - 1 < Words(size) * StepSize + StepSize
    BY DivRounds DEF Words
  <2>2. QED
    BY <2>1
<1>2. ASSUME NEW j \in Nat, j < size
      PROVE  d[j] \in -127 .. 127 /\ m.code[j] = SetBits(d[j])
  BY <1>1, <1>2 DEF Matrix, Pixels
<1>3. ASSUME NEW j \in Nat, j < size PROVE m.code[j] = 4 <=> Special(d[j])
  <2>1. CASE d[j] \in -3 .. 3
    BY <1>2, <1>3, <2>1, CodeInverse DEF Special
  <2>2. CASE d[j] \notin -3 .. 3
    BY <1>2, <1>3, <2>2 DEF SetBits, Special
  <2>3. QED
    BY <2>1, <2>2
<1>4. CASE Special(d[i])
  <2>1. {j \in 0 .. i - 1 : m.code[j] = 4} = {j \in 0 .. i - 1 : Special(d[j])}
    BY <1>3
  <2>2. Value(m, i) = Bytes(d, n)[Rank(d, i)]
    BY <1>3, <1>4, <2>1 DEF Value, Rank
  <2>3. Value(m, i) = d[i] % 256
    BY <1>4, <2>2, ByteOfRank
  <2>4. QED
    BY <1>2, <2>3
<1>5. CASE ~Special(d[i])
  <2>1. d[i] \in -3 .. 3
    BY <1>5 DEF Special
  <2>2. Value(m, i) = d[i]
    BY <1>2, <2>1, CodeInverse DEF Value
  <2>3. QED
    BY <2>1, <2>2
<1>6. QED
  BY <1>4, <1>5

\* What it adds to a pixel past the frame, in a word encode wrote, is nothing.
LEMMA ValuePastFrame ==
  ASSUME NEW d, NEW size \in 1 .. Room, NEW m, m.code = Matrix(d, size),
         NEW i \in Nat, size <= i, Intact(size, i \div StepSize)
  PROVE  Value(m, i) = 0
<1> USE WordAssumption, RoomAssumption
<1>1. /\ i \div StepSize \in Nat /\ i < (i \div StepSize) * StepSize + StepSize
      /\ Words(size) \in Nat
  <2>1. size + StepSize - 1 \in Nat
    OBVIOUS
  <2>2. QED
    BY <2>1, DivRounds DEF Words
<1>2. (i \div StepSize + 1) * StepSize <= Words(size) * StepSize
  BY <1>1, TimesKeeps DEF Intact
<1>3. i \in 0 .. Words(size) * StepSize - 1
  BY <1>1, <1>2
<1>4. m.code[i] = 0
  BY <1>3 DEF Matrix
<1>5. QED
  BY <1>4 DEF Value

-----------------------------------------------------------------------------
\* The inductive invariant.

\* The difference that is on its way to pixel i.
Pending(i) == IF i < message.size THEN diff[i] ELSE 0

\* The pixels that have been in every frame, and all of them while no decode has read
\* past the matrix.
Sound(i) == i < least \/ ~spilt

\* What is on its way was made of m_diff as it is, and is all that a pixel lacks.
Sent ==
  message # None =>
    /\ message.code = Matrix(diff, message.size)
    /\ message.byte = Bytes(diff, known)
    /\ least <= message.size
    /\ \A i \in Pixels : Sound(i) =>
         (dest[i] + Pending(i)) % 256 = (last[i] + drift[i]) % 256

\* When nothing is on its way they agree, which is FrameAgrees.
Settled == message = None => \A i \in Pixels : Sound(i) => Agrees(i)

IInv == TypeOK /\ Sent /\ Settled

-----------------------------------------------------------------------------
\* Every step keeps it.

\* A difference and its fold are those of the pixels, and it fits a char.
LEMMA Folds ==
  ASSUME NEW s \in Byte, NEW l \in Byte
  PROVE  /\ Fold(s - l) \in -127 .. 127
         /\ Folding(s - l) \in Int
         /\ l + Fold(s - l) = s + Folding(s - l) - 256 * Folding(s - l)
BY DEF Byte, Fold, Folding

\* The pixel it makes is off by the fold.
LEMMA FoldDrifts ==
  ASSUME NEW x \in Byte, NEW s \in Byte, NEW l \in Byte, NEW r \in Int,
         x = (l + r) % 256
  PROVE  (x + Fold(s - l)) % 256 = (s + (r + Folding(s - l))) % 256
<1> DEFINE f == Folding(s - l)
           v == Fold(s - l)
<1>1. v \in Int /\ f \in {-1, 0, 1} /\ l + v = s + f - 256 * f
  BY DEF Byte, Fold, Folding
<1>2. l \in Int /\ s \in Int
  BY DEF Byte
<1>3. (((l + r) % 256) + v) % 256 = (l + r + v) % 256
  BY <1>1, <1>2, ModAdds
<1>4. l + r + v = s + (r + f) - 256 * f
  BY <1>1, <1>2
<1>5. (s + (r + f) - 256 * f) % 256 = (s + (r + f)) % 256
  BY <1>1, <1>2
<1>6. QED
  BY <1>3, <1>4, <1>5

\* What there is of a pixel.
LEMMA PixelTypes ==
  ASSUME TypeOK, NEW i \in Pixels
  PROVE  /\ i \in Nat /\ i < Room
         /\ last[i] \in 0 .. 255 /\ dest[i] \in 0 .. 255
         /\ diff[i] \in -127 .. 127 /\ drift[i] \in Int
<1>1. i \in Nat /\ i < Room
  BY RoomAssumption DEF Pixels
<1>2. /\ last[i] \in Byte /\ dest[i] \in Byte
      /\ diff[i] \in -127 .. 127 /\ drift[i] \in Int
  BY DEF TypeOK
<1>3. QED
  BY <1>1, <1>2 DEF Byte

\* What encode writes has its type.
LEMMA Written ==
  ASSUME NEW d \in [Pixels -> -127 .. 127], NEW size \in 1 .. Room
  PROVE  Matrix(d, size) \in [0 .. Words(size) * StepSize - 1 -> 0 .. 7]
<1>1. ASSUME NEW i \in Nat, i < size PROVE SetBits(d[i]) \in 0 .. 7
  <2>1. d[i] \in -127 .. 127
    BY <1>1, RoomAssumption DEF Pixels
  <2>2. QED
    BY <2>1 DEF SetBits
<1>2. QED
  BY <1>1 DEF Matrix

\* A frame is encoded: its pixels lack their differences now, the others nothing.
LEMMA EncodeKeeps ==
  ASSUME IInv, NEW size \in Sizes, NEW source \in [0 .. size - 1 -> Values], Encode(size, source)
  PROVE  IInv'
<1>0. TypeOK /\ Settled
  BY DEF IInv
<1>1. /\ message = None /\ known' \in 1 .. Room /\ size \in 1 .. known'
      /\ frames' \in 0 .. Frames
  BY <1>0, RoomAssumption, SizesAssumption DEF Encode, TypeOK
<1>2. ASSUME NEW i \in Pixels, i < size
      PROVE  source[i] \in Byte /\ last[i] \in Byte /\ dest[i] \in Byte /\ drift[i] \in Int
  <2>1. i \in Nat /\ last[i] \in Byte /\ dest[i] \in Byte /\ drift[i] \in Int
    BY <1>0, PixelTypes DEF Byte
  <2>2. i \in 0 .. size - 1
    BY <1>1, <1>2, <2>1
  <2>3. source[i] \in Values
    BY <2>2
  <2>4. QED
    BY <2>1, <2>3, ValuesAssumption DEF Byte
<1>3. diff' \in [Pixels -> -127 .. 127]
  <2>1. ASSUME NEW i \in Pixels, i < size PROVE Fold(source[i] - last[i]) \in -127 .. 127
    BY ZenonT(30), <1>2, <2>1, Folds
  <2>2. QED
    BY <1>0, <2>1 DEF Encode, Differences, TypeOK
<1>4. drift' \in [Pixels -> Int]
  <2>1. ASSUME NEW i \in Pixels, i < size PROVE Folding(source[i] - last[i]) \in Int
    BY <1>2, <2>1, Folds
  <2>2. QED
    BY <1>0, <2>1 DEF Encode, TypeOK
<1>5. last' \in [Pixels -> Byte]
  BY <1>0, <1>2 DEF Encode, TypeOK
<1>6. least' \in 0 .. Room /\ least' <= size /\ least' <= least
  <2>1. least' = (IF size < least THEN size ELSE least) /\ least \in 0 .. Room
    BY <1>0 DEF Encode, TypeOK
  <2>2. size \in 0 .. Room
    BY <1>1, RoomAssumption
  <2>3. QED
    BY <2>1, <2>2, RoomAssumption
<1>7. /\ message'.size = size
      /\ message'.code = Matrix(diff', size) /\ message'.byte = Bytes(diff', known')
  BY DEF Encode
<1>8. TypeOK'
  <2>1. message'.code \in [0 .. Words(size) * StepSize - 1 -> 0 .. 7]
    BY SMTT(20), <1>1, <1>3, <1>7, Written, RoomAssumption
  <2>2. dest' = dest /\ spilt' = spilt
    BY DEF Encode
  <2>3. QED
    BY SMTT(20), <1>0, <1>1, <1>3, <1>4, <1>5, <1>6, <1>7, <2>1, <2>2 DEF TypeOK
<1>9. message' # None
  BY <1>1, <1>7 DEF None
<1>10. ASSUME NEW i \in Pixels, Sound(i)'
       PROVE  (dest'[i] + Pending(i)') % 256 = (last'[i] + drift'[i]) % 256
  <2>1. dest' = dest /\ spilt' = spilt /\ Sound(i)
    BY <1>0, <1>6, <1>10, PixelTypes DEF Encode, Sound, TypeOK
  <2>2. dest[i] = (last[i] + drift[i]) % 256
    BY <1>0, <1>1, <2>1 DEF Settled, Agrees
  <2>3. CASE i < size
    <3>1. /\ Pending(i)' = Fold(source[i] - last[i])
          /\ last'[i] = source[i] /\ drift'[i] = drift[i] + Folding(source[i] - last[i])
      BY <1>7, <2>3 DEF Encode, Differences, Pending
    <3>2. QED
      BY <1>2, <2>1, <2>2, <2>3, <3>1, FoldDrifts
  <2>4. CASE ~(i < size)
    <3>1. Pending(i)' = 0 /\ last'[i] = last[i] /\ drift'[i] = drift[i] + 0
      BY <1>7, <2>4 DEF Encode, Pending
    <3>2. dest[i] \in 0 .. 255 /\ last[i] \in 0 .. 255 /\ drift[i] \in Int
      BY <1>0, PixelTypes
    <3>3. (dest[i] + 0) % 256 = dest[i]
      BY <3>2, ByteStays
    <3>4. drift[i] + 0 = drift[i]
      BY <3>2
    <3>5. QED
      BY <2>1, <2>2, <3>1, <3>3, <3>4
  <2>5. QED
    BY <2>3, <2>4
<1>11. Sent'
  BY <1>6, <1>7, <1>10 DEF Sent
<1>12. QED
  BY <1>8, <1>9, <1>11 DEF IInv, Settled

\* A frame is refused: nothing but m_diff changes.
LEMMA RefusalKeeps ==
  ASSUME IInv, NEW size \in Sizes, NEW source \in [0 .. size - 1 -> Values],
         EncodeThrows(size, source)
  PROVE  IInv'
<1>0. TypeOK /\ known < size /\ known \in Nat
  BY DEF IInv, TypeOK, EncodeThrows
<1>1. ASSUME NEW i \in Pixels, i < known PROVE Fold(source[i] - last[i]) \in -127 .. 127
  <2>1. i \in Nat /\ last[i] \in Byte
    BY <1>0, PixelTypes DEF Byte
  <2>2. size \in Nat
    BY SizesAssumption
  <2>3. i \in 0 .. size - 1
    BY <1>0, <1>1, <2>1, <2>2
  <2>4. source[i] \in Values
    BY <2>3
  <2>5. source[i] \in Byte
    BY <2>4, ValuesAssumption DEF Byte
  <2>6. QED
    BY <2>1, <2>5, Folds
<1>2. diff' \in [Pixels -> -127 .. 127]
  BY <1>0, <1>1 DEF EncodeThrows, Differences, TypeOK
<1>3. /\ message = None /\ frames' \in 0 .. Frames
      /\ UNCHANGED <<known, last, message, dest, drift, least, spilt>>
  BY <1>0, RoomAssumption DEF EncodeThrows, TypeOK
<1>4. QED
  BY <1>2, <1>3 DEF IInv, TypeOK, Sent, Settled, Sound, Agrees, None

\* A frame is decoded: its pixels get what they lack, and what else is changed is no
\* longer sound.
LEMMA DecodeKeeps ==
  ASSUME IInv, Decode
  PROVE  IInv'
<1> DEFINE size  == message.size
           reach == {i \in Pixels : i < WordsRead(size) * StepSize}
           whole == {i \in reach : Intact(size, i \div StepSize)}
<1> USE RoomAssumption, WordAssumption, ValuesAssumption DEF IInv
<1>1. /\ size \in 1 .. Room /\ known \in size .. Room
      /\ message.code = Matrix(diff, size) /\ message.byte = Bytes(diff, known)
      /\ diff \in [Pixels -> -127 .. 127]
  BY DEF Decode, Sent, TypeOK
<1>2. ASSUME NEW i \in Pixels, i < size
      PROVE  i \in whole /\ Value(message, i) \in Int /\ Value(message, i) % 256 = diff[i] % 256
  <2>1. i < WordsRead(size) * StepSize /\ Intact(size, i \div StepSize)
    BY <1>1, <1>2, MatrixApart DEF Pixels
  <2>2. i \in whole
    BY <2>1
  <2>3. Value(message, i) \in Int /\ Value(message, i) % 256 = diff[i] % 256
    BY <1>1, <1>2, PixelTypes, ValueOfPixel
  <2>4. QED
    BY <2>2, <2>3
<1>3. ASSUME NEW i \in whole, ~(i < size) PROVE Value(message, i) = 0
  BY <1>1, <1>3, ValuePastFrame DEF Pixels
<1>4. PICK noise \in [reach \ whole -> Garbage] :
        dest' = [i \in Pixels |-> IF i \in whole THEN (dest[i] + Value(message, i)) % 256
                                  ELSE IF i \in reach THEN noise[i] ELSE dest[i]]
  BY DEF Decode
<1>5. ASSUME NEW i \in whole PROVE Value(message, i) \in Int /\ dest[i] \in Int
  <2>1. i \in Pixels
    OBVIOUS
  <2>2. dest[i] \in 0 .. 255
    BY <2>1, PixelTypes
  <2>3. dest[i] \in Int
    BY <2>2
  <2>4. CASE i < size
    BY <1>2, <2>1, <2>3, <2>4
  <2>5. CASE ~(i < size)
    BY <1>3, <2>3, <2>5
  <2>6. QED
    BY <2>4, <2>5
<1>6. dest' \in [Pixels -> Byte]
  <2>1. ASSUME NEW i \in whole PROVE (dest[i] + Value(message, i)) % 256 \in Byte
    BY <1>5, <2>1 DEF Byte
  <2>2. ASSUME NEW i \in reach \ whole PROVE noise[i] \in Byte
    BY <2>2 DEF Byte
  <2>3. \A i \in Pixels : dest[i] \in Byte
    BY DEF TypeOK
  <2>4. QED
    BY <1>4, <2>1, <2>2, <2>3
<1>7. /\ message' = None /\ spilt' = (spilt \/ reach # whole)
      /\ UNCHANGED <<known, last, diff, frames, drift, least>>
  BY DEF Decode
<1>8. TypeOK' /\ Sent'
  BY <1>6, <1>7 DEF TypeOK, Sent
<1>9. ASSUME NEW i \in Pixels, Sound(i)' PROVE Agrees(i)'
  <2>1. /\ Sound(i) /\ least <= size
        /\ (dest[i] + Pending(i)) % 256 = (last[i] + drift[i]) % 256
    BY ZenonT(30), <1>7, <1>9 DEF Decode, Sent, Sound
  <2>2. dest[i] \in 0 .. 255 /\ last[i] \in Int /\ drift[i] \in Int
    BY SMTT(20), PixelTypes
  <2>3. CASE i < size
    <3>1. dest'[i] = (dest[i] + Value(message, i)) % 256
      BY <1>2, <1>4, <2>3
    <3>2. diff[i] \in Int /\ Value(message, i) \in Int
      BY <1>1, <1>2, <2>3
    <3>3. (dest[i] + Value(message, i)) % 256 = (dest[i] + diff[i]) % 256
      <4>1. Value(message, i) % 256 = diff[i] % 256
        BY <1>2, <2>3
      <4>2. QED
        <5>1. dest[i] \in Int
          BY <2>2
        <5>2. QED
          BY <3>2, <4>1, <5>1, ModSame
    <3>4. QED
      BY <1>7, <2>1, <2>3, <3>1, <3>3 DEF Pending, Agrees
  <2>4. CASE ~(i < size)
    <3>1. dest'[i] = dest[i]
      <4>1. i \notin reach \/ i \in whole
        <5>1. ~(i < least)
          BY SMTT(20), <1>1, <2>1, <2>4, PixelTypes DEF TypeOK
        <5>2. reach = whole
          BY <1>7, <1>9, <5>1 DEF Sound
        <5>3. QED
          BY <5>2
      <4>2. CASE i \in whole
        <5>1. dest'[i] = (dest[i] + 0) % 256
          BY <1>3, <1>4, <2>4, <4>2
        <5>2. QED
          BY <2>2, <5>1
      <4>3. CASE i \notin reach
        BY <1>4, <4>3
      <4>4. QED
        BY <4>1, <4>2, <4>3
    <3>2. Pending(i) = 0
      BY <2>4 DEF Pending
    <3>3. QED
      <4>1. (dest[i] + 0) % 256 = dest[i]
        BY <2>2
      <4>2. dest[i] = (last[i] + drift[i]) % 256
        BY <2>1, <3>2, <4>1
      <4>3. QED
        BY <1>7, <3>1, <4>2 DEF Agrees
  <2>5. QED
    BY <2>3, <2>4
<1>10. QED
  BY <1>8, <1>9 DEF Settled

\* It holds at first and is kept by every step, stuttering included.
LEMMA Invariant == Spec => []IInv
<1>1. Init => IInv
  <2> SUFFICES ASSUME Init PROVE IInv
    OBVIOUS
  <2> USE RoomAssumption DEF Init
  <2>1. TypeOK
    <3>1. 0 \in Byte /\ 0 \in -127 .. 127 /\ 0 \in Int /\ 0 \in 0 .. Frames /\ 0 \in 0 .. Room
      BY DEF Byte
    <3>2. /\ last \in [Pixels -> Byte] /\ dest \in [Pixels -> Byte]
          /\ diff \in [Pixels -> -127 .. 127] /\ drift \in [Pixels -> Int]
      BY <3>1
    <3>3. known = 0 /\ frames = 0 /\ message = None /\ least \in 0 .. Room /\ spilt = FALSE
      OBVIOUS
    <3>4. QED
      BY <3>1, <3>2, <3>3 DEF TypeOK
  <2>2. \A i \in Pixels : Agrees(i)
    <3>1. 0 = (0 + 0) % 256
      BY SMT
    <3>2. QED
      BY <3>1 DEF Agrees
  <2>3. QED
    BY <2>1, <2>2 DEF IInv, Sent, Settled
<1>2. IInv /\ [Next]_vars => IInv'
  <2>1. CASE Next
    BY <2>1, EncodeKeeps, RefusalKeeps, DecodeKeeps DEF Next
  <2>2. CASE UNCHANGED vars
    BY SMTT(20), <2>2 DEF vars, IInv, TypeOK, Sent, Settled, Sound, Agrees, Pending
  <2>3. QED
    BY <2>1, <2>2
<1>3. QED
  BY <1>1, <1>2, PTL DEF Spec

\* Every variable keeps its type: no difference leaves the range of a char.
THEOREM TypeCorrect == Spec => []TypeOK
BY Invariant, PTL DEF IInv

\* Every pixel that has been in every frame, and every other while decode has kept to the
\* matrix, is what was sent but for its folds, for any number of frames of any sizes and
\* contents, refused ones included.
THEOREM FramesAgree == Spec => []FrameAgrees
<1>1. IInv => FrameAgrees
  BY DEF IInv, Settled, Sound, FrameAgrees
<1>2. QED
  BY <1>1, Invariant, PTL

=============================================================================
