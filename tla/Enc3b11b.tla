------------------------------- MODULE Enc3b11b -------------------------------
(***************************************************************************)
(* compression::Enc3b11b: a frame is sent as its difference to the frame   *)
(* before, three bits a pixel, StepSize pixels to a word, and a byte of    *)
(* its own for each difference that three bits cannot say.                 *)
(*                                                                         *)
(* Nothing in src/ calls encode or decode.  Here one object encodes frames *)
(* and each is decoded, once and in order, into the same image, which was  *)
(* all 0 at first, as m_lastInput is.                                      *)
(***************************************************************************)
EXTENDS Integers, FiniteSets

CONSTANTS StepSize,   \* m_stepSize: pixels in a word, 21
          WordBytes,  \* sizeof( u_int64_t )
          Sizes,      \* of frames
          Values,     \* of their pixels
          Garbage,    \* what decode may make of a pixel past the matrix
          Room,       \* bound: how much of the decoder's memory there is to see
          Frames      \* bound: how many frames there are

ASSUME WordAssumption   == StepSize \in Nat /\ WordBytes \in 1 .. StepSize
ASSUME RoomAssumption   == Room \in Nat /\ Frames \in Nat
ASSUME SizesAssumption  == Sizes \subseteq 1 .. Room
ASSUME ValuesAssumption == Values \subseteq 0 .. 255 /\ Garbage \subseteq 0 .. 255

VARIABLES known,    \* the size of m_lastInput and m_diff, 0 before the first frame
          last,     \* m_lastInput
          diff,     \* m_diff
          message,  \* what encode has written and decode not yet read
          dest,     \* the decoder's image, and the memory behind it
          frames,   \* bound: how many frames there were
          drift,    \* history: differences folded down less those folded up
          least,    \* history: the size of the smallest frame, Room before the first
          spilt     \* history: a decode has read past the matrix

vars == <<known, last, diff, message, dest, frames, drift, least, spilt>>

Pixels == 0 .. Room - 1
Byte   == 0 .. 255
None   == [size |-> 0]

Init ==
  /\ known = 0 /\ last = [i \in Pixels |-> 0] /\ diff = [i \in Pixels |-> 0]
  /\ message = None /\ dest = [i \in Pixels |-> 0] /\ frames = 0
  /\ drift = [i \in Pixels |-> 0] /\ least = Room /\ spilt = FALSE

-----------------------------------------------------------------------------
\* The layout: the words of the matrix, then the bytes at PixelOffset.

\* A faulty variant of PixelOffset: without the last word, which may be a part of one.
PixelOffsetShort(size) == (size * WordBytes) \div StepSize

PixelOffset(size) == (size * WordBytes) \div StepSize + WordBytes

Words(size)     == (size + StepSize - 1) \div StepSize     \* that encode writes
WordsRead(size) == (size + WordBytes - 1) \div WordBytes   \* that decode reads

\* Word w was written by encode, and not over by the bytes.
Intact(size, w) == w < Words(size) /\ (w + 1) * WordBytes <= PixelOffset(size)

-----------------------------------------------------------------------------
\* The code.

\* A faulty variant of Fold: negative differences are left as they are.
FoldUpOnly(v) == IF v > 127 THEN v - 255 ELSE v

\* static_cast< char > of the difference: what goes beyond 127 is folded by 255.
Fold(v)    == IF v > 127 THEN v - 255 ELSE IF v < -127 THEN v + 255 ELSE v
Folding(v) == IF v > 127 THEN 1 ELSE IF v < -127 THEN -1 ELSE 0

\* set_bits: three bits in two's complement, and 4 for all that they cannot say.
SetBits(d) == IF d \in -3 .. 3 THEN d % 8 ELSE 4

\* abs( m_diff[i] ) > 3
Special(d) == d \notin -3 .. 3

\* How many of the differences before i have a byte.
Rank(d, i) == Cardinality({j \in 0 .. i - 1 : Special(d[j])})

\* The codes of the words; those past the frame stay 0.
Matrix(d, size) ==
  [i \in 0 .. Words(size) * StepSize - 1 |-> IF i < size THEN SetBits(d[i]) ELSE 0]

\* The bytes: of all n elements of m_diff, those a smaller frame leaves alone included.
Bytes(d, n) ==
  [r \in Pixels |->
    IF r < Rank(d, n) THEN d[CHOOSE i \in 0 .. n - 1 : Special(d[i]) /\ Rank(d, i) = r] % 256
                      ELSE 0]

\* What the decoder adds to pixel i of the frame.
Value(m, i) ==
  LET c == m.code[i] IN
    IF c = 4 THEN m.byte[Cardinality({j \in 0 .. i - 1 : m.code[j] = 4})]
             ELSE IF c < 4 THEN c ELSE c - 8

-----------------------------------------------------------------------------
Differences(source, n) ==
  [i \in Pixels |-> IF i < n THEN Fold(source[i] - last[i]) ELSE diff[i]]

Encode(size, source) ==
  /\ message = None /\ frames < Frames /\ frames' = frames + 1
  /\ known' = IF known = 0 THEN size ELSE known
  /\ size <= known'
  /\ diff' = Differences(source, size)
  /\ last' = [i \in Pixels |-> IF i < size THEN source[i] ELSE last[i]]
  /\ message' = [size |-> size, code |-> Matrix(diff', size), byte |-> Bytes(diff', known')]
  /\ drift' = [i \in Pixels |-> drift[i] + IF i < size THEN Folding(source[i] - last[i]) ELSE 0]
  /\ least' = IF size < least THEN size ELSE least
  /\ UNCHANGED <<dest, spilt>>

\* A frame larger than the first: m_lastInput.at throws when all of m_diff is done.
EncodeThrows(size, source) ==
  /\ message = None /\ frames < Frames /\ frames' = frames + 1
  /\ known # 0 /\ size > known
  /\ diff' = Differences(source, known)
  /\ UNCHANGED <<known, last, message, dest, drift, least, spilt>>

\* decode goes through as many words as it takes bytes to hold the frame, and so past
\* the matrix and past the frame; what it finds and changes there is up to the memory.
Decode ==
  LET size  == message.size
      reach == {i \in Pixels : i < WordsRead(size) * StepSize}
      whole == {i \in reach : Intact(size, i \div StepSize)}
  IN  /\ message # None
      /\ \E noise \in [reach \ whole -> Garbage] :
           dest' = [i \in Pixels |-> IF i \in whole THEN (dest[i] + Value(message, i)) % 256
                                     ELSE IF i \in reach THEN noise[i] ELSE dest[i]]
      /\ spilt' = (spilt \/ reach # whole)
      /\ message' = None
      /\ UNCHANGED <<known, last, diff, frames, drift, least>>

Next ==
  \/ \E size \in Sizes : \E source \in [0 .. size - 1 -> Values] :
       Encode(size, source) \/ EncodeThrows(size, source)
  \/ Decode

Spec == Init /\ [][Next]_vars

-----------------------------------------------------------------------------
\* Properties.

\* Every variable has its type; differences are never -128, which has no absolute value
\* in a char.
TypeOK ==
  /\ known \in 0 .. Room /\ frames \in 0 .. Frames
  /\ last \in [Pixels -> Byte] /\ dest \in [Pixels -> Byte]
  /\ diff \in [Pixels -> -127 .. 127]
  /\ drift \in [Pixels -> Int] /\ least \in 0 .. Room /\ spilt \in BOOLEAN
  /\ \/ message = None
     \/ /\ message.size \in 1 .. known
        /\ message.code \in [0 .. Words(message.size) * StepSize - 1 -> 0 .. 7]

\* Pixel i is what was sent, but for one more or one less for every difference beyond
\* 127 on the way to it (enc3b11b.cpp:173-180).
Agrees(i) == dest[i] = (last[i] + drift[i]) % 256

\* After any frames, smaller ones and refused ones too, every pixel agrees that has been
\* in all of them, and while decode has kept to the matrix all others as well: codes and
\* bytes stay in step, the bytes of older differences that a smaller frame drags along
\* come after all of its own, and what it leaves out is left alone (enc3b11b.cpp:99, 192,
\* 198).
FrameAgrees ==
  message = None => \A i \in Pixels : i < least \/ ~spilt => Agrees(i)

=============================================================================
