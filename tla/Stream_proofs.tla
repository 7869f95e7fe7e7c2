----------------------------- MODULE Stream_proofs -----------------------------
(***************************************************************************)
(* Proofs about Stream, for headers and integers of any size, any shapes   *)
(* and any number of images, elements and Writers.                         *)
(***************************************************************************)
EXTENDS Stream, TLAPS

-----------------------------------------------------------------------------
\* The layout.

\* Multiplying keeps the order.
LEMMA TimesKeeps ==
  ASSUME NEW a \in Nat, NEW b \in Nat, NEW c \in Nat, a <= b
  PROVE  a * c <= b * c /\ a * c \in Nat /\ b * c \in Nat
BY SMT

\* An image with its header ends where the next one begins, or before.
LEMMA ImagesApart ==
  ASSUME NEW max \in Nat, NEW i \in Nat, NEW j \in Nat, i < j
  PROVE  /\ At(max, i) \in Nat /\ At(max, j) \in Nat
         /\ At(max, i) + ImageHeader + max <= At(max, j)
<1> DEFINE step == ImageHeader + max
<1>1. step \in Nat /\ GroupHeader \in Nat
  BY HeadersAssumption
<1>2. (i + 1) * step <= j * step /\ i * step \in Nat /\ j * step \in Nat
  BY <1>1, TimesKeeps
<1>3. (i + 1) * step = i * step + step
  BY <1>1
<1>4. PICK x \in Nat, y \in Nat :
        x = i * step /\ y = j * step /\ x + (ImageHeader + max) <= y
  BY <1>1, <1>2, <1>3
<1>5. At(max, i) = GroupHeader + x /\ At(max, j) = GroupHeader + y
  BY <1>4 DEF At
<1>6. QED
  BY <1>1, <1>4, <1>5, HeadersAssumption

\* The last of n ends with the element, whose memory the model shows.
LEMMA ImagesWithin ==
  ASSUME NEW max \in Nat, NEW n \in Nat, NEW i \in 0 .. n - 1
  PROVE  /\ At(max, i) \in Nat
         /\ At(max, i) + ImageHeader + max <= GroupHeader + n * (ImageHeader + max)
         /\ GroupHeader + n * (ImageHeader + max) <= Top => At(max, i) \in Addresses
<1>1. /\ At(max, i) \in Nat /\ At(max, n) = GroupHeader + n * (ImageHeader + max)
      /\ At(max, i) + ImageHeader + max <= At(max, n)
  BY ImagesApart DEF At
<1>2. At(max, i) <= At(max, n)
  <2>1. At(max, n) \in Nat
    BY ImagesApart
  <2>2. QED
    BY <1>1, <2>1, HeadersAssumption
<1>3. QED
  BY <1>1, <1>2, ImagesApart, BoundsAssumption DEF Addresses

\* Two images have two headers.
LEMMA AtOnce ==
  ASSUME NEW max \in Nat, NEW i \in Nat, NEW j \in Nat, At(max, i) = At(max, j)
  PROVE  i = j
<1>1. CASE i < j
  BY <1>1, ImagesApart, HeadersAssumption
<1>2. CASE j < i
  BY <1>2, ImagesApart, HeadersAssumption
<1>3. QED
  BY <1>1, <1>2

\* Sizes are those of a uint32_t.
LEMMA SizeType ==
  ASSUME NEW s \in Shapes
  PROVE  /\ MaxSize(s) \in 0 .. Modulus - 1
         /\ s.width \in Nat /\ s.height \in Nat /\ s.bpp \in Nat
<1>1. s.width \in Nat /\ s.height \in Nat /\ s.bpp \in Nat
  BY ShapesAssumption
<1>2. s.width * s.height * s.bpp \in Nat
  BY <1>1
<1>3. ASSUME NEW a \in Nat PROVE (a % Modulus) \div 8 \in 0 .. Modulus - 1
  <2>1. a % Modulus \in 0 .. Modulus - 1
    BY ModulusAssumption
  <2>2. QED
    BY <2>1, ModulusAssumption
<1>4. QED
  BY <1>1, <1>2, <1>3 DEF MaxSize

-----------------------------------------------------------------------------
\* The inductive invariant.

\* What an element needs by its group header.
Need(e) == GroupHeader + group[e].count * (ImageHeader + group[e].max)

\* It is there, as long as all Writers fitted, and can be seen.
Placed ==
  \A e \in Elements : group[e].count # 0 =>
    Need(e) <= Top /\ (fitting => Need(e) <= elemSize)

\* A header that says what room there is, and its size in accord with its shape.
Honest(h, max) ==
  /\ h.size <= max
  /\ 8 * h.size <= h.width * h.height * h.bpp
  /\ h.width * h.height * h.bpp < Modulus => h.size = (h.width * h.height * h.bpp) \div 8

AllHonest == \A e \in Elements : \A i \in Images(e) : Honest(Header(e, i), group[e].max)

\* Writers that fit write nothing beyond their elements.
Contained == fitting => ~spilt

\* What the model has in each element's own addresses holds even in the state in which
\* something was written beyond them, the last one; the theorems say nothing of it.
Kept == elem # None => \A i \in Images(elem) : Header(elem, i) = asked[i]

IInv == TypeOK /\ Placed /\ AllHonest /\ Kept /\ Contained

-----------------------------------------------------------------------------
\* What each action makes of the headers.

\* Where the headers of an element's images are.
LEMMA HeaderThere ==
  ASSUME TypeOK, Placed, NEW e \in Elements, NEW i \in Images(e)
  PROVE  /\ i \in Nat /\ group[e].count \in Nat /\ group[e].max \in Nat
         /\ i \in 0 .. group[e].count - 1
         /\ HeaderAddress(e, i) \in Addresses /\ HeaderAddress(e, i) \in Nat
         /\ Header(e, i) \in HeaderType
<1>1. group[e].count \in Nat /\ group[e].max \in Nat
  BY ModulusAssumption DEF TypeOK
<1>2. i \in 0 .. group[e].count - 1 /\ group[e].count # 0
  BY <1>1 DEF Images
<1>3. HeaderAddress(e, i) \in Addresses
  BY <1>1, <1>2, ImagesWithin DEF Placed, Need, HeaderAddress
<1>4. Header(e, i) \in HeaderType
  BY <1>3 DEF TypeOK, Header
<1>5. QED
  BY <1>1, <1>2, <1>3, <1>4 DEF Addresses

\* A number that wraps gets smaller.
LEMMA NeverMore ==
  ASSUME NEW a \in Nat
  PROVE  a % Modulus \in Nat /\ a % Modulus <= a
BY ModulusAssumption

\* What an accepted size and what the constructor store is honest.
LEMMA DescribedHonest ==
  ASSUME NEW s \in Shapes
  PROVE  /\ Describe(s, MaxSize(s)) \in HeaderType
         /\ Honest(Describe(s, MaxSize(s)), MaxSize(s))
<1>1. /\ MaxSize(s) \in 0 .. Modulus - 1
      /\ s.width \in Nat /\ s.height \in Nat /\ s.bpp \in Nat
  BY SizeType
<1>2. Describe(s, MaxSize(s)) \in HeaderType
  BY <1>1 DEF Describe, HeaderType
<1>3. s.width * s.height * s.bpp \in Nat
  BY <1>1
<1>4. ASSUME NEW a \in Nat, a < Modulus PROVE a % Modulus = a
  BY <1>4, ModulusAssumption
<1>5. s.width * s.height * s.bpp < Modulus => MaxSize(s) = (s.width * s.height * s.bpp) \div 8
  BY <1>3, <1>4 DEF MaxSize
<1>6. MaxSize(s) <= MaxSize(s)
  BY <1>1, ModulusAssumption
<1>7. ASSUME NEW a \in Nat PROVE 8 * ((a % Modulus) \div 8) <= a
  <2>1. a % Modulus \in Nat /\ a % Modulus <= a
    BY NeverMore
  <2>2. 8 * ((a % Modulus) \div 8) <= a % Modulus
    BY <2>1
  <2>3. QED
    BY <2>1, <2>2
<1>8. 8 * MaxSize(s) <= s.width * s.height * s.bpp
  BY <1>3, <1>7 DEF MaxSize
<1>9. QED
  BY <1>2, <1>5, <1>6, <1>8 DEF Describe, Honest

\* Eight bits less are a byte less, unless the product wraps.
LEMMA BytesOfBits ==
  ASSUME NEW p \in Nat, NEW b \in Nat, b % 8 = 0, p * b < Modulus
  PROVE  (p * (b \div 8)) % Modulus = (p * b) \div 8
<1> DEFINE k == b \div 8
<1>1. k \in Nat /\ b = 8 * k
  OBVIOUS
<1>2. p * b = 8 * (p * k) /\ p * k \in Nat
  BY <1>1
<1>3. ASSUME NEW x \in Nat, 8 * x < Modulus PROVE x % Modulus = x /\ (8 * x) \div 8 = x
  BY <1>3, ModulusAssumption
<1>4. QED
  BY <1>2, <1>3

\* The same for what setSize stores.
LEMMA AcceptedHonest ==
  ASSUME NEW s \in Shapes, NEW max \in Nat, NEW size, Depth(s.bpp), size <= max,
         size = (s.width * s.height * (s.bpp \div 8)) % Modulus
  PROVE  Describe(s, size) \in HeaderType /\ Honest(Describe(s, size), max)
<1>1. s.width \in Nat /\ s.height \in Nat /\ s.bpp \in Nat /\ s.bpp % 8 = 0
  BY SizeType DEF Depth
<1>2. s.width * s.height \in Nat /\ s.bpp \div 8 \in Nat
  BY <1>1
<1>3. s.width * s.height * (s.bpp \div 8) \in Nat
  BY <1>2
<1>4. ASSUME NEW a \in Nat PROVE a % Modulus \in 0 .. Modulus - 1
  BY <1>4, ModulusAssumption
<1>5. size \in 0 .. Modulus - 1
  BY <1>3, <1>4
<1>6. Describe(s, size) \in HeaderType
  BY <1>1, <1>5 DEF Describe, HeaderType
<1>7. s.width * s.height * s.bpp < Modulus => size = (s.width * s.height * s.bpp) \div 8
  BY <1>1, <1>2, BytesOfBits
<1>8. 8 * size <= s.width * s.height * s.bpp
  <2> DEFINE k == s.bpp \div 8
             pixels == s.width * s.height
  <2>1. k \in Nat /\ s.bpp = 8 * k
    BY <1>1
  <2>2. pixels \in Nat /\ pixels * k \in Nat /\ pixels * s.bpp = 8 * (pixels * k)
    BY <1>2, <2>1
  <2>3. size \in Nat /\ size <= pixels * k
    BY <2>2, NeverMore
  <2>4. QED
    BY <2>2, <2>3
<1>9. QED
  BY <1>6, <1>7, <1>8 DEF Describe, Honest

\* While the Writers fitted, an image ends within the element.
LEMMA EndsWithin ==
  ASSUME TypeOK, Placed, NEW e \in Elements, NEW i \in Images(e), fitting
  PROVE  /\ Address(e, i) \in Nat /\ Address(e, i) <= elemSize
         /\ Address(e, i) + group[e].max <= elemSize
<1> DEFINE max == group[e].max
<1>1. /\ i \in 0 .. group[e].count - 1 /\ group[e].count \in Nat /\ max \in Nat
  BY HeaderThere
<1>2. At(max, i) \in Nat /\ At(max, i) + ImageHeader + max <= Need(e)
  BY <1>1, ImagesWithin DEF Need
<1>3. Need(e) <= elemSize
  BY <1>1 DEF Placed
<1>4. Need(e) \in Nat /\ elemSize \in Nat
  <2>1. group[e].count * (ImageHeader + max) \in Nat
    BY <1>1, HeadersAssumption
  <2>2. QED
    BY <1>1, <2>1, HeadersAssumption DEF Need, TypeOK
<1>5. QED
  BY <1>1, <1>2, <1>3, <1>4, HeadersAssumption DEF Address, HeaderAddress

\* An image that is written stays clear of every header.
LEMMA CopyClear ==
  ASSUME TypeOK, Placed, AllHonest, elem \in Elements,
         NEW i \in Images(elem), NEW j \in Images(elem)
  PROVE  ~(/\ Address(elem, i) < HeaderAddress(elem, j) + ImageHeader
           /\ HeaderAddress(elem, j) < Address(elem, i) + Header(elem, i).size)
<1> DEFINE max == group[elem].max
           size == Header(elem, i).size
<1>1. /\ i \in Nat /\ j \in Nat /\ max \in Nat
      /\ HeaderAddress(elem, i) \in Nat /\ HeaderAddress(elem, j) \in Nat
      /\ Header(elem, i) \in HeaderType
  BY HeaderThere
<1>2. size \in Nat /\ size <= max
  BY <1>1, ModulusAssumption DEF AllHonest, Honest, HeaderType
<1>3. CASE i < j
  <2>1. HeaderAddress(elem, i) + ImageHeader + max <= HeaderAddress(elem, j)
    BY <1>1, <1>3, ImagesApart DEF HeaderAddress
  <2>2. QED
    BY <1>1, <1>2, <2>1, HeadersAssumption DEF Address
<1>4. CASE j < i
  <2>1. HeaderAddress(elem, j) + ImageHeader + max <= HeaderAddress(elem, i)
    BY <1>1, <1>4, ImagesApart DEF HeaderAddress
  <2>2. QED
    BY <1>1, <1>2, <2>1, HeadersAssumption DEF Address
<1>5. CASE i = j
  BY <1>1, <1>2, <1>5, HeadersAssumption DEF Address
<1>6. QED
  BY <1>1, <1>3, <1>4, <1>5

-----------------------------------------------------------------------------
\* Every step keeps the invariant.

\* What is left of a header that was written over has its type.
LEMMA NoHeaderType ==
  NoHeader \in HeaderType
BY ModulusAssumption DEF NoHeader, HeaderType

\* A Writer is made: its element is described anew, whatever was there.
LEMMA OpenKeeps ==
  ASSUME IInv, NEW n \in Counts, NEW s \in Shapes, Open(n, s)
  PROVE  IInv'
<1> DEFINE M == MaxSize(s)
           H == Describe(s, M)
<1>0. TypeOK /\ Placed /\ AllHonest
  BY DEF IInv
<1>1. /\ n \in Nat /\ n # 0 /\ M \in Nat /\ M \in 0 .. Modulus - 1
      /\ H \in HeaderType /\ Honest(H, M)
  BY CountsAssumption, ModulusAssumption, SizeType, DescribedHonest
<1>2. /\ RequiredSize(n, s) = GroupHeader + n * (ImageHeader + M) /\ RequiredSize(n, s) <= Top
      /\ RequiredSize(n, s) \in Nat /\ RequiredSize(n, s) # 0
  <2>1. n * (ImageHeader + M) \in Nat
    BY <1>1, HeadersAssumption
  <2>2. QED
    BY <2>1, HeadersAssumption, TopAssumption DEF RequiredSize
<1>3. \A i \in 0 .. n - 1 : At(M, i) \in Addresses
  BY <1>1, <1>2, ImagesWithin
<1>4. PICK e \in Elements :
        /\ elem'  = e
        /\ group' = [group EXCEPT ![e] = [count |-> n, max |-> M]]
        /\ hdr'   = [hdr EXCEPT ![e] = [a \in Addresses |->
                       IF \E i \in 0 .. n - 1 : a = At(M, i) THEN H ELSE @[a]]]
  BY DEF Open
<1>5. asked' = [i \in 0 .. n - 1 |-> H]
  BY DEF Open
<1>6. /\ group' \in [Elements -> [count : Nat, max : 0 .. Modulus - 1]]
      /\ group'[e].count = n /\ group'[e].max = M
      /\ \A f \in Elements \ {e} : group'[f] = group[f] /\ hdr'[f] = hdr[f]
  BY <1>0, <1>1, <1>4 DEF TypeOK
<1>7. hdr' \in [Elements -> [Addresses -> HeaderType]]
  <2>1. hdr[e] \in [Addresses -> HeaderType]
    BY <1>0 DEF TypeOK
  <2>2. [a \in Addresses |-> IF \E i \in 0 .. n - 1 : a = At(M, i) THEN H ELSE hdr[e][a]]
          \in [Addresses -> HeaderType]
    BY <1>1, <2>1
  <2>3. QED
    BY <1>0, <1>4, <2>2 DEF TypeOK
<1>8. ASSUME NEW i \in 0 .. n - 1 PROVE Header(e, i)' = H
  <2>1. hdr'[e] = [a \in Addresses |->
                     IF \E k \in 0 .. n - 1 : a = At(M, k) THEN H ELSE hdr[e][a]]
    BY <1>0, <1>4 DEF TypeOK
  <2>2. hdr'[e][At(M, i)] = H
    BY <1>3, <2>1
  <2>3. QED
    BY <1>6, <2>2 DEF Header, HeaderAddress
<1>9. Images(e)' = 0 .. n - 1
  BY <1>6 DEF Images
<1>10. TypeOK'
  <2>1. /\ elemSize' \in Nat /\ writers' \in 0 .. Writers
        /\ fitting' \in BOOLEAN /\ spilt' \in BOOLEAN
    BY <1>0, <1>2, BoundsAssumption DEF Open, TypeOK
  <2>2. asked' \in [Images(elem)' -> HeaderType]
    BY <1>1, <1>4, <1>5, <1>9
  <2>3. QED
    BY <1>4, <1>6, <1>7, <2>1, <2>2 DEF TypeOK
<1>11. Placed'
  <2>1. ASSUME NEW f \in Elements, group'[f].count # 0
        PROVE  Need(f)' <= Top /\ (fitting' => Need(f)' <= elemSize')
    <3>1. CASE f = e
      <4>1. Need(f)' = RequiredSize(n, s)
        BY <1>2, <1>6, <3>1 DEF Need
      <4>2. fitting' => RequiredSize(n, s) <= elemSize'
        BY DEF Open
      <4>3. QED
        BY <1>2, <4>1, <4>2
    <3>2. CASE f # e
      <4>1. /\ Need(f)' = Need(f) /\ group[f].count # 0
        BY <1>6, <2>1, <3>2 DEF Need
      <4>2. Need(f) <= Top /\ (fitting => Need(f) <= elemSize)
        BY <1>0, <4>1 DEF Placed
      <4>3. Need(f) \in Nat /\ Need(f) # 0
        <5>1. group[f].count \in Nat /\ group[f].max \in Nat
          BY <1>0, ModulusAssumption DEF TypeOK
        <5>2. group[f].count * (ImageHeader + group[f].max) \in Nat
          BY <5>1, HeadersAssumption
        <5>3. QED
          BY <5>2, HeadersAssumption DEF Need
      <4>4. fitting' => fitting /\ (elemSize = 0 \/ elemSize' = elemSize)
        BY DEF Open
      <4>5. QED
        BY <4>1, <4>2, <4>3, <4>4
    <3>3. QED
      BY <3>1, <3>2
  <2>2. QED
    BY <2>1 DEF Placed
<1>12. AllHonest'
  <2>1. ASSUME NEW f \in Elements, NEW i \in Images(f)'
        PROVE  Honest(Header(f, i)', group'[f].max)
    <3>1. CASE f = e
      BY <1>1, <1>6, <1>8, <1>9, <3>1
    <3>2. CASE f # e
      BY <1>0, <1>6, <2>1, <3>2 DEF AllHonest, Images, Header, HeaderAddress
    <3>3. QED
      BY <3>1, <3>2
  <2>2. QED
    BY <2>1 DEF AllHonest, Honest
<1>13. Kept'
  BY <1>4, <1>5, <1>8, <1>9 DEF Kept
<1>14. Contained'
  <2>1. ASSUME fitting', NEW i \in 0 .. n - 1 PROVE ~(At(M, i) + ImageHeader > elemSize')
    <3>1. i \in Images(e)' /\ elemSize' \in Nat
      BY <1>9, <1>10 DEF TypeOK
    <3>2. RequiredSize(n, s) <= elemSize'
      BY <2>1 DEF Open
    <3>3. At(M, i) \in Nat /\ At(M, i) + ImageHeader + M <= RequiredSize(n, s)
      BY <1>1, <1>2, ImagesWithin
    <3>4. QED
      BY <1>1, <1>2, <3>1, <3>2, <3>3, HeadersAssumption
  <2>2. spilt' = (\E i \in 0 .. n - 1 : At(M, i) + ImageHeader > elemSize')
    BY DEF Open
  <2>3. QED
    BY <2>1, <2>2 DEF Contained
<1>15. QED
  BY <1>10, <1>11, <1>12, <1>13, <1>14 DEF IInv

\* The images of the Writer's element keep their places while it works on them.
LEMMA SetSizeKeeps ==
  ASSUME IInv, elem # None, NEW i \in Images(elem), NEW s \in Shapes, SetSize(i, s)
  PROVE  IInv'
<1> DEFINE size == (s.width * s.height * (s.bpp \div 8)) % Modulus
           H    == Describe(s, size)
<1>0. TypeOK /\ Placed /\ AllHonest /\ Kept /\ elem \in Elements
  BY DEF IInv, TypeOK
<1>1. /\ Depth(s.bpp) /\ size <= group[elem].max
      /\ hdr' = [hdr EXCEPT ![elem][HeaderAddress(elem, i)] = H]
      /\ asked' = [asked EXCEPT ![i] = H]
      /\ UNCHANGED <<elemSize, group, elem, writers, fitting>>
      /\ spilt' = (Address(elem, i) > elemSize)
  BY DEF SetSize, Accepts
<1>2. H \in HeaderType /\ Honest(H, group[elem].max)
  BY <1>0, <1>1, HeaderThere, AcceptedHonest
<1>3. HeaderAddress(elem, i) \in Addresses
  BY <1>0, HeaderThere
<1>4. TypeOK'
  <2>1. hdr' \in [Elements -> [Addresses -> HeaderType]]
    BY <1>0, <1>1, <1>2, <1>3 DEF TypeOK
  <2>2. asked' \in [Images(elem)' -> HeaderType]
    BY <1>0, <1>1, <1>2 DEF TypeOK, Images
  <2>3. QED
    BY <1>0, <1>1, <2>1, <2>2 DEF TypeOK
<1>5. Placed'
  BY <1>0, <1>1 DEF Placed, Need
<1>6. Header(elem, i)' = H
  BY <1>0, <1>1, <1>3 DEF Header, HeaderAddress, TypeOK
<1>7. ASSUME NEW j \in Images(elem), j # i PROVE Header(elem, j)' = Header(elem, j)
  <2>1. HeaderAddress(elem, j) # HeaderAddress(elem, i)
    BY <1>0, <1>7, HeaderThere, AtOnce DEF HeaderAddress
  <2>2. QED
    BY <1>0, <1>1, <1>3, <2>1 DEF Header, HeaderAddress, TypeOK
<1>8. ASSUME NEW f \in Elements, f # elem PROVE hdr'[f] = hdr[f]
  BY <1>0, <1>1, <1>8 DEF TypeOK
<1>9. AllHonest'
  <2>1. ASSUME NEW f \in Elements, NEW j \in Images(f)'
        PROVE  Honest(Header(f, j)', group'[f].max)
    <3>1. CASE f = elem /\ j = i
      BY <1>1, <1>2, <1>6, <3>1
    <3>2. CASE f = elem /\ j # i
      BY <1>0, <1>1, <1>7, <2>1, <3>2 DEF AllHonest, Images
    <3>3. CASE f # elem
      BY <1>0, <1>1, <1>8, <2>1, <3>3 DEF AllHonest, Images, Header, HeaderAddress
    <3>4. QED
      BY <3>1, <3>2, <3>3
  <2>2. QED
    BY <2>1 DEF AllHonest, Honest
<1>10. Kept'
  <2>1. ASSUME NEW j \in Images(elem) PROVE Header(elem, j)' = asked'[j]
    <3>1. asked \in [Images(elem) -> HeaderType] /\ Header(elem, j) = asked[j]
      BY <1>0 DEF Kept, TypeOK
    <3>2. CASE j = i
      BY <1>1, <1>6, <3>1, <3>2
    <3>3. CASE j # i
      BY <1>1, <1>7, <3>1, <3>3
    <3>4. QED
      BY <3>2, <3>3
  <2>2. QED
    BY <1>1, <2>1 DEF Kept, Images, Header, HeaderAddress
<1>11. Contained'
  <2>1. fitting => Address(elem, i) \in Nat /\ Address(elem, i) <= elemSize /\ elemSize \in Nat
    BY <1>0, EndsWithin DEF TypeOK
  <2>2. fitting => ~(Address(elem, i) > elemSize)
    BY <2>1
  <2>3. QED
    BY <1>1, <2>2 DEF Contained
<1>12. QED
  BY <1>4, <1>5, <1>9, <1>10, <1>11 DEF IInv

\* An image is written, and no header with it.
LEMMA CopyWriteKeeps ==
  ASSUME IInv, elem # None, NEW i \in Images(elem), CopyWrite(i)
  PROVE  IInv'
<1> DEFINE Over(a) == /\ Address(elem, i) < a + ImageHeader
                      /\ a < Address(elem, i) + Header(elem, i).size
<1>0. TypeOK /\ Placed /\ AllHonest /\ Kept /\ elem \in Elements
  BY DEF IInv, TypeOK
<1>1. /\ hdr' = [hdr EXCEPT ![elem] = [a \in Addresses |-> IF Over(a) THEN NoHeader ELSE @[a]]]
      /\ UNCHANGED <<elemSize, group, elem, writers, asked, fitting>>
      /\ spilt' = (/\ Address(elem, i) < Address(elem, i) + Header(elem, i).size
                   /\ Address(elem, i) + Header(elem, i).size > elemSize)
  BY DEF CopyWrite
<1>2. hdr[elem] \in [Addresses -> HeaderType]
  BY <1>0 DEF TypeOK
<1>3. /\ hdr'[elem] = [a \in Addresses |-> IF Over(a) THEN NoHeader ELSE hdr[elem][a]]
      /\ \A f \in Elements : f # elem => hdr'[f] = hdr[f]
  BY <1>0, <1>1 DEF TypeOK
<1>4. hdr' \in [Elements -> [Addresses -> HeaderType]]
  <2>1. hdr'[elem] \in [Addresses -> HeaderType]
    BY <1>2, <1>3, NoHeaderType
  <2>2. QED
    BY <1>0, <1>1, <1>3, <2>1 DEF TypeOK
<1>5. TypeOK'
  BY <1>0, <1>1, <1>4 DEF TypeOK, Images
<1>6. Placed'
  BY <1>0, <1>1 DEF Placed, Need
<1>7. ASSUME NEW j \in Images(elem) PROVE Header(elem, j)' = Header(elem, j)
  <2>1. HeaderAddress(elem, j) \in Addresses /\ ~Over(HeaderAddress(elem, j))
    BY <1>0, HeaderThere, CopyClear
  <2>2. hdr'[elem][HeaderAddress(elem, j)] = hdr[elem][HeaderAddress(elem, j)]
    BY <1>3, <2>1
  <2>3. QED
    BY <1>1, <2>2 DEF Header, HeaderAddress
<1>8. AllHonest'
  <2>1. ASSUME NEW f \in Elements, NEW j \in Images(f)'
        PROVE  Honest(Header(f, j)', group'[f].max)
    <3>1. CASE f = elem
      BY <1>0, <1>1, <1>7, <2>1, <3>1 DEF AllHonest, Images
    <3>2. CASE f # elem
      BY <1>0, <1>1, <1>3, <2>1, <3>2 DEF AllHonest, Images, Header, HeaderAddress
    <3>3. QED
      BY <3>1, <3>2
  <2>2. QED
    BY <2>1 DEF AllHonest, Honest
<1>9. Kept'
  <2>1. ASSUME NEW j \in Images(elem) PROVE Header(elem, j)' = asked'[j]
    BY <1>0, <1>1, <1>7 DEF Kept
  <2>2. QED
    BY <1>1, <2>1 DEF Kept, Images, Header, HeaderAddress
<1>10. Contained'
  <2>1. ASSUME fitting PROVE ~(Address(elem, i) + Header(elem, i).size > elemSize)
    <3>1. /\ Address(elem, i) \in Nat /\ elemSize \in Nat
          /\ Address(elem, i) + group[elem].max <= elemSize
      BY <1>0, <2>1, EndsWithin DEF TypeOK
    <3>2. Header(elem, i).size <= group[elem].max
      BY <1>0 DEF AllHonest, Honest
    <3>3. Header(elem, i) \in HeaderType /\ group[elem].max \in Nat
      BY <1>0, HeaderThere
    <3>4. Header(elem, i).size \in Nat
      BY <3>3, ModulusAssumption DEF HeaderType
    <3>5. QED
      BY <3>1, <3>2, <3>3, <3>4
  <2>2. QED
    BY <1>1, <2>1 DEF Contained
<1>11. QED
  BY <1>5, <1>6, <1>8, <1>9, <1>10 DEF IInv

\* The next element becomes what the last one was.
LEMMA UpdateKeeps ==
  ASSUME IInv, Update
  PROVE  IInv'
<1>0. TypeOK /\ Placed /\ AllHonest /\ Kept /\ elem \in Elements /\ elem # None
  BY DEF IInv, TypeOK, Update
<1> DEFINE From(a) == Header(elem, CHOOSE i \in Images(elem) : a = At(group[elem].max, i))
           There(a) == \E i \in Images(elem) : a = At(group[elem].max, i)
<1>1. PICK e \in Elements \ {elem} :
        /\ elem'  = e
        /\ group' = [group EXCEPT ![e] = group[elem]]
        /\ hdr'   = [hdr EXCEPT ![e] = [a \in Addresses |->
                       IF \E i \in Images(elem) : a = At(group'[e].max, i)
                         THEN Header(elem, CHOOSE i \in Images(elem) : a = At(group'[e].max, i))
                         ELSE @[a]]]
  BY DEF Update
<1>2. /\ UNCHANGED <<elemSize, writers, asked, fitting>>
      /\ spilt' = (\E i \in Images(elem) : Address(elem, i) > elemSize)
  BY DEF Update
<1>3. /\ group' \in [Elements -> [count : Nat, max : 0 .. Modulus - 1]]
      /\ group'[e] = group[elem]
      /\ \A f \in Elements \ {e} : group'[f] = group[f] /\ hdr'[f] = hdr[f]
      /\ hdr[e] \in [Addresses -> HeaderType]
  BY <1>0, <1>1 DEF TypeOK
<1>4. hdr'[e] = [a \in Addresses |-> IF There(a) THEN From(a) ELSE hdr[e][a]]
  BY <1>0, <1>1, <1>3 DEF TypeOK
<1>5. \A i \in Images(elem) : Header(elem, i) \in HeaderType
  BY <1>0, HeaderThere
<1>6. hdr' \in [Elements -> [Addresses -> HeaderType]]
  <2>1. ASSUME NEW a \in Addresses, There(a) PROVE From(a) \in HeaderType
    BY <1>5, <2>1
  <2>2. hdr'[e] \in [Addresses -> HeaderType]
    BY <1>3, <1>4, <2>1
  <2>3. QED
    BY <1>0, <1>1, <1>3, <2>2 DEF TypeOK
<1>7. Images(e)' = Images(elem)
  BY <1>3 DEF Images
<1>8. ASSUME NEW i \in Images(elem) PROVE Header(e, i)' = Header(elem, i)
  <2> DEFINE a == At(group[elem].max, i)
  <2>1. a \in Addresses /\ There(a)
    BY <1>0, HeaderThere DEF HeaderAddress
  <2>2. (CHOOSE k \in Images(elem) : a = At(group[elem].max, k)) = i
    BY <1>0, HeaderThere, AtOnce
  <2>3. hdr'[e][a] = Header(elem, i)
    BY <1>4, <2>1, <2>2
  <2>4. QED
    BY <1>3, <2>3 DEF Header, HeaderAddress
<1>9. TypeOK'
  BY <1>0, <1>1, <1>2, <1>3, <1>6, <1>7 DEF TypeOK
<1>10. Placed'
  BY <1>0, <1>2, <1>3 DEF Placed, Need
<1>11. AllHonest'
  <2>1. ASSUME NEW f \in Elements, NEW i \in Images(f)'
        PROVE  Honest(Header(f, i)', group'[f].max)
    <3>1. CASE f = e
      BY <1>0, <1>3, <1>7, <1>8, <2>1, <3>1 DEF AllHonest
    <3>2. CASE f # e
      BY <1>0, <1>3, <2>1, <3>2 DEF AllHonest, Images, Header, HeaderAddress
    <3>3. QED
      BY <3>1, <3>2
  <2>2. QED
    BY <2>1 DEF AllHonest, Honest
<1>12. Kept'
  BY <1>0, <1>1, <1>2, <1>7, <1>8 DEF Kept
<1>13. Contained'
  <2>1. ASSUME fitting, NEW i \in Images(elem) PROVE ~(Address(elem, i) > elemSize)
    BY <1>0, <2>1, EndsWithin DEF TypeOK
  <2>2. QED
    BY <1>2, <2>1 DEF Contained
<1>14. QED
  BY <1>9, <1>10, <1>11, <1>12, <1>13 DEF IInv

\* It holds at first and is kept by every step, stuttering included.
LEMMA Invariant == Spec => []IInv
<1>1. Init => IInv
  <2> SUFFICES ASSUME Init PROVE IInv
    OBVIOUS
  <2>1. \A e \in Elements : group[e].count = 0 /\ Images(e) = {}
    BY DEF Init, Images
  <2>2. TypeOK
    <3>1. group \in [Elements -> [count : Nat, max : 0 .. Modulus - 1]]
      BY ModulusAssumption DEF Init
    <3>2. hdr \in [Elements -> [Addresses -> HeaderType]]
      BY NoHeaderType DEF Init
    <3>3. elemSize \in Nat /\ writers \in 0 .. Writers /\ elem = None /\ elem \in {None}
      BY BoundsAssumption DEF Init
    <3>4. fitting \in BOOLEAN /\ spilt \in BOOLEAN
      BY DEF Init
    <3>5. QED
      BY <3>1, <3>2, <3>3, <3>4 DEF TypeOK
  <2>3. QED
    BY <2>1, <2>2 DEF Init, IInv, Placed, AllHonest, Kept, Contained
<1>2. IInv /\ [Next]_vars => IInv'
  <2>1. ASSUME IInv, Close PROVE IInv'
    BY <2>1 DEF Close, IInv, TypeOK, Placed, Need, AllHonest, Honest, Kept, Contained,
       Images, Header, HeaderAddress
  <2>2. ASSUME IInv, UNCHANGED vars PROVE IInv'
    BY <2>2 DEF vars, IInv, TypeOK, Placed, Need, AllHonest, Honest, Kept, Contained,
       Images, Header, HeaderAddress
  <2>3. QED
    BY <2>1, <2>2, OpenKeeps, SetSizeKeeps, CopyWriteKeeps, UpdateKeeps DEF Next
<1>3. QED
  BY <1>1, <1>2, PTL DEF Spec

\* Every variable keeps its type.
THEOREM TypeCorrect == Spec => []TypeOK
<1>1. IInv => TypeOK
  BY DEF IInv
<1>2. QED
  BY <1>1, Invariant, PTL

\* The header of an image survives updates, writes and Writers, however many, until
\* something is written beyond the end of an element; and EveryImageFits says that
\* nothing is while the Writers fit.
THEOREM HeadersKept == Spec => []HeadersSurvive
<1>1. IInv => HeadersSurvive
  BY DEF IInv, Kept, HeadersSurvive
<1>2. QED
  BY <1>1, Invariant, PTL

\* Writers that fit write nothing beyond the end of an element and have every image
\* within it; every image ends before the next header until something is written
\* beyond an end; whatever the sizes of headers, shapes and integers.
THEOREM EveryImageFits == Spec => []ImagesFit
<1>1. ASSUME IInv, NEW e \in Elements, NEW i \in Images(e)
      PROVE  /\ Header(e, i).size <= group[e].max
             /\ fitting => Address(e, i) + Header(e, i).size <= elemSize
  <2>1. TypeOK /\ Placed /\ Header(e, i).size <= group[e].max
    BY <1>1 DEF IInv, AllHonest, Honest
  <2>2. Header(e, i) \in HeaderType /\ group[e].max \in Nat
    BY <2>1, HeaderThere
  <2>3. Header(e, i).size \in Nat
    BY <2>2, ModulusAssumption DEF HeaderType
  <2>4. fitting => Address(e, i) \in Nat /\ Address(e, i) + group[e].max <= elemSize
    BY <2>1, EndsWithin
  <2>5. elemSize \in Nat
    BY <2>1 DEF TypeOK
  <2>6. QED
    BY <2>1, <2>2, <2>3, <2>4, <2>5
<1>2. IInv => ImagesFit
  BY <1>1 DEF ImagesFit, IInv, Contained
<1>3. QED
  BY <1>2, Invariant, PTL

\* The size of an image is that of its shape, unless the product of width, height and
\* bits does not fit, and then it is less.
THEOREM SizesHonest == Spec => []SizeIsOfShape
<1>1. IInv => SizeIsOfShape
  BY DEF IInv, AllHonest, Honest, SizeIsOfShape
<1>2. QED
  BY <1>1, Invariant, PTL

===============================================================================
