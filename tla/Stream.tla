-------------------------------- MODULE Stream --------------------------------
(***************************************************************************)
(* The layout of an element: a group header, then for every image a header *)
(* and room for max_size bytes (stream.cpp), as one Writer after another   *)
(* fills, resizes and copies it round the ring (writer.cpp).  Which        *)
(* element is next is up to DataBuffer; here it is any.                    *)
(*                                                                         *)
(* Sizes are computed in uint32_t, addresses and the size of the memory in *)
(* size_t, which is taken not to wrap.  An image header is held under its  *)
(* address; the bytes of an image that are written over one destroy it.    *)
(*                                                                         *)
(* The elements lie one behind the other (databuffer.cpp:106).  A Writer   *)
(* that needs more than the memory was made for may write beyond the end   *)
(* of its own: the first bytes hit are the next element's info_t, by which *)
(* semaphores are posted, then its headers, or the end of the mapping.     *)
(* The step that does so sets spilt, and the model ends with it: what the  *)
(* ring holds from then on is anything.                                    *)
(***************************************************************************)
EXTENDS Naturals

CONSTANTS GroupHeader,  \* sizeof( group_header_t )
          ImageHeader,  \* sizeof( image_header_t )
          Modulus,      \* the number of values of a uint32_t
          Elements,     \* of the ring
          Counts,       \* the numbers of images applications ask for
          Shapes,       \* the widths, heights and bpp they ask for
          Writers,      \* bound: how many there are, one after the other
          Top           \* bound: addresses stay at or below it

ASSUME HeadersAssumption == GroupHeader \in Nat \ {0} /\ ImageHeader \in Nat \ {0}
ASSUME ModulusAssumption == Modulus \in Nat \ {0}
ASSUME CountsAssumption  == Counts \subseteq Nat \ {0}
ASSUME ShapesAssumption  == Shapes \subseteq [width : Nat, height : Nat, bpp : Nat]
ASSUME BoundsAssumption  == Writers \in Nat /\ Top \in Nat

VARIABLES elemSize,  \* m_header->elem_size, 0 while there is no memory
          group,     \* group[e]: the group header of element e
          hdr,       \* hdr[e][a]: the image header at address a of element e
          elem,      \* m_element of the Writer
          writers,   \* history: how many Writers there were
          asked,     \* history: asked[i]: what image i was last made to be
          fitting,   \* history: every Writer so far needed no more than elemSize
          spilt      \* history: something was written beyond the end of its element

vars == <<elemSize, group, hdr, elem, writers, asked, fitting, spilt>>

None == "none"
Addresses == 0 .. Top
NoHeader  == [size |-> 0, width |-> 0, height |-> 0, bpp |-> 0]

Init ==
  /\ elemSize = 0
  /\ group = [e \in Elements |-> [count |-> 0, max |-> 0]]
  /\ hdr   = [e \in Elements |-> [a \in Addresses |-> NoHeader]]
  /\ elem  = None /\ writers = 0
  /\ asked = <<>>
  /\ fitting = TRUE /\ spilt = FALSE

\* width*height*bpp/8, and what an element needs.
MaxSize(s) == ((s.width * s.height * s.bpp) % Modulus) \div 8
RequiredSize(n, s) == GroupHeader + n * (ImageHeader + MaxSize(s))

ASSUME TopAssumption == \A n \in Counts, s \in Shapes : RequiredSize(n, s) <= Top

\* getHeaderAddressFromElement for an element whose group header says max.
At(max, i) == GroupHeader + i * (ImageHeader + max)

HeaderAddress(e, i) == At(group[e].max, i)
Address(e, i)       == HeaderAddress(e, i) + ImageHeader
Header(e, i)        == hdr[e][HeaderAddress(e, i)]
Images(e)           == 0 .. group[e].count - 1

Describe(s, size) == [size |-> size, width |-> s.width, height |-> s.height, bpp |-> s.bpp]

-----------------------------------------------------------------------------
\* Stream::Stream and Writer::Writer.  Memory that is there already is used as it
\* is, whatever this Writer needs.
Open(n, s) ==
  /\ elem = None /\ writers < Writers
  /\ writers' = writers + 1
  /\ elemSize' = IF elemSize = 0 THEN RequiredSize(n, s) ELSE elemSize
  /\ fitting'  = (fitting /\ RequiredSize(n, s) <= elemSize')
  /\ \E e \in Elements :
       /\ elem'  = e
       /\ group' = [group EXCEPT ![e] = [count |-> n, max |-> MaxSize(s)]]
       /\ hdr'   = [hdr EXCEPT ![e] = [a \in Addresses |->
                      IF \E i \in 0 .. n - 1 : a = At(MaxSize(s), i)
                        THEN Describe(s, MaxSize(s)) ELSE @[a]]]
  /\ asked' = [i \in 0 .. n - 1 |-> Describe(s, MaxSize(s))]
  /\ spilt' = (\E i \in 0 .. n - 1 : At(MaxSize(s), i) + ImageHeader > elemSize')

\* A faulty variant of Accepts: the multiplication is left to the comparison.
AcceptsElement(size) == size <= elemSize

\* The comparison in Stream::setSize.
Accepts(size) == size <= group[elem].max

\* A faulty variant of Depth: any number of bits will do.
DepthAny(bpp) == TRUE

\* bpp % 8 == 0
Depth(bpp) == bpp % 8 = 0

\* Writer::setSize; when it refuses nothing changes.
SetSize(i, s) ==
  LET size == (s.width * s.height * (s.bpp \div 8)) % Modulus IN
  /\ elem # None /\ i \in Images(elem)
  /\ Depth(s.bpp) /\ Accepts(size)
  /\ hdr' = [hdr EXCEPT ![elem][HeaderAddress(elem, i)] = Describe(s, size)]
  /\ asked' = [asked EXCEPT ![i] = Describe(s, size)]
  /\ spilt' = (Address(elem, i) > elemSize)
  /\ UNCHANGED <<elemSize, group, elem, writers, fitting>>

\* Writer::copyWrite: getSize( id ) bytes are written at getAddress( id ).
CopyWrite(i) ==
  /\ elem # None /\ i \in Images(elem)
  /\ LET from == Address(elem, i)
         upto == from + Header(elem, i).size
     IN  /\ hdr' = [hdr EXCEPT ![elem] = [a \in Addresses |->
                      IF from < a + ImageHeader /\ a < upto THEN NoHeader ELSE @[a]]]
         /\ spilt' = (from < upto /\ upto > elemSize)
  /\ UNCHANGED <<elemSize, group, elem, writers, asked, fitting>>

\* A faulty variant of Update: the group header is not copied.
UpdateImagesOnly ==
  /\ elem # None
  /\ \E e \in Elements \ {elem} :
       /\ elem' = e
       /\ hdr'  = [hdr EXCEPT ![e] = [a \in Addresses |->
                     IF \E i \in Images(e) \cap Images(elem) : a = HeaderAddress(e, i)
                       THEN Header(elem, CHOOSE i \in Images(elem) : a = HeaderAddress(e, i))
                       ELSE @[a]]]
  /\ UNCHANGED <<elemSize, group, writers, asked, fitting, spilt>>

\* A faulty variant of Update: the group header is copied last.
UpdateGroupLast ==
  /\ elem # None
  /\ \E e \in Elements \ {elem} :
       /\ elem'  = e
       /\ group' = [group EXCEPT ![e] = group[elem]]
       /\ hdr'   = [hdr EXCEPT ![e] = [a \in Addresses |->
                      IF \E i \in Images(elem) : a = HeaderAddress(e, i)
                        THEN Header(elem, CHOOSE i \in Images(elem) : a = HeaderAddress(e, i))
                        ELSE @[a]]]
  /\ UNCHANGED <<elemSize, writers, asked, fitting, spilt>>

\* Writer::update: the group header is copied, then every image header to where the
\* new group header puts it.
Update ==
  /\ elem # None
  /\ \E e \in Elements \ {elem} :
       /\ elem'  = e
       /\ group' = [group EXCEPT ![e] = group[elem]]
       /\ hdr'   = [hdr EXCEPT ![e] = [a \in Addresses |->
                      IF \E i \in Images(elem) : a = At(group'[e].max, i)
                        THEN Header(elem, CHOOSE i \in Images(elem) : a = At(group'[e].max, i))
                        ELSE @[a]]]
  /\ spilt' = (\E i \in Images(elem) : Address(elem, i) > elemSize)
  /\ UNCHANGED <<elemSize, writers, asked, fitting>>

\* The Writer is destroyed.
Close ==
  /\ elem # None
  /\ elem' = None /\ asked' = <<>>
  /\ UNCHANGED <<elemSize, group, hdr, writers, fitting, spilt>>

Next ==
  /\ ~spilt
  /\ \/ \E n \in Counts, s \in Shapes : Open(n, s)
     \/ elem # None /\ \E i \in Images(elem) : CopyWrite(i) \/ \E s \in Shapes : SetSize(i, s)
     \/ Update \/ Close

Spec == Init /\ [][Next]_vars

-----------------------------------------------------------------------------
\* Properties.

HeaderType == [size : 0 .. Modulus - 1, width : Nat, height : Nat, bpp : Nat]

\* Every variable has its type, sizes that of a uint32_t.
TypeOK ==
  /\ elemSize \in Nat
  /\ group \in [Elements -> [count : Nat, max : 0 .. Modulus - 1]]
  /\ hdr   \in [Elements -> [Addresses -> HeaderType]]
  /\ elem  \in Elements \cup {None}
  /\ fitting \in BOOLEAN /\ spilt \in BOOLEAN /\ writers \in 0 .. Writers
  /\ elem # None => asked \in [Images(elem) -> HeaderType]

\* As long as every Writer needs no more than the memory was made for, nothing is ever
\* written beyond the end of an element and every image that readers find ends within
\* it, whichever Writer filled it; and until something is written beyond an end, every
\* image ends before the next header.  Nothing checks the first: databuffer.cpp:44-81
\* never looks at the size of memory that is there.
ImagesFit ==
  /\ fitting => ~spilt
  /\ ~spilt => \A e \in Elements : \A i \in Images(e) :
       /\ Header(e, i).size <= group[e].max
       /\ fitting => Address(e, i) + Header(e, i).size <= elemSize

\* Until something is written beyond the end of an element, the header of an image
\* says what the constructor or the last setSize that was accepted made of it, after
\* any number of updates, whatever was written into its neighbours, and whatever
\* another Writer had left in the ring (writer.cpp:105-111).
HeadersSurvive ==
  ~spilt /\ elem # None => \A i \in Images(elem) : Header(elem, i) = asked[i]

\* The size of an image is that of its width, height and depth, as long as their
\* product can be said in 32 bits, and never more (stream.cpp:36, writer.cpp:41, 75);
\* until something is written beyond the end of an element.
SizeIsOfShape ==
  ~spilt => \A e \in Elements : \A i \in Images(e) :
    LET h == Header(e, i) bits == h.width * h.height * h.bpp IN
      /\ 8 * h.size <= bits
      /\ bits < Modulus => h.size = bits \div 8

=============================================================================
