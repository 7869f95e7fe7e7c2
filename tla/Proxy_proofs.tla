---------------------------- MODULE Proxy_proofs ----------------------------
(***************************************************************************)
(* The client publishes what the server was handed: Proxy implements       *)
(* Mirror, for streams of any number of images, of any sizes, over         *)
(* connections of any capacity.                                            *)
(*                                                                         *)
(* The argument is about the units the client has yet to take, wherever    *)
(* they are: the header it took last says what comes first, and every      *)
(* header among them says what comes after it, up to where the server is.  *)
(***************************************************************************)
EXTENDS Proxy, SequenceTheorems, TLAPS

Units  == [kind : {"initial", "header", "data"}, image : Nat, frame : Nat, size : Nat]
Fields == {"version", "options", "length", "name"}

Early == sp \in {"version", "options", "length", "name", "attach"}

Types ==
  /\ wire \in [Ends -> Seq(Units \cup Fields)] /\ wire["client"] \in Seq(Units)
  /\ out  \in [Ends -> Seq(Units \cup Fields)] /\ out["server"]  \in Seq(Units)
  /\ got  \in [Ends -> Seq(Units \cup Fields)] /\ got["client"]  \in Seq(Units)
  /\ peer \in [Ends -> {"open", "fin", "pipe", "rst"}]
  /\ sp \in {"version", "options", "length", "name", "attach", "initial", "send",
             "left", "gone", "killed"}
  /\ cp \in {"connect", "initial", "header", "data", "update", "ended", "aborted"}
  /\ held \in 0 .. Frames /\ sending \in 0 .. Images
  /\ sizes \in [1 .. Images -> Nat] /\ first \in Nat /\ max \in Nat
  /\ image \in 1 .. Images /\ size \in Nat /\ shown \in Nat
  /\ slot \in [1 .. Images -> Seq(Units)]
  /\ stopped \in [Ends -> BOOLEAN]

\* What the client has yet to take, and the header it took last (before the first,
\* one of an empty frame 0), with its place relative to the units in flight.
Flight == got["client"] \o wire["client"] \o out["server"]

Asking == cp \in {"connect", "initial"}
Live   == cp \in {"connect", "initial", "header", "data", "update"}

Previous ==
  IF cp = "data" THEN Unit("header", image, shown + 1, size)
  ELSE IF image > 1 THEN Unit("header", image - 1, shown + 1, size)
  ELSE Unit("header", Images, IF cp = "update" THEN shown + 1 ELSE shown, size)

PreviousAt == IF Asking THEN 1 ELSE IF cp = "data" THEN 0 ELSE 0 - size

\* Image m of frame g comes after image i of frame f.
Turn(i, f, m, g) ==
  /\ m = IF i < Images THEN i + 1 ELSE 1
  /\ g = IF i < Images THEN f ELSE f + 1

\* The header v of an image is the next one after u.
Follows(u, v) == v.kind = "header" /\ Turn(u.image, u.frame, v.image, v.frame)

\* With a header u at p, the units that q has after p are what u says.
After(q, p, u) ==
  /\ u.image \in 1 .. Images /\ u.size \in 0 .. MaxSize
  /\ \A j \in 1 .. Len(q) :
       /\ j \in p + 1 .. p + u.size => q[j] = Unit("data", u.image, u.frame, u.size)
       /\ j = p + u.size + 1        => Follows(u, q[j])

Chain(q, h, u) ==
  /\ After(q, h, u)
  /\ \A p \in 1 .. Len(q) : q[p].kind = "header" => After(q, p, q[p]) /\ q[p].size # 0

\* q goes as far as the end of image i of frame f.
Closes(q, p, u, i, f) ==
  p + u.size >= Len(q) => p + u.size = Len(q) /\ u.image = i /\ u.frame = f

Ended(q, h, u, i, f) ==
  /\ Closes(q, h, u, i, f)
  /\ \A p \in 1 .. Len(q) : q[p].kind = "header" => Closes(q, p, q[p], i, f)

\* Where the server stands: the last image it has written, or the initial message.
Written ==
  /\ Early => held = 0 /\ (Live => Asking /\ Flight = <<>>)
  /\ sp = "initial" => held = 1 /\ (Live => Ended(Flight, PreviousAt, Previous, Images, 0))
  /\ sp = "send" => sending # 0 /\ (Live => Ended(Flight, PreviousAt, Previous, sending, held))
  /\ sp \in {"initial", "send"} => held # 0 /\ sizes \in [1 .. Images -> 1 .. MaxSize]

\* The frames there are, and the size the client was told.
Known ==
  /\ Previous.frame <= held
  /\ \A p \in 1 .. Len(Flight) : Flight[p].frame <= held
  /\ IF Asking THEN Flight # <<>> => Flight[1] = Unit("initial", 1, 1, first)
               ELSE max = first

\* The registers of the client.
Registers ==
  /\ Asking => image = 1 /\ shown = 0 /\ size = 0
  /\ cp = "update" => image = 1
  /\ cp = "data" => size # 0
  /\ cp \in {"initial", "header"} => Len(got["client"]) <= 1
  /\ cp = "data" => Len(got["client"]) <= size
  /\ cp \notin {"initial", "header", "data"} => got["client"] = <<>>

\* Image i of frame f, whole.
Whole(s, i, f) ==
  /\ s # <<>> /\ Len(s) = s[1].size
  /\ \A p \in 1 .. Len(s) : s[p].kind = "data" /\ s[p].image = i /\ s[p].frame = f

Stored ==
  \A i \in 1 .. Images : i < image \/ cp = "update" => Whole(slot[i], i, shown + 1)

IInv ==
  /\ Types /\ Written /\ shown <= held
  /\ Live => /\ Chain(Flight, PreviousAt, Previous) /\ Known /\ Registers /\ Stored
             /\ peer["server"] \notin {"fin", "pipe"}

-----------------------------------------------------------------------------
\* Sequences.

\* A position behind n elements, counted from there.
LEMMA CountedFrom ==
  ASSUME NEW n \in Int, NEW s \in Int, NEW p \in Int, p \in n + 2 .. n + s + 1
  PROVE  p - n \in 2 .. s + 1 /\ n + (p - n) = p
OBVIOUS

\* What a send or a receive moves and what it leaves are sequences of the same kind.
LEMMA Pieces ==
  ASSUME NEW S, NEW s \in Seq(S), NEW n \in 1 .. Len(s)
  PROVE  /\ SubSeq(s, 1, n) \in Seq(S)
         /\ SubSeq(s, n + 1, Len(s)) \in Seq(S)
         /\ Len(SubSeq(s, 1, n)) = n
         /\ SubSeq(s, 1, n) \o SubSeq(s, n + 1, Len(s)) = s
<1>1. Len(s) \in Nat /\ \A i \in 1 .. Len(s) : s[i] \in S
  BY ElementOfSeq, LenProperties
<1>2. SubSeq(s, 1, n) \in Seq(S) /\ Len(SubSeq(s, 1, n)) = n
  BY <1>1, SubSeqProperties
<1>3. SubSeq(s, n + 1, Len(s)) \in Seq(S)
  BY <1>1, SubSeqProperties
<1>4. SubSeq(s, 1, n) \o SubSeq(s, n + 1, Len(s)) = SubSeq(s, 1, Len(s))
  BY <1>1, ConcatAdjacentSubSeq
<1>5. SubSeq(s, 1, Len(s)) = s
  BY SubSeqFull
<1>6. QED
  BY <1>2, <1>3, <1>4, <1>5

\* The three parts of the way to the client, as one sequence.
LEMMA Joined ==
  ASSUME NEW S, NEW a \in Seq(S), NEW b \in Seq(S), NEW c \in Seq(S)
  PROVE  /\ a \o b \o c \in Seq(S)
         /\ Len(a \o b \o c) = Len(a) + Len(b) + Len(c)
         /\ \A p \in 1 .. Len(a) : (a \o b \o c)[p] = a[p]
         /\ \A p \in 1 .. Len(a) + Len(b) : (a \o b \o c)[p] = (a \o b)[p]
         /\ \A p \in 1 .. Len(b) + Len(c) : (a \o b \o c)[p + Len(a)] = (b \o c)[p]
         /\ \A p \in 1 .. Len(c) : (a \o b \o c)[p + Len(a) + Len(b)] = c[p]
<1>1. Len(a) \in Nat /\ Len(b) \in Nat /\ Len(c) \in Nat
  BY LenProperties
<1>2. /\ a \o b \in Seq(S) /\ Len(a \o b) = Len(a) + Len(b)
      /\ \A p \in 1 .. Len(a) + Len(b) : (a \o b)[p] = IF p <= Len(a) THEN a[p] ELSE b[p - Len(a)]
  BY ConcatProperties
<1>3. /\ b \o c \in Seq(S) /\ Len(b \o c) = Len(b) + Len(c)
      /\ \A p \in 1 .. Len(b) + Len(c) : (b \o c)[p] = IF p <= Len(b) THEN b[p] ELSE c[p - Len(b)]
  BY ConcatProperties
<1>4. /\ (a \o b) \o c \in Seq(S) /\ Len((a \o b) \o c) = Len(a \o b) + Len(c)
      /\ \A p \in 1 .. Len(a \o b) + Len(c) :
           ((a \o b) \o c)[p] = IF p <= Len(a \o b) THEN (a \o b)[p] ELSE c[p - Len(a \o b)]
  BY <1>2, ConcatProperties
<1>5. QED
  BY <1>1, <1>2, <1>3, <1>4

\* A send does not change what is under way in all.
LEMMA SendSame ==
  ASSUME NEW a \in Seq(Units), NEW b \in Seq(Units), NEW c \in Seq(Units), NEW n \in 1 .. Len(c)
  PROVE  a \o (b \o SubSeq(c, 1, n)) \o SubSeq(c, n + 1, Len(c)) = a \o b \o c
<1>1. ASSUME NEW x \in Seq(Units), NEW y \in Seq(Units), x \o y = c
      PROVE  a \o (b \o x) \o y = a \o b \o c
  <2>1. a \o b \in Seq(Units)
    BY ConcatProperties
  <2>2. a \o (b \o x) = (a \o b) \o x
    BY SMTT(30)
  <2>3. ((a \o b) \o x) \o y = (a \o b) \o (x \o y)
    BY SMTT(30), <2>1
  <2>4. QED
    BY <1>1, <2>2, <2>3
<1>2. /\ SubSeq(c, 1, n) \in Seq(Units) /\ SubSeq(c, n + 1, Len(c)) \in Seq(Units)
      /\ SubSeq(c, 1, n) \o SubSeq(c, n + 1, Len(c)) = c
  BY Pieces
<1>3. QED
  BY <1>1, <1>2, Zenon

\* Nor does a receive.
LEMMA ReceiveSame ==
  ASSUME NEW a \in Seq(Units), NEW b \in Seq(Units), NEW c \in Seq(Units), NEW n \in 1 .. Len(b)
  PROVE  (a \o SubSeq(b, 1, n)) \o SubSeq(b, n + 1, Len(b)) \o c = a \o b \o c
<1>1. ASSUME NEW x \in Seq(Units), NEW y \in Seq(Units), x \o y = b
      PROVE  (a \o x) \o y \o c = a \o b \o c
  <2>1. (a \o x) \o y = a \o (x \o y)
    OBVIOUS
  <2>2. QED
    BY <1>1, <2>1
<1>2. /\ SubSeq(b, 1, n) \in Seq(Units) /\ SubSeq(b, n + 1, Len(b)) \in Seq(Units)
      /\ SubSeq(b, 1, n) \o SubSeq(b, n + 1, Len(b)) = b
  BY Pieces
<1>3. QED
  BY <1>1, <1>2, Zenon

-----------------------------------------------------------------------------
\* Chains of headers.

\* What is taken off the front of a chain leaves a chain, after any of its headers.
LEMMA ChainShifts ==
  ASSUME NEW q \in Seq(Units), NEW r \in Seq(Units), NEW k \in Nat,
         Len(q) = Len(r) + k, \A p \in 1 .. Len(r) : r[p] = q[p + k],
         NEW h \in Int, NEW u \in Units, NEW g \in Int, NEW v \in Units,
         Chain(q, h, u), After(q, g + k, v)
  PROVE  Chain(r, g, v)
<1>1. Len(q) \in Nat /\ Len(r) \in Nat
  BY LenProperties
<1>2. ASSUME NEW p \in Int, NEW w \in Units, After(q, p + k, w)
      PROVE  After(r, p, w)
  <2>1. ASSUME NEW j \in 1 .. Len(r)
        PROVE  /\ j \in p + 1 .. p + w.size => r[j] = Unit("data", w.image, w.frame, w.size)
               /\ j = p + w.size + 1        => Follows(w, r[j])
    <3>0. w.size \in Nat
      BY DEF Units
    <3>1. j + k \in 1 .. Len(q) /\ r[j] = q[j + k]
      BY <1>1
    <3>2. /\ j + k \in (p + k) + 1 .. (p + k) + w.size
                => q[j + k] = Unit("data", w.image, w.frame, w.size)
          /\ j + k = (p + k) + w.size + 1 => Follows(w, q[j + k])
      BY <3>1, <1>2 DEF After
    <3>3. /\ j \in p + 1 .. p + w.size => j + k \in (p + k) + 1 .. (p + k) + w.size
          /\ j = p + w.size + 1 => j + k = (p + k) + w.size + 1
      <4>1. ASSUME NEW s \in Nat
            PROVE  /\ j \in p + 1 .. p + s => j + k \in (p + k) + 1 .. (p + k) + s
                   /\ j = p + s + 1 => j + k = (p + k) + s + 1
        BY <1>1
      <4>2. QED
        BY <4>1, <3>0, Zenon
    <3>4. QED
      BY <3>1, <3>2, <3>3
  <2>2. QED
    BY <2>1, <1>2 DEF After
<1>3. ASSUME NEW p \in 1 .. Len(r), r[p].kind = "header"
      PROVE  After(r, p, r[p]) /\ r[p].size # 0
  <2>1. p + k \in 1 .. Len(q) /\ q[p + k] = r[p] /\ r[p] \in Units /\ p \in Int
    BY <1>1, ElementOfSeq
  <2>2. After(q, p + k, r[p]) /\ r[p].size # 0
    BY <2>1, <1>3 DEF Chain
  <2>3. QED
    BY <1>2, <2>1, <2>2
<1>4. QED
  BY <1>2, <1>3 DEF Chain

\* The units that remain after the first k end where all of them did: at the same place
\* of the server's loop over the images.
LEMMA EndShifts ==
  ASSUME NEW q \in Seq(Units), NEW r \in Seq(Units), NEW k \in Nat,
         Len(q) = Len(r) + k, \A p \in 1 .. Len(r) : r[p] = q[p + k],
         NEW h \in Int, NEW u \in Units, NEW g \in Int, NEW v \in Units, NEW i, NEW f,
         Ended(q, h, u, i, f), Closes(q, g + k, v, i, f)
  PROVE  Ended(r, g, v, i, f)
<1>1. Len(q) \in Nat /\ Len(r) \in Nat
  BY LenProperties
<1>2. ASSUME NEW p \in Int, NEW w \in Units, Closes(q, p + k, w, i, f)
      PROVE  Closes(r, p, w, i, f)
  <2>1. w.size \in Nat
    BY DEF Units
  <2>2. QED
    BY <1>1, <1>2, <2>1 DEF Closes
<1>3. ASSUME NEW p \in 1 .. Len(r), r[p].kind = "header"
      PROVE  Closes(r, p, r[p], i, f)
  <2>1. p + k \in 1 .. Len(q) /\ q[p + k] = r[p] /\ r[p] \in Units /\ p \in Int
    BY <1>1, ElementOfSeq
  <2>2. Closes(q, p + k, r[p], i, f)
    BY <2>1, <1>3 DEF Ended
  <2>3. QED
    BY <1>2, <2>1, <2>2
<1>4. QED
  BY <1>2, <1>3 DEF Ended

\* A chain cut off anywhere is a chain.
LEMMA ChainCut ==
  ASSUME NEW q \in Seq(Units), NEW r \in Seq(Units),
         Len(r) <= Len(q), \A p \in 1 .. Len(r) : r[p] = q[p],
         NEW h \in Int, NEW u \in Units, Chain(q, h, u)
  PROVE  Chain(r, h, u)
<1>1. \A p \in 1 .. Len(r) : p \in 1 .. Len(q) /\ r[p] = q[p]
  BY LenProperties
<1>2. ASSUME NEW p, NEW w, After(q, p, w)
      PROVE  After(r, p, w)
  BY <1>1, <1>2 DEF After
<1>3. QED
  BY <1>1, <1>2 DEF Chain

\* A whole image after a chain that has ended makes a longer one that has ended.
LEMMA ChainGrows ==
  ASSUME NEW q \in Seq(Units), NEW r \in Seq(Units), NEW h \in Int, NEW u \in Units,
         NEW i \in 1 .. Images, NEW f \in Nat, NEW m \in 1 .. Images, NEW g \in Nat,
         NEW s \in 1 .. MaxSize,
         h <= Len(q), Chain(q, h, u), Ended(q, h, u, i, f),
         Turn(i, f, m, g),
         Len(r) = Len(q) + s + 1, \A p \in 1 .. Len(q) : r[p] = q[p],
         r[Len(q) + 1] = Unit("header", m, g, s),
         \A p \in 2 .. s + 1 : r[Len(q) + p] = Unit("data", m, g, s)
  PROVE  Chain(r, h, u) /\ Ended(r, h, u, m, g)
<1> DEFINE n == Len(q)
<1>1. n \in Nat /\ Len(r) \in Nat /\ MaxSize \in Nat /\ Images \in Nat
  BY LenProperties, SizesAssumption, CountsAssumption
<1>2. ASSUME NEW p \in Int, NEW w \in Units, p <= n, After(q, p, w), Closes(q, p, w, i, f)
      PROVE  After(r, p, w) /\ Closes(r, p, w, m, g)
  <2>0. w.size \in Nat
    BY DEF Units
  <2>1. p + w.size <= n /\ w.size \in Nat
    BY <2>0, <1>1, <1>2 DEF Closes
  <2>2. p + w.size = n => w.image = i /\ w.frame = f
    BY <1>1, <1>2, <2>1 DEF Closes
  <2>3. ASSUME NEW j \in 1 .. Len(r), j = p + w.size + 1
        PROVE  Follows(w, r[j])
    <3>1. CASE j <= n
      <4>1. j \in 1 .. n /\ r[j] = q[j]
        BY <3>1, <1>1
      <4>2. QED
        BY <4>1, <1>2, <2>3 DEF After
    <3>2. CASE j > n
      <4>1. j = n + 1 /\ p + w.size = n
        BY SMTT(20), <3>2, <2>1, <2>3, <1>1
      <4>2. QED
        BY <4>1, <2>2, <1>1 DEF Follows, Turn, Unit
    <3>3. QED
      BY <3>1, <3>2, <1>1
  <2>4. ASSUME NEW j \in 1 .. Len(r), j \in p + 1 .. p + w.size
        PROVE  r[j] = Unit("data", w.image, w.frame, w.size)
    <3>0. j \in 1 .. n
      <4>1. ASSUME NEW t \in Nat, j \in p + 1 .. p + t, p + t <= n PROVE j \in 1 .. n
        BY <4>1, <1>1
      <4>2. QED
        BY <4>1, <2>1, <2>4, Zenon
    <3>1. j \in 1 .. n /\ r[j] = q[j]
      BY <3>0, Zenon
    <3>2. QED
      BY <3>1, <1>2, <2>4 DEF After
  <2>5. w.image \in 1 .. Images /\ w.size \in 0 .. MaxSize
    BY <1>2 DEF After
  <2>6. After(r, p, w)
    BY <2>3, <2>4, <2>5 DEF After
  <2>7. Closes(r, p, w, m, g)
    BY <2>1, <1>1 DEF Closes
  <2>8. QED
    BY <2>6, <2>7
<1>3. After(r, n + 1, r[n + 1]) /\ Closes(r, n + 1, r[n + 1], m, g) /\ r[n + 1].size # 0
  <2>1. /\ r[n + 1].size = s /\ r[n + 1].image = m /\ r[n + 1].frame = g
    BY DEF Unit
  <2>2. ASSUME NEW j \in 1 .. Len(r), j \in (n + 1) + 1 .. (n + 1) + s
        PROVE  r[j] = Unit("data", m, g, s)
    <3>1. j - n \in 2 .. s + 1 /\ n + (j - n) = j
      BY <1>1, <2>2
    <3>2. QED
      BY <3>1
  <2>3. After(r, n + 1, r[n + 1])
    BY SMTT(20), <2>1, <2>2, <1>1 DEF After
  <2>4. Closes(r, n + 1, r[n + 1], m, g)
    BY <2>1, <1>1 DEF Closes
  <2>5. QED
    BY <2>1, <2>3, <2>4, <1>1
<1>4. ASSUME NEW p \in 1 .. Len(r), r[p].kind = "header"
      PROVE  After(r, p, r[p]) /\ r[p].size # 0 /\ Closes(r, p, r[p], m, g)
  <2>1. CASE p <= n
    <3>0. p \in 1 .. n /\ p \in Int
      BY <2>1, <1>1
    <3>1. p \in 1 .. n /\ r[p] = q[p] /\ q[p] \in Units /\ p \in Int
      BY <3>0, ElementOfSeq, Zenon
    <3>2. After(q, p, q[p]) /\ q[p].size # 0 /\ Closes(q, p, q[p], i, f)
      BY <3>1, <1>4 DEF Chain, Ended
    <3>3. QED
      BY <1>2, <3>1, <3>2, <2>1
  <2>2. CASE p = n + 1
    BY <2>2, <1>3
  <2>3. CASE p > n + 1
    <3>1. p - n \in 2 .. s + 1 /\ n + (p - n) = p
      <4>1. Len(r) = n + s + 1 /\ s \in Int /\ n \in Int /\ p \in Int
        BY <1>1
      <4>2. p \in n + 2 .. n + s + 1
        BY <4>1, <2>3, <1>1
      <4>3. QED
        BY <4>1, <4>2, CountedFrom, Zenon
    <3>2. r[p] = Unit("data", m, g, s)
      BY <3>1
    <3>3. QED
      BY <3>2, <1>4 DEF Unit
  <2>4. QED
    BY <2>1, <2>2, <2>3, <1>1
<1>5. After(r, h, u) /\ Closes(r, h, u, m, g)
  BY <1>2 DEF Chain, Ended
<1>6. QED
  BY <1>4, <1>5 DEF Chain, Ended

-----------------------------------------------------------------------------
\* Types.

\* An image is sent as so many units, the first of them its header.
LEMMA ImageUnits ==
  ASSUME NEW i \in Nat, NEW f \in Nat, NEW s \in Nat
  PROVE  /\ Image(i, f, s) \in Seq(Units)
         /\ Len(Image(i, f, s)) = s + 1
         /\ Image(i, f, s)[1] = Unit("header", i, f, s)
         /\ \A p \in 2 .. s + 1 : Image(i, f, s)[p] = Unit("data", i, f, s)
<1>1. /\ Unit("header", i, f, s) \in Units /\ Unit("data", i, f, s) \in Units
  BY DEF Unit, Units
<1>2. Image(i, f, s) \in [1 .. s + 1 -> Units]
  BY <1>1 DEF Image
<1>3. Image(i, f, s) \in Seq(Units) /\ Len(Image(i, f, s)) = s + 1
  BY <1>2
<1>4. /\ Image(i, f, s)[1] = Unit("header", i, f, s)
      /\ \A p \in 2 .. s + 1 : Image(i, f, s)[p] = Unit("data", i, f, s)
  BY DEF Image
<1>5. QED
  BY <1>3, <1>4

\* What the client sends first is a sequence of fields (client.cpp:81-87).
LEMMA RequestType == Request \in Seq(Units \cup Fields)
<1>1. [i \in 1 .. NameLength |-> "name"] \in Seq(Units \cup Fields)
  <2>1. [i \in 1 .. NameLength |-> "name"] \in [1 .. NameLength -> Units \cup Fields]
    BY DEF Fields
  <2>2. QED
    BY <2>1, CountsAssumption
<1>2. <<"version", "options", "length">> \in Seq(Units \cup Fields)
  BY DEF Fields
<1>3. QED
  BY <1>1, <1>2, ConcatProperties DEF Request

\* Taking units off one sequence and putting them at the end of another.
LEMMA Moved ==
  ASSUME NEW S, NEW a \in Seq(S), NEW b \in Seq(S), NEW n \in 1 .. Len(b)
  PROVE  /\ a \o SubSeq(b, 1, n) \in Seq(S)
         /\ SubSeq(b, n + 1, Len(b)) \in Seq(S)
         /\ Len(a \o SubSeq(b, 1, n)) = Len(a) + n
<1>1. SubSeq(b, 1, n) \in Seq(S) /\ Len(SubSeq(b, 1, n)) = n /\ SubSeq(b, n + 1, Len(b)) \in Seq(S)
  BY Pieces
<1>2. ASSUME NEW x \in Seq(S)
      PROVE  a \o x \in Seq(S) /\ Len(a \o x) = Len(a) + Len(x)
  BY ConcatProperties
<1>3. QED
  BY <1>1, <1>2, Zenon

\* One send or receive keeps the types.
LEMMA SocketTypes ==
  ASSUME Types, NEW x \in Ends, SocketStep(x)
  PROVE  Types'
<1>1. Other(x) \in Ends
  BY DEF Other, Ends
<1>2. CASE RawSend(x)
  <2>1. PICK n \in 1 .. Len(out[x]) :
          /\ wire' = [wire EXCEPT ![Other(x)] = wire[Other(x)] \o SubSeq(out[x], 1, n)]
          /\ out'  = [out EXCEPT ![x] = SubSeq(out[x], n + 1, Len(out[x]))]
    BY <1>2 DEF RawSend
  <2>2. /\ wire[Other(x)] \o SubSeq(out[x], 1, n) \in Seq(Units \cup Fields)
        /\ SubSeq(out[x], n + 1, Len(out[x])) \in Seq(Units \cup Fields)
    BY <1>1, Moved DEF Types
  <2>3. x = "server" => /\ wire["client"] \o SubSeq(out["server"], 1, n) \in Seq(Units)
                        /\ SubSeq(out["server"], n + 1, Len(out["server"])) \in Seq(Units)
    BY Moved DEF Types
  <2>4. wire' \in [Ends -> Seq(Units \cup Fields)] /\ out' \in [Ends -> Seq(Units \cup Fields)]
    BY <2>1, <2>2, <1>1 DEF Types
  <2>5. wire'["client"] \in Seq(Units) /\ out'["server"] \in Seq(Units)
    BY <2>1, <2>3 DEF Types, Ends, Other
  <2>6. UNCHANGED <<got, peer, server, client, stopped>>
    BY <1>2 DEF RawSend
  <2>7. QED
    BY <2>4, <2>5, <2>6 DEF Types, server, client
<1>3. CASE RawReceive(x)
  <2>1. PICK n \in 1 .. Len(wire[x]) :
          /\ got'  = [got EXCEPT ![x] = got[x] \o SubSeq(wire[x], 1, n)]
          /\ wire' = [wire EXCEPT ![x] = SubSeq(wire[x], n + 1, Len(wire[x]))]
    BY <1>3 DEF RawReceive
  <2>2. /\ got[x] \o SubSeq(wire[x], 1, n) \in Seq(Units \cup Fields)
        /\ SubSeq(wire[x], n + 1, Len(wire[x])) \in Seq(Units \cup Fields)
    BY Moved DEF Types
  <2>3. x = "client" => /\ got["client"] \o SubSeq(wire["client"], 1, n) \in Seq(Units)
                        /\ SubSeq(wire["client"], n + 1, Len(wire["client"])) \in Seq(Units)
    BY Moved DEF Types
  <2>4. wire' \in [Ends -> Seq(Units \cup Fields)] /\ got' \in [Ends -> Seq(Units \cup Fields)]
    BY <2>1, <2>2 DEF Types
  <2>5. wire'["client"] \in Seq(Units) /\ got'["client"] \in Seq(Units)
    BY <2>1, <2>3 DEF Types, Ends
  <2>6. UNCHANGED <<out, peer, server, client, stopped>>
    BY <1>3 DEF RawReceive
  <2>7. QED
    BY <2>4, <2>5, <2>6 DEF Types, server, client
<1>4. CASE SendUnheard(x)
  <2>1. PICK p \in {"fin", "pipe"} : peer' = [peer EXCEPT ![x] = p]
    BY <1>4 DEF SendUnheard
  <2>2. out[x] # <<>> /\ out' = [out EXCEPT ![x] = Tail(out[x])]
    BY <1>4 DEF SendUnheard
  <2>3. Tail(out[x]) \in Seq(Units \cup Fields)
    BY <2>2, HeadTailProperties DEF Types
  <2>4. x = "server" => Tail(out["server"]) \in Seq(Units)
    BY <2>2, HeadTailProperties DEF Types
  <2>5. out' \in [Ends -> Seq(Units \cup Fields)] /\ out'["server"] \in Seq(Units)
    BY <2>2, <2>3, <2>4 DEF Types, Ends
  <2>6. UNCHANGED <<wire, got, server, client, stopped>>
    BY <1>4 DEF SendUnheard
  <2>7. QED
    BY <2>1, <2>5, <2>6 DEF Types, server, client
<1>5. QED
  BY <1>2, <1>3, <1>4 DEF SocketStep

\* Closing an end keeps the types of what travels.
LEMMA CloseTypes ==
  ASSUME Types, NEW x \in Ends, Close(x)
  PROVE  /\ wire' \in [Ends -> Seq(Units \cup Fields)] /\ wire'["client"] \in Seq(Units)
         /\ out'  \in [Ends -> Seq(Units \cup Fields)] /\ out'["server"]  \in Seq(Units)
         /\ got'  \in [Ends -> Seq(Units \cup Fields)] /\ got'["client"]  \in Seq(Units)
         /\ peer' \in [Ends -> {"open", "fin", "pipe", "rst"}]
<1>1. <<>> \in Seq(Units) /\ <<>> \in Seq(Units \cup Fields)
  BY EmptySeq
<1>2. Other(x) \in Ends
  BY DEF Other, Ends
<1>3. QED
  BY <1>1, <1>2 DEF Close, Types, Ends

-----------------------------------------------------------------------------
\* What the steps do to the units in flight.

\* The units the client has yet to take begin with those rawReceive has put into its
\* buffer (tcpsocket.cpp:238-249).
LEMMA FlightParts ==
  ASSUME Types
  PROVE  /\ Flight \in Seq(Units)
         /\ Len(got["client"]) \in Nat /\ Len(Flight) \in Nat
         /\ \A p \in 1 .. Len(got["client"]) :
              p \in 1 .. Len(Flight) /\ Flight[p] = got["client"][p]
<1> DEFINE a == got["client"]  b == wire["client"]  c == out["server"]
<1>1. a \in Seq(Units) /\ b \in Seq(Units) /\ c \in Seq(Units)
  BY DEF Types
<1>2. Flight = a \o b \o c
  BY DEF Flight
<1>3. SUFFICES /\ Flight \in Seq(Units)
               /\ Len(a) \in Nat /\ Len(Flight) \in Nat
               /\ \A p \in 1 .. Len(a) : p \in 1 .. Len(Flight) /\ Flight[p] = a[p]
  OBVIOUS
<1> HIDE DEF a, b, c
<1>4. /\ Flight \in Seq(Units)
      /\ Len(Flight) = Len(a) + Len(b) + Len(c)
      /\ \A p \in 1 .. Len(a) : Flight[p] = a[p]
  BY <1>1, <1>2, Joined
<1>5. Len(a) \in Nat /\ Len(b) \in Nat /\ Len(c) \in Nat
  BY <1>1, LenProperties
<1>6. QED
  BY <1>4, <1>5

\* The server's end is closed: what it had still to send is gone.
LEMMA FlightCut ==
  ASSUME Types, got'["client"] = got["client"], wire'["client"] = wire["client"],
         out'["server"] = <<>>
  PROVE  /\ Flight' \in Seq(Units) /\ Len(Flight') <= Len(Flight)
         /\ \A p \in 1 .. Len(Flight') : Flight'[p] = Flight[p]
<1> DEFINE a == got["client"]  b == wire["client"]  c == out["server"]
<1>1. a \in Seq(Units) /\ b \in Seq(Units) /\ c \in Seq(Units)
  BY DEF Types
<1>2. Flight = a \o b \o c /\ Flight' = a \o b \o <<>>
  BY DEF Flight
<1> HIDE DEF a, b, c
<1>3. a \o b \in Seq(Units) /\ Len(a \o b) = Len(a) + Len(b)
  BY <1>1, ConcatProperties
<1>4. Flight' = a \o b
  BY <1>2, <1>3, ConcatEmptySeq
<1>5. /\ Len(Flight) = Len(a) + Len(b) + Len(c)
      /\ \A p \in 1 .. Len(a) + Len(b) : Flight[p] = (a \o b)[p]
  BY <1>1, <1>2, Joined
<1>6. Len(a) \in Nat /\ Len(b) \in Nat /\ Len(c) \in Nat
  BY <1>1, LenProperties
<1>7. QED
  BY <1>3, <1>4, <1>5, <1>6

\* The client takes what it has received.
LEMMA FlightTaken ==
  ASSUME Types, got'["client"] = <<>>, wire'["client"] = wire["client"],
         out'["server"] = out["server"]
  PROVE  /\ Flight' \in Seq(Units) /\ Len(Flight) = Len(Flight') + Len(got["client"])
         /\ \A p \in 1 .. Len(Flight') : Flight'[p] = Flight[p + Len(got["client"])]
<1> DEFINE a == got["client"]  b == wire["client"]  c == out["server"]
<1>1. a \in Seq(Units) /\ b \in Seq(Units) /\ c \in Seq(Units)
  BY DEF Types
<1>2. Flight = a \o b \o c /\ Flight' = <<>> \o b \o c
  BY DEF Flight
<1>a. SUFFICES /\ Flight' \in Seq(Units) /\ Len(Flight) = Len(Flight') + Len(a)
               /\ \A p \in 1 .. Len(Flight') : Flight'[p] = Flight[p + Len(a)]
  OBVIOUS
<1> HIDE DEF a, b, c
<1>3. b \o c \in Seq(Units) /\ Len(b \o c) = Len(b) + Len(c)
  BY <1>1, ConcatProperties
<1>4. Flight' = b \o c
  BY <1>1, <1>2, ConcatEmptySeq
<1>5. /\ Len(Flight) = Len(a) + Len(b) + Len(c)
      /\ \A p \in 1 .. Len(b) + Len(c) : Flight[p + Len(a)] = (b \o c)[p]
  BY <1>1, <1>2, Joined
<1>6. Len(a) \in Nat /\ Len(b) \in Nat /\ Len(c) \in Nat
  BY <1>1, LenProperties
<1>7. QED
  BY <1>3, <1>4, <1>5, <1>6

\* The server has something new to send, and nothing else.
LEMMA FlightGrown ==
  ASSUME Types, got'["client"] = got["client"], wire'["client"] = wire["client"],
         out["server"] = <<>>, NEW z \in Seq(Units), out'["server"] = z
  PROVE  /\ Flight' \in Seq(Units) /\ Len(Flight') = Len(Flight) + Len(z)
         /\ \A p \in 1 .. Len(Flight) : Flight'[p] = Flight[p]
         /\ \A p \in 1 .. Len(z) : Flight'[Len(Flight) + p] = z[p]
<1> DEFINE a == got["client"]  b == wire["client"]
<1>1. a \in Seq(Units) /\ b \in Seq(Units)
  BY DEF Types
<1>2. Flight = a \o b \o <<>> /\ Flight' = (a \o b) \o z
  BY DEF Flight
<1> HIDE DEF a, b
<1>3. a \o b \in Seq(Units)
  BY <1>1, ConcatProperties
<1>4. Flight = a \o b
  BY <1>2, <1>3, ConcatEmptySeq
<1>5. /\ (a \o b) \o z \in Seq(Units) /\ Len((a \o b) \o z) = Len(a \o b) + Len(z)
      /\ \A p \in 1 .. Len(a \o b) + Len(z) :
           ((a \o b) \o z)[p] = IF p <= Len(a \o b) THEN (a \o b)[p] ELSE z[p - Len(a \o b)]
  BY <1>3, ConcatProperties
<1>6. Len(a \o b) \in Nat /\ Len(z) \in Nat
  BY <1>3, LenProperties
<1>7. QED
  BY <1>2, <1>4, <1>5, <1>6

\* A unit of a sequence has the type of one, and its frame and size are numbers.
LEMMA UnitOf ==
  ASSUME NEW q \in Seq(Units), NEW p \in 1 .. Len(q)
  PROVE  q[p] \in Units /\ q[p].frame \in Nat /\ q[p].size \in Nat
<1>1. q[p] \in Units
  BY ElementOfSeq
<1>2. QED
  BY <1>1 DEF Units

\* The header the client took last is a unit, wherever the client stands.
LEMMA PreviousTypes ==
  ASSUME Types
  PROVE  Previous \in Units /\ PreviousAt \in Int
<1>1. image \in Nat /\ size \in Nat /\ shown \in Nat /\ Images \in Nat /\ (image > 1 => image - 1 \in Nat)
  BY CountsAssumption DEF Types
<1>2. \A i \in Nat, f \in Nat : Unit("header", i, f, size) \in Units
  BY <1>1 DEF Unit, Units
<1>3. QED
  BY <1>1, <1>2 DEF Previous, PreviousAt

\* What an element publishes is a frame's number.
LEMMA ContentType ==
  ASSUME Types
  PROVE  Content(slot) \in Nat
<1>1. CASE Content(slot) = Torn
  BY <1>1, BoundsAssumption DEF Torn
<1>2. CASE Content(slot) = slot[1][1].frame /\ slot[1] # <<>>
  <2>1. slot[1] \in Seq(Units)
    BY CountsAssumption DEF Types
  <2>2. slot[1][1] \in Units
    BY <2>1, <1>2, LenProperties, ElementOfSeq, EmptySeq
  <2>3. QED
    BY <1>2, <2>2 DEF Units
<1>3. QED
  BY <1>1, <1>2, CountsAssumption DEF Content

\* A whole step keeps the types.
LEMMA TypesKept ==
  ASSUME Types, Next
  PROVE  Types'
<1>0. /\ Ends = {"server", "client"} /\ <<>> \in Seq(Units) /\ <<>> \in Seq(Units \cup Fields)
      /\ Images \in Nat \ {0} /\ Frames \in Nat \ {0} /\ Sizes \subseteq Nat /\ 1 \in 1 .. Images
  BY EmptySeq, CountsAssumption, SizesAssumption, BoundsAssumption DEF Ends
<1>1. ASSUME NEW x \in Ends, SocketStep(x) PROVE Types'
  BY <1>1, SocketTypes
<1>2. CASE TakeField
  <2>1. /\ sp \in {"version", "options", "length", "name"} /\ sp' = NextField[sp]
        /\ got' = [got EXCEPT !["server"] = <<>>]
        /\ UNCHANGED <<wire, out, peer, held, sizes, sending, first, client, stopped>>
    BY <1>2 DEF TakeField, Received, Receiving
  <2>2. sp' \in {"options", "length", "name", "attach"}
    BY <2>1 DEF NextField
  <2>3. got' \in [Ends -> Seq(Units \cup Fields)] /\ got'["client"] \in Seq(Units)
    BY <2>1, <1>0 DEF Types
  <2>4. QED
    BY <2>1, <2>2, <2>3 DEF Types, client
<1>3. CASE RequestFails \/ ServeFails \/ ServerExits
  <2>1. /\ Close("server") /\ sp' \in {"gone", "killed"}
        /\ UNCHANGED <<held, sizes, sending, first, client, stopped>>
    BY <1>3 DEF RequestFails, ServeFails, ServerExits
  <2>2. QED
    BY <2>1, <1>0, CloseTypes DEF Types, client
<1>4. CASE Attach
  <2>1. PICK s \in [1 .. Images -> Sizes] :
          /\ held' = 1 /\ sizes' = s /\ first' = s[1]
          /\ out' = [out EXCEPT !["server"] = <<Unit("initial", 1, 1, s[1])>>]
    BY <1>4 DEF Attach
  <2>2. s[1] \in Nat /\ sizes' \in [1 .. Images -> Nat]
    BY <2>1, <1>0
  <2>3. Unit("initial", 1, 1, s[1]) \in Units
    BY <2>2 DEF Unit, Units
  <2>4. out' \in [Ends -> Seq(Units \cup Fields)] /\ out'["server"] \in Seq(Units)
    BY <2>1, <2>3, <1>0 DEF Types
  <2>5. sp' = "initial" /\ UNCHANGED <<wire, got, peer, sending, client, stopped>>
    BY <1>4 DEF Attach
  <2>6. held' \in 0 .. Frames /\ first' \in Nat
    BY <2>1, <2>2, <1>0
  <2>7. QED
    BY <2>2, <2>4, <2>5, <2>6 DEF Types, client
<1>5. ASSUME NEW i \in 1 .. Images, NEW f \in Nat, NEW s \in [1 .. Images -> Nat], SendImage(i, f, s)
      PROVE  /\ out' \in [Ends -> Seq(Units \cup Fields)] /\ out'["server"] \in Seq(Units)
             /\ sending' \in 0 .. Images
  <2>1. i \in Nat /\ s[i] \in Nat /\ i \in 0 .. Images
    BY <1>0
  <2>2. Image(i, f, s[i]) \in Seq(Units)
    BY <2>1, ImageUnits
  <2>3. \A q \in Seq(Units) : q \in Seq(Units \cup Fields)
    OBVIOUS
  <2>4. sending' = i /\ out' = [out EXCEPT !["server"] = Image(i, f, s[i])]
    BY <1>5 DEF SendImage
  <2>5. out \in [Ends -> Seq(Units \cup Fields)]
    BY DEF Types
  <2>6. QED
    BY <2>1, <2>2, <2>3, <2>4, <2>5, <1>0
<1>6. ASSUME NEW f \in Nat, NEW s \in [1 .. Images -> Nat], ServeOrLeave(f, s)
      PROVE  /\ out' \in [Ends -> Seq(Units \cup Fields)] /\ out'["server"] \in Seq(Units)
             /\ sending' \in 0 .. Images /\ sp' \in {"left", "send"}
  BY <1>5, <1>6, <1>0 DEF ServeOrLeave, Types
<1>7. CASE Serve
  <2>1. held \in Nat /\ sizes \in [1 .. Images -> Nat]
    BY <1>0 DEF Types
  <2>2. ServeOrLeave(held, sizes) /\ UNCHANGED <<wire, got, peer, held, sizes, first, client, stopped>>
    BY <1>7 DEF Serve
  <2>3. QED
    BY <2>1, <2>2, <1>6, <1>0 DEF Types, client
<1>8. CASE NextImage
  <2>1. held \in Nat /\ sizes \in [1 .. Images -> Nat] /\ sending + 1 \in 1 .. Images
    <3>1. sending \in 0 .. Images /\ held \in 0 .. Frames /\ sizes \in [1 .. Images -> Nat]
      BY DEF Types
    <3>2. sending < Images
      BY <1>8 DEF NextImage
    <3>3. QED
      BY <3>1, <3>2, <1>0
  <2>2. SendImage(sending + 1, held, sizes)
        /\ UNCHANGED <<sp, wire, got, peer, held, sizes, first, client, stopped>>
    BY <1>8 DEF NextImage
  <2>3. QED
    BY <2>1, <2>2, <1>5, <1>0 DEF Types, client
<1>9. CASE UpdateReader
  <2>1. PICK s \in [1 .. Images -> Sizes] : sizes' = s /\ ServeOrLeave(held + 1, s)
    BY <1>9 DEF UpdateReader
  <2>2. held' = held + 1 /\ held' \in 0 .. Frames /\ held + 1 \in Nat /\ s \in [1 .. Images -> Nat]
    <3>1. held \in 0 .. Frames
      BY DEF Types
    <3>2. held < Frames /\ held' = held + 1
      BY <1>9 DEF UpdateReader
    <3>3. s \in [1 .. Images -> Nat]
      BY <1>0
    <3>4. held + 1 \in 0 .. Frames /\ held + 1 \in Nat
      BY <3>1, <3>2, <1>0
    <3>5. QED
      BY <3>2, <3>3, <3>4
  <2>3. UNCHANGED <<wire, got, peer, first, client, stopped>>
    BY <1>9 DEF UpdateReader
  <2>4. QED
    BY <2>1, <2>2, <2>3, <1>6, <1>0 DEF Types, client
<1>10. CASE StopServer \/ StopClient \/ Break
  BY ZenonT(30), <1>10, <1>0 DEF StopServer, StopClient, Break, Types, net, server, client
<1>11. CASE Connect
  <2>1. Request \in Seq(Units \cup Fields)
    BY RequestType
  <2>2. QED
    BY <1>11, <2>1, <1>0 DEF Connect, Types, server
<1>12. CASE ConnectFails
  BY <1>12 DEF ConnectFails, Types, net, server
<1>13. CASE ClientFails \/ KillClient
  <2>1. /\ Close("client") /\ cp' \in {"ended", "aborted"}
        /\ UNCHANGED <<server, max, image, size, slot, shown, stopped>>
    BY <1>13 DEF ClientFails, KillClient
  <2>2. QED
    BY <2>1, <1>0, CloseTypes DEF Types, server
<1>14. ASSUME LoopOrEnd
       PROVE  /\ wire' \in [Ends -> Seq(Units \cup Fields)] /\ wire'["client"] \in Seq(Units)
              /\ out'  \in [Ends -> Seq(Units \cup Fields)] /\ out'["server"]  \in Seq(Units)
              /\ got'  \in [Ends -> Seq(Units \cup Fields)] /\ got'["client"]  \in Seq(Units)
              /\ peer' \in [Ends -> {"open", "fin", "pipe", "rst"}]
              /\ cp' \in {"ended", "header"}
  <2>1. CASE stopped["client"]
    BY <2>1, <1>14, <1>0, CloseTypes DEF LoopOrEnd
  <2>2. CASE ~stopped["client"]
    BY <2>2, <1>14, <1>0 DEF LoopOrEnd, Types
  <2>3. QED
    BY <2>1, <2>2
<1>15. Len(got["client"]) = 1 => got["client"][1].size \in Nat
  <2>1. Len(got["client"]) = 1 => got["client"][1] \in Units
    BY ElementOfSeq DEF Types
  <2>2. QED
    BY <2>1 DEF Units
<1>16. CASE TakeInitial
  <2>1. /\ max' = got["client"][1].size /\ image' = 1 /\ LoopOrEnd
        /\ UNCHANGED <<server, size, slot, shown, stopped>> /\ Len(got["client"]) = 1
    BY <1>16 DEF TakeInitial, Received, Wanted
  <2>2. QED
    BY <2>1, <1>14, <1>15, <1>0 DEF Types, server
<1>17. CASE TakeHeader
  <2>1. /\ size' = got["client"][1].size /\ cp' = "data" /\ got' = [got EXCEPT !["client"] = <<>>]
        /\ UNCHANGED <<wire, out, peer, server, max, image, slot, shown, stopped>>
        /\ Len(got["client"]) = 1
    BY <1>17 DEF TakeHeader, Received, Wanted
  <2>2. QED
    BY <2>1, <1>15, <1>0 DEF Types, server
<1>18. CASE TakeData
  <2>1. /\ slot' = [slot EXCEPT ![image] = got["client"]] /\ got' = [got EXCEPT !["client"] = <<>>]
        /\ UNCHANGED <<wire, out, peer, server, max, size, shown, stopped>>
        /\ image' \in 1 .. Images /\ cp' \in {"header", "update"}
    BY SMTT(20), <1>18, <1>0 DEF TakeData, Types
  <2>2. QED
    BY <2>1, <1>0 DEF Types, server
<1>19. CASE UpdateWriter
  <2>1. shown' = Content(slot) /\ LoopOrEnd /\ UNCHANGED <<server, max, image, size, slot, stopped>>
    BY <1>19 DEF UpdateWriter
  <2>2. QED
    BY <2>1, <1>14, ContentType DEF Types, server
<1>20. QED
  BY <1>0, <1>1, <1>2, <1>3, <1>4, <1>7, <1>8, <1>9, <1>10, <1>11, <1>12, <1>13, <1>16, <1>17,
     <1>18, <1>19 DEF Next, ServerStep, ClientStep

-----------------------------------------------------------------------------
\* The inductive invariant, kind of step by kind of step.

\* Steps that move units along, or none, and change nothing they are about.
LEMMA Kept ==
  ASSUME IInv, Types',
         UNCHANGED <<held, sizes, sending, first, max, image, size, slot, shown>>,
         sp' = sp \/ (Early /\ Early'),
         cp' = cp \/ (cp = "connect" /\ cp' = "initial"),
         Live => /\ Flight' = Flight /\ Registers'
                 /\ peer'["server"] \notin {"fin", "pipe"}
  PROVE  IInv'
<1>1. (Live' <=> Live) /\ (Asking' <=> Asking) /\ Previous' = Previous /\ PreviousAt' = PreviousAt
  BY DEF Live, Asking, Previous, PreviousAt
<1>2. shown' <= held'
  BY DEF IInv
<1>3. CASE ~Live
  <2>1. Written'
    BY <1>1, <1>3 DEF IInv, Written, Early
  <2>2. QED
    BY <1>1, <1>2, <1>3, <2>1 DEF IInv
<1>4. CASE Live
  <2>1. Flight' = Flight
    BY <1>4
  <2>2. Written'
    BY <1>1, <1>4, <2>1 DEF IInv, Written, Early
  <2>3. Chain(Flight, PreviousAt, Previous)'
    BY <1>1, <1>4, <2>1 DEF IInv
  <2>4. Known'
    BY <1>1, <1>4, <2>1 DEF IInv, Known
  <2>5. Stored'
    BY <1>1, <1>4 DEF IInv, Stored
  <2>6. QED
    BY <1>2, <1>4, <2>2, <2>3, <2>4, <2>5 DEF IInv
<1>5. QED
  BY <1>3, <1>4

\* One send or receive of either end.
LEMMA SocketKeeps ==
  ASSUME IInv, NEW x \in Ends, SocketStep(x)
  PROVE  IInv'
<1>1. Types'
  BY SocketTypes DEF IInv
<1>2. UNCHANGED <<server, client, stopped>>
  BY DEF SocketStep, RawSend, SendUnheard, RawReceive
<1>3. ASSUME Live
      PROVE  Flight' = Flight /\ Registers' /\ peer'["server"] \notin {"fin", "pipe"}
  <2>1. got["client"] \in Seq(Units) /\ wire["client"] \in Seq(Units) /\ out["server"] \in Seq(Units)
    BY DEF IInv, Types
  <2>2. Registers /\ peer["server"] \notin {"fin", "pipe"} /\ Ends = {"server", "client"}
    BY <1>3 DEF IInv, Ends
  <2>3. (got'["client"] = got["client"]) => Registers'
    BY <1>2, <2>2 DEF Registers, client, Asking
  <2>4. CASE RawSend(x)
    <3>1. CASE x = "server"
      <4>1. PICK n \in 1 .. Len(out["server"]) :
              /\ wire' = [wire EXCEPT !["client"] = wire["client"] \o SubSeq(out["server"], 1, n)]
              /\ out'  = [out EXCEPT !["server"] = SubSeq(out["server"], n + 1, Len(out["server"]))]
        BY <2>4, <3>1 DEF RawSend, Other
      <4>2. /\ wire'["client"] = wire["client"] \o SubSeq(out["server"], 1, n)
            /\ out'["server"] = SubSeq(out["server"], n + 1, Len(out["server"]))
            /\ UNCHANGED <<got, peer>>
        BY <4>1, <2>2, <2>4 DEF IInv, Types, RawSend
      <4>3. Flight' = Flight
        <5> DEFINE a == got["client"]  b == wire["client"]  c == out["server"]
        <5>1. /\ Flight' = a \o (b \o SubSeq(c, 1, n)) \o SubSeq(c, n + 1, Len(c))
              /\ Flight = a \o b \o c
          BY <4>2 DEF Flight
        <5>2. a \in Seq(Units) /\ b \in Seq(Units) /\ c \in Seq(Units) /\ n \in 1 .. Len(c)
          BY <2>1
        <5> HIDE DEF a, b, c
        <5>3. a \o (b \o SubSeq(c, 1, n)) \o SubSeq(c, n + 1, Len(c)) = a \o b \o c
          BY ZenonT(40), <5>2, SendSame
        <5>4. QED
          BY <5>1, <5>3, Zenon
      <4>4. QED
        BY <4>2, <4>3, <2>2, <2>3
    <3>2. CASE x = "client"
      <4>1. /\ wire'["client"] = wire["client"] /\ out'["server"] = out["server"]
            /\ UNCHANGED <<got, peer>>
        BY <2>4, <3>2 DEF RawSend, Other
      <4>2. QED
        BY <4>1, <2>2, <2>3 DEF Flight
    <3>3. QED
      BY <3>1, <3>2, <2>2
  <2>5. CASE SendUnheard(x)
    <3>1. x = "client"
      BY <2>2, <2>5 DEF SendUnheard
    <3>2. /\ UNCHANGED <<wire, got>> /\ out'["server"] = out["server"]
          /\ peer'["server"] = peer["server"]
      BY <3>1, <2>5 DEF SendUnheard
    <3>3. QED
      BY <3>2, <2>2, <2>3 DEF Flight
  <2>6. CASE RawReceive(x)
    <3>1. CASE x = "client"
      <4>1. PICK n \in 1 .. Len(wire["client"]) :
              /\ Len(got["client"]) + n <= Wanted("client")
              /\ got'  = [got EXCEPT !["client"] = got["client"] \o SubSeq(wire["client"], 1, n)]
              /\ wire' = [wire EXCEPT !["client"] = SubSeq(wire["client"], n + 1, Len(wire["client"]))]
        BY <2>6, <3>1 DEF RawReceive
      <4>2. /\ got'["client"] = got["client"] \o SubSeq(wire["client"], 1, n)
            /\ wire'["client"] = SubSeq(wire["client"], n + 1, Len(wire["client"]))
            /\ UNCHANGED <<out, peer>>
        BY <4>1, <2>2, <2>6 DEF IInv, Types, RawReceive
      <4>3. Flight' = Flight /\ Len(got'["client"]) = Len(got["client"]) + n
        <5> DEFINE a == got["client"]  b == wire["client"]  c == out["server"]
        <5>1. /\ Flight' = (a \o SubSeq(b, 1, n)) \o SubSeq(b, n + 1, Len(b)) \o c
              /\ Flight = a \o b \o c /\ got'["client"] = a \o SubSeq(b, 1, n)
          BY <4>2 DEF Flight
        <5>2. a \in Seq(Units) /\ b \in Seq(Units) /\ c \in Seq(Units) /\ n \in 1 .. Len(b)
          BY <2>1
        <5>3. SUFFICES Flight' = Flight /\ Len(got'["client"]) = Len(a) + n
          OBVIOUS
        <5> HIDE DEF a, b, c
        <5>4. (a \o SubSeq(b, 1, n)) \o SubSeq(b, n + 1, Len(b)) \o c = a \o b \o c
          BY <5>2, ReceiveSame
        <5>5. Len(a \o SubSeq(b, 1, n)) = Len(a) + n
          BY <5>2, Moved
        <5>6. QED
          BY <5>1, <5>4, <5>5
      <4>4. /\ Len(got'["client"]) <= IF cp = "data" THEN size ELSE 1
            /\ cp \in {"initial", "header", "data"}
        BY <4>1, <4>3, <2>6, <3>1 DEF Wanted, RawReceive, Receiving
      <4>5. Registers'
        BY <4>4, <2>2, <1>2 DEF Registers, client, Asking
      <4>6. QED
        BY <4>2, <4>3, <4>5, <2>2
    <3>2. CASE x = "server"
      <4>1. /\ wire'["client"] = wire["client"] /\ got'["client"] = got["client"]
            /\ UNCHANGED <<out, peer>>
        BY <2>6, <3>2 DEF RawReceive
      <4>2. QED
        BY <4>1, <2>2, <2>3 DEF Flight
    <3>3. QED
      BY <3>1, <3>2, <2>2
  <2>7. QED
    BY <2>4, <2>5, <2>6 DEF SocketStep
<1>4. QED
  BY <1>1, <1>2, <1>3, Kept DEF server, client

\* The other steps after which the client has as much to take as before.
LEMMA IdleKeeps ==
  ASSUME IInv, TakeField \/ Connect \/ StopServer \/ StopClient \/ Break
  PROVE  IInv'
<1>1. Types'
  BY TypesKept DEF IInv, Next, ServerStep, ClientStep
<1>2. UNCHANGED <<held, sizes, sending, first, max, image, size, slot, shown>>
  BY DEF TakeField, Connect, StopServer, StopClient, Break, server, client, net
<1>3. sp' = sp \/ (Early /\ Early')
  BY DEF TakeField, Connect, StopServer, StopClient, Break, server, net, Received, Receiving,
         Early, NextField
<1>4. cp' = cp \/ (cp = "connect" /\ cp' = "initial")
  BY DEF TakeField, Connect, StopServer, StopClient, Break, client, net
<1>5. /\ wire'["client"] = wire["client"] /\ got'["client"] = got["client"]
      /\ out'["server"] = out["server"]
  <2>1. got \in [Ends -> Seq(Units \cup Fields)] /\ out \in [Ends -> Seq(Units \cup Fields)]
    BY DEF IInv, Types
  <2>2. CASE TakeField
    BY <2>1, <2>2 DEF TakeField, Ends
  <2>3. CASE Connect
    BY <2>1, <2>3 DEF Connect, Ends
  <2>4. CASE StopServer \/ StopClient \/ Break
    BY <2>4 DEF StopServer, StopClient, Break, net
  <2>5. QED
    BY <2>2, <2>3, <2>4
<1>6. peer["server"] \notin {"fin", "pipe"} => peer'["server"] \notin {"fin", "pipe"}
  BY DEF TakeField, Connect, StopServer, StopClient, Break, net, Ends
<1>7. Live => Registers'
  <2>1. SUFFICES ASSUME Live PROVE Registers'
    OBVIOUS
  <2>2. Registers
    BY <2>1 DEF IInv
  <2>3. CASE cp' = cp
    BY <1>2, <1>5, <2>2, <2>3 DEF Registers, Asking
  <2>4. CASE cp = "connect" /\ cp' = "initial"
    <3>1. got["client"] = <<>> /\ image = 1 /\ shown = 0 /\ size = 0
      BY <2>2, <2>4 DEF Registers, Asking
    <3>2. Len(got'["client"]) = 0
      BY <3>1, <1>5, EmptySeq
    <3>3. QED
      BY <1>2, <2>4, <3>1, <3>2 DEF Registers, Asking
  <2>5. QED
    BY <1>4, <2>3, <2>4
<1>8. QED
  BY <1>1, <1>2, <1>3, <1>4, <1>5, <1>6, <1>7, Kept DEF Flight, IInv

\* The server's end goes: what it had not sent is lost, and the client may read on.
LEMMA ServerGoes ==
  ASSUME IInv, Types', sp' \in {"left", "gone", "killed"}, held <= held',
         UNCHANGED <<first, client>>, peer'["server"] = peer["server"],
         got'["client"] = got["client"], wire'["client"] = wire["client"],
         out'["server"] = <<>>
  PROVE  IInv'
<1>1. (Live' <=> Live) /\ (Asking' <=> Asking) /\ Previous' = Previous /\ PreviousAt' = PreviousAt
  BY DEF Live, Asking, Previous, PreviousAt, client
<1>2. Written'
  BY DEF Written, Early
<1>3. held \in Nat /\ held' \in Nat /\ shown \in Nat
  BY BoundsAssumption DEF IInv, Types
<1>4. shown' <= held'
  BY <1>3 DEF IInv, client
<1>5. ASSUME Live
      PROVE  /\ Chain(Flight, PreviousAt, Previous)' /\ Known' /\ Registers' /\ Stored'
             /\ peer'["server"] \notin {"fin", "pipe"}
  <2>1. /\ Flight \in Seq(Units) /\ Flight' \in Seq(Units) /\ Len(Flight') <= Len(Flight)
        /\ \A p \in 1 .. Len(Flight') : Flight'[p] = Flight[p]
    BY FlightCut, FlightParts DEF IInv
  <2>2. Previous \in Units /\ PreviousAt \in Int
    BY PreviousTypes DEF IInv
  <2>3. Chain(Flight, PreviousAt, Previous)'
    <3>1. Chain(Flight, PreviousAt, Previous)
      BY <1>5 DEF IInv
    <3>2. Chain(Flight', PreviousAt, Previous)
      BY <2>1, <2>2, <3>1, ChainCut
    <3>3. QED
      BY <3>2, <1>1
  <2>4. Len(Flight) \in Nat /\ Len(Flight') \in Nat
    BY <2>1, LenProperties
  <2>5. Known
    BY <1>5 DEF IInv
  <2>6. Previous.frame \in Nat /\ \A p \in 1 .. Len(Flight) : Flight[p].frame \in Nat
    BY <2>1, <2>2, UnitOf, Zenon DEF Units
  <2>7. Previous.frame <= held' /\ \A p \in 1 .. Len(Flight') : Flight'[p].frame <= held'
    <3>1. Previous.frame <= held /\ \A p \in 1 .. Len(Flight) : Flight[p].frame <= held
      BY <2>5 DEF Known
    <3>2. ASSUME NEW f \in Nat, f <= held PROVE f <= held'
      BY <3>2, <1>3
    <3>3. \A p \in 1 .. Len(Flight') : p \in 1 .. Len(Flight) /\ Flight'[p] = Flight[p]
      BY <2>1, <2>4
    <3>4. QED
      BY <2>6, <3>1, <3>2, <3>3, Zenon
  <2>8. Asking => (Flight' # <<>> => Flight'[1] = Unit("initial", 1, 1, first))
    <3>1. ASSUME Flight' # <<>>
          PROVE  1 \in 1 .. Len(Flight') /\ Flight # <<>>
      BY <3>1, <2>1, <2>4, EmptySeq
    <3>2. QED
      BY <3>1, <2>1, <2>5 DEF Known
  <2>9. Known'
    BY <1>1, <2>5, <2>7, <2>8 DEF Known, client
  <2>10. Registers' /\ Stored' /\ peer'["server"] \notin {"fin", "pipe"}
    BY <1>1, <1>5 DEF IInv, Registers, Stored, client
  <2>11. QED
    BY <2>3, <2>9, <2>10
<1>6. QED
  BY <1>1, <1>2, <1>4, <1>5 DEF IInv

\* The client's end goes.
LEMMA ClientGoes ==
  ASSUME IInv, Types', cp' \in {"ended", "aborted"}, shown' <= held', UNCHANGED server
  PROVE  IInv'
BY DEF IInv, Live, Written, Early, server

\* The server starts on the next image, of the same frame or of the next one.
LEMMA ServerWrites ==
  ASSUME IInv, Types', sp \in {"initial", "send"}, sp' = "send", out["server"] = <<>>,
         NEW i \in 1 .. Images, NEW f \in Nat, NEW m \in 1 .. Images, NEW g \in Nat \ {0},
         NEW s \in 1 .. MaxSize,
         Live => Ended(Flight, PreviousAt, Previous, i, f),
         Turn(i, f, m, g),
         out'["server"] = Image(m, g, s), sending' = m, held' = g, held <= g,
         sizes' \in [1 .. Images -> 1 .. MaxSize],
         UNCHANGED <<wire, got, peer, first, client>>
  PROVE  IInv'
<1>1. (Live' <=> Live) /\ (Asking' <=> Asking) /\ Previous' = Previous /\ PreviousAt' = PreviousAt
  BY DEF Live, Asking, Previous, PreviousAt, client
<1>2. held \in Nat /\ shown \in Nat /\ Images \in Nat /\ MaxSize \in Nat
  BY BoundsAssumption, CountsAssumption, SizesAssumption DEF IInv, Types
<1>3. shown' <= held'
  BY <1>2 DEF IInv, client
<1>4. CASE ~Live
  BY <1>1, <1>3, <1>4, <1>2 DEF IInv, Written, Early
<1>5. CASE Live
  <2>1. Previous \in Units /\ PreviousAt \in Int /\ Flight \in Seq(Units)
    BY PreviousTypes, FlightParts DEF IInv
  <2>2. /\ Image(m, g, s) \in Seq(Units) /\ Len(Image(m, g, s)) = s + 1
        /\ Image(m, g, s)[1] = Unit("header", m, g, s)
        /\ \A p \in 2 .. s + 1 : Image(m, g, s)[p] = Unit("data", m, g, s)
    <3>1. m \in Nat /\ g \in Nat /\ s \in Nat
      BY <1>2
    <3>2. QED
      BY <3>1, ImageUnits
  <2>3. /\ Flight' \in Seq(Units) /\ Len(Flight') = Len(Flight) + (s + 1)
        /\ \A p \in 1 .. Len(Flight) : Flight'[p] = Flight[p]
        /\ \A p \in 1 .. s + 1 : Flight'[Len(Flight) + p] = Image(m, g, s)[p]
    BY <2>2, FlightGrown DEF IInv
  <2>4. Len(Flight) \in Nat /\ Len(Flight') \in Nat
    BY <2>1, <2>3, LenProperties
  <2>5. /\ Flight'[Len(Flight) + 1] = Unit("header", m, g, s)
        /\ \A p \in 2 .. s + 1 : Flight'[Len(Flight) + p] = Unit("data", m, g, s)
        /\ Len(Flight') = Len(Flight) + s + 1
    <3>1. 1 \in 1 .. s + 1 /\ \A p \in 2 .. s + 1 : p \in 1 .. s + 1
      BY <1>2
    <3>2. Len(Flight) + (s + 1) = Len(Flight) + s + 1
      BY <2>4, <1>2
    <3>3. QED
      BY <2>2, <2>3, <3>1, <3>2, Zenon
  <2>6. Chain(Flight, PreviousAt, Previous) /\ Ended(Flight, PreviousAt, Previous, i, f)
    BY <1>5 DEF IInv
  <2>7. PreviousAt <= Len(Flight)
    <3>1. Previous.size \in Nat
      BY <2>1 DEF Units
    <3>2. QED
      BY <3>1, <2>1, <2>4, <2>6 DEF Ended, Closes
  <2>8. /\ Chain(Flight', PreviousAt, Previous)
        /\ Ended(Flight', PreviousAt, Previous, m, g)
    <3>1. g \in Nat
      OBVIOUS
    <3>2. QED
      BY <2>1, <2>3, <2>5, <2>6, <2>7, <3>1, ChainGrows
  <2>9. Written'
    BY <1>1, <2>8, <1>2 DEF Written, Early
  <2>10. Known
    BY <1>5 DEF IInv
  <2>11. ASSUME NEW p \in 1 .. Len(Flight')
         PROVE  Flight'[p].frame <= held'
    <3>1. CASE p <= Len(Flight)
      <4>1. p \in 1 .. Len(Flight) /\ Flight'[p] = Flight[p]
        BY <3>1, <2>3, <2>4
      <4>2. Flight[p].frame \in Nat /\ Flight[p].frame <= held
        BY <4>1, <2>1, <2>10, UnitOf DEF Known
      <4>3. ASSUME NEW x \in Nat, x <= held PROVE x <= held'
        BY <4>3, <1>2
      <4>4. QED
        BY <4>1, <4>2, <4>3, Zenon
    <3>2. CASE p = Len(Flight) + 1
      <4>1. Flight'[p].frame = g
        BY <3>2, <2>5 DEF Unit
      <4>2. QED
        BY <4>1
    <3>3. CASE p > Len(Flight) + 1
      <4>1. p - Len(Flight) \in 2 .. s + 1 /\ Len(Flight) + (p - Len(Flight)) = p
        BY SMTT(20), <3>3, <2>4, <2>5
      <4>2. Flight'[p] = Unit("data", m, g, s)
        BY <4>1, <2>5
      <4>3. Flight'[p].frame = g
        BY <4>2 DEF Unit
      <4>4. QED
        BY <4>3
    <3>4. QED
      BY <3>1, <3>2, <3>3, <2>4
  <2>12. Asking => Flight # <<>> /\ 1 \in 1 .. Len(Flight)
    <3>1. Asking => PreviousAt = 1
      BY DEF PreviousAt
    <3>2. Asking => 1 <= Len(Flight)
      BY <2>7, <3>1
    <3>3. QED
      BY <2>4, <3>2, EmptySeq
  <2>13. Previous.frame <= held'
    <3>1. Previous.frame \in Nat
      BY <2>1 DEF Units
    <3>2. QED
      BY <3>1, <2>10, <1>2 DEF Known
  <2>14. Known'
    BY <1>1, <2>3, <2>10, <2>11, <2>12, <2>13 DEF Known, client
  <2>15. Registers' /\ Stored' /\ peer'["server"] \notin {"fin", "pipe"}
    BY <1>1, <1>5 DEF IInv, Registers, Stored, client
  <2>16. QED
    BY <1>1, <1>3, <2>8, <2>9, <2>14, <2>15 DEF IInv
<1>6. QED
  BY <1>4, <1>5

\* The client takes what it has received, and what it reads next goes on from there.
LEMMA Shifted ==
  ASSUME IInv, Types', Live, ~Early, cp' \in {"header", "data", "update"},
         UNCHANGED server, peer'["server"] = peer["server"],
         out'["server"] = out["server"], wire'["client"] = wire["client"],
         got'["client"] = <<>>,
         After(Flight, PreviousAt' + Len(got["client"]), Previous'),
         \A i, f : Ended(Flight, PreviousAt, Previous, i, f)
                     => Closes(Flight, PreviousAt' + Len(got["client"]), Previous', i, f),
         Previous'.frame <= held, max' = first, shown' <= held, Registers', Stored'
  PROVE  IInv'
<1>1. /\ Flight \in Seq(Units) /\ Flight' \in Seq(Units)
      /\ Len(Flight) = Len(Flight') + Len(got["client"])
      /\ \A p \in 1 .. Len(Flight') : Flight'[p] = Flight[p + Len(got["client"])]
      /\ Len(got["client"]) \in Nat
  BY FlightTaken, FlightParts DEF IInv
<1>2. Previous \in Units /\ PreviousAt \in Int /\ Previous' \in Units /\ PreviousAt' \in Int
  <2>1. Previous \in Units /\ PreviousAt \in Int
    BY PreviousTypes DEF IInv
  <2>2. (Previous \in Units /\ PreviousAt \in Int)'
    BY PreviousTypes, PTL
  <2>3. QED
    BY <2>1, <2>2 DEF Units
<1>3. Chain(Flight, PreviousAt, Previous)
  BY DEF IInv
<1>4. Chain(Flight', PreviousAt', Previous')
  BY <1>1, <1>2, <1>3, ChainShifts
<1>5. ASSUME NEW i, NEW f, Ended(Flight, PreviousAt, Previous, i, f)
      PROVE  Ended(Flight', PreviousAt', Previous', i, f)
  BY <1>1, <1>2, <1>5, EndShifts
<1>6. Written'
  <2>1. /\ sp = "initial" => held = 1 /\ Ended(Flight, PreviousAt, Previous, Images, 0)
        /\ sp = "send" => sending # 0 /\ Ended(Flight, PreviousAt, Previous, sending, held)
        /\ sp \in {"initial", "send"} => held # 0 /\ sizes \in [1 .. Images -> 1 .. MaxSize]
    BY DEF IInv, Written
  <2>2. ~Early' /\ sp' = sp /\ sending' = sending /\ held' = held /\ sizes' = sizes
    BY DEF Early, server
  <2>3. /\ Ended(Flight, PreviousAt, Previous, Images, 0) => Ended(Flight', PreviousAt', Previous', Images, 0)
        /\ Ended(Flight, PreviousAt, Previous, sending, held)
              => Ended(Flight', PreviousAt', Previous', sending, held)
    BY <1>5
  <2>4. QED
    BY <2>1, <2>2, <2>3 DEF Written
<1>7. Known'
  <2>1. ASSUME NEW p \in 1 .. Len(Flight')
        PROVE  Flight'[p].frame <= held
    <3>1. p + Len(got["client"]) \in 1 .. Len(Flight)
      BY <1>1, LenProperties
    <3>2. Flight[p + Len(got["client"])].frame <= held
      BY <3>1 DEF IInv, Known
    <3>3. QED
      BY <3>2, <1>1
  <2>2. QED
    BY <2>1 DEF Known, Asking, server
<1>8. peer["server"] \notin {"fin", "pipe"}
  BY DEF IInv
<1>9. QED
  BY <1>4, <1>6, <1>7, <1>8 DEF IInv, server

\* The end of what is in flight, where the header taken last comes first.
LEMMA ClosesPrevious ==
  ASSUME NEW i, NEW f, Ended(Flight, PreviousAt, Previous, i, f)
  PROVE  Closes(Flight, PreviousAt, Previous, i, f)
BY DEF Ended

\* The client's loop goes round, or the client ends there.
LEMMA Loop ==
  ASSUME IInv, LoopOrEnd
  PROVE  \/ cp' \in {"ended", "aborted"}
         \/ /\ cp' = "header" /\ UNCHANGED <<wire, out, peer>> /\ got'["client"] = <<>>
BY DEF LoopOrEnd, IInv, Types, Ends

\* The client takes the initial message and makes its ring.
LEMMA InitialKeeps ==
  ASSUME IInv, TakeInitial
  PROVE  IInv'
<1>1. Types'
  BY TypesKept DEF IInv, Next, ClientStep
<1>2. /\ cp = "initial" /\ Len(got["client"]) = 1
      /\ max' = got["client"][1].size /\ image' = 1 /\ LoopOrEnd
      /\ UNCHANGED <<server, size, slot, shown, stopped>>
  BY DEF TakeInitial, Received, Wanted
<1>3. CASE cp' \in {"ended", "aborted"}
  BY <1>1, <1>2, <1>3, ClientGoes DEF IInv, server
<1>4. CASE cp' = "header" /\ UNCHANGED <<wire, out, peer>> /\ got'["client"] = <<>>
  <2>1. Live /\ Asking /\ PreviousAt = 1
    BY <1>2 DEF Live, Asking, PreviousAt
  <2>2. Registers /\ Known /\ Chain(Flight, PreviousAt, Previous)
    BY <2>1 DEF IInv
  <2>3. image = 1 /\ shown = 0 /\ size = 0
    BY <2>1, <2>2 DEF Registers
  <2>4. /\ Flight \in Seq(Units) /\ Len(Flight) >= 1 /\ Len(Flight) \in Nat
        /\ Flight[1] = got["client"][1]
    <3>1. Types
      BY DEF IInv
    <3>2. 1 \in 1 .. Len(got["client"])
      BY <1>2
    <3>3. /\ Flight \in Seq(Units) /\ Len(Flight) \in Nat
          /\ 1 \in 1 .. Len(Flight) /\ Flight[1] = got["client"][1]
      BY <3>1, <3>2, FlightParts, Zenon
    <3>4. QED
      BY <3>3
  <2>5. Flight # <<>>
    BY <2>4, EmptySeq
  <2>6. ~Early
    BY <2>1, <2>5 DEF IInv, Written
  <2>7. Previous' = Previous /\ PreviousAt' = 0
    BY <1>2, <1>4, <2>3 DEF Previous, PreviousAt, Asking
  <2>8. After(Flight, PreviousAt' + Len(got["client"]), Previous')
    BY <1>2, <2>1, <2>2, <2>7 DEF Chain
  <2>9. ASSUME NEW i, NEW f, Ended(Flight, PreviousAt, Previous, i, f)
        PROVE  Closes(Flight, PreviousAt' + Len(got["client"]), Previous', i, f)
    BY <1>2, <2>1, <2>7, <2>9, ClosesPrevious
  <2>10. max' = first
    BY <1>2, <2>1, <2>2, <2>4, <2>5 DEF Known, Unit
  <2>11. Previous'.frame <= held
    BY <2>2, <2>7 DEF Known
  <2>12. shown' <= held
    BY <1>2 DEF IInv
  <2>13. Registers'
    BY <1>2, <1>4, EmptySeq DEF Registers, Asking
  <2>14. Stored'
    BY <1>2, <1>4, CountsAssumption DEF Stored
  <2>15. QED
    BY <1>1, <1>2, <1>4, <2>1, <2>6, <2>8, <2>9, <2>10, <2>11, <2>12, <2>13, <2>14, Shifted
<1>5. QED
  BY <1>2, <1>3, <1>4, Loop

\* The client takes a header: it is the one that follows.
LEMMA HeaderKeeps ==
  ASSUME IInv, TakeHeader
  PROVE  IInv'
<1>1. Types /\ Types'
  BY TypesKept DEF IInv, Next, ClientStep
<1>2. /\ cp = "header" /\ Len(got["client"]) = 1
      /\ size' = got["client"][1].size /\ cp' = "data"
      /\ UNCHANGED <<wire, out, peer, server, max, image, slot, shown, stopped>>
  BY DEF TakeHeader, Received, Wanted
<1>3. got'["client"] = <<>>
  BY <1>1 DEF TakeHeader, Types, Ends
<1>4. Live /\ ~Asking /\ PreviousAt = 0 - size
  BY <1>2 DEF Live, Asking, PreviousAt
<1>5. Registers /\ Known /\ Chain(Flight, PreviousAt, Previous) /\ Stored
  BY <1>4 DEF IInv
<1>6. /\ Flight \in Seq(Units)
      /\ \A p \in 1 .. Len(got["client"]) :
           p \in 1 .. Len(Flight) /\ Flight[p] = got["client"][p]
  BY <1>1, FlightParts
<1>7. 1 \in 1 .. Len(Flight) /\ Flight[1] = got["client"][1]
  <2>1. 1 \in 1 .. Len(got["client"])
    BY <1>2
  <2>2. QED
    BY <2>1, <1>6, Zenon
<1>8. Flight[1] \in Units
  BY <1>6, <1>7, UnitOf
<1>9. /\ image \in 1 .. Images /\ size \in Nat /\ shown \in Nat /\ Images \in Nat \ {0}
      /\ held \in Nat /\ first \in Nat
  BY <1>1, CountsAssumption, BoundsAssumption DEF Types
<1>10. Follows(Previous, Flight[1])
  <2>1. Previous.size = size
    BY <1>2 DEF Previous, Unit
  <2>2. 1 = PreviousAt + Previous.size + 1
    BY <2>1, <1>4, <1>9
  <2>3. After(Flight, PreviousAt, Previous)
    BY <1>5 DEF Chain
  <2>4. QED
    BY <2>2, <2>3, <1>7 DEF After
<1>11. Flight[1] = Unit("header", image, shown + 1, size')
  <2>1. Flight[1].image = image /\ Flight[1].frame = shown + 1 /\ Flight[1].kind = "header"
    <3>1. CASE image > 1
      <4>1. Previous.image = image - 1 /\ Previous.frame = shown + 1
        BY <1>2, <3>1 DEF Previous, Unit
      <4>2. image - 1 < Images /\ (image - 1) + 1 = image
        BY <1>9
      <4>3. QED
        BY <4>1, <4>2, <1>10 DEF Follows, Turn
    <3>2. CASE image = 1
      <4>1. Previous.image = Images /\ Previous.frame = shown
        BY <1>2, <3>2 DEF Previous, Unit
      <4>2. ~(Images < Images)
        BY <1>9
      <4>3. QED
        BY <4>1, <4>2, <3>2, <1>10 DEF Follows, Turn
    <3>3. QED
      BY <3>1, <3>2, <1>9
  <2>2. Flight[1].size = size'
    BY <1>2, <1>7
  <2>3. QED
    BY <2>1, <2>2, <1>8 DEF Units, Unit
<1>12. Previous' = Flight[1] /\ PreviousAt' = 0
  BY <1>2, <1>11 DEF Previous, PreviousAt, Asking
<1>13. After(Flight, 1, Flight[1]) /\ Flight[1].size # 0
  BY <1>5, <1>7, <1>11 DEF Chain, Unit
<1>14. PreviousAt' + Len(got["client"]) = 1
  BY <1>2, <1>12
<1>15. ASSUME NEW i, NEW f, Ended(Flight, PreviousAt, Previous, i, f)
       PROVE  Closes(Flight, PreviousAt' + Len(got["client"]), Previous', i, f)
  <2>1. Flight[1].kind = "header"
    BY <1>11 DEF Unit
  <2>2. Closes(Flight, 1, Flight[1], i, f)
    BY <2>1, <1>7, <1>15 DEF Ended
  <2>3. QED
    BY <2>2, <1>12, <1>14
<1>16. Previous'.frame <= held
  BY <1>5, <1>7, <1>12 DEF Known
<1>17. max' = first /\ shown' <= held /\ peer'["server"] = peer["server"]
       /\ out'["server"] = out["server"] /\ wire'["client"] = wire["client"] /\ UNCHANGED server
  BY <1>2, <1>4, <1>5 DEF Known, IInv
<1>18. Registers'
  <2>1. size' # 0 /\ size' \in Nat /\ Len(got'["client"]) = 0
    BY <1>2, <1>3, <1>7, <1>8, <1>13, EmptySeq DEF Units
  <2>2. QED
    BY <2>1, <1>2, <1>3 DEF Registers, Asking
<1>19. Stored'
  BY <1>2, <1>5 DEF Stored
<1>20. ~Early
  BY <1>4 DEF IInv, Written
<1>21. QED
  BY <1>1, <1>2, <1>3, <1>4, <1>12, <1>13, <1>14, <1>15, <1>16, <1>17, <1>18, <1>19, <1>20, Shifted

\* The client takes an image, all of it.
LEMMA DataKeeps ==
  ASSUME IInv, TakeData
  PROVE  IInv'
<1>1. Types /\ Types'
  BY TypesKept DEF IInv, Next, ClientStep
<1>2. /\ cp = "data" /\ Len(got["client"]) = size
      /\ slot' = [slot EXCEPT ![image] = got["client"]]
      /\ IF image < Images THEN image' = image + 1 /\ cp' = "header"
                           ELSE image' = 1 /\ cp' = "update"
      /\ UNCHANGED <<wire, out, peer, server, max, size, shown, stopped>>
  BY DEF TakeData, Received, Wanted
<1>3. got'["client"] = <<>>
  BY <1>1 DEF TakeData, Types, Ends
<1>4. Live /\ ~Asking /\ PreviousAt = 0 /\ Previous = Unit("header", image, shown + 1, size)
  BY <1>2 DEF Live, Asking, PreviousAt, Previous
<1>5. Registers /\ Known /\ Chain(Flight, PreviousAt, Previous) /\ Stored
  BY <1>4 DEF IInv
<1>6. /\ Flight \in Seq(Units)
      /\ \A p \in 1 .. Len(got["client"]) :
           p \in 1 .. Len(Flight) /\ Flight[p] = got["client"][p]
  BY <1>1, FlightParts
<1>7. /\ image \in 1 .. Images /\ size \in Nat /\ shown \in Nat /\ Images \in Nat \ {0}
      /\ slot \in [1 .. Images -> Seq(Units)]
  BY <1>1, CountsAssumption DEF Types
<1>8. Previous' = Previous /\ PreviousAt' = 0 - size
  <2>1. CASE image < Images
    <3>1. image + 1 > 1 /\ (image + 1) - 1 = image
      BY <1>7
    <3>2. QED
      BY <2>1, <3>1, <1>2, <1>4 DEF Previous, PreviousAt, Asking
  <2>2. CASE image = Images
    <3>1. ~(image < Images) /\ ~(1 > 1)
      BY <2>2, <1>7
    <3>2. QED
      BY <2>2, <3>1, <1>2, <1>4 DEF Previous, PreviousAt, Asking
  <2>3. QED
    BY <2>1, <2>2, <1>7
<1>9. PreviousAt' + Len(got["client"]) = PreviousAt
  BY <1>2, <1>4, <1>7, <1>8
<1>10. After(Flight, PreviousAt' + Len(got["client"]), Previous')
  BY <1>5, <1>8, <1>9 DEF Chain
<1>11. ASSUME NEW i, NEW f, Ended(Flight, PreviousAt, Previous, i, f)
       PROVE  Closes(Flight, PreviousAt' + Len(got["client"]), Previous', i, f)
  BY <1>8, <1>9, <1>11, ClosesPrevious
<1>12. Previous'.frame <= held
  BY <1>5, <1>8 DEF Known
<1>13. max' = first /\ shown' <= held /\ peer'["server"] = peer["server"]
       /\ out'["server"] = out["server"] /\ wire'["client"] = wire["client"] /\ UNCHANGED server
  BY <1>2, <1>4, <1>5 DEF Known, IInv
<1>14. cp' \in {"header", "update"} /\ (cp' = "update" => image' = 1)
  BY <1>2
<1>15. Registers'
  <2>1. Len(got'["client"]) = 0
    BY <1>3, EmptySeq
  <2>2. QED
    BY <2>1, <1>3, <1>14 DEF Registers, Asking
<1>16. Whole(got["client"], image, shown + 1)
  <2>1. After(Flight, 0, Unit("header", image, shown + 1, size))
    BY <1>4, <1>5 DEF Chain
  <2>2. size # 0
    BY <1>2, <1>5 DEF Registers
  <2>3. ASSUME NEW p \in 1 .. size
        PROVE  got["client"][p] = Unit("data", image, shown + 1, size)
    <3>1. p \in 1 .. Len(Flight) /\ Flight[p] = got["client"][p]
      BY <1>2, <1>6, Zenon
    <3>2. p \in 0 + 1 .. 0 + size
      BY <1>7
    <3>3. QED
      BY <2>1, <3>1, <3>2 DEF After, Unit
  <2>4. 1 \in 1 .. size
    BY <2>2, <1>7
  <2>5. got["client"] # <<>>
    BY <2>2, <1>2, EmptySeq
  <2>6. QED
    BY <2>3, <2>4, <2>5, <1>2 DEF Whole, Unit
<1>17. Stored'
  <2>1. SUFFICES ASSUME NEW i \in 1 .. Images, i < image' \/ cp' = "update"
                 PROVE  Whole(slot'[i], i, shown + 1)
    BY <1>2 DEF Stored
  <2>2. CASE i = image
    BY <2>2, <1>2, <1>7, <1>16
  <2>3. CASE i # image
    <3>1. i < image
      BY <2>1, <2>3, <1>2, <1>7
    <3>2. slot'[i] = slot[i]
      BY <2>3, <1>2, <1>7
    <3>3. QED
      BY <3>1, <3>2, <1>5 DEF Stored
  <2>4. QED
    BY <2>2, <2>3
<1>18. ~Early
  BY <1>4 DEF IInv, Written
<1>19. QED
  BY <1>1, <1>3, <1>4, <1>10, <1>11, <1>12, <1>13, <1>14, <1>15, <1>17, <1>18, Shifted

\* The frame an element publishes is the next one, and the server has had it.
LEMMA Published ==
  ASSUME IInv, cp = "update"
  PROVE  Content(slot) = shown + 1 /\ shown + 1 <= held
<1>1. Types /\ Live /\ ~Asking
  BY DEF IInv, Live, Asking
<1>2. Known /\ Registers /\ Stored
  BY <1>1 DEF IInv
<1>3. /\ shown \in Nat /\ held \in 0 .. Frames /\ Images \in Nat \ {0} /\ Frames \in Nat \ {0}
      /\ slot \in [1 .. Images -> Seq(Units)]
  BY <1>1, CountsAssumption, BoundsAssumption DEF Types
<1>4. shown + 1 <= held
  <2>1. Previous.frame = shown + 1
    BY <1>2 DEF Previous, Unit, Registers
  <2>2. QED
    BY <2>1, <1>2 DEF Known
<1>5. shown + 1 \in 1 .. Frames
  BY <1>3, <1>4
<1>6. ASSUME NEW i \in 1 .. Images
      PROVE  /\ slot[i] # <<>> /\ Len(slot[i]) = slot[i][1].size
             /\ \A u \in ToSet(slot[i]) : u.kind = "data" /\ u.image = i /\ u.frame = shown + 1
  <2>1. Whole(slot[i], i, shown + 1)
    BY <1>2 DEF Stored
  <2>2. slot[i] \in Seq(Units)
    BY <1>3
  <2>3. ToSet(slot[i]) = {slot[i][p] : p \in 1 .. Len(slot[i])}
    BY <2>2, LenProperties DEF ToSet
  <2>4. QED
    BY <2>1, <2>3 DEF Whole
<1>7. slot[1][1].frame = shown + 1
  <2>1. 1 \in 1 .. Images
    BY <1>3
  <2>2. slot[1] # <<>> /\ slot[1] \in Seq(Units)
    BY <2>1, <1>3, <1>6
  <2>3. 1 \in 1 .. Len(slot[1])
    BY <2>2, EmptySeq, LenProperties
  <2>4. Whole(slot[1], 1, shown + 1)
    BY <2>1, <1>2 DEF Stored
  <2>5. QED
    BY <2>3, <2>4 DEF Whole
<1>8. QED
  BY <1>4, <1>5, <1>6, <1>7 DEF Content

\* The client publishes an image of every kind, and goes on.
LEMMA UpdateKeeps ==
  ASSUME IInv, UpdateWriter
  PROVE  IInv'
<1>1. Types /\ Types'
  BY TypesKept DEF IInv, Next, ClientStep
<1>2. /\ cp = "update" /\ shown' = Content(slot) /\ LoopOrEnd
      /\ UNCHANGED <<server, max, image, size, slot, stopped>>
  BY DEF UpdateWriter
<1>3. shown' = shown + 1 /\ shown + 1 <= held
  BY <1>2, Published
<1>4. CASE cp' \in {"ended", "aborted"}
  BY <1>1, <1>2, <1>3, <1>4, ClientGoes DEF server
<1>5. CASE cp' = "header" /\ UNCHANGED <<wire, out, peer>> /\ got'["client"] = <<>>
  <2>1. Live /\ ~Asking /\ PreviousAt = 0 - size
    BY <1>2 DEF Live, Asking, PreviousAt
  <2>2. Registers /\ Known /\ Chain(Flight, PreviousAt, Previous)
    BY <2>1 DEF IInv
  <2>3. image = 1 /\ got["client"] = <<>> /\ Len(got["client"]) = 0
    BY <1>2, <2>2, EmptySeq DEF Registers
  <2>4. Previous' = Previous /\ PreviousAt' = PreviousAt /\ PreviousAt' + Len(got["client"]) = PreviousAt
    <3>1. size \in Nat
      BY <1>1 DEF Types
    <3>2. Previous' = Previous /\ PreviousAt' = PreviousAt
      BY <1>2, <1>3, <1>5, <2>1, <2>3 DEF Previous, PreviousAt, Asking
    <3>3. QED
      BY <3>1, <3>2, <2>1, <2>3
  <2>5. ~Early
    BY <2>1 DEF IInv, Written
  <2>6. After(Flight, PreviousAt' + Len(got["client"]), Previous')
    BY <2>2, <2>4 DEF Chain
  <2>7. ASSUME NEW i, NEW f, Ended(Flight, PreviousAt, Previous, i, f)
        PROVE  Closes(Flight, PreviousAt' + Len(got["client"]), Previous', i, f)
    BY <2>4, <2>7, ClosesPrevious
  <2>8. max' = first /\ Previous'.frame <= held /\ shown' <= held
    BY <1>2, <1>3, <2>1, <2>2, <2>4 DEF Known
  <2>9. Registers'
    BY <1>2, <1>5, EmptySeq DEF Registers, Asking
  <2>10. Stored'
    BY <1>1, <1>2, <1>5, <2>3 DEF Stored, Types
  <2>11. QED
    BY <1>1, <1>2, <1>5, <2>1, <2>5, <2>6, <2>7, <2>8, <2>9, <2>10, Shifted
<1>6. QED
  BY <1>2, <1>4, <1>5, Loop

\* The server has its first frame and the initial message to send.
LEMMA AttachKeeps ==
  ASSUME IInv, Attach
  PROVE  IInv'
<1>1. Types /\ Types'
  BY TypesKept DEF IInv, Next, ServerStep
<1>2. PICK s \in [1 .. Images -> Sizes] :
        /\ held' = 1 /\ sizes' = s /\ first' = s[1]
        /\ out' = [out EXCEPT !["server"] = <<Unit("initial", 1, 1, s[1])>>]
  BY DEF Attach
<1>3. sp = "attach" /\ sp' = "initial" /\ UNCHANGED <<wire, got, peer, sending, client, stopped>>
  BY DEF Attach
<1>4. out'["server"] = <<Unit("initial", 1, 1, first')>>
  BY <1>1, <1>2 DEF Types, Ends
<1>5. Early /\ ~Early' /\ (Live' <=> Live) /\ (Asking' <=> Asking)
      /\ Previous' = Previous /\ PreviousAt' = PreviousAt
  BY <1>3 DEF Early, Live, Asking, Previous, PreviousAt, client
<1>6. held = 0 /\ (Live => Asking /\ Flight = <<>>)
  BY <1>5 DEF IInv, Written
<1>7. Images \in Nat \ {0} /\ MaxSize \in Nat /\ sizes' \in [1 .. Images -> 1 .. MaxSize]
      /\ first' \in Nat /\ shown \in Nat
  BY <1>1, <1>2, CountsAssumption, SizesAssumption DEF Types
<1>8. shown' <= held'
  BY <1>2, <1>3, <1>6, <1>7 DEF IInv, client
<1>9. CASE ~Live
  BY <1>1, <1>2, <1>3, <1>5, <1>7, <1>8, <1>9 DEF IInv, Written, Early
<1>10. CASE Live
  <2>1. /\ Registers /\ image = 1 /\ shown = 0 /\ size = 0 /\ PreviousAt = 1
        /\ Previous = Unit("header", Images, 0, 0)
    BY <1>6, <1>10 DEF IInv, Registers, Previous, PreviousAt, Asking
  <2>2. Flight \in Seq(Units) /\ Len(Flight) = 0 /\ out["server"] = <<>>
    <3>1. got["client"] \in Seq(Units) /\ wire["client"] \in Seq(Units) /\ out["server"] \in Seq(Units)
      BY <1>1 DEF Types
    <3>2. ASSUME NEW a \in Seq(Units), NEW b \in Seq(Units), NEW c \in Seq(Units), a \o b \o c = <<>>
          PROVE  c = <<>>
      <4>1. Len(a) + Len(b) + Len(c) = 0 /\ Len(a) \in Nat /\ Len(b) \in Nat /\ Len(c) \in Nat
        BY <3>2, Joined, LenProperties, EmptySeq
      <4>2. Len(c) = 0
        BY <4>1
      <4>3. QED
        BY <4>2, EmptySeq
    <3>3. out["server"] = <<>>
      BY <3>1, <3>2, <1>6, <1>10, Zenon DEF Flight
    <3>4. QED
      BY <3>3, <1>6, <1>10, EmptySeq
  <2>3. Flight' = <<Unit("initial", 1, 1, first')>>
    <3>1. got["client"] \in Seq(Units) /\ wire["client"] \in Seq(Units) /\ out["server"] = <<>>
      BY <1>1, <2>2 DEF Types
    <3>2. ASSUME NEW a \in Seq(Units), NEW b \in Seq(Units), a \o b \o <<>> = <<>>, NEW z \in Seq(Units)
          PROVE  a \o b \o z = z
      <4>1. a \o b \in Seq(Units)
        BY ConcatProperties
      <4>2. a \o b = <<>>
        BY <4>1, <3>2, ConcatEmptySeq
      <4>3. QED
        BY <4>2, ConcatEmptySeq
    <3>3. <<Unit("initial", 1, 1, first')>> \in Seq(Units)
      BY <1>7 DEF Unit, Units
    <3>4. Flight = got["client"] \o wire["client"] \o <<>>
      BY <3>1 DEF Flight
    <3>5. Flight' = got["client"] \o wire["client"] \o <<Unit("initial", 1, 1, first')>>
      BY <1>3, <1>4 DEF Flight
    <3>6. QED
      BY <3>1, <3>2, <3>3, <3>4, <3>5, <1>6, <1>10, Zenon
  <2>4. Len(Flight') = 1 /\ Flight'[1] = Unit("initial", 1, 1, first') /\ Flight' # <<>>
    BY <2>3
  <2>5. Chain(Flight', PreviousAt', Previous')
    <3>1. After(Flight', 1, Unit("header", Images, 0, 0))
      BY <2>4, <1>7 DEF After, Unit
    <3>2. \A p \in 1 .. Len(Flight') : Flight'[p].kind = "initial"
      BY <2>4 DEF Unit
    <3>3. QED
      BY <3>1, <3>2, <2>1, <1>5 DEF Chain
  <2>6. Ended(Flight', PreviousAt', Previous', Images, 0)
    <3>1. Closes(Flight', 1, Unit("header", Images, 0, 0), Images, 0)
      BY <2>4 DEF Closes, Unit
    <3>2. \A p \in 1 .. Len(Flight') : Flight'[p].kind = "initial"
      BY <2>4 DEF Unit
    <3>3. QED
      BY <3>1, <3>2, <2>1, <1>5 DEF Ended
  <2>7. Written'
    BY <1>2, <1>3, <1>5, <1>7, <2>6 DEF Written
  <2>8. Known'
    <3>1. Previous'.frame <= held'
      BY <1>2, <1>5, <2>1 DEF Unit
    <3>2. \A p \in 1 .. Len(Flight') : Flight'[p].frame <= held'
      BY <1>2, <2>4 DEF Unit
    <3>3. QED
      BY <3>1, <3>2, <2>4, <1>5, <1>6, <1>10 DEF Known
  <2>9. Registers' /\ Stored' /\ peer'["server"] \notin {"fin", "pipe"}
    BY <1>3, <1>5, <1>10 DEF IInv, Registers, Stored, client
  <2>10. QED
    BY <1>1, <1>8, <2>5, <2>7, <2>8, <2>9 DEF IInv
<1>11. QED
  BY <1>9, <1>10

\* The steps of the server's loop: at its test it starts on the frame's first image
\* or leaves, and between the images it goes on to the next.
LEMMA ServingKeeps ==
  ASSUME IInv, Serve \/ NextImage \/ UpdateReader
  PROVE  IInv'
<1>1. Types /\ Types'
  BY TypesKept DEF IInv, Next, ServerStep
<1>2. /\ Images \in Nat \ {0} /\ MaxSize \in Nat /\ Sizes \subseteq 1 .. MaxSize
      /\ held \in Nat /\ sending \in Nat /\ 1 \in 1 .. Images /\ Images \in 1 .. Images
  BY <1>1, CountsAssumption, SizesAssumption, BoundsAssumption DEF Types
<1>3. /\ sp \in {"initial", "send"} /\ out["server"] = <<>>
      /\ UNCHANGED <<wire, got, peer, first, client>>
  BY DEF Serve, NextImage, UpdateReader
<1>4. held # 0 /\ sizes \in [1 .. Images -> 1 .. MaxSize]
  BY <1>3 DEF IInv, Written
<1>5. CASE Serve
  <2>1. sp = "initial" /\ ServeOrLeave(held, sizes) /\ UNCHANGED <<held, sizes>>
    BY <1>5 DEF Serve
  <2>2. held = 1 /\ (Live => Ended(Flight, PreviousAt, Previous, Images, 0))
    BY <2>1 DEF IInv, Written
  <2>3. CASE stopped["server"]
    <3>1. sp' = "left" /\ UNCHANGED <<out, sending>>
      BY <2>1, <2>3 DEF ServeOrLeave
    <3>2. QED
      BY <1>1, <1>2, <1>3, <2>1, <3>1, ServerGoes
  <2>4. CASE ~stopped["server"]
    <3>1. sp' = "send" /\ sending' = 1 /\ out' = [out EXCEPT !["server"] = Image(1, held, sizes[1])]
      BY <2>1, <2>4 DEF ServeOrLeave, SendImage
    <3>2. out'["server"] = Image(1, held, sizes[1])
      BY <1>1, <3>1 DEF Types, Ends
    <3>3. sizes[1] \in 1 .. MaxSize /\ held \in Nat \ {0} /\ Turn(Images, 0, 1, held) /\ held <= held
      BY <1>2, <1>4, <2>2 DEF Turn
    <3>4. QED
      BY <1>1, <1>2, <1>3, <1>4, <2>1, <2>2, <3>1, <3>2, <3>3, ServerWrites
  <2>5. QED
    BY <2>3, <2>4
<1>6. CASE NextImage
  <2>1. /\ sp = "send" /\ sp' = "send" /\ UNCHANGED <<held, sizes>> /\ sending < Images
        /\ sending' = sending + 1 /\ out' = [out EXCEPT !["server"] = Image(sending + 1, held, sizes[sending + 1])]
    BY <1>6 DEF NextImage, SendImage
  <2>2. sending # 0 /\ (Live => Ended(Flight, PreviousAt, Previous, sending, held))
    BY <2>1 DEF IInv, Written
  <2>3. sending \in 1 .. Images /\ sending + 1 \in 1 .. Images
    BY <1>2, <2>1, <2>2
  <2>4. /\ sizes[sending + 1] \in 1 .. MaxSize /\ held \in Nat \ {0}
        /\ Turn(sending, held, sending + 1, held) /\ held <= held
    BY <1>2, <1>4, <2>1, <2>3 DEF Turn
  <2>5. out'["server"] = Image(sending + 1, held, sizes[sending + 1])
    BY <1>1, <2>1 DEF Types, Ends
  <2>6. sizes' \in [1 .. Images -> 1 .. MaxSize] /\ held' = held
    BY <1>4, <2>1
  <2>7. QED
    BY <1>1, <1>2, <1>3, <2>1, <2>2, <2>3, <2>4, <2>5, <2>6, ServerWrites
<1>7. CASE UpdateReader
  <2>1. PICK s \in [1 .. Images -> Sizes] : sizes' = s /\ ServeOrLeave(held + 1, s)
    BY <1>7 DEF UpdateReader
  <2>2. sp = "send" /\ sending = Images /\ held' = held + 1
    BY <1>7 DEF UpdateReader
  <2>3. Live => Ended(Flight, PreviousAt, Previous, Images, held)
    BY <2>2 DEF IInv, Written
  <2>4. CASE stopped["server"]
    <3>1. sp' = "left" /\ UNCHANGED <<out, sending>> /\ held <= held'
      BY <1>2, <2>1, <2>2, <2>4 DEF ServeOrLeave
    <3>2. QED
      BY <1>1, <1>3, <3>1, ServerGoes
  <2>5. CASE ~stopped["server"]
    <3>1. sp' = "send" /\ sending' = 1 /\ out' = [out EXCEPT !["server"] = Image(1, held + 1, s[1])]
      BY <2>1, <2>5 DEF ServeOrLeave, SendImage
    <3>2. out'["server"] = Image(1, held + 1, s[1])
      BY <1>1, <3>1 DEF Types, Ends
    <3>3. /\ s[1] \in 1 .. MaxSize /\ held + 1 \in Nat \ {0} /\ Turn(Images, held, 1, held + 1)
          /\ held <= held + 1 /\ s \in [1 .. Images -> 1 .. MaxSize]
      <4>1. s \in [1 .. Images -> 1 .. MaxSize] /\ s[1] \in 1 .. MaxSize
        BY <1>2
      <4>2. held + 1 \in Nat \ {0} /\ Turn(Images, held, 1, held + 1) /\ held <= held + 1
        BY <1>2 DEF Turn
      <4>3. QED
        BY <4>1, <4>2
    <3>4. QED
      BY <1>1, <1>2, <1>3, <2>1, <2>2, <2>3, <3>1, <3>2, <3>3, ServerWrites
  <2>6. QED
    BY <2>4, <2>5
<1>8. QED
  BY <1>5, <1>6, <1>7

\* The server's end is closed, for whatever reason.
LEMMA ClosingKeeps ==
  ASSUME IInv, RequestFails \/ ServeFails \/ ServerExits
  PROVE  IInv'
<1>1. Types /\ Types'
  BY TypesKept DEF IInv, Next, ServerStep
<1>2. /\ Close("server") /\ sp' \in {"gone", "killed"}
      /\ UNCHANGED <<held, sizes, sending, first, client, stopped>>
  BY DEF RequestFails, ServeFails, ServerExits
<1>3. /\ out'["server"] = <<>> /\ peer'["server"] = peer["server"]
      /\ got'["client"] = got["client"] /\ wire'["client"] = wire["client"]
  BY <1>1, <1>2 DEF Close, Types, Ends, Other
<1>4. held \in Nat
  BY <1>1, BoundsAssumption DEF Types
<1>5. QED
  BY <1>1, <1>2, <1>3, <1>4, ServerGoes

\* The client's end is closed, or never opens.
LEMMA LeavingKeeps ==
  ASSUME IInv, ClientFails \/ KillClient \/ ConnectFails
  PROVE  IInv'
<1>1. Types'
  BY TypesKept DEF IInv, Next, ClientStep
<1>2. cp' \in {"ended", "aborted"} /\ UNCHANGED server /\ shown' = shown
  BY DEF ClientFails, KillClient, ConnectFails
<1>3. QED
  BY <1>1, <1>2, ClientGoes DEF IInv, server

\* Before the client connects nothing is in flight, and both ends stand at their start.
LEMMA InitIInv == Init => IInv
<1> SUFFICES ASSUME Init PROVE IInv
  OBVIOUS
<1>1. <<>> \in Seq(Units) /\ <<>> \in Seq(Units \cup Fields) /\ Len(<<>>) = 0
  BY EmptySeq
<1>2. Images \in Nat \ {0} /\ MaxSize \in Nat /\ Frames \in Nat \ {0}
  BY CountsAssumption, SizesAssumption, BoundsAssumption
<1>3. Types
  BY <1>1, <1>2 DEF Init, Types, Ends
<1>4. Flight = <<>>
  <2>1. Flight = <<>> \o <<>> \o <<>>
    BY DEF Init, Flight, Ends
  <2>2. QED
    BY <2>1
<1>5. Previous = Unit("header", Images, 0, 0) /\ PreviousAt = 1 /\ Asking /\ Early
  BY DEF Init, Previous, PreviousAt, Asking, Early
<1>6. Written /\ shown <= held
  BY <1>4, <1>5 DEF Init, Written
<1>7. Chain(Flight, PreviousAt, Previous)
  BY <1>2, <1>4, <1>5, <1>1 DEF Chain, After, Unit
<1>8. Known
  BY <1>4, <1>5, <1>1 DEF Init, Known, Unit
<1>9. Registers /\ Stored /\ peer["server"] \notin {"fin", "pipe"}
  BY <1>1, <1>2 DEF Init, Registers, Stored, Asking, Ends
<1>10. QED
  BY <1>3, <1>6, <1>7, <1>8, <1>9 DEF IInv

\* Every step of either end, of its socket, or of what may happen to them keeps the
\* units in flight a chain from the client's last header to the server's last image.
LEMMA StepIInv == IInv /\ [Next]_vars => IInv'
<1> SUFFICES ASSUME IInv, [Next]_vars PROVE IInv'
  OBVIOUS
<1>1. ASSUME NEW x \in Ends, SocketStep(x) PROVE IInv'
  BY <1>1, SocketKeeps
<1>2. CASE TakeField \/ Connect \/ StopServer \/ StopClient \/ Break
  BY <1>2, IdleKeeps
<1>3. CASE Attach
  BY <1>3, AttachKeeps
<1>4. CASE Serve \/ NextImage \/ UpdateReader
  BY <1>4, ServingKeeps
<1>5. CASE RequestFails \/ ServeFails \/ ServerExits
  BY <1>5, ClosingKeeps
<1>6. CASE ClientFails \/ KillClient \/ ConnectFails
  BY <1>6, LeavingKeeps
<1>7. CASE TakeInitial
  BY <1>7, InitialKeeps
<1>8. CASE TakeHeader
  BY <1>8, HeaderKeeps
<1>9. CASE TakeData
  BY <1>9, DataKeeps
<1>10. CASE UpdateWriter
  BY <1>10, UpdateKeeps
<1>11. CASE UNCHANGED vars
  <2>1. UNCHANGED <<wire, out, got, peer, sp, held, sizes, sending, first, cp, max, image, size,
                    slot, shown, stopped>>
    BY <1>11 DEF vars, net, server, client
  <2>2. Types' /\ Flight' = Flight
    BY <2>1 DEF IInv, Types, Flight
  <2>3. Live => Registers' /\ peer'["server"] \notin {"fin", "pipe"}
    BY <2>1 DEF IInv, Registers, Asking
  <2>4. QED
    BY <2>1, <2>2, <2>3, Kept
<1>12. "server" \in Ends /\ "client" \in Ends
  BY DEF Ends
<1>13. QED
  BY <1>1, <1>2, <1>3, <1>4, <1>5, <1>6, <1>7, <1>8, <1>9, <1>10, <1>11, <1>12
     DEF Next, ServerStep, ClientStep

\* The invariant from which the theorems below follow, for every run of the two ends.
THEOREM Invariance == Spec => []IInv
BY InitIInv, StepIInv, PTL DEF Spec

-----------------------------------------------------------------------------
\* What it says.

\* Both ends agree where they are in the stream, however the sends and receives are
\* cut up: what the client takes for a header of an image is one, and what it puts
\* into an image is of that image (client.cpp:112-116, server.cpp:144-150).
THEOREM ClientInStep == Spec => []InStep
<1>1. IInv => InStep
  <2>1. SUFFICES ASSUME IInv, NEW u \in ToSet(got["client"])
                 PROVE  /\ cp = "header" => u.kind = "header" /\ u.image = image
                        /\ cp = "data" => u.kind = "data" /\ u.image = image /\ u.frame = shown + 1
    BY DEF InStep
  <2>2. Types
    BY <2>1 DEF IInv
  <2>3. PICK p \in 1 .. Len(got["client"]) : u = got["client"][p]
    <3>1. got["client"] \in Seq(Units)
      BY <2>2 DEF Types
    <3>2. QED
      BY <2>1, <3>1, LenProperties DEF ToSet
  <2>4. p \in 1 .. Len(Flight) /\ Flight[p] = u
    BY <2>2, <2>3, FlightParts
  <2>5. /\ image \in 1 .. Images /\ size \in Nat /\ shown \in Nat /\ Images \in Nat \ {0}
        /\ Len(got["client"]) \in Nat
    BY <2>2, CountsAssumption, LenProperties DEF Types
  <2>6. ASSUME cp \in {"header", "data"}
        PROVE  Registers /\ After(Flight, PreviousAt, Previous)
    BY <2>6, <2>1 DEF IInv, Live, Chain
  <2>7. CASE cp = "header"
    <3>1. p = 1
      BY <2>3, <2>5, <2>6, <2>7 DEF Registers
    <3>2. PreviousAt = 0 - size /\ Previous.size = size
      BY <2>7 DEF PreviousAt, Previous, Asking, Unit
    <3>3. 1 = PreviousAt + Previous.size + 1
      BY <3>2, <2>5
    <3>4. Follows(Previous, u)
      BY <3>1, <3>3, <2>4, <2>6, <2>7 DEF After
    <3>5. u.image = image
      <4>1. CASE image > 1
        <5>1. Previous.image = image - 1
          BY <2>7, <4>1 DEF Previous, Unit
        <5>2. image - 1 < Images /\ (image - 1) + 1 = image
          BY <2>5
        <5>3. QED
          BY <5>1, <5>2, <3>4 DEF Follows, Turn
      <4>2. CASE image = 1
        <5>1. Previous.image = Images /\ ~(Images < Images)
          BY <2>5, <2>7, <4>2 DEF Previous, Unit
        <5>2. QED
          BY <5>1, <4>2, <3>4 DEF Follows, Turn
      <4>3. QED
        BY <4>1, <4>2, <2>5
    <3>6. QED
      BY <3>4, <3>5, <2>7 DEF Follows
  <2>8. CASE cp = "data"
    <3>1. p \in 0 + 1 .. 0 + size
      BY <2>3, <2>5, <2>6, <2>8 DEF Registers
    <3>2. After(Flight, 0, Unit("header", image, shown + 1, size))
      BY <2>6, <2>8 DEF PreviousAt, Previous, Asking
    <3>3. u = Unit("data", image, shown + 1, size)
      BY <2>4, <3>1, <3>2 DEF After, Unit
    <3>4. QED
      BY <3>3, <2>8 DEF Unit
  <2>9. QED
    BY <2>7, <2>8
<1>2. QED
  BY <1>1, Invariance, PTL

\* The images received fit the client's element, if image 1 had its full size when
\* the client connected; the ring is made for the size it had then, and every header
\* after that brings a size of its own (client.cpp:106, 114-115).
THEOREM ImagesFit == Spec => []FitsElement
<1>1. IInv => FitsElement
  <2>1. SUFFICES ASSUME IInv, first = MaxSize, cp = "data"
                 PROVE  size <= max
    BY DEF FitsElement
  <2>2. Known /\ After(Flight, PreviousAt, Previous) /\ ~Asking
    BY <2>1 DEF IInv, Live, Chain, Asking
  <2>3. max = MaxSize /\ Previous.size = size
    BY <2>1, <2>2 DEF Known, Previous, Unit
  <2>4. QED
    BY <2>2, <2>3, SizesAssumption DEF After
<1>2. QED
  BY <1>1, Invariance, PTL

\* The client publishes what the server was handed, each frame once, whole and in
\* order, whatever is lost, cut short, stopped or killed on the way: every step of
\* the two ends is one of Mirror or leaves its variables alone (server.cpp:116-151,
\* client.cpp:96-120).
THEOREM Refinement == Spec => Mirrors
<1>1. Init => M!Init
  BY DEF Init, M!Init
<1>2. IInv /\ [Next]_vars => [M!Offer \/ M!Show]_<<held, shown>>
  <2> SUFFICES ASSUME IInv, [Next]_vars
               PROVE  [M!Offer \/ M!Show]_<<held, shown>>
    OBVIOUS
  <2>1. ASSUME NEW x \in Ends, SocketStep(x) PROVE UNCHANGED <<held, shown>>
    BY <2>1 DEF SocketStep, RawSend, SendUnheard, RawReceive, server, client
  <2>2. CASE TakeField \/ RequestFails \/ Serve \/ NextImage \/ ServeFails \/ ServerExits
    BY <2>2 DEF TakeField, RequestFails, Serve, NextImage, ServeFails, ServerExits, client
  <2>3. CASE Connect \/ ConnectFails \/ TakeInitial \/ TakeHeader \/ TakeData \/ ClientFails \/ KillClient
    BY <2>3 DEF Connect, ConnectFails, TakeInitial, TakeHeader, TakeData, ClientFails, KillClient,
                server
  <2>4. CASE StopServer \/ StopClient \/ Break \/ UNCHANGED vars
    BY <2>4 DEF StopServer, StopClient, Break, vars, server, client
  <2>5. CASE Attach
    <3>1. held = 0
      BY <2>5 DEF IInv, Written, Early, Attach
    <3>2. held' = 1 /\ shown' = shown
      BY <2>5 DEF Attach, client
    <3>3. QED
      BY <3>1, <3>2 DEF M!Offer
  <2>6. CASE UpdateReader
    BY <2>6 DEF UpdateReader, client, M!Offer
  <2>7. CASE UpdateWriter
    <3>1. shown' = shown + 1 /\ shown + 1 <= held /\ held' = held
      BY <2>7, Published DEF UpdateWriter, server
    <3>2. shown \in Nat /\ held \in Nat
      BY BoundsAssumption DEF IInv, Types
    <3>3. QED
      BY <3>1, <3>2 DEF M!Show
  <2>8. "server" \in Ends /\ "client" \in Ends
    BY DEF Ends
  <2>9. QED
    BY <2>1, <2>2, <2>3, <2>4, <2>5, <2>6, <2>7, <2>8 DEF Next, ServerStep, ClientStep
<1>3. QED
  BY <1>1, <1>2, Invariance, PTL DEF Spec, Mirrors, M!Spec

=============================================================================
