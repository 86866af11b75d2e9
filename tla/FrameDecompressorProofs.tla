----------------------- MODULE FrameDecompressorProofs -----------------------
(* A careful reader of well-formed frames gets their content whole and in     *)
(* order, for every sequence of frames, every way to cut it up and every      *)
(* limit.                                                                     *)
EXTENDS FrameDecompressor, SumLemmas, SequenceTheorems

-----------------------------------------------------------------------------
(* Runs of wire positions                                                    *)

LEMMA WireIs ==
  ASSUME NEW a \in Int, NEW n \in Nat
  PROVE  /\ Wire(a, n) \in Seq(Int) /\ Len(Wire(a, n)) = n
         /\ \A j \in 1 .. n : Wire(a, n)[j] = a + j - 1
BY SMT DEF Wire

LEMMA WireEmpty ==
  ASSUME NEW a \in Int, NEW n \in Nat
  PROVE  Wire(a, n) = << >> <=> n = 0
<1>1. Wire(a, n) \in Seq(Int) /\ Len(Wire(a, n)) = n
  BY WireIs
<1> QED BY <1>1, EmptySeq

LEMMA WireDrop ==
  ASSUME NEW a \in Int, NEW n \in Nat, NEW k \in 0 .. n
  PROVE  Drop(Wire(a, n), k) = Wire(a + k, n - k)
<1> DEFINE l == Drop(Wire(a, n), k)
           r == Wire(a + k, n - k)
<1>1. Wire(a, n) \in Seq(Int) /\ Len(Wire(a, n)) = n /\ \A j \in 1 .. n : Wire(a, n)[j] = a + j - 1
  BY WireIs
<1>2. n - k \in Nat /\ a + k \in Int
  BY SMT
<1>3. r \in Seq(Int) /\ Len(r) = n - k /\ \A j \in 1 .. n - k : r[j] = a + k + j - 1
  BY <1>2, WireIs
<1>4. l \in Seq(Int) /\ Len(l) = n - k /\ \A j \in 1 .. n - k : l[j] = a + (k + j) - 1
  <2> HIDE DEF r
  <2>1. l = SubSeq(Wire(a, n), k + 1, n)
    BY <1>1 DEF Drop
  <2> HIDE DEF l
  <2> QED BY <1>1, <1>2, <2>1, SMT
<1> HIDE DEF l, r
<1>5. \A j \in 1 .. Len(l) : l[j] = r[j]
  BY <1>2, <1>3, <1>4, SMT
<1>6. l = r
  BY <1>3, <1>4, <1>5, SeqEqual
<1> QED BY <1>6 DEF l, r

LEMMA WirePrefix ==
  ASSUME NEW a \in Int, NEW n \in Nat, NEW k \in 0 .. n
  PROVE  SubSeq(Wire(a, n), 1, k) = Wire(a, k)
<1> DEFINE l == SubSeq(Wire(a, n), 1, k)
           r == Wire(a, k)
<1>1. Wire(a, n) \in Seq(Int) /\ Len(Wire(a, n)) = n /\ \A j \in 1 .. n : Wire(a, n)[j] = a + j - 1
  BY WireIs
<1>2. k \in Nat
  BY SMT
<1>3. r \in Seq(Int) /\ Len(r) = k /\ \A j \in 1 .. k : r[j] = a + j - 1
  BY <1>2, WireIs
<1>4. l \in Seq(Int) /\ Len(l) = k /\ \A j \in 1 .. k : l[j] = a + j - 1
  BY <1>1, <1>2, SMT
<1> HIDE DEF l, r
<1>5. \A j \in 1 .. Len(l) : l[j] = r[j]
  BY <1>3, <1>4
<1>6. l = r
  BY <1>3, <1>4, <1>5, SeqEqual
<1> QED BY <1>6 DEF l, r

LEMMA WireConcat ==
  ASSUME NEW a \in Int, NEW n \in Nat, NEW m \in Nat
  PROVE  Wire(a, n) \o Wire(a + n, m) = Wire(a, n + m)
<1> DEFINE u == Wire(a, n)
           v == Wire(a + n, m)
           l == u \o v
           r == Wire(a, n + m)
<1>1. u \in Seq(Int) /\ Len(u) = n /\ \A j \in 1 .. n : u[j] = a + j - 1
  BY WireIs
<1>2. a + n \in Int /\ n + m \in Nat
  BY SMT
<1>3. v \in Seq(Int) /\ Len(v) = m /\ \A j \in 1 .. m : v[j] = a + n + j - 1
  BY <1>2, WireIs
<1>4. r \in Seq(Int) /\ Len(r) = n + m /\ \A j \in 1 .. n + m : r[j] = a + j - 1
  BY <1>2, WireIs
<1> HIDE DEF u, v, r
<1>5. l \in Seq(Int) /\ Len(l) = n + m
      /\ \A j \in 1 .. n + m : l[j] = IF j =< n THEN u[j] ELSE v[j - n]
  <2>1. Len(l) = Len(u) + Len(v) /\ l \in Seq(Int)
    BY <1>1, <1>3, ConcatProperties
  <2>2. \A j \in 1 .. Len(u) + Len(v) : l[j] = IF j =< Len(u) THEN u[j] ELSE v[j - Len(u)]
    BY <1>1, <1>3, ConcatProperties
  <2> QED BY <1>1, <1>3, <2>1, <2>2
<1> HIDE DEF l
<1>6. ASSUME NEW j \in 1 .. Len(l) PROVE l[j] = r[j]
  <2>1. j \in 1 .. n + m /\ j \in Int /\ l[j] = IF j =< n THEN u[j] ELSE v[j - n]
    BY <1>5, SMT
  <2>2. CASE j =< n
    <3>1. j \in 1 .. n
      BY <2>1, <2>2, SMT
    <3> QED BY <1>1, <1>4, <2>1, <2>2, <3>1
  <2>3. CASE ~ (j =< n)
    <3>1. j - n \in 1 .. m
      BY <2>1, <2>3, SMT
    <3>2. v[j - n] = a + n + (j - n) - 1 /\ r[j] = a + j - 1
      BY <1>3, <1>4, <2>1, <3>1
    <3> QED BY <2>1, <2>3, <3>2, SMT
  <2> QED BY <2>2, <2>3
<1>7. l = r
  BY <1>4, <1>5, <1>6, SeqEqual
<1> QED BY <1>7 DEF l, r, u, v

\* Two runs that look the same start at the same place.
LEMMA WireApart ==
  ASSUME NEW a \in Int, NEW b \in Int, NEW n \in Nat \ {0}, Wire(a, n) = Wire(b, n)
  PROVE  a = b
<1>1. 1 \in 1 .. n /\ n \in Nat
  BY SMT
<1>2. Wire(a, n)[1] = a + 1 - 1 /\ Wire(b, n)[1] = b + 1 - 1
  BY <1>1, WireIs
<1> QED BY <1>2, SMT
-----------------------------------------------------------------------------
(* Frames on their wire                                                      *)

\* The lengths of a frame's parts add up.
LEMMA FrameSums ==
  ASSUME NEW f, IsFrame(f)
  PROVE  /\ Len(f.blocks) \in Nat
         /\ BlocksLen(f, 0) = 0 /\ ContentLen(f, 0) = 0
         /\ \A k \in 0 .. Len(f.blocks) :
              BlocksLen(f, k) \in Nat /\ ContentLen(f, k) \in Nat /\ ContentLen(f, k) =< Content(f)
         /\ \A k \in 1 .. Len(f.blocks) :
              /\ f.blocks[k].wire \in Nat \ {0} /\ f.blocks[k].size \in Nat \ {0} /\ f.blocks[k].raw \in BOOLEAN
              /\ f.blocks[k].raw => f.blocks[k].wire = f.blocks[k].size
              /\ BlocksLen(f, k) = BlocksLen(f, k - 1) + (4 + f.blocks[k].wire + CrcLen(f.blockCrc))
              /\ ContentLen(f, k) = ContentLen(f, k - 1) + f.blocks[k].size
         /\ CrcLen(f.blockCrc) = (IF f.blockCrc THEN 4 ELSE 0) /\ CrcLen(f.contentCrc) = (IF f.contentCrc THEN 4 ELSE 0)
         /\ HeaderLen(f) = (IF f.sized THEN 15 ELSE 7)
         /\ {f.sized, f.blockCrc, f.contentCrc} \subseteq BOOLEAN
         /\ FrameLen(f) \in Nat \ {0} /\ Content(f) \in Nat
<1> DEFINE N == Len(f.blocks)
           w == [j \in DOMAIN f.blocks |-> FieldSize + f.blocks[j].wire + CrcLen(f.blockCrc)]
           v == [j \in DOMAIN f.blocks |-> f.blocks[j].size]
<1>1. /\ CrcLen(f.blockCrc) = (IF f.blockCrc THEN 4 ELSE 0) /\ CrcLen(f.contentCrc) = (IF f.contentCrc THEN 4 ELSE 0)
      /\ HeaderLen(f) = (IF f.sized THEN 15 ELSE 7)
      /\ {f.sized, f.blockCrc, f.contentCrc} \subseteq BOOLEAN
  <2>1. {f.sized, f.blockCrc, f.contentCrc} \subseteq BOOLEAN
    BY DEF IsFrame
  <2>2. 7 + 8 = 15 /\ 7 + 0 = 7
    BY SMT
  <2> QED BY <2>1, <2>2 DEF CrcLen, FieldSize, HeaderLen, minFHSize
<1>2. /\ N \in Nat /\ DOMAIN f.blocks = 1 .. N
      /\ \A k \in 1 .. N :
           /\ f.blocks[k].wire \in Nat \ {0} /\ f.blocks[k].size \in Nat \ {0} /\ f.blocks[k].raw \in BOOLEAN
           /\ f.blocks[k].raw => f.blocks[k].wire = f.blocks[k].size
  BY DEF IsFrame
<1>3. CrcLen(f.blockCrc) \in Nat /\ CrcLen(f.contentCrc) \in Nat
  <2>1. CrcLen(f.blockCrc) \in {0, 4} /\ CrcLen(f.contentCrc) \in {0, 4}
    BY <1>1
  <2> QED BY <2>1, SMT
<1>4. \A k \in 1 .. N : w[k] = 4 + f.blocks[k].wire + CrcLen(f.blockCrc) /\ v[k] = f.blocks[k].size
  BY <1>2 DEF FieldSize
<1> HIDE DEF w, v
<1>5. \A k \in 1 .. N : w[k] \in Nat /\ v[k] \in Nat
  BY <1>2, <1>3, <1>4, SMTT(60)
<1>6. \A k : BlocksLen(f, k) = Sum(w, k) /\ ContentLen(f, k) = Sum(v, k)
  BY DEF BlocksLen, ContentLen, w, v
<1>7. BlocksLen(f, 0) = 0 /\ ContentLen(f, 0) = 0
  BY <1>6, SumZero
<1>8. \A k \in 0 .. N : BlocksLen(f, k) \in Nat
  BY <1>2, <1>5, <1>6, SumGrows
<1>9. \A k \in 0 .. N : ContentLen(f, k) \in Nat /\ ContentLen(f, k) =< Content(f)
  BY <1>2, <1>5, <1>6, SumGrows DEF Content
<1>10. ASSUME NEW k \in 1 .. N
       PROVE  BlocksLen(f, k) = BlocksLen(f, k - 1) + w[k] /\ ContentLen(f, k) = ContentLen(f, k - 1) + v[k]
  <2>1. k - 1 \in Nat /\ (k - 1) + 1 = k /\ \A j \in 1 .. k : w[j] \in Int /\ v[j] \in Int
    BY <1>2, <1>5, SMT
  <2>2. Sum(w, (k - 1) + 1) = Sum(w, k - 1) + w[(k - 1) + 1]
    BY <2>1, SumNext
  <2>3. Sum(v, (k - 1) + 1) = Sum(v, k - 1) + v[(k - 1) + 1]
    BY <2>1, SumNext
  <2> QED BY <1>6, <2>1, <2>2, <2>3
<1>11. BlocksLen(f, N) \in Nat /\ Content(f) \in Nat
  <2>1. N \in 0 .. N
    BY <1>2, SMT
  <2> QED BY <1>8, <1>9, <2>1 DEF Content
<1>12. FrameLen(f) \in Nat \ {0}
  <2>1. HeaderLen(f) \in Nat
    <3>1. HeaderLen(f) \in {7, 15}
      BY <1>1
    <3> QED BY <3>1, SMT
  <2> QED BY <1>3, <1>11, <2>1, SMT DEF FrameLen, FieldSize
<1> QED BY <1>1, <1>2, <1>4, <1>7, <1>8, <1>9, <1>10, <1>11, <1>12

\* Frames follow one another, and no two start at the same place.
LEMMA StartFacts ==
  ASSUME scenario \in DOMAIN Scenarios
  PROVE  /\ Len(Frames) \in Nat \ {0} /\ DOMAIN Frames = 1 .. Len(Frames)
         /\ \A i \in DOMAIN Frames : IsFrame(Frames[i])
         /\ \A i \in DOMAIN Frames : FrameStart(i) \in Nat /\ FrameEnd(i) = FrameStart(i) + FrameLen(Frames[i])
         /\ \A i \in DOMAIN Frames : i < Len(Frames) => i + 1 \in DOMAIN Frames /\ FrameStart(i + 1) = FrameEnd(i)
         /\ \A i, j \in DOMAIN Frames : FrameStart(i) = FrameStart(j) => i = j
         /\ Lengths \subseteq Nat \cup {-1} /\ MemoryFails \in BOOLEAN
         /\ WireLen \in Nat
<1> DEFINE K == Len(Frames)
           l == [i \in DOMAIN Frames |-> FrameLen(Frames[i])]
<1>1. /\ K \in Nat \ {0} /\ DOMAIN Frames = 1 .. K
      /\ \A i \in DOMAIN Frames : IsFrame(Frames[i])
      /\ Lengths \subseteq Nat \cup {-1} /\ MemoryFails \in BOOLEAN
  BY ScenarioAssumption DEF Frames, Lengths, MemoryFails
<1>2. \A i \in 1 .. K : l[i] = FrameLen(Frames[i]) /\ l[i] \in Nat \ {0}
  BY <1>1, FrameSums
<1>3. \A i \in 1 .. K + 1 : Starts[scenario][i] = Sum(l, i - 1)
  BY <1>1 DEF Starts, Frames
<1> HIDE DEF l
<1>4. ASSUME NEW i \in 1 .. K
      PROVE  /\ FrameStart(i) = Sum(l, i - 1) /\ FrameEnd(i) = Sum(l, i)
             /\ FrameStart(i) \in Nat /\ FrameEnd(i) = FrameStart(i) + FrameLen(Frames[i]) /\ FrameEnd(i) \in Nat
  <2>1. i \in 1 .. K + 1 /\ i + 1 \in 1 .. K + 1 /\ (i + 1) - 1 = i /\ i - 1 \in Nat /\ (i - 1) + 1 = i /\ i \in Nat
        /\ i - 1 \in 0 .. i
    BY <1>1, SMT
  <2>2. FrameStart(i) = Sum(l, i - 1) /\ FrameEnd(i) = Sum(l, i)
    BY <1>3, <2>1 DEF FrameStart, FrameEnd
  <2>3. \A j \in 1 .. i : l[j] \in Nat /\ l[j] \in Int
    BY <1>1, <1>2, SMT
  <2>4. Sum(l, i - 1) \in Nat /\ Sum(l, i) \in Nat
    BY <2>1, <2>3, SumGrows
  <2>5. \A j \in 1 .. (i - 1) + 1 : l[j] \in Int
    BY <2>1, <2>3
  <2>6. Sum(l, (i - 1) + 1) = Sum(l, i - 1) + l[(i - 1) + 1]
    BY <2>1, <2>5, SumNext
  <2> QED BY <1>2, <2>1, <2>2, <2>4, <2>6
<1>5. ASSUME NEW i \in 1 .. K, i < K
      PROVE  i + 1 \in 1 .. K /\ FrameStart(i + 1) = FrameEnd(i)
  BY <1>1, <1>5, SMT DEF FrameStart, FrameEnd
<1>6. ASSUME NEW i \in 1 .. K, NEW j \in 1 .. K, i < j
      PROVE  FrameStart(i) < FrameStart(j)
  <2>1. j - 1 \in Nat /\ i \in 0 .. j - 1 /\ \A n \in 1 .. j - 1 : n \in 1 .. K
    BY <1>1, <1>6, SMT
  <2>2. \A n \in 1 .. j - 1 : l[n] \in Nat
    BY <1>2, <2>1
  <2>3. Sum(l, i) =< Sum(l, j - 1)
    BY <2>1, <2>2, SumGrows
  <2>4. FrameStart(i) \in Nat /\ FrameStart(j) \in Nat /\ FrameEnd(i) = FrameStart(i) + FrameLen(Frames[i]) /\ FrameEnd(i) = Sum(l, i)
        /\ FrameStart(j) = Sum(l, j - 1)
    BY <1>4
  <2>5. FrameLen(Frames[i]) \in Nat \ {0}
    BY <1>2
  <2> QED BY <2>3, <2>4, <2>5, SMT
<1>7. ASSUME NEW i \in 1 .. K, NEW j \in 1 .. K, FrameStart(i) = FrameStart(j) PROVE i = j
  <2>1. FrameStart(i) \in Nat /\ i \in Nat /\ j \in Nat
    BY <1>4, SMT
  <2>2. ~ (i < j) /\ ~ (j < i)
    BY <1>6, <1>7, <2>1, SMT
  <2> QED BY <2>1, <2>2, SMT
<1>8. WireLen \in Nat
  <2>1. K \in 1 .. K
    BY <1>1, SMT
  <2> QED BY <1>4, <2>1 DEF WireLen
<1> QED BY <1>1, <1>4, <1>5, <1>7, <1>8
-----------------------------------------------------------------------------
(* The context d of a reader that has read p bytes of the frame f, which      *)
(* starts at s, and decoded q bytes of its content.                           *)

Fields == {"stage", "header", "have", "frame", "block", "left", "pending", "remaining"}

\* The block begun last, and the bytes before it.
Before(f, d) == HeaderLen(f) + BlocksLen(f, d.block - 1)
Begun(f, d)  == d.block \in 1 .. Len(f.blocks)
WithCrc(f, d) == f.blocks[d.block].wire + CrcLen(f.blockCrc)

InHeader(s, f, d, p, q) == p < HeaderLen(f) /\ d.header = Wire(s, p) /\ q = 0
InBlockHeader(f, d, p, q) ==
  /\ d.block \in 0 .. Len(f.blocks) /\ d.have \in 0 .. 3
  /\ p = HeaderLen(f) + BlocksLen(f, d.block) + d.have /\ q = ContentLen(f, d.block)
InCopyDirect(f, d, p, q) ==
  /\ Begun(f, d) /\ f.blocks[d.block].raw /\ d.left \in 1 .. f.blocks[d.block].wire /\ d.have = 0
  /\ p = Before(f, d) + 4 + f.blocks[d.block].wire - d.left /\ q = ContentLen(f, d.block) - d.left
InRawCrc(f, d, p, q) ==
  /\ Begun(f, d) /\ f.blockCrc /\ d.have \in 0 .. 3
  /\ p = Before(f, d) + 4 + f.blocks[d.block].wire + d.have /\ q = ContentLen(f, d.block)
InCBlock(f, d, p, q) ==
  /\ Begun(f, d) /\ d.have \in 0 .. WithCrc(f, d) - 1
  /\ p = Before(f, d) + 4 + d.have /\ q = ContentLen(f, d.block - 1)
InFlushOut(f, d, p, q) ==
  /\ Begun(f, d) /\ d.have = 0
  /\ p = HeaderLen(f) + BlocksLen(f, d.block) /\ q = ContentLen(f, d.block)
InSuffix(f, d, p, q) ==
  /\ d.block = Len(f.blocks) /\ d.have = 0
  /\ p = HeaderLen(f) + BlocksLen(f, Len(f.blocks)) + 4 /\ q = Content(f)
InSuffixCrc(f, d, p, q) ==
  /\ d.block = Len(f.blocks) /\ f.contentCrc /\ d.have \in 0 .. 3
  /\ p = HeaderLen(f) + BlocksLen(f, Len(f.blocks)) + 4 + d.have /\ q = Content(f)

Inside(s, f, d, p, q) ==
  \/ d.stage = "frameHeader" /\ InHeader(s, f, d, p, q)
  \/ d.stage = "blockHeader" /\ InBlockHeader(f, d, p, q)
  \/ d.stage = "copyDirect" /\ InCopyDirect(f, d, p, q)
  \/ d.stage = "rawCrc" /\ InRawCrc(f, d, p, q)
  \/ d.stage = "cBlock" /\ InCBlock(f, d, p, q)
  \/ d.stage = "flushOut" /\ InFlushOut(f, d, p, q)
  \/ d.stage = "suffix" /\ InSuffix(f, d, p, q)
  \/ d.stage = "suffixCrc" /\ InSuffixCrc(f, d, p, q)

\* What is still to be handed out is part of q, and a frame's size counts down.
Counted(f, d, q) ==
  /\ d.pending \in 0 .. q
  /\ d.stage # "flushOut" => d.pending = 0
  /\ IF f.sized THEN d.stage # "frameHeader" => d.remaining = Content(f) - q
                ELSE d.remaining = 0

Holds(s, f, d, p, q) ==
  /\ p \in Nat /\ q \in Nat /\ q =< Content(f)
  /\ Inside(s, f, d, p, q) /\ Counted(f, d, q)

\* The block a context is in.
LEMMA BlockFacts ==
  ASSUME NEW f, IsFrame(f), NEW d, Begun(f, d)
  PROVE  LET b == f.blocks[d.block]
         IN  /\ d.block \in Nat \ {0} /\ d.block \in 0 .. Len(f.blocks) /\ d.block - 1 \in 0 .. Len(f.blocks)
             /\ b.wire \in Nat \ {0} /\ b.wire \in Nat /\ b.size \in Nat \ {0} /\ b.raw \in BOOLEAN /\ (b.raw => b.wire = b.size)
             /\ CrcLen(f.blockCrc) \in Nat /\ Before(f, d) \in Nat
             /\ HeaderLen(f) + BlocksLen(f, d.block) = Before(f, d) + (4 + b.wire + CrcLen(f.blockCrc))
             /\ ContentLen(f, d.block - 1) \in Nat /\ ContentLen(f, d.block) \in Nat
             /\ ContentLen(f, d.block) = ContentLen(f, d.block - 1) + b.size
             /\ ContentLen(f, d.block) =< Content(f) /\ ContentLen(f, d.block - 1) =< Content(f)
             /\ Content(f) \in Nat
<1> DEFINE b == f.blocks[d.block]
<1>1. Len(f.blocks) \in Nat /\ d.block \in 1 .. Len(f.blocks)
  BY FrameSums DEF Begun
<1>2. d.block \in Nat \ {0} /\ d.block \in 0 .. Len(f.blocks) /\ d.block - 1 \in 0 .. Len(f.blocks)
  BY <1>1, SMT
<1>3. /\ b.wire \in Nat \ {0} /\ b.size \in Nat \ {0} /\ b.raw \in BOOLEAN /\ (b.raw => b.wire = b.size)
      /\ BlocksLen(f, d.block) = BlocksLen(f, d.block - 1) + (4 + b.wire + CrcLen(f.blockCrc))
      /\ ContentLen(f, d.block) = ContentLen(f, d.block - 1) + b.size
  BY <1>1, FrameSums
<1>4. /\ BlocksLen(f, d.block - 1) \in Nat /\ ContentLen(f, d.block - 1) \in Nat /\ ContentLen(f, d.block) \in Nat
      /\ ContentLen(f, d.block) =< Content(f) /\ ContentLen(f, d.block - 1) =< Content(f)
      /\ Content(f) \in Nat
  BY <1>2, FrameSums
<1>5. HeaderLen(f) \in Nat /\ CrcLen(f.blockCrc) \in Nat
  <2>1. HeaderLen(f) \in {7, 15} /\ CrcLen(f.blockCrc) \in {0, 4}
    BY FrameSums
  <2> QED BY <2>1, SMT
<1>6. b.wire \in Nat
  BY <1>3
<1>7. Before(f, d) \in Nat /\ HeaderLen(f) + BlocksLen(f, d.block) = Before(f, d) + (4 + b.wire + CrcLen(f.blockCrc))
  <2> HIDE DEF b
  <2>1. ASSUME NEW x, NEW y, NEW z, NEW h, NEW c, x = y + (4 + z + c), y \in Nat, z \in Nat, h \in Nat, c \in Nat
        PROVE  h + y \in Nat /\ h + x = (h + y) + (4 + z + c)
    BY <2>1, SMT
  <2> QED BY <1>3, <1>4, <1>5, <1>6, <2>1 DEF Before
<1> QED BY <1>2, <1>3, <1>4, <1>5, <1>6, <1>7

\* More of the header, but not all of it.
LEMMA MovesInHeader ==
  ASSUME NEW s \in Nat, NEW f, IsFrame(f), NEW d, NEW p, NEW q, Holds(s, f, d, p, q), d.stage = "frameHeader",
         NEW r \in Nat, r < HeaderLen(f), NEW e, e.stage = d.stage, e.header = Wire(s, r),
         e.pending = d.pending, e.remaining = d.remaining
  PROVE  Holds(s, f, e, r, q)
BY DEF Holds, Inside, Counted, InHeader

\* The whole header.
LEMMA MovesPastHeader ==
  ASSUME NEW s \in Nat, NEW f, IsFrame(f), NEW d, NEW p, NEW q, Holds(s, f, d, p, q), d.stage = "frameHeader",
         NEW e, e.stage = "blockHeader", e.block = 0, e.have = 0, e.pending = 0,
         e.remaining = IF f.sized THEN Content(f) ELSE d.remaining
  PROVE  Holds(s, f, e, HeaderLen(f), 0)
<1>1. /\ HeaderLen(f) \in {7, 15} /\ BlocksLen(f, 0) = 0 /\ ContentLen(f, 0) = 0 /\ Content(f) \in Nat
      /\ Len(f.blocks) \in Nat /\ f.sized \in BOOLEAN
  BY FrameSums
<1>2. InBlockHeader(f, e, HeaderLen(f), 0)
  BY <1>1, SMT DEF InBlockHeader
<1>3. d.pending = 0 /\ (~ f.sized => d.remaining = 0)
  BY DEF Holds, Counted
<1>4. 0 \in 0 .. 0 /\ 0 =< Content(f) /\ Content(f) - 0 = Content(f) /\ HeaderLen(f) \in Nat
  BY <1>1, SMT
<1>5. Counted(f, e, 0)
  BY <1>3, <1>4 DEF Counted
<1>6. Inside(s, f, e, HeaderLen(f), 0)
  BY <1>2 DEF Inside
<1> QED BY <1>4, <1>5, <1>6, SMT DEF Holds

\* How much of a field there is to come.
WantOf(f, d) == IF d.stage = "cBlock" THEN WithCrc(f, d) ELSE 4

LEMMA MovesInField ==
  ASSUME NEW s \in Nat, NEW f, IsFrame(f), NEW d, NEW p, NEW q, Holds(s, f, d, p, q),
         d.stage \in {"blockHeader", "rawCrc", "cBlock", "suffixCrc"},
         NEW k \in Nat, d.have + k < WantOf(f, d),
         NEW e, e.stage = d.stage, e.block = d.block, e.have = d.have + k,
         e.pending = d.pending, e.remaining = d.remaining
  PROVE  Holds(s, f, e, p + k, q)
<1>0. p \in Nat /\ q \in Nat /\ q =< Content(f) /\ Counted(f, d, q) /\ Inside(s, f, d, p, q)
  BY DEF Holds
<1>1. /\ \A i \in 0 .. Len(f.blocks) : BlocksLen(f, i) \in Nat
      /\ BlocksLen(f, Len(f.blocks)) \in Nat
  <2>1. Len(f.blocks) \in Nat /\ \A i \in 0 .. Len(f.blocks) : BlocksLen(f, i) \in Nat
    BY FrameSums
  <2>2. Len(f.blocks) \in 0 .. Len(f.blocks)
    BY <2>1, SMT
  <2> QED BY <2>1, <2>2
<1>2. HeaderLen(f) \in Nat /\ CrcLen(f.blockCrc) \in Nat
  <2>1. HeaderLen(f) \in {7, 15} /\ CrcLen(f.blockCrc) \in {0, 4}
    BY FrameSums
  <2> QED BY <2>1, SMT
<1>3. Begun(f, d) => f.blocks[d.block].wire \in Nat /\ Before(f, d) \in Nat
  BY BlockFacts
<1>4. ASSUME d.stage = "blockHeader" PROVE Inside(s, f, e, p + k, q)
  <2>1. InBlockHeader(f, d, p, q) /\ d.have + k < 4
    BY <1>0, <1>4 DEF Inside, WantOf
  <2>2. d.have \in 0 .. 3 /\ p = HeaderLen(f) + BlocksLen(f, d.block) + d.have /\ BlocksLen(f, d.block) \in Nat
    BY <1>1, <2>1 DEF InBlockHeader
  <2>3. e.have \in 0 .. 3 /\ p + k = HeaderLen(f) + BlocksLen(f, d.block) + e.have
    BY <1>2, <2>1, <2>2, SMT
  <2>4. InBlockHeader(f, e, p + k, q)
    BY <2>1, <2>3 DEF InBlockHeader
  <2> QED BY <1>4, <2>4 DEF Inside
<1>5. ASSUME d.stage = "rawCrc" PROVE Inside(s, f, e, p + k, q)
  <2>1. InRawCrc(f, d, p, q) /\ d.have + k < 4
    BY <1>0, <1>5 DEF Inside, WantOf
  <2>2. /\ d.have \in 0 .. 3 /\ p = Before(f, d) + 4 + f.blocks[d.block].wire + d.have
        /\ Before(f, d) \in Nat /\ f.blocks[d.block].wire \in Nat
    BY <1>3, <2>1 DEF InRawCrc, Begun
  <2>3. e.have \in 0 .. 3 /\ p + k = Before(f, d) + 4 + f.blocks[d.block].wire + e.have
    BY <2>1, <2>2, SMT
  <2>4. InRawCrc(f, e, p + k, q)
    BY <2>1, <2>3 DEF InRawCrc, Begun, Before
  <2> QED BY <1>5, <2>4 DEF Inside
<1>6. ASSUME d.stage = "cBlock" PROVE Inside(s, f, e, p + k, q)
  <2>1. InCBlock(f, d, p, q) /\ d.have + k < WithCrc(f, d)
    BY <1>0, <1>6 DEF Inside, WantOf
  <2>2. /\ d.have \in 0 .. WithCrc(f, d) - 1 /\ p = Before(f, d) + 4 + d.have
        /\ Before(f, d) \in Nat /\ f.blocks[d.block].wire \in Nat
    BY <1>3, <2>1 DEF InCBlock, Begun
  <2>3. WithCrc(f, d) \in Nat
    BY <1>2, <2>2, SMT DEF WithCrc
  <2>4. e.have \in 0 .. WithCrc(f, d) - 1 /\ p + k = Before(f, d) + 4 + e.have
    BY <2>1, <2>2, <2>3, SMT
  <2>5. WithCrc(f, e) = WithCrc(f, d) /\ Before(f, e) = Before(f, d) /\ Begun(f, e)
    BY <2>1 DEF InCBlock, Begun, Before, WithCrc
  <2>6. InCBlock(f, e, p + k, q)
    BY <2>1, <2>4, <2>5 DEF InCBlock
  <2> QED BY <1>6, <2>6 DEF Inside
<1>7. ASSUME d.stage = "suffixCrc" PROVE Inside(s, f, e, p + k, q)
  <2> DEFINE b == BlocksLen(f, Len(f.blocks))
  <2>1. InSuffixCrc(f, d, p, q) /\ d.have + k < 4
    BY <1>0, <1>7 DEF Inside, WantOf
  <2>2. d.have \in 0 .. 3 /\ p = HeaderLen(f) + b + 4 + d.have /\ b \in Nat
    BY <1>1, <2>1 DEF InSuffixCrc
  <2>3. e.have \in 0 .. 3 /\ p + k = HeaderLen(f) + b + 4 + e.have
    <3> HIDE DEF b
    <3> QED BY <1>2, <2>1, <2>2, SMT
  <2>4. InSuffixCrc(f, e, p + k, q)
    BY <2>1, <2>3 DEF InSuffixCrc
  <2> QED BY <1>7, <2>4 DEF Inside
<1>8. Inside(s, f, e, p + k, q)
  BY <1>4, <1>5, <1>6, <1>7
<1>9. Counted(f, e, q)
  BY <1>0 DEF Counted
<1>10. p + k \in Nat
  BY <1>0, SMT
<1> QED BY <1>0, <1>8, <1>9, <1>10 DEF Holds

\* What a context with the same counts still holds, and one that counts more.
LEMMA CountedSame ==
  ASSUME NEW f, NEW d, NEW q, Counted(f, d, q), d.stage \notin {"frameHeader", "flushOut"},
         NEW e, e.stage \notin {"frameHeader", "flushOut"}, e.pending = d.pending, e.remaining = d.remaining
  PROVE  Counted(f, e, q)
BY DEF Counted

LEMMA CountedMore ==
  ASSUME NEW f, Content(f) \in Nat, NEW d, NEW q \in Nat, NEW n \in Nat, Counted(f, d, q), d.stage # "frameHeader",
         NEW e, e.pending \in 0 .. q + n, e.stage # "flushOut" => e.pending = 0,
         e.remaining = IF f.sized THEN d.remaining - n ELSE d.remaining
  PROVE  Counted(f, e, q + n)
<1>1. f.sized => d.remaining = Content(f) - q
  BY DEF Counted
<1>2. ~ f.sized => d.remaining = 0
  BY DEF Counted
<1>3. (Content(f) - q) - n = Content(f) - (q + n)
  BY SMT
<1>4. f.sized => e.remaining = Content(f) - (q + n)
  BY <1>1, <1>3
<1>5. ~ f.sized => e.remaining = 0
  BY <1>2
<1> QED BY <1>4, <1>5 DEF Counted

\* The rest of a field.
LEMMA FieldRest ==
  ASSUME NEW p, NEW x \in Nat, NEW h \in 0 .. 3, p = x + h
  PROVE  p + (4 - h) \in Nat /\ p + (4 - h) = x + 4
BY SMT

\* The end mark.
LEMMA MovesPastEndMark ==
  ASSUME NEW s \in Nat, NEW f, IsFrame(f), NEW d, NEW p, NEW q, Holds(s, f, d, p, q), d.stage = "blockHeader",
         d.block = Len(f.blocks),
         NEW e, e.stage = "suffix", e.block = d.block, e.have = 0, e.pending = d.pending, e.remaining = d.remaining
  PROVE  d.have \in 0 .. 3 /\ Holds(s, f, e, p + (4 - d.have), q)
<1>1. p \in Nat /\ q \in Nat /\ q =< Content(f) /\ Counted(f, d, q) /\ InBlockHeader(f, d, p, q)
  BY DEF Holds, Inside
<1>2. HeaderLen(f) \in Nat /\ BlocksLen(f, Len(f.blocks)) \in Nat
  <2>1. Len(f.blocks) \in 0 .. Len(f.blocks)
    <3>1. Len(f.blocks) \in Nat
      BY FrameSums
    <3> QED BY <3>1, SMT
  <2>2. HeaderLen(f) \in {7, 15}
    BY FrameSums
  <2> QED BY <2>1, <2>2, FrameSums, SMT
<1>3. d.have \in 0 .. 3 /\ p = HeaderLen(f) + BlocksLen(f, Len(f.blocks)) + d.have /\ q = Content(f)
  BY <1>1 DEF InBlockHeader, Content
<1>4. p + (4 - d.have) \in Nat /\ p + (4 - d.have) = HeaderLen(f) + BlocksLen(f, Len(f.blocks)) + 4
  BY <1>1, <1>2, <1>3, SMT
<1>5. InSuffix(f, e, p + (4 - d.have), q)
  BY <1>3, <1>4 DEF InSuffix
<1>6. Counted(f, e, q)
  <2>1. d.stage \notin {"frameHeader", "flushOut"} /\ e.stage \notin {"frameHeader", "flushOut"}
    OBVIOUS
  <2> QED BY <1>1, <2>1, CountedSame
<1> QED BY <1>1, <1>3, <1>4, <1>5, <1>6 DEF Holds, Inside

\* The header of a block: stored raw, or compressed.
LEMMA MovesPastBlockHeader ==
  ASSUME NEW s \in Nat, NEW f, IsFrame(f), NEW d, NEW p, NEW q, Holds(s, f, d, p, q), d.stage = "blockHeader",
         d.block < Len(f.blocks),
         NEW e, e.block = d.block + 1, e.have = 0, e.pending = d.pending, e.remaining = d.remaining,
         \/ f.blocks[d.block + 1].raw /\ e.stage = "copyDirect" /\ e.left = f.blocks[d.block + 1].wire
         \/ ~ f.blocks[d.block + 1].raw /\ e.stage = "cBlock"
  PROVE  d.have \in 0 .. 3 /\ Holds(s, f, e, p + (4 - d.have), q)
<1> DEFINE b == f.blocks[e.block]
<1>1. p \in Nat /\ q \in Nat /\ q =< Content(f) /\ Counted(f, d, q) /\ InBlockHeader(f, d, p, q)
  BY DEF Holds, Inside
<1>2. d.block \in 0 .. Len(f.blocks) /\ d.have \in 0 .. 3 /\ Len(f.blocks) \in Nat
  BY <1>1, FrameSums DEF InBlockHeader
<1>3. e.block \in 1 .. Len(f.blocks) /\ e.block - 1 = d.block
  BY <1>2, SMT
<1>4. Begun(f, e)
  BY <1>3 DEF Begun
<1>5. /\ b.wire \in Nat \ {0} /\ b.size \in Nat \ {0} /\ (b.raw => b.wire = b.size)
      /\ CrcLen(f.blockCrc) \in Nat /\ Before(f, e) \in Nat
      /\ ContentLen(f, e.block - 1) \in Nat
      /\ ContentLen(f, e.block) = ContentLen(f, e.block - 1) + b.size
  BY <1>4, BlockFacts
<1>6. p = Before(f, e) + d.have /\ q = ContentLen(f, e.block - 1)
  BY <1>1, <1>3 DEF InBlockHeader, Before
<1>7. p + (4 - d.have) \in Nat /\ p + (4 - d.have) = Before(f, e) + 4
  <2>1. Before(f, e) \in Nat
    BY <1>5
  <2>2. d.have \in 0 .. 3
    BY <1>2
  <2>3. p = Before(f, e) + d.have
    BY <1>6
  <2> QED BY <2>1, <2>2, <2>3, FieldRest
<1>8. Inside(s, f, e, p + (4 - d.have), q)
  <2>1. ASSUME b.raw, e.stage = "copyDirect", e.left = b.wire PROVE InCopyDirect(f, e, p + (4 - d.have), q)
    <3>1. e.left \in 1 .. b.wire /\ Before(f, e) + 4 = Before(f, e) + 4 + b.wire - e.left
          /\ ContentLen(f, e.block - 1) = ContentLen(f, e.block) - e.left
      <4> HIDE DEF b
      <4> QED BY <1>5, <2>1, SMT
    <3> QED BY <1>4, <1>6, <1>7, <2>1, <3>1 DEF InCopyDirect
  <2>2. ASSUME e.stage = "cBlock" PROVE InCBlock(f, e, p + (4 - d.have), q)
    <3>1. WithCrc(f, e) \in Nat \ {0}
      BY <1>5, SMTT(60) DEF WithCrc
    <3>2. e.have \in 0 .. WithCrc(f, e) - 1 /\ Before(f, e) + 4 = Before(f, e) + 4 + e.have
      BY <1>5, <3>1, SMT
    <3> QED BY <1>4, <1>6, <1>7, <3>2 DEF InCBlock
  <2>3. e.block = d.block + 1
    OBVIOUS
  <2> QED BY <2>1, <2>2, <2>3 DEF Inside
<1>9. Counted(f, e, q)
  <2>1. d.stage \notin {"frameHeader", "flushOut"} /\ e.stage \notin {"frameHeader", "flushOut"}
    OBVIOUS
  <2> QED BY <1>1, <2>1, CountedSame
<1> QED BY <1>1, <1>2, <1>7, <1>8, <1>9 DEF Holds


\* Bytes of a raw block: some of those left, or all of them.
LEMMA MovesInCopyDirect ==
  ASSUME NEW s \in Nat, NEW f, IsFrame(f), NEW d, NEW p, NEW q, Holds(s, f, d, p, q), d.stage = "copyDirect",
         NEW n \in Nat, n =< d.left,
         NEW e, e.block = d.block, e.have = 0, e.pending = d.pending, e.left = d.left - n,
         e.remaining = IF f.sized THEN d.remaining - n ELSE d.remaining,
         \/ n < d.left /\ e.stage = "copyDirect"
         \/ n = d.left /\ f.blockCrc /\ e.stage = "rawCrc"
         \/ n = d.left /\ ~ f.blockCrc /\ e.stage = "blockHeader"
  PROVE  Holds(s, f, e, p + n, q + n)
<1> DEFINE b == f.blocks[d.block]
<1>1. p \in Nat /\ q \in Nat /\ Counted(f, d, q) /\ InCopyDirect(f, d, p, q)
  BY DEF Holds, Inside
<1>2. Begun(f, d) /\ Begun(f, e)
  BY <1>1 DEF InCopyDirect, Begun
<1>3. /\ b.wire \in Nat \ {0} /\ CrcLen(f.blockCrc) \in Nat /\ Before(f, d) \in Nat
      /\ d.block \in 0 .. Len(f.blocks)
      /\ HeaderLen(f) + BlocksLen(f, d.block) = Before(f, d) + (4 + b.wire + CrcLen(f.blockCrc))
      /\ ContentLen(f, d.block) \in Nat /\ ContentLen(f, d.block) =< Content(f) /\ Content(f) \in Nat
  BY <1>2, BlockFacts
<1>4. /\ d.left \in 1 .. b.wire /\ p = Before(f, d) + 4 + b.wire - d.left
      /\ q = ContentLen(f, d.block) - d.left
  BY <1>1 DEF InCopyDirect
<1>5. Before(f, e) = Before(f, d)
  BY DEF Before
<1>6. /\ p + n \in Nat /\ q + n \in Nat /\ q + n =< Content(f)
      /\ p + n = Before(f, d) + 4 + b.wire - (d.left - n) /\ q + n = ContentLen(f, d.block) - (d.left - n)
      /\ n < d.left => d.left - n \in 1 .. b.wire
      /\ n = d.left => p + n = Before(f, d) + 4 + b.wire /\ q + n = ContentLen(f, d.block)
  <2> HIDE DEF b
  <2>1. ASSUME NEW x, NEW y, NEW z, NEW c, NEW l, x \in Nat, y \in Nat \ {0}, z \in Nat, c \in Nat, z =< c, l \in 1 .. y,
               n =< l, p = x + 4 + y - l, q = z - l, p \in Nat, q \in Nat
        PROVE  /\ p + n \in Nat /\ q + n \in Nat /\ q + n =< c
               /\ p + n = x + 4 + y - (l - n) /\ q + n = z - (l - n)
               /\ n < l => l - n \in 1 .. y
               /\ n = l => p + n = x + 4 + y /\ q + n = z
    BY <2>1, SMT
  <2>2. /\ Before(f, d) \in Nat /\ b.wire \in Nat \ {0} /\ ContentLen(f, d.block) \in Nat /\ Content(f) \in Nat
        /\ ContentLen(f, d.block) =< Content(f) /\ d.left \in 1 .. b.wire /\ n =< d.left
        /\ p = Before(f, d) + 4 + b.wire - d.left /\ q = ContentLen(f, d.block) - d.left
        /\ p \in Nat /\ q \in Nat
    BY <1>1, <1>3, <1>4
  <2> QED BY <2>1, <2>2
<1>7. Inside(s, f, e, p + n, q + n)
  <2>1. ASSUME n < d.left, e.stage = "copyDirect" PROVE InCopyDirect(f, e, p + n, q + n)
    BY <1>1, <1>2, <1>5, <1>6, <2>1 DEF InCopyDirect
  <2>2. ASSUME n = d.left, f.blockCrc, e.stage = "rawCrc" PROVE InRawCrc(f, e, p + n, q + n)
    <3>1. 0 \in 0 .. 3 /\ Before(f, d) + 4 + b.wire = Before(f, d) + 4 + b.wire + 0
      BY <1>3, SMT
    <3> QED BY <1>2, <1>5, <1>6, <2>2, <3>1 DEF InRawCrc
  <2>3. ASSUME n = d.left, ~ f.blockCrc, e.stage = "blockHeader" PROVE InBlockHeader(f, e, p + n, q + n)
    <3>1. CrcLen(f.blockCrc) = 0
      BY <2>3 DEF CrcLen
    <3>2. 0 \in 0 .. 3 /\ Before(f, d) + 4 + b.wire = HeaderLen(f) + BlocksLen(f, d.block)
          /\ HeaderLen(f) + BlocksLen(f, d.block) = HeaderLen(f) + BlocksLen(f, d.block) + 0
      <4> HIDE DEF b
      <4>1. ASSUME NEW x, NEW y, NEW z, NEW h, x \in Nat, y \in Nat \ {0}, h = x + (4 + y + 0)
            PROVE  0 \in 0 .. 3 /\ x + 4 + y = h /\ h \in Nat
        BY <4>1, SMT
      <4>2. 0 \in 0 .. 3 /\ Before(f, d) + 4 + b.wire = HeaderLen(f) + BlocksLen(f, d.block)
        BY <1>3, <3>1, <4>1
      <4>3. HeaderLen(f) \in Nat /\ BlocksLen(f, d.block) \in Nat
        <5>1. HeaderLen(f) \in {7, 15}
          BY FrameSums
        <5>2. HeaderLen(f) \in Nat
          BY <5>1, SMT
        <5> QED BY <1>3, <5>2, FrameSums
      <4>4. HeaderLen(f) + BlocksLen(f, d.block) = HeaderLen(f) + BlocksLen(f, d.block) + 0
        BY <4>3, SMT
      <4> QED BY <4>2, <4>4
    <3> QED BY <1>3, <1>6, <2>3, <3>2 DEF InBlockHeader
  <2> QED BY <2>1, <2>2, <2>3 DEF Inside
<1>8. Counted(f, e, q + n)
  <2>1. d.stage # "frameHeader" /\ d.stage # "flushOut"
    OBVIOUS
  <2>2. d.pending = 0 /\ e.pending = 0
    BY <1>1, <2>1 DEF Counted
  <2>3. e.pending \in 0 .. q + n
    BY <1>6, <2>2, SMT
  <2> QED BY <1>1, <1>3, <2>1, <2>2, <2>3, CountedMore
<1> QED BY <1>6, <1>7, <1>8 DEF Holds


\* The checksum of a raw block.
LEMMA MovesPastRawCrc ==
  ASSUME NEW s \in Nat, NEW f, IsFrame(f), NEW d, NEW p, NEW q, Holds(s, f, d, p, q), d.stage = "rawCrc",
         NEW e, e.stage = "blockHeader", e.block = d.block, e.have = 0, e.pending = d.pending, e.remaining = d.remaining
  PROVE  d.have \in 0 .. 3 /\ Holds(s, f, e, p + (4 - d.have), q)
<1> DEFINE b == f.blocks[d.block]
<1>1. q \in Nat /\ q =< Content(f) /\ Counted(f, d, q) /\ InRawCrc(f, d, p, q)
  BY DEF Holds, Inside
<1>2. Begun(f, d) /\ f.blockCrc /\ d.have \in 0 .. 3 /\ p = Before(f, d) + 4 + b.wire + d.have /\ q = ContentLen(f, d.block)
  BY <1>1 DEF InRawCrc
<1>3. CrcLen(f.blockCrc) = 4
  BY <1>2 DEF CrcLen, FieldSize
<1>4. /\ b.wire \in Nat /\ Before(f, d) \in Nat /\ d.block \in 0 .. Len(f.blocks)
      /\ HeaderLen(f) + BlocksLen(f, d.block) = Before(f, d) + (4 + b.wire + CrcLen(f.blockCrc))
  BY <1>2, BlockFacts
<1>5. p + (4 - d.have) \in Nat /\ p + (4 - d.have) = HeaderLen(f) + BlocksLen(f, d.block) + 0
  <2> HIDE DEF b
  <2>1. ASSUME NEW x, NEW y, NEW h, NEW c, x \in Nat, y \in Nat, h \in 0 .. 3, p = x + 4 + y + h, c = x + (4 + y + 4)
        PROVE  p + (4 - h) \in Nat /\ p + (4 - h) = c + 0
    BY <2>1, SMT
  <2>2. HeaderLen(f) + BlocksLen(f, d.block) = Before(f, d) + (4 + b.wire + 4)
    BY <1>3, <1>4
  <2> QED BY <1>2, <1>4, <2>1, <2>2
<1>6. 0 \in 0 .. 3
  BY SMT
<1>7. InBlockHeader(f, e, p + (4 - d.have), q)
  BY <1>2, <1>4, <1>5, <1>6 DEF InBlockHeader
<1>8. Counted(f, e, q)
  <2>1. d.stage \notin {"frameHeader", "flushOut"} /\ e.stage \notin {"frameHeader", "flushOut"}
    OBVIOUS
  <2> QED BY <1>1, <2>1, CountedSame
<1> QED BY <1>1, <1>2, <1>5, <1>7, <1>8 DEF Holds, Inside

\* A compressed block, all of it read and decoded.
LEMMA MovesPastCBlock ==
  ASSUME NEW s \in Nat, NEW f, IsFrame(f), NEW d, NEW p, NEW q, Holds(s, f, d, p, q), d.stage = "cBlock",
         NEW e, e.stage = "flushOut", e.block = d.block, e.have = 0, e.pending = f.blocks[d.block].size,
         e.remaining = IF f.sized THEN d.remaining - f.blocks[d.block].size ELSE d.remaining
  PROVE  /\ d.have \in 0 .. WithCrc(f, d) - 1 /\ WithCrc(f, d) \in Nat
         /\ f.blocks[d.block].size \in Nat /\ d.pending = 0
         /\ Holds(s, f, e, p + (WithCrc(f, d) - d.have), q + f.blocks[d.block].size)
<1> DEFINE b == f.blocks[d.block]
<1>1. p \in Nat /\ q \in Nat /\ Counted(f, d, q) /\ InCBlock(f, d, p, q)
  BY DEF Holds, Inside
<1>2. /\ Begun(f, d) /\ d.have \in 0 .. WithCrc(f, d) - 1 /\ p = Before(f, d) + 4 + d.have
      /\ q = ContentLen(f, d.block - 1)
  BY <1>1 DEF InCBlock
<1>3. /\ b.wire \in Nat /\ b.size \in Nat \ {0} /\ Before(f, d) \in Nat /\ CrcLen(f.blockCrc) \in Nat
      /\ HeaderLen(f) + BlocksLen(f, d.block) = Before(f, d) + (4 + b.wire + CrcLen(f.blockCrc))
      /\ ContentLen(f, d.block) \in Nat /\ ContentLen(f, d.block) =< Content(f) /\ Content(f) \in Nat
      /\ ContentLen(f, d.block) = ContentLen(f, d.block - 1) + b.size
  BY <1>2, BlockFacts
<1>4. WithCrc(f, d) \in Nat /\ b.size \in Nat
  <2> HIDE DEF b
  <2>1. WithCrc(f, d) = b.wire + CrcLen(f.blockCrc)
    BY DEF WithCrc, b
  <2> QED BY <1>3, <2>1, SMT
<1>5. /\ p + (WithCrc(f, d) - d.have) \in Nat
      /\ p + (WithCrc(f, d) - d.have) = HeaderLen(f) + BlocksLen(f, d.block)
  <2> HIDE DEF b
  <2>1. ASSUME NEW x, NEW y, NEW h, NEW c, NEW w, NEW z, x \in Nat, y \in Nat, c \in Nat, w = y + c, h \in 0 .. w - 1,
               p = x + 4 + h, z = x + (4 + y + c)
        PROVE  p + (w - h) \in Nat /\ p + (w - h) = z
    BY <2>1, SMT
  <2>2. WithCrc(f, d) = b.wire + CrcLen(f.blockCrc)
    BY DEF WithCrc, b
  <2> QED BY <1>2, <1>3, <2>1, <2>2
<1>6. q + b.size = ContentLen(f, d.block) /\ q + b.size \in Nat /\ q + b.size =< Content(f) /\ b.size \in 0 .. q + b.size
  <2> HIDE DEF b
  <2>1. q + b.size = ContentLen(f, d.block)
    BY <1>2, <1>3
  <2> QED BY <1>1, <1>3, <1>4, <2>1, SMT
<1>7. InFlushOut(f, e, p + (WithCrc(f, d) - d.have), q + b.size)
  BY <1>2, <1>5, <1>6 DEF InFlushOut, Begun
<1>8. Counted(f, e, q + b.size) /\ d.pending = 0
  <2>1. d.stage # "frameHeader" /\ d.stage # "flushOut" /\ e.stage = "flushOut"
    OBVIOUS
  <2> QED BY <1>1, <1>3, <1>4, <1>6, <2>1, CountedMore DEF Counted
<1> QED BY <1>2, <1>4, <1>5, <1>6, <1>7, <1>8 DEF Holds, Inside

\* Decoded content, handed out: some of it, or all.
LEMMA MovesInFlushOut ==
  ASSUME NEW s \in Nat, NEW f, IsFrame(f), NEW d, NEW p, NEW q, Holds(s, f, d, p, q), d.stage = "flushOut",
         NEW n \in Nat, n =< d.pending,
         NEW e, e.block = d.block, e.have = 0, e.pending = d.pending - n, e.remaining = d.remaining,
         \/ n < d.pending /\ e.stage = "flushOut"
         \/ n = d.pending /\ e.stage = "blockHeader"
  PROVE  Holds(s, f, e, p, q)
<1>1. p \in Nat /\ q \in Nat /\ q =< Content(f) /\ Counted(f, d, q) /\ InFlushOut(f, d, p, q)
  BY DEF Holds, Inside
<1>2. Begun(f, d) /\ p = HeaderLen(f) + BlocksLen(f, d.block) /\ q = ContentLen(f, d.block)
  BY <1>1 DEF InFlushOut
<1>3. d.block \in 0 .. Len(f.blocks)
  BY <1>2, BlockFacts
<1>4. d.pending \in 0 .. q /\ (f.sized => d.remaining = Content(f) - q) /\ (~ f.sized => d.remaining = 0)
  BY <1>1 DEF Counted
<1>5. e.pending \in 0 .. q /\ (n = d.pending => e.pending = 0)
  BY <1>1, <1>4, SMT
<1>6. Counted(f, e, q)
  BY <1>4, <1>5 DEF Counted
<1>7. Inside(s, f, e, p, q)
  <2>1. CASE e.stage = "flushOut"
    BY <1>2, <2>1 DEF Inside, InFlushOut, Begun
  <2>2. CASE e.stage = "blockHeader"
    <3>1. 0 \in 0 .. 3 /\ p = p + 0
      BY <1>1, SMT
    <3> QED BY <1>2, <1>3, <2>2, <3>1 DEF Inside, InBlockHeader
  <2> QED BY <2>1, <2>2
<1> QED BY <1>1, <1>6, <1>7 DEF Holds

\* The end of a frame: nothing is pending, and nothing is left to count down.
LEMMA AtSuffix ==
  ASSUME NEW s \in Nat, NEW f, IsFrame(f), NEW d, NEW p, NEW q, Holds(s, f, d, p, q), d.stage \in {"suffix", "suffixCrc"}
  PROVE  d.pending = 0 /\ d.remaining = 0 /\ q = Content(f)
<1>1. q = Content(f) /\ Counted(f, d, q) /\ Content(f) \in Nat
  BY FrameSums DEF Holds, Inside, InSuffix, InSuffixCrc
<1>2. Content(f) - Content(f) = 0
  BY <1>1, SMT
<1> QED BY <1>1, <1>2 DEF Counted

LEMMA MovesToSuffixCrc ==
  ASSUME NEW s \in Nat, NEW f, IsFrame(f), NEW d, NEW p, NEW q, Holds(s, f, d, p, q), d.stage = "suffix", f.contentCrc,
         NEW e, e.stage = "suffixCrc", e.block = d.block, e.have = 0, e.pending = d.pending, e.remaining = d.remaining
  PROVE  Holds(s, f, e, p, q)
<1>1. p \in Nat /\ q \in Nat /\ q =< Content(f) /\ Counted(f, d, q) /\ InSuffix(f, d, p, q)
  BY DEF Holds, Inside
<1>2. 0 \in 0 .. 3 /\ p = p + 0
  BY <1>1, SMT
<1>3. InSuffixCrc(f, e, p, q)
  BY <1>1, <1>2 DEF InSuffix, InSuffixCrc
<1>4. Counted(f, e, q)
  <2>1. d.stage \notin {"frameHeader", "flushOut"} /\ e.stage \notin {"frameHeader", "flushOut"}
    OBVIOUS
  <2> QED BY <1>1, <2>1, CountedSame
<1> QED BY <1>1, <1>3, <1>4 DEF Holds, Inside

LEMMA MovesPastEnd ==
  ASSUME NEW s \in Nat, NEW f, IsFrame(f), NEW d, NEW p, NEW q, Holds(s, f, d, p, q)
  PROVE  /\ d.stage = "suffix" /\ ~ f.contentCrc => p = FrameLen(f)
         /\ d.stage = "suffixCrc" => d.have \in 0 .. 3 /\ p + (4 - d.have) = FrameLen(f)
<1> DEFINE x == HeaderLen(f) + BlocksLen(f, Len(f.blocks)) + 4
<1>1. x \in Nat /\ x + 0 = x /\ FrameLen(f) = x + CrcLen(f.contentCrc)
  <2>1. Len(f.blocks) \in 0 .. Len(f.blocks)
    <3>1. Len(f.blocks) \in Nat
      BY FrameSums
    <3> QED BY <3>1, SMT
  <2>2. HeaderLen(f) \in {7, 15} /\ BlocksLen(f, Len(f.blocks)) \in Nat
    BY <2>1, FrameSums
  <2>3. x \in Nat /\ x + 0 = x
    BY <2>2, SMT
  <2> QED BY <2>3 DEF FrameLen, FieldSize
<1>2. ASSUME d.stage = "suffix", ~ f.contentCrc PROVE p = FrameLen(f)
  BY <1>1, <1>2 DEF Holds, Inside, InSuffix, CrcLen
<1>3. ASSUME d.stage = "suffixCrc" PROVE d.have \in 0 .. 3 /\ p + (4 - d.have) = FrameLen(f)
  <2>1. d.have \in 0 .. 3 /\ p = x + d.have /\ f.contentCrc
    BY <1>3 DEF Holds, Inside, InSuffixCrc
  <2>2. p + (4 - d.have) = x + 4
    <3> HIDE DEF x
    <3> QED BY <1>1, <2>1, FieldRest
  <2> QED BY <1>1, <2>1, <2>2 DEF CrcLen, FieldSize
<1> QED BY <1>2, <1>3


\* The position InOrder reads off the context is the one it holds.
LEMMA PositionIs ==
  ASSUME scenario \in DOMAIN Scenarios, cur \in DOMAIN Frames, NEW p, NEW q,
         Holds(FrameStart(cur), Frames[cur], dctx, p, q), dctx.stage # "frameHeader" => dctx.frame = cur
  PROVE  ReadTo = FrameStart(cur) + p /\ DecodedTo = q
<1> DEFINE f == Frames[cur]
           s == FrameStart(cur)
           b == f.blocks[dctx.block]
           at(k) == BlocksLen(f, k)
<1>1. s \in Nat /\ IsFrame(f) /\ p \in Nat /\ Inside(s, f, dctx, p, q)
  BY StartFacts DEF Holds
<1>2. HeaderLen(f) \in Nat
  <2>1. HeaderLen(f) \in {7, 15}
    BY <1>1, FrameSums
  <2> QED BY <2>1, SMT
<1>3. Begun(f, dctx) => /\ b.wire \in Nat /\ Before(f, dctx) \in Nat /\ Before(f, dctx) = HeaderLen(f) + at(dctx.block - 1)
                        /\ CrcLen(f.blockCrc) \in Nat /\ at(dctx.block - 1) \in Nat
  <2>1. Begun(f, dctx) => b.wire \in Nat /\ Before(f, dctx) \in Nat /\ CrcLen(f.blockCrc) \in Nat
                          /\ dctx.block - 1 \in 0 .. Len(f.blocks)
    BY <1>1, BlockFacts
  <2> QED BY <1>1, <2>1, FrameSums DEF Before
<1>4. /\ \A i \in 0 .. Len(f.blocks) : at(i) \in Nat
      /\ Begun(f, dctx) => at(dctx.block) \in Nat
      /\ at(Len(f.blocks)) \in Nat
  <2>1. Len(f.blocks) \in Nat /\ \A i \in 0 .. Len(f.blocks) : at(i) \in Nat
    BY <1>1, FrameSums
  <2>2. Len(f.blocks) \in 0 .. Len(f.blocks) /\ \A i \in 1 .. Len(f.blocks) : i \in 0 .. Len(f.blocks)
    BY <2>1, SMT
  <2> QED BY <2>1, <2>2 DEF Begun
<1>5. dctx.stage # "frameHeader" => TheFrame = f
  BY DEF TheFrame
<1> HIDE DEF s
<1>6. ASSUME dctx.stage = "frameHeader" PROVE ReadTo = s + p /\ DecodedTo = q
  <2>1. dctx.header = Wire(s, p) /\ q = 0
    BY <1>1, <1>6 DEF Inside, InHeader
  <2>2. Len(dctx.header) = p
    <3>1. s \in Int
      BY <1>1, SMT
    <3> QED BY <1>1, <2>1, <3>1, WireIs
  <2> QED BY <1>6, <2>1, <2>2 DEF ReadTo, DecodedTo, s
\* Where a stage's fields are added up.
<1>7. ASSUME dctx.stage # "frameHeader",
             NEW h, NEW x, NEW y, NEW z, h \in Nat, x \in Nat, y \in Nat, z \in Nat,
             HeaderLen(f) = h, at(BlocksRead) = x, InBlock = y, dctx.have = z, p = h + x + y + z
      PROVE  ReadTo = s + p
  <2>1. s + h + x + y + z = s + p
    BY <1>1, <1>7, SMT
  <2> QED BY <1>5, <1>7, <2>1 DEF ReadTo, s
<1>8. ASSUME dctx.stage = "blockHeader" PROVE ReadTo = s + p /\ DecodedTo = q
  <2>1. dctx.block \in 0 .. Len(f.blocks) /\ dctx.have \in 0 .. 3 /\ p = HeaderLen(f) + at(dctx.block) + dctx.have
        /\ q = ContentLen(f, dctx.block)
    BY <1>1, <1>8 DEF Inside, InBlockHeader
  <2>2. at(dctx.block) \in Nat /\ BlocksRead = dctx.block /\ InBlock = 0 /\ DecodedTo = q
    BY <1>4, <1>5, <1>8, <2>1 DEF BlocksRead, InBlock, DecodedTo
  <2>3. 0 \in Nat /\ dctx.have \in Nat /\ p = HeaderLen(f) + at(dctx.block) + 0 + dctx.have
    <3> HIDE DEF f, at
    <3> QED BY <1>2, <2>1, <2>2, SMT
  <2> QED BY <1>2, <1>7, <1>8, <2>2, <2>3
<1>9. ASSUME dctx.stage = "copyDirect" PROVE ReadTo = s + p /\ DecodedTo = q
  <2>1. /\ Begun(f, dctx) /\ dctx.left \in 1 .. b.wire /\ dctx.have = 0 /\ q = ContentLen(f, dctx.block) - dctx.left
        /\ p = Before(f, dctx) + 4 + b.wire - dctx.left
    BY <1>1, <1>9 DEF Inside, InCopyDirect
  <2>2. BlocksRead = dctx.block - 1 /\ InBlock = 4 + b.wire - dctx.left /\ DecodedTo = q
    BY <1>5, <1>9, <2>1 DEF BlocksRead, InBlock, DecodedTo, TheBlock, FieldSize
  <2>3. 4 + b.wire - dctx.left \in Nat /\ 0 \in Nat
        /\ p = HeaderLen(f) + at(dctx.block - 1) + (4 + b.wire - dctx.left) + 0
    <3>1. ASSUME NEW h, NEW x, NEW w, NEW l, h \in Nat, x \in Nat, w \in Nat, l \in 1 .. w
          PROVE  4 + w - l \in Nat /\ 0 \in Nat /\ (h + x) + 4 + w - l = h + x + (4 + w - l) + 0
      BY <3>1, SMT
    <3>2. b.wire \in Nat /\ Before(f, dctx) = HeaderLen(f) + at(dctx.block - 1) /\ at(dctx.block - 1) \in Nat
      BY <1>3, <2>1
    <3> QED BY <1>2, <2>1, <3>1, <3>2
  <2> QED BY <1>2, <1>3, <1>7, <1>9, <2>1, <2>2, <2>3
<1>10. ASSUME dctx.stage = "rawCrc" PROVE ReadTo = s + p /\ DecodedTo = q
  <2>1. /\ Begun(f, dctx) /\ dctx.have \in 0 .. 3 /\ q = ContentLen(f, dctx.block)
        /\ p = Before(f, dctx) + 4 + b.wire + dctx.have
    BY <1>1, <1>10 DEF Inside, InRawCrc
  <2>2. BlocksRead = dctx.block - 1 /\ InBlock = 4 + b.wire /\ DecodedTo = q
    BY <1>5, <1>10, <2>1 DEF BlocksRead, InBlock, DecodedTo, TheBlock, FieldSize
  <2>3. 4 + b.wire \in Nat /\ dctx.have \in Nat
        /\ p = HeaderLen(f) + at(dctx.block - 1) + (4 + b.wire) + dctx.have
    <3>1. ASSUME NEW h, NEW x, NEW w, NEW l, h \in Nat, x \in Nat, w \in Nat, l \in 0 .. 3
          PROVE  4 + w \in Nat /\ l \in Nat /\ (h + x) + 4 + w + l = h + x + (4 + w) + l
      BY <3>1, SMT
    <3>2. b.wire \in Nat /\ Before(f, dctx) = HeaderLen(f) + at(dctx.block - 1) /\ at(dctx.block - 1) \in Nat
      BY <1>3, <2>1
    <3> QED BY <1>2, <2>1, <3>1, <3>2
  <2> QED BY <1>2, <1>3, <1>7, <1>10, <2>1, <2>2, <2>3
<1>11. ASSUME dctx.stage = "cBlock" PROVE ReadTo = s + p /\ DecodedTo = q
  <2>1. /\ Begun(f, dctx) /\ dctx.have \in 0 .. WithCrc(f, dctx) - 1 /\ q = ContentLen(f, dctx.block - 1)
        /\ p = Before(f, dctx) + 4 + dctx.have
    BY <1>1, <1>11 DEF Inside, InCBlock
  <2>2. BlocksRead = dctx.block - 1 /\ InBlock = 4 /\ DecodedTo = q
    BY <1>5, <1>11, <2>1 DEF BlocksRead, InBlock, DecodedTo, FieldSize
  <2>3. WithCrc(f, dctx) \in Nat
    <3>1. b.wire \in Nat /\ CrcLen(f.blockCrc) \in Nat
      BY <1>3, <2>1
    <3> QED BY <3>1, SMT DEF WithCrc
  <2>4. 4 \in Nat /\ dctx.have \in Nat
        /\ p = HeaderLen(f) + at(dctx.block - 1) + 4 + dctx.have
    <3>1. ASSUME NEW h, NEW x, NEW w, NEW l, h \in Nat, x \in Nat, w \in Nat, l \in 0 .. w - 1
          PROVE  4 \in Nat /\ l \in Nat /\ (h + x) + 4 + l = h + x + 4 + l
      BY <3>1, SMT
    <3>2. Before(f, dctx) = HeaderLen(f) + at(dctx.block - 1) /\ at(dctx.block - 1) \in Nat
      BY <1>3, <2>1
    <3> QED BY <1>2, <2>1, <2>3, <3>1, <3>2
  <2> QED BY <1>2, <1>3, <1>7, <1>11, <2>1, <2>2, <2>4
<1>12. ASSUME dctx.stage = "flushOut" PROVE ReadTo = s + p /\ DecodedTo = q
  <2>1. /\ Begun(f, dctx) /\ dctx.have = 0 /\ q = ContentLen(f, dctx.block)
        /\ p = HeaderLen(f) + at(dctx.block)
    BY <1>1, <1>12 DEF Inside, InFlushOut
  <2>2. BlocksRead = dctx.block /\ InBlock = 0 /\ DecodedTo = q
    BY <1>5, <1>12, <2>1 DEF BlocksRead, InBlock, DecodedTo
  <2>3. 0 \in Nat /\ p = HeaderLen(f) + at(dctx.block) + 0 + 0
    <3> HIDE DEF f, at
    <3> QED BY <1>2, <1>4, <2>1, SMT
  <2> QED BY <1>2, <1>4, <1>7, <1>12, <2>1, <2>2, <2>3
<1>13. ASSUME dctx.stage \in {"suffix", "suffixCrc"} PROVE ReadTo = s + p /\ DecodedTo = q
  <2>1. /\ dctx.block = Len(f.blocks) /\ dctx.have \in 0 .. 3 /\ q = Content(f)
        /\ p = HeaderLen(f) + at(Len(f.blocks)) + 4 + dctx.have
    <3>1. CASE dctx.stage = "suffix"
      <4>1. /\ dctx.block = Len(f.blocks) /\ dctx.have = 0 /\ q = Content(f)
            /\ p = HeaderLen(f) + at(Len(f.blocks)) + 4
        BY <1>1, <3>1 DEF Inside, InSuffix
      <4>2. 0 \in 0 .. 3 /\ p = p + 0
        BY <1>1, SMT
      <4> QED BY <4>1, <4>2
    <3>2. CASE dctx.stage = "suffixCrc"
      BY <1>1, <3>2 DEF Inside, InSuffixCrc
    <3> QED BY <1>13, <3>1, <3>2
  <2>2. BlocksRead = dctx.block /\ InBlock = 4 /\ DecodedTo = q
    BY <1>5, <1>13, <2>1 DEF BlocksRead, InBlock, DecodedTo, FieldSize, Content
  <2>3. 4 \in Nat /\ dctx.have \in Nat
    BY <2>1, SMT
  <2> QED BY <1>2, <1>4, <1>7, <1>13, <2>1, <2>2, <2>3
<1>14. \/ dctx.stage \in {"frameHeader", "blockHeader", "copyDirect", "rawCrc"}
       \/ dctx.stage \in {"cBlock", "flushOut", "suffix", "suffixCrc"}
  BY <1>1 DEF Inside
<1>15. ReadTo = s + p /\ DecodedTo = q
  BY <1>6, <1>8, <1>9, <1>10, <1>11, <1>12, <1>13, <1>14
<1> QED BY <1>15 DEF s

-----------------------------------------------------------------------------
(* The inductive invariant                                                   *)

CallFields == {"rest", "room", "written", "factor", "limit", "result"}
SelfFields == {"unconsumed", "unused", "eof", "needs_input"}

\* The context d reads frame c of scenario k: it has read up to the first of
\* the bytes held, out of those given up to "to", and "out" bytes came out.
Reads(k, c, d, held, to, out) ==
  \E p, q :
    /\ Holds(Starts[k][c], Scenarios[k].frames[c], d, p, q)
    /\ d.stage # "frameHeader" => d.frame = c
    /\ Starts[k][c] + p =< to
    /\ held = Wire(Starts[k][c] + p, to - (Starts[k][c] + p))
    /\ out + d.pending = q

\* The context is as new at the end of frame c.
Ended(k, c, d, held, to, out) ==
  /\ d.stage = "frameHeader" /\ d.header = << >> /\ d.pending = 0 /\ d.remaining = 0
  /\ Starts[k][c + 1] =< to
  /\ held = Wire(Starts[k][c + 1], to - Starts[k][c + 1])
  /\ out = Content(Scenarios[k].frames[c])

Held == IF pc = "idle" THEN self.unconsumed ELSE call.rest
Surplus == IF pc = "idle" THEN self.unused ELSE call.rest
AtEnd == ~ spoiled /\ (call.result = "end" \/ (self.eof /\ pc = "idle"))

DecShape ==
  /\ scenario \in DOMAIN Scenarios /\ cur \in DOMAIN Frames /\ fed \in Nat /\ got \in Nat
  /\ DOMAIN dctx = Fields /\ DOMAIN call = CallFields /\ DOMAIN self = SelfFields
  /\ pc \in {"idle", "stage", "loop"} /\ spoiled \in BOOLEAN /\ self.eof \in BOOLEAN
  /\ call.result \in {"more", "end", "allocation"}

\* The room of a call, and its limit.
DecRoom ==
  /\ call.room \in Nat /\ call.written \in 0 .. call.room /\ call.factor \in Nat \ {0}
  /\ call.limit \in Nat \cup {-1}
  /\ call.limit >= 0 => call.room =< call.limit

\* What kind of call, and of object, there is in which phase.
DecPhase ==
  /\ pc = "idle" => call = NoCall
  /\ pc = "stage" => call.result = "more"
  /\ pc # "idle" => ~ spoiled
  /\ pc # "idle" /\ self.eof => "reuse" \in Habits
  /\ "reuse" \in Habits => self.unconsumed = << >> /\ call.limit = -1
  /\ call.result = "allocation" => MemoryFails
  /\ spoiled => MemoryFails /\ ~ self.eof

DecPlace ==
  /\ Reading => Reads(scenario, cur, dctx, Held, fed, got + call.written)
  /\ AtEnd => Ended(scenario, cur, dctx, Surplus, fed, got + call.written)

DecInv == DecShape /\ DecRoom /\ DecPhase /\ DecPlace

\* What the theorems ask of the scenarios.
CarefulReaders == \A k \in DOMAIN Scenarios : Careful(Scenarios[k])

LEMMA CarefulFacts ==
  ASSUME CarefulReaders, scenario \in DOMAIN Scenarios
  PROVE  /\ \/ Habits \subseteq {"reset", "reuse"} /\ ~ MemoryFails
            \/ \A i \in DOMAIN Frames : Frames[i].sized
         /\ "reuse" \in Habits => Lengths \subseteq {-1} /\ ~ MemoryFails
BY DEF CarefulReaders, Careful, Habits, MemoryFails, Frames, Lengths

\* A new context is at the start of any frame, if it counts for it.
LEMMA ReadsAnew ==
  ASSUME scenario \in DOMAIN Scenarios, NEW c, c \in DOMAIN Frames, NEW d, d.stage = "frameHeader", d.header = << >>,
         d.pending = 0, Frames[c].sized \/ d.remaining = 0,
         NEW to \in Nat, NEW held, FrameStart(c) =< to, held = Wire(FrameStart(c), to - FrameStart(c))
  PROVE  Reads(scenario, c, d, held, to, 0)
<1> DEFINE f == Frames[c]
           s == FrameStart(c)
<1>1. IsFrame(f) /\ s \in Nat
  BY StartFacts
<1>2. s = Starts[scenario][c] /\ f = Scenarios[scenario].frames[c]
  BY DEF FrameStart, Frames
<1>3. Content(f) \in Nat /\ HeaderLen(f) \in {7, 15} /\ f.sized \in BOOLEAN
  BY <1>1, FrameSums
<1>4. 0 \in Nat /\ 0 =< Content(f) /\ 0 < HeaderLen(f) /\ 0 \in 0 .. 0 /\ s + 0 = s /\ 0 + 0 = 0 /\ s \in Int
  BY <1>1, <1>3, SMT
<1>5. Wire(s, 0) = << >>
  BY <1>4, WireEmpty
<1>6. Counted(f, d, 0)
  BY <1>3, <1>4 DEF Counted
<1>7. Holds(s, f, d, 0, 0)
  BY <1>4, <1>5, <1>6 DEF Holds, Inside, InHeader
<1>8. s + 0 =< to /\ held = Wire(s + 0, to - (s + 0)) /\ 0 + d.pending = 0
  BY <1>4
<1> QED BY <1>2, <1>7, <1>8 DEF Reads

\* The records have their fields.
LEMMA NewFields ==
  /\ DOMAIN NewDctx = Fields /\ DOMAIN NoCall = CallFields /\ DOMAIN NewSelf = SelfFields
  /\ \A d : DOMAIN ResetDctx(d) = Fields
<1>1. DOMAIN NewDctx = Fields
  BY DEF NewDctx, Fields
<1>2. DOMAIN NoCall = CallFields
  BY DEF NoCall, CallFields
<1>3. DOMAIN NewSelf = SelfFields
  BY DEF NewSelf, SelfFields
<1>4. ASSUME NEW d PROVE DOMAIN ResetDctx(d) = Fields
  BY <1>1 DEF ResetDctx
<1> QED BY <1>1, <1>2, <1>3, <1>4

LEMMA DecInit == ASSUME CarefulReaders, Init PROVE DecInv
<1>1. scenario \in DOMAIN Scenarios /\ 1 \in DOMAIN Frames
  <2>1. scenario \in DOMAIN Scenarios
    BY DEF Init
  <2>2. Len(Frames) \in Nat \ {0} /\ DOMAIN Frames = 1 .. Len(Frames)
    BY <2>1, StartFacts
  <2> QED BY <2>1, <2>2, SMT
<1>2. DecShape
  <2>1. DOMAIN dctx = Fields /\ DOMAIN call = CallFields /\ DOMAIN self = SelfFields
    BY NewFields DEF Init
  <2>2. 0 \in Nat /\ self.eof = FALSE /\ call.result = "more"
    BY DEF Init, NewSelf, NoCall
  <2> QED BY <1>1, <2>1, <2>2 DEF Init, DecShape
<1>3. DecRoom
  BY SMT DEF Init, DecRoom, NoCall
<1>4. DecPhase
  BY SMT DEF Init, DecPhase, NoCall, NewSelf
<1>5. FrameStart(1) = 0
  <2>1. 1 \in 1 .. Len(Frames) + 1 /\ 1 - 1 = 0
    BY <1>1, StartFacts, SMT
  <2> QED BY <1>1, <2>1, SumZero DEF FrameStart, Starts, Frames
<1>6. Reads(scenario, 1, dctx, << >>, 0, 0)
  <2>1. dctx.stage = "frameHeader" /\ dctx.header = << >> /\ dctx.pending = 0 /\ dctx.remaining = 0
    BY DEF Init, NewDctx
  <2>2. 0 \in Nat /\ FrameStart(1) =< 0 /\ 0 - FrameStart(1) = 0 /\ FrameStart(1) \in Int
    BY <1>5, SMT
  <2>3. << >> = Wire(FrameStart(1), 0 - FrameStart(1))
    BY <2>2, WireEmpty
  <2> QED BY <1>1, <2>1, <2>2, <2>3, ReadsAnew
<1>7. DecPlace
  <2>1. cur = 1 /\ fed = 0 /\ got + call.written = 0
    BY SMT DEF Init, NoCall
  <2>2. Held = << >> /\ ~ AtEnd
    BY DEF Init, Held, AtEnd, NewSelf, NoCall
  <2> QED BY <1>6, <2>1, <2>2 DEF DecPlace
<1> QED BY <1>2, <1>3, <1>4, <1>7 DEF DecInv

-----------------------------------------------------------------------------
(* A stage of LZ4F_decompress                                                *)

\* In a stage the reader has read p bytes of its frame and decoded q.
Now(p, q) ==
  /\ Holds(FrameStart(cur), Frames[cur], dctx, p, q)
  /\ dctx.stage # "frameHeader" => dctx.frame = cur
  /\ FrameStart(cur) + p =< fed
  /\ call.rest = Wire(FrameStart(cur) + p, fed - (FrameStart(cur) + p))
  /\ got + call.written + dctx.pending = q

LEMMA NowIs == ASSUME DecInv, pc = "stage" PROVE \E p, q : Now(p, q)
<1>1. call.result = "more" /\ ~ spoiled
  BY DEF DecInv, DecPhase
<1>2. Reading /\ Held = call.rest
  BY <1>1 DEF Reading, Held
<1>3. Reads(scenario, cur, dctx, call.rest, fed, got + call.written)
  BY <1>2 DEF DecInv, DecPlace
<1> QED BY <1>3 DEF Reads, Now, FrameStart, Frames

LEMMA NowFacts ==
  ASSUME DecInv, NEW p, NEW q, Now(p, q)
  PROVE  /\ p \in Nat /\ q \in Nat /\ FrameStart(cur) \in Nat /\ IsFrame(Frames[cur])
         /\ FrameStart(cur) + p \in Int /\ fed \in Nat
         /\ fed - (FrameStart(cur) + p) \in Nat /\ Len(call.rest) = fed - (FrameStart(cur) + p)
         /\ call.rest = Wire(FrameStart(cur) + p, Len(call.rest))
         /\ dctx.pending \in Nat /\ got \in Nat /\ call.written \in Nat /\ call.room \in Nat /\ Free \in Nat
         /\ dctx.stage # "frameHeader" => TheFrame = Frames[cur]
<1>1. p \in Nat /\ q \in Nat /\ dctx.pending \in 0 .. q /\ FrameStart(cur) + p =< fed
  BY DEF Now, Holds, Counted
<1>2. scenario \in DOMAIN Scenarios /\ cur \in DOMAIN Frames /\ fed \in Nat /\ got \in Nat
      /\ call.room \in Nat /\ call.written \in 0 .. call.room
  BY DEF DecInv, DecShape, DecRoom
<1>3. FrameStart(cur) \in Nat /\ IsFrame(Frames[cur])
  BY <1>2, StartFacts
<1>4. FrameStart(cur) + p \in Int /\ fed - (FrameStart(cur) + p) \in Nat /\ dctx.pending \in Nat
  BY <1>1, <1>2, <1>3, SMT
<1>5. call.written \in Nat /\ Free \in Nat
  BY <1>2, SMT DEF Free
<1>6. Len(call.rest) = fed - (FrameStart(cur) + p)
  BY <1>4, WireIs DEF Now
<1>7. dctx.stage # "frameHeader" => TheFrame = Frames[cur]
  BY DEF Now, TheFrame
<1>8. call.rest = Wire(FrameStart(cur) + p, Len(call.rest))
  BY <1>6 DEF Now
<1> QED BY <1>1, <1>2, <1>3, <1>4, <1>5, <1>6, <1>7, <1>8

\* The call c has read n bytes more than the one in progress, and written w.
Moved(c, n, w) ==
  /\ DOMAIN c = CallFields
  /\ c.rest = Drop(call.rest, n) /\ c.written = call.written + w
  /\ c.room = call.room /\ c.factor = call.factor /\ c.limit = call.limit /\ c.result = call.result

LEMMA TookMoves ==
  ASSUME DecInv, NEW n PROVE Moved(Took(n), n, 0)
<1>1. DOMAIN call = CallFields /\ call.written \in 0 .. call.room /\ call.room \in Nat
  BY DEF DecInv, DecShape, DecRoom
<1>2. call.written + 0 = call.written
  BY <1>1, SMT
<1> QED BY <1>1, <1>2 DEF Moved, Took, CallFields

LEMMA WroteMoves ==
  ASSUME NEW c, NEW n, Moved(c, n, 0), NEW w, DecInv
  PROVE  Moved([c EXCEPT !.written = @ + w], n, w)
<1>1. call.written \in 0 .. call.room /\ call.room \in Nat
  BY DEF DecInv, DecRoom
<1>2. c.written = call.written
  BY <1>1, SMT DEF Moved
<1> QED BY <1>2 DEF Moved, CallFields

LEMMA NoneMoves ==
  ASSUME DecInv, NEW p, NEW q, Now(p, q) PROVE Moved(call, 0, 0)
<1> DEFINE a == FrameStart(cur) + p
           m == fed - (FrameStart(cur) + p)
<1>1. a \in Int /\ m \in Nat /\ call.rest = Wire(a, m) /\ call.written \in Nat /\ DOMAIN call = CallFields
  BY NowFacts DEF Now, DecInv, DecShape
<1> HIDE DEF a, m
<1>2. 0 \in 0 .. m /\ a + 0 = a /\ m - 0 = m /\ call.written + 0 = call.written
  BY <1>1, SMT
<1>3. Drop(call.rest, 0) = call.rest
  BY <1>1, <1>2, WireDrop
<1> QED BY <1>1, <1>2, <1>3 DEF Moved

\* What a stage may do.
StageOk ==
  /\ UNCHANGED <<scenario, self, fed, cur, got, spoiled>>
  /\ DOMAIN dctx' = Fields /\ DOMAIN call' = CallFields
  /\ call'.room = call.room /\ call'.factor = call.factor /\ call'.limit = call.limit
  /\ call'.written \in 0 .. call.room
  /\ \/ /\ pc' \in {"stage", "loop"} /\ call'.result = "more"
        /\ Reads(scenario, cur, dctx', call'.rest, fed, got + call'.written)
     \/ /\ pc' = "loop" /\ call'.result = "end"
        /\ Ended(scenario, cur, dctx', call'.rest, fed, got + call'.written)
     \/ pc' = "loop" /\ call'.result = "allocation" /\ MemoryFails

LEMMA StageKeeps == ASSUME DecInv, pc = "stage", StageOk PROVE DecInv'
<1>1. DecShape'
  BY DEF DecInv, DecShape, StageOk, Frames
<1>2. DecRoom'
  BY DEF DecInv, DecRoom, StageOk
<1>3. pc' \in {"stage", "loop"} /\ pc' # "idle"
  BY DEF StageOk
<1>4. DecPhase'
  BY <1>3 DEF DecInv, DecPhase, StageOk, Habits, MemoryFails
<1>5. DecPlace'
  <2>1. Held' = call'.rest /\ Surplus' = call'.rest
    BY <1>3 DEF Held, Surplus
  <2>2. Reading' => call'.result = "more"
    BY DEF Reading
  <2>3. AtEnd' => call'.result = "end"
    BY <1>3 DEF AtEnd
  <2>4. fed' = fed /\ cur' = cur /\ got' = got /\ scenario' = scenario
    BY DEF StageOk
  <2>5. call'.result = "more" => Reads(scenario, cur, dctx', call'.rest, fed, got + call'.written)
    BY DEF StageOk
  <2>6. call'.result = "end" => Ended(scenario, cur, dctx', call'.rest, fed, got + call'.written)
    BY DEF StageOk
  <2> QED BY <2>1, <2>2, <2>3, <2>4, <2>5, <2>6 DEF DecPlace
<1> QED BY <1>1, <1>2, <1>4, <1>5 DEF DecInv

\* A stage that goes on from where the one before it stopped.
LEMMA StageMoves ==
  ASSUME DecInv, pc = "stage", UNCHANGED scenario, NEW p, NEW q, Now(p, q),
         NEW c, NEW n \in Nat, NEW w \in Nat, n =< Len(call.rest), w =< Free, Moved(c, n, w),
         GoOn(c) \/ Stop(c, "more"),
         DOMAIN dctx' = Fields, dctx'.stage # "frameHeader" => dctx'.frame = cur,
         NEW r, Holds(FrameStart(cur), Frames[cur], dctx', p + n, r), got + call.written + w + dctx'.pending = r
  PROVE  StageOk
<1> DEFINE s == FrameStart(cur)
           m == Len(call.rest)
<1>1. /\ p \in Nat /\ s \in Nat /\ fed \in Nat /\ m \in Nat /\ m = fed - (s + p) /\ call.rest = Wire(s + p, m) /\ s + p \in Int
      /\ got \in Nat /\ call.written \in Nat /\ call.room \in Nat
  BY NowFacts
<1>2. call'.rest = Drop(call.rest, n) /\ call'.written = call.written + w
      /\ call'.room = call.room /\ call'.factor = call.factor /\ call'.limit = call.limit
      /\ DOMAIN call' = CallFields
      /\ call'.result = "more" /\ pc' \in {"stage", "loop"}
  <2>1. call.result = "more"
    BY DEF DecInv, DecPhase
  <2>2. CASE GoOn(c)
    BY <2>1, <2>2 DEF GoOn, Moved
  <2>3. CASE Stop(c, "more")
    BY <2>1, <2>3 DEF Stop, Moved, CallFields
  <2> QED BY <2>2, <2>3
<1>3. UNCHANGED <<self, fed, cur, got, spoiled>>
  BY DEF GoOn, Stop, Outside
<1>4. call.written + w \in 0 .. call.room /\ got + (call.written + w) = got + call.written + w
  BY <1>1, SMTT(60) DEF Free
<1>5. /\ n \in 0 .. m /\ m - n \in Nat /\ (s + p) + n = s + (p + n) /\ s + (p + n) =< fed
      /\ m - n = fed - (s + (p + n))
  <2> HIDE DEF s, m
  <2>1. n =< m
    BY DEF m
  <2> QED BY <1>1, <2>1, SMT
<1>6. Drop(call.rest, n) = Wire(s + (p + n), fed - (s + (p + n)))
  <2> HIDE DEF s, m
  <2>1. Drop(Wire(s + p, m), n) = Wire((s + p) + n, m - n)
    BY <1>1, <1>5, WireDrop
  <2> QED BY <1>1, <1>5, <2>1
<1>7. Reads(scenario, cur, dctx', call'.rest, fed, got + call'.written)
  <2>1. s = Starts[scenario][cur] /\ Frames[cur] = Scenarios[scenario].frames[cur]
    BY DEF FrameStart, Frames
  <2>2. got + call'.written + dctx'.pending = r
    BY <1>2, <1>4
  <2> HIDE DEF m
  <2> QED BY <1>2, <1>5, <1>6, <2>1, <2>2 DEF Reads
<1> QED BY <1>2, <1>3, <1>4, <1>7 DEF StageOk


LEMMA EnterIs ==
  ASSUME DOMAIN dctx = Fields, NEW st
  PROVE  LET e == Enter(st)
         IN  /\ DOMAIN e = Fields /\ e.stage = st /\ e.have = 0
             /\ e.header = dctx.header /\ e.frame = dctx.frame /\ e.block = dctx.block /\ e.left = dctx.left
             /\ e.pending = dctx.pending /\ e.remaining = dctx.remaining
BY DEF Enter, Fields

\* Fields: too short, or whole.
LEMMA FieldShortOk == ASSUME DecInv, UNCHANGED scenario, FieldShort PROVE StageOk
<1> DEFINE k == Len(call.rest)
           f == Frames[cur]
<1>1. PICK p, q : Now(p, q)
  BY NowIs DEF FieldShort
<1>2. /\ FrameStart(cur) \in Nat /\ IsFrame(f) /\ k \in Nat /\ TheFrame = f /\ dctx.frame = cur
      /\ got \in Nat /\ call.written \in Nat /\ dctx.pending \in Nat /\ Free \in Nat
  BY <1>1, NowFacts DEF FieldShort, Now
<1>3. dctx.stage \in {"blockHeader", "rawCrc", "cBlock", "suffixCrc"} /\ Holds(FrameStart(cur), f, dctx, p, q)
      /\ got + call.written + dctx.pending = q
  BY <1>1 DEF FieldShort, Now
<1>4. dctx.have + k < WantOf(f, dctx)
  BY <1>2 DEF FieldShort, Missing, Want, WantOf, WithCrc, TheBlock, FieldSize
<1>5. DOMAIN dctx = Fields
  BY DEF DecInv, DecShape
<1>6. /\ DOMAIN dctx' = Fields /\ dctx'.stage = dctx.stage /\ dctx'.block = dctx.block /\ dctx'.have = dctx.have + k
      /\ dctx'.pending = dctx.pending /\ dctx'.remaining = dctx.remaining /\ dctx'.frame = dctx.frame
  BY <1>5 DEF FieldShort, Fields
<1>7. Holds(FrameStart(cur), f, dctx', p + k, q)
  BY <1>2, <1>3, <1>4, <1>6, MovesInField
<1>8. got + call.written + 0 + dctx'.pending = q /\ 0 \in Nat /\ 0 =< Free /\ k =< k
  <2> HIDE DEF k
  <2> QED BY <1>2, <1>3, <1>6, SMT
<1>9. Moved(Took(k), k, 0) /\ Stop(Took(k), "more") /\ pc = "stage"
  BY TookMoves DEF FieldShort
<1> QED BY <1>1, <1>2, <1>6, <1>7, <1>8, <1>9, StageMoves

LEMMA WholeFieldFacts ==
  ASSUME DecInv, NEW st \in {"blockHeader", "rawCrc", "suffixCrc"}, WholeField(st), NEW p, NEW q, Now(p, q), dctx.have \in 0 .. 3
  PROVE  /\ 4 - dctx.have \in Nat /\ 4 - dctx.have =< Len(call.rest) /\ Moved(AfterField, 4 - dctx.have, 0)
         /\ got + call.written + 0 + dctx.pending = q /\ 0 \in Nat /\ 0 =< Free
         /\ dctx.stage = st /\ pc = "stage" /\ dctx.frame = cur /\ TheFrame = Frames[cur]
         /\ FrameStart(cur) \in Nat /\ IsFrame(Frames[cur]) /\ Holds(FrameStart(cur), Frames[cur], dctx, p, q)
         /\ DOMAIN dctx = Fields
<1>1. dctx.stage = st /\ pc = "stage" /\ ~ Missing
  BY DEF WholeField, In
<1>2. Want = 4
  BY <1>1 DEF Want, FieldSize
<1>3. /\ Len(call.rest) \in Nat /\ got \in Nat /\ call.written \in Nat /\ dctx.pending \in Nat /\ Free \in Nat
      /\ FrameStart(cur) \in Nat /\ IsFrame(Frames[cur]) /\ TheFrame = Frames[cur]
  BY <1>1, NowFacts
<1>4. 4 - dctx.have \in Nat /\ 4 - dctx.have =< Len(call.rest)
  BY <1>1, <1>2, <1>3, SMT DEF Missing
<1>5. got + call.written + dctx.pending = q
  BY DEF Now
<1>6. got + call.written + 0 + dctx.pending = q /\ 0 \in Nat /\ 0 =< Free
  BY <1>3, <1>5, SMT
<1>7. Moved(AfterField, 4 - dctx.have, 0)
  BY <1>2, TookMoves DEF AfterField
<1> QED BY <1>1, <1>3, <1>4, <1>6, <1>7 DEF Now, DecInv, DecShape

LEMMA EndMarkOk == ASSUME DecInv, UNCHANGED scenario, EndMark PROVE StageOk
<1> DEFINE f == Frames[cur]
           n == 4 - dctx.have
<1>0. WholeField("blockHeader") /\ pc = "stage" /\ dctx.stage = "blockHeader" /\ dctx' = Enter("suffix") /\ GoOn(AfterField)
  BY DEF EndMark, WholeField, In
<1>1. PICK p, q : Now(p, q)
  BY <1>0, NowIs
<1>2. Holds(FrameStart(cur), f, dctx, p, q) /\ FrameStart(cur) \in Nat /\ IsFrame(f) /\ TheFrame = f /\ DOMAIN dctx = Fields
  BY <1>0, <1>1, NowFacts DEF Now, DecInv, DecShape
<1>3. /\ DOMAIN dctx' = Fields /\ dctx'.stage = "suffix" /\ dctx'.have = 0 /\ dctx'.block = dctx.block
      /\ dctx'.frame = dctx.frame /\ dctx'.pending = dctx.pending /\ dctx'.remaining = dctx.remaining
  BY <1>0, <1>2, EnterIs
<1>4. dctx.block = Len(f.blocks)
  BY <1>2 DEF EndMark
<1>5. dctx.have \in 0 .. 3 /\ Holds(FrameStart(cur), f, dctx', p + n, q)
  BY <1>0, <1>2, <1>3, <1>4, MovesPastEndMark
<1>6. /\ n \in Nat /\ n =< Len(call.rest) /\ Moved(AfterField, n, 0)
      /\ got + call.written + 0 + dctx.pending = q /\ 0 \in Nat /\ 0 =< Free /\ dctx.frame = cur
  BY <1>0, <1>1, <1>5, WholeFieldFacts
<1> QED BY <1>0, <1>1, <1>3, <1>5, <1>6, StageMoves

LEMMA BlockChecksumOk == ASSUME DecInv, UNCHANGED scenario, BlockChecksum PROVE StageOk
<1> DEFINE f == Frames[cur]
           n == 4 - dctx.have
<1>0. WholeField("rawCrc") /\ pc = "stage" /\ dctx.stage = "rawCrc" /\ dctx' = Enter("blockHeader") /\ GoOn(AfterField)
  BY DEF BlockChecksum, WholeField, In
<1>1. PICK p, q : Now(p, q)
  BY <1>0, NowIs
<1>2. Holds(FrameStart(cur), f, dctx, p, q) /\ FrameStart(cur) \in Nat /\ IsFrame(f) /\ DOMAIN dctx = Fields
  BY <1>1, NowFacts DEF Now, DecInv, DecShape
<1>3. /\ DOMAIN dctx' = Fields /\ dctx'.stage = "blockHeader" /\ dctx'.have = 0 /\ dctx'.block = dctx.block
      /\ dctx'.frame = dctx.frame /\ dctx'.pending = dctx.pending /\ dctx'.remaining = dctx.remaining
  BY <1>0, <1>2, EnterIs
<1>5. dctx.have \in 0 .. 3 /\ Holds(FrameStart(cur), f, dctx', p + n, q)
  BY <1>0, <1>2, <1>3, MovesPastRawCrc
<1>6. /\ n \in Nat /\ n =< Len(call.rest) /\ Moved(AfterField, n, 0)
      /\ got + call.written + 0 + dctx.pending = q /\ 0 \in Nat /\ 0 =< Free /\ dctx.frame = cur
  BY <1>0, <1>1, <1>5, WholeFieldFacts
<1> QED BY <1>0, <1>1, <1>3, <1>5, <1>6, StageMoves

LEMMA BlockHeaderOk == ASSUME DecInv, UNCHANGED scenario, BlockHeader PROVE StageOk
<1> DEFINE f == Frames[cur]
           n == 4 - dctx.have
           b == f.blocks[dctx.block + 1]
<1>0. WholeField("blockHeader") /\ pc = "stage" /\ dctx.stage = "blockHeader"
  BY DEF BlockHeader, WholeField, In
<1>1. PICK p, q : Now(p, q)
  BY <1>0, NowIs
<1>2. Holds(FrameStart(cur), f, dctx, p, q) /\ FrameStart(cur) \in Nat /\ IsFrame(f) /\ TheFrame = f /\ DOMAIN dctx = Fields
  BY <1>0, <1>1, NowFacts DEF Now, DecInv, DecShape
<1>3. /\ dctx.block < Len(f.blocks)
      /\ \/ b.raw /\ dctx' = [Enter("copyDirect") EXCEPT !.block = @ + 1, !.left = b.wire]
         \/ ~ b.raw /\ dctx' = [Enter("cBlock") EXCEPT !.block = @ + 1]
      /\ GoOn(AfterField) \/ Stop(AfterField, "more")
  BY <1>2 DEF BlockHeader
<1>4. /\ DOMAIN dctx' = Fields /\ dctx'.have = 0 /\ dctx'.block = dctx.block + 1
      /\ dctx'.frame = dctx.frame /\ dctx'.pending = dctx.pending /\ dctx'.remaining = dctx.remaining
      /\ \/ b.raw /\ dctx'.stage = "copyDirect" /\ dctx'.left = b.wire
         \/ ~ b.raw /\ dctx'.stage = "cBlock"
  <2> HIDE DEF b
  <2>1. CASE b.raw /\ dctx' = [Enter("copyDirect") EXCEPT !.block = @ + 1, !.left = b.wire]
    BY <1>2, <2>1, EnterIs DEF Fields
  <2>2. CASE ~ b.raw /\ dctx' = [Enter("cBlock") EXCEPT !.block = @ + 1]
    BY <1>2, <2>2, EnterIs DEF Fields
  <2> QED BY <1>3, <2>1, <2>2
<1>5. dctx.have \in 0 .. 3 /\ Holds(FrameStart(cur), f, dctx', p + n, q)
  BY <1>0, <1>2, <1>3, <1>4, MovesPastBlockHeader
<1>6. /\ n \in Nat /\ n =< Len(call.rest) /\ Moved(AfterField, n, 0)
      /\ got + call.written + 0 + dctx.pending = q /\ 0 \in Nat /\ 0 =< Free /\ dctx.frame = cur
  BY <1>0, <1>1, <1>5, WholeFieldFacts
<1> QED BY <1>0, <1>1, <1>3, <1>4, <1>5, <1>6, StageMoves


LEMMA SmallerIs ==
  ASSUME NEW a \in Nat, NEW b \in Nat
  PROVE  Smaller(a, b) \in Nat /\ Smaller(a, b) =< a /\ Smaller(a, b) =< b
BY SMT DEF Smaller

\* What is written out of a raw block, of a decoded one.
LEMMA CopyDirectOk == ASSUME DecInv, UNCHANGED scenario, CopyDirect PROVE StageOk
<1> DEFINE f == Frames[cur]
           n == Smaller(dctx.left, Smaller(Len(call.rest), Free))
           c == [Took(n) EXCEPT !.written = @ + n]
<1>0. pc = "stage" /\ dctx.stage = "copyDirect"
  BY DEF CopyDirect, In
<1>1. PICK p, q : Now(p, q)
  BY <1>0, NowIs
<1>2. /\ Holds(FrameStart(cur), f, dctx, p, q) /\ FrameStart(cur) \in Nat /\ IsFrame(f) /\ TheFrame = f /\ DOMAIN dctx = Fields
      /\ Len(call.rest) \in Nat /\ Free \in Nat /\ dctx.frame = cur
  BY <1>0, <1>1, NowFacts DEF Now, DecInv, DecShape
<1>3. InCopyDirect(f, dctx, p, q) /\ Counted(f, dctx, q)
  BY <1>0, <1>2 DEF Holds, Inside
<1>4. dctx.left \in Nat /\ dctx.pending = 0
  <2>1. Begun(f, dctx) /\ dctx.left \in 1 .. f.blocks[dctx.block].wire
    BY <1>3 DEF InCopyDirect
  <2>2. f.blocks[dctx.block].wire \in Nat
    BY <1>2, <2>1, BlockFacts
  <2>3. dctx.left \in Nat
    BY <2>1, <2>2, SMT
  <2> QED BY <1>0, <1>3, <2>3 DEF Counted
<1>5. n \in Nat /\ n =< dctx.left /\ n =< Len(call.rest) /\ n =< Free
  <2>1. /\ Smaller(Len(call.rest), Free) \in Nat /\ Smaller(Len(call.rest), Free) =< Len(call.rest)
        /\ Smaller(Len(call.rest), Free) =< Free
    BY <1>2, SmallerIs
  <2>2. n \in Nat /\ n =< dctx.left /\ n =< Smaller(Len(call.rest), Free)
    BY <1>4, <2>1, SmallerIs
  <2> HIDE DEF n
  <2> QED BY <1>2, <2>1, <2>2, SMT
<1>6. Moved(c, n, n)
  <2> HIDE DEF n
  <2>1. Moved(Took(n), n, 0)
    BY TookMoves
  <2> QED BY <2>1, WroteMoves
<1>7. \/ /\ n = dctx.left
         /\ dctx' = [Produced(Enter(IF f.blockCrc THEN "rawCrc" ELSE "blockHeader"), n) EXCEPT !.left = 0]
         /\ GoOn(c)
      \/ /\ n # dctx.left
         /\ dctx' = [Produced(dctx, n) EXCEPT !.left = @ - n]
         /\ Stop(c, "more")
  BY <1>2 DEF CopyDirect
<1> HIDE DEF n, c
<1>8. /\ DOMAIN dctx' = Fields /\ dctx'.have = 0 /\ dctx'.block = dctx.block /\ dctx'.frame = dctx.frame
      /\ dctx'.pending = dctx.pending /\ dctx'.left = dctx.left - n
      /\ dctx'.remaining = IF f.sized THEN dctx.remaining - n ELSE dctx.remaining
      /\ \/ n < dctx.left /\ dctx'.stage = "copyDirect"
         \/ n = dctx.left /\ f.blockCrc /\ dctx'.stage = "rawCrc"
         \/ n = dctx.left /\ ~ f.blockCrc /\ dctx'.stage = "blockHeader"
  <2>1. ASSUME n = dctx.left,
               dctx' = [Produced(Enter(IF f.blockCrc THEN "rawCrc" ELSE "blockHeader"), n) EXCEPT !.left = 0]
        PROVE  /\ DOMAIN dctx' = Fields /\ dctx'.have = 0 /\ dctx'.block = dctx.block /\ dctx'.frame = dctx.frame
               /\ dctx'.pending = dctx.pending /\ dctx'.left = 0
               /\ dctx'.remaining = IF f.sized THEN dctx.remaining - n ELSE dctx.remaining
               /\ dctx'.stage = IF f.blockCrc THEN "rawCrc" ELSE "blockHeader"
    <3> DEFINE e == Enter(IF f.blockCrc THEN "rawCrc" ELSE "blockHeader")
    <3>1. /\ DOMAIN e = Fields /\ e.stage = (IF f.blockCrc THEN "rawCrc" ELSE "blockHeader") /\ e.have = 0
          /\ e.frame = dctx.frame /\ e.block = dctx.block /\ e.pending = dctx.pending /\ e.remaining = dctx.remaining
      BY <1>2, EnterIs
    <3> HIDE DEF e
    <3>2. dctx' = [(IF f.sized THEN [e EXCEPT !.remaining = @ - n] ELSE e) EXCEPT !.left = 0]
      BY <1>2, <2>1 DEF Produced, e
    <3> HIDE DEF f
    <3> QED BY <3>1, <3>2 DEF Fields
  <2>2. ASSUME dctx' = [Produced(dctx, n) EXCEPT !.left = @ - n]
        PROVE  /\ DOMAIN dctx' = Fields /\ dctx'.have = dctx.have /\ dctx'.block = dctx.block /\ dctx'.frame = dctx.frame
               /\ dctx'.pending = dctx.pending /\ dctx'.left = dctx.left - n
               /\ dctx'.remaining = IF f.sized THEN dctx.remaining - n ELSE dctx.remaining
               /\ dctx'.stage = dctx.stage
    <3>1. dctx' = [(IF f.sized THEN [dctx EXCEPT !.remaining = @ - n] ELSE dctx) EXCEPT !.left = @ - n]
      BY <1>2, <2>2 DEF Produced
    <3> HIDE DEF f
    <3> QED BY <1>2, <3>1 DEF Fields
  <2>3. dctx.have = 0
    BY <1>3 DEF InCopyDirect
  <2>4. (n = dctx.left => dctx.left - n = 0) /\ (n # dctx.left => n < dctx.left)
    BY <1>4, <1>5, SMT
  <2>5. CASE n = dctx.left
    <3>1. dctx' = [Produced(Enter(IF f.blockCrc THEN "rawCrc" ELSE "blockHeader"), n) EXCEPT !.left = 0]
      BY <1>7, <2>5
    <3> HIDE DEF f
    <3> QED BY <2>1, <2>4, <2>5, <3>1
  <2>6. CASE n # dctx.left
    <3>1. dctx' = [Produced(dctx, n) EXCEPT !.left = @ - n]
      BY <1>7, <2>6
    <3> HIDE DEF f
    <3> QED BY <1>0, <2>2, <2>3, <2>4, <2>6, <3>1
  <2> QED BY <2>5, <2>6
<1>9. Holds(FrameStart(cur), f, dctx', p + n, q + n)
  BY <1>0, <1>2, <1>5, <1>8, MovesInCopyDirect
<1>10. got + call.written + n + dctx'.pending = q + n
  <2>1. got + call.written + dctx.pending = q /\ got \in Nat /\ call.written \in Nat
    BY <1>1, NowFacts DEF Now
  <2> QED BY <1>4, <1>5, <1>8, <2>1, SMT
<1>11. GoOn(c) \/ Stop(c, "more")
  BY <1>7
<1> QED BY <1>0, <1>1, <1>2, <1>5, <1>6, <1>8, <1>9, <1>10, <1>11, StageMoves

LEMMA DecodeBlockOk == ASSUME DecInv, UNCHANGED scenario, DecodeBlock PROVE StageOk
<1> DEFINE f == Frames[cur]
           b == f.blocks[dctx.block]
           n == WithCrc(f, dctx) - dctx.have
<1>0. WholeField("cBlock") /\ pc = "stage" /\ dctx.stage = "cBlock"
  BY DEF DecodeBlock, WholeField, In
<1>1. PICK p, q : Now(p, q)
  BY <1>0, NowIs
<1>2. /\ Holds(FrameStart(cur), f, dctx, p, q) /\ FrameStart(cur) \in Nat /\ IsFrame(f) /\ TheFrame = f /\ DOMAIN dctx = Fields
      /\ Len(call.rest) \in Nat /\ Free \in Nat /\ dctx.frame = cur
  BY <1>0, <1>1, NowFacts DEF Now, DecInv, DecShape
<1>3. TheBlock = b /\ Want = WithCrc(f, dctx)
  BY <1>0, <1>2 DEF TheBlock, Want, WithCrc
<1>4. dctx' = [Produced(Enter("flushOut"), b.size) EXCEPT !.pending = b.size] /\ GoOn(AfterField)
  BY <1>3 DEF DecodeBlock
<1>5. /\ DOMAIN dctx' = Fields /\ dctx'.have = 0 /\ dctx'.block = dctx.block /\ dctx'.frame = dctx.frame
      /\ dctx'.pending = b.size /\ dctx'.stage = "flushOut"
      /\ dctx'.remaining = IF f.sized THEN dctx.remaining - b.size ELSE dctx.remaining
  <2> DEFINE e == Enter("flushOut")
  <2>1. /\ DOMAIN e = Fields /\ e.stage = "flushOut" /\ e.have = 0
        /\ e.frame = dctx.frame /\ e.block = dctx.block /\ e.remaining = dctx.remaining
    BY <1>2, EnterIs
  <2> HIDE DEF e, b
  <2>2. dctx' = [(IF f.sized THEN [e EXCEPT !.remaining = @ - b.size] ELSE e) EXCEPT !.pending = b.size]
    BY <1>2, <1>4 DEF Produced, e
  <2> HIDE DEF f
  <2> QED BY <2>1, <2>2 DEF Fields
<1>6. /\ dctx.have \in 0 .. WithCrc(f, dctx) - 1 /\ WithCrc(f, dctx) \in Nat
      /\ b.size \in Nat /\ dctx.pending = 0
      /\ Holds(FrameStart(cur), f, dctx', p + n, q + b.size)
  BY <1>0, <1>2, <1>5, MovesPastCBlock
<1>7. n \in Nat /\ n =< Len(call.rest)
  <2>1. ~ Missing
    BY <1>0 DEF WholeField
  <2>2. ~ (dctx.have + Len(call.rest) < WithCrc(f, dctx))
    BY <1>3, <2>1 DEF Missing
  <2> QED BY <1>2, <1>6, <2>2, SMT
<1>8. Moved(AfterField, n, 0)
  BY <1>3, TookMoves DEF AfterField
<1>9. got + call.written + 0 + dctx'.pending = q + b.size /\ 0 \in Nat /\ 0 =< Free
  <2>1. got + call.written + dctx.pending = q /\ got \in Nat /\ call.written \in Nat
    BY <1>1, NowFacts DEF Now
  <2> HIDE DEF b
  <2> QED BY <1>2, <1>5, <1>6, <2>1, SMT
<1> QED BY <1>0, <1>1, <1>2, <1>4, <1>5, <1>6, <1>7, <1>8, <1>9, StageMoves

LEMMA FlushOutOk == ASSUME DecInv, UNCHANGED scenario, FlushOut PROVE StageOk
<1> DEFINE f == Frames[cur]
           n == Smaller(dctx.pending, Free)
           c == [call EXCEPT !.written = @ + n]
<1>0. pc = "stage" /\ dctx.stage = "flushOut"
  BY DEF FlushOut, In
<1>1. PICK p, q : Now(p, q)
  BY <1>0, NowIs
<1>2. /\ Holds(FrameStart(cur), f, dctx, p, q) /\ FrameStart(cur) \in Nat /\ IsFrame(f) /\ DOMAIN dctx = Fields
      /\ Len(call.rest) \in Nat /\ Free \in Nat /\ dctx.frame = cur /\ dctx.pending \in Nat /\ p \in Nat
  BY <1>0, <1>1, NowFacts DEF Now, DecInv, DecShape
<1>3. n \in Nat /\ n =< dctx.pending /\ n =< Free
  BY <1>2, SmallerIs
<1>4. Moved(c, 0, n)
  BY <1>1, NoneMoves, WroteMoves
<1>5. dctx.have = 0
  BY <1>0, <1>2 DEF Holds, Inside, InFlushOut
<1>6. dctx' = [(IF n = dctx.pending THEN Enter("blockHeader") ELSE dctx) EXCEPT !.pending = @ - n]
      /\ (GoOn(c) \/ Stop(c, "more"))
  BY DEF FlushOut
<1> HIDE DEF n, c, f
<1>7. /\ DOMAIN dctx' = Fields /\ dctx'.have = 0 /\ dctx'.block = dctx.block /\ dctx'.frame = dctx.frame
      /\ dctx'.pending = dctx.pending - n /\ dctx'.remaining = dctx.remaining
      /\ \/ n < dctx.pending /\ dctx'.stage = "flushOut"
         \/ n = dctx.pending /\ dctx'.stage = "blockHeader"
  <2> DEFINE e == Enter("blockHeader")
  <2>1. /\ DOMAIN e = Fields /\ e.stage = "blockHeader" /\ e.have = 0 /\ e.pending = dctx.pending
        /\ e.frame = dctx.frame /\ e.block = dctx.block /\ e.remaining = dctx.remaining
    BY <1>2, EnterIs
  <2> HIDE DEF e
  <2>2. CASE n = dctx.pending
    <3>1. dctx' = [e EXCEPT !.pending = @ - n]
      BY <1>6, <2>2 DEF e
    <3> QED BY <2>1, <2>2, <3>1 DEF Fields
  <2>3. CASE n # dctx.pending
    <3>1. dctx' = [dctx EXCEPT !.pending = @ - n]
      BY <1>6, <2>3
    <3>2. n < dctx.pending
      BY <1>2, <1>3, <2>3, SMT
    <3> QED BY <1>0, <1>2, <1>5, <3>1, <3>2 DEF Fields
  <2> QED BY <2>2, <2>3
<1>8. Holds(FrameStart(cur), f, dctx', p, q)
  BY <1>0, <1>2, <1>3, <1>7, MovesInFlushOut
<1>9. got + call.written + n + dctx'.pending = q /\ 0 \in Nat /\ 0 =< Len(call.rest) /\ p + 0 = p
  <2>1. got + call.written + dctx.pending = q /\ got \in Nat /\ call.written \in Nat
    BY <1>1, NowFacts DEF Now
  <2> QED BY <1>2, <1>3, <1>7, <2>1, SMT
<1>10. Holds(FrameStart(cur), Frames[cur], dctx', p + 0, q)
  BY <1>8, <1>9 DEF f
<1> QED BY <1>0, <1>1, <1>2, <1>3, <1>4, <1>6, <1>7, <1>9, <1>10, StageMoves, ZenonT(60)


\* The end of a frame resets the context.
LEMMA StageEnds ==
  ASSUME DecInv, pc = "stage", UNCHANGED scenario, NEW p, NEW q, Now(p, q),
         NEW c, NEW n \in Nat, n =< Len(call.rest), Moved(c, n, 0), FrameDone(c),
         p + n = FrameLen(Frames[cur]), q = Content(Frames[cur]), dctx.pending = 0, dctx.remaining = 0
  PROVE  StageOk
<1> DEFINE s == FrameStart(cur)
           m == Len(call.rest)
           g == Frames[cur]
<1>1. /\ p \in Nat /\ s \in Nat /\ fed \in Nat /\ m \in Nat /\ m = fed - (s + p) /\ call.rest = Wire(s + p, m) /\ s + p \in Int
      /\ got \in Nat /\ call.written \in Nat /\ call.room \in Nat /\ got + call.written + dctx.pending = q
  BY NowFacts DEF Now
<1>2. FrameEnd(cur) = s + FrameLen(g)
  BY StartFacts DEF DecInv, DecShape
<1>3. /\ call'.rest = Drop(call.rest, n) /\ call'.written = call.written + 0
      /\ call'.room = call.room /\ call'.factor = call.factor /\ call'.limit = call.limit
      /\ DOMAIN call' = CallFields /\ call'.result = "end" /\ pc' = "loop"
  BY DEF FrameDone, Stop, Moved, CallFields
<1>4. UNCHANGED <<self, fed, cur, got, spoiled>>
  BY DEF FrameDone, Stop, Outside
<1>5. /\ DOMAIN dctx' = Fields /\ dctx'.stage = "frameHeader" /\ dctx'.header = << >> /\ dctx'.pending = 0
      /\ dctx'.remaining = 0
  BY NewFields DEF FrameDone, ResetDctx, NewDctx
<1>6. /\ n \in 0 .. m /\ (s + p) + n = FrameEnd(cur) /\ FrameEnd(cur) =< fed
      /\ m - n = fed - FrameEnd(cur)
  <2> HIDE DEF s, m, g
  <2>1. n =< m /\ p + n = FrameLen(g)
    BY DEF m, g
  <2>2. FrameEnd(cur) = s + (p + n)
    BY <1>2, <2>1
  <2> QED BY <1>1, <2>1, <2>2, SMT
<1>7. Drop(call.rest, n) = Wire(FrameEnd(cur), fed - FrameEnd(cur))
  <2> HIDE DEF s, m
  <2>1. Drop(Wire(s + p, m), n) = Wire((s + p) + n, m - n)
    BY <1>1, <1>6, WireDrop
  <2> QED BY <1>1, <1>6, <2>1
<1>8. call'.written \in 0 .. call.room /\ got + call'.written = Content(g)
  <2>1. call.written \in 0 .. call.room
    BY DEF DecInv, DecRoom
  <2>2. q = Content(g)
    OBVIOUS
  <2> HIDE DEF g
  <2> QED BY <1>1, <1>3, <2>1, <2>2, SMT
<1>9. Ended(scenario, cur, dctx', call'.rest, fed, got + call'.written)
  BY <1>3, <1>5, <1>6, <1>7, <1>8 DEF Ended, FrameEnd, Frames
<1> QED BY <1>3, <1>4, <1>5, <1>8, <1>9 DEF StageOk

LEMMA SuffixOk == ASSUME DecInv, UNCHANGED scenario, Suffix PROVE StageOk
<1> DEFINE f == Frames[cur]
<1>0. pc = "stage" /\ dctx.stage = "suffix"
  BY DEF Suffix, In
<1>1. PICK p, q : Now(p, q)
  BY <1>0, NowIs
<1>2. /\ Holds(FrameStart(cur), f, dctx, p, q) /\ FrameStart(cur) \in Nat /\ IsFrame(f) /\ DOMAIN dctx = Fields
      /\ TheFrame = f /\ Len(call.rest) \in Nat /\ Free \in Nat /\ dctx.frame = cur /\ p \in Nat
  BY <1>0, <1>1, NowFacts DEF Now, DecInv, DecShape
<1>3. dctx.pending = 0 /\ dctx.remaining = 0 /\ q = Content(f)
  BY <1>0, <1>2, AtSuffix
<1>4. Moved(call, 0, 0)
  BY <1>1, NoneMoves
<1>5. 0 \in Nat /\ 0 =< Len(call.rest) /\ p + 0 = p /\ 0 =< Free /\ got + call.written + 0 + dctx.pending = q
  <2>1. got + call.written + dctx.pending = q /\ got \in Nat /\ call.written \in Nat
    BY <1>1, NowFacts DEF Now
  <2> HIDE DEF f
  <2> QED BY <1>2, <1>3, <2>1, SMT
<1>6. CASE ~ f.contentCrc
  <2>1. FrameDone(call)
    BY <1>2, <1>3, <1>6 DEF Suffix
  <2>2. p + 0 = FrameLen(f)
    BY <1>0, <1>2, <1>5, <1>6, MovesPastEnd
  <2> QED BY <1>0, <1>1, <1>3, <1>4, <1>5, <2>1, <2>2, StageEnds
<1>7. CASE f.contentCrc
  <2>1. dctx' = Enter("suffixCrc") /\ GoOn(call)
    BY <1>2, <1>3, <1>7 DEF Suffix
  <2>2. /\ DOMAIN dctx' = Fields /\ dctx'.stage = "suffixCrc" /\ dctx'.have = 0 /\ dctx'.block = dctx.block
        /\ dctx'.frame = dctx.frame /\ dctx'.pending = dctx.pending /\ dctx'.remaining = dctx.remaining
    BY <1>2, <2>1, EnterIs
  <2>3. Holds(FrameStart(cur), f, dctx', p + 0, q)
    BY <1>0, <1>2, <1>5, <1>7, <2>2, MovesToSuffixCrc
  <2>4. got + call.written + 0 + dctx'.pending = q
    BY <1>5, <2>2
  <2> QED BY <1>0, <1>1, <1>2, <1>4, <1>5, <2>1, <2>2, <2>3, <2>4, StageMoves
<1> QED BY <1>6, <1>7

LEMMA SuffixChecksumOk == ASSUME DecInv, UNCHANGED scenario, SuffixChecksum PROVE StageOk
<1> DEFINE f == Frames[cur]
           n == 4 - dctx.have
<1>0. WholeField("suffixCrc") /\ pc = "stage" /\ dctx.stage = "suffixCrc" /\ FrameDone(AfterField)
  BY DEF SuffixChecksum, WholeField, In
<1>1. PICK p, q : Now(p, q)
  BY <1>0, NowIs
<1>2. Holds(FrameStart(cur), f, dctx, p, q) /\ FrameStart(cur) \in Nat /\ IsFrame(f)
  BY <1>1, NowFacts DEF Now
<1>3. dctx.pending = 0 /\ dctx.remaining = 0 /\ q = Content(f)
  BY <1>0, <1>2, AtSuffix
<1>4. dctx.have \in 0 .. 3 /\ p + n = FrameLen(f)
  BY <1>0, <1>2, MovesPastEnd
<1>5. n \in Nat /\ n =< Len(call.rest) /\ Moved(AfterField, n, 0)
  BY <1>0, <1>1, <1>4, WholeFieldFacts
<1> QED BY <1>0, <1>1, <1>3, <1>4, <1>5, StageEnds

\* The header of the frame is told by where it starts, and by nothing else.
LEMMA StoreFrameHeaderOk == ASSUME DecInv, UNCHANGED scenario, StoreFrameHeader PROVE StageOk
<1> DEFINE f == Frames[cur]
           s == FrameStart(cur)
           m == Len(call.rest)
           h == HeaderBytes
           c == Took(Len(h) - Len(dctx.header))
           new == [dctx EXCEPT !.header = h]
<1>0. pc = "stage" /\ dctx.stage = "frameHeader"
  BY DEF StoreFrameHeader, In
<1>1. PICK p, q : Now(p, q)
  BY <1>0, NowIs
<1>2. /\ Holds(s, f, dctx, p, q) /\ s \in Nat /\ IsFrame(f) /\ DOMAIN dctx = Fields
      /\ m \in Nat /\ Free \in Nat /\ p \in Nat /\ call.rest = Wire(s + p, m) /\ s \in Int /\ s + p \in Int
  <2>1. s \in Nat /\ s \in Int
    BY <1>1, NowFacts, SMT
  <2> QED BY <1>1, <2>1, NowFacts DEF Now, DecInv, DecShape
<1>3. p < HeaderLen(f) /\ dctx.header = Wire(s, p) /\ q = 0 /\ dctx.pending = 0
  BY <1>0, <1>2 DEF Holds, Inside, InHeader, Counted
<1>4. HeaderLen(f) \in {7, 15} /\ Len(dctx.header) = p
  BY <1>2, <1>3, FrameSums, WireIs
<1> DEFINE target == IF p < 7 THEN 7 ELSE 15
           t == Smaller(target - p, m)
           r == p + t
<1>5. HeaderTarget = target
  <2>1. 7 + 8 = 15
    BY SMT
  <2> QED BY <1>4, <2>1 DEF HeaderTarget, minFHSize
<1>6. /\ target - p \in Nat /\ target - p > 0
      /\ r < target => r < HeaderLen(f)
      /\ t \in Nat /\ t =< m /\ t \in 0 .. m /\ r \in Nat /\ r - p = t /\ target \in Nat
  <2>1. target - p \in Nat /\ target - p > 0 /\ (p >= 7 => HeaderLen(f) = 15) /\ target \in Nat
        /\ (target = 7 \/ (HeaderLen(f) = 15 /\ target = 15))
    <3> HIDE DEF f
    <3> QED BY <1>2, <1>3, <1>4, SMT
  <2> HIDE DEF target
  <2>2. t \in Nat /\ t =< m
    BY <1>2, <2>1, SmallerIs
  <2> HIDE DEF t
  <2>3. t \in 0 .. m /\ r \in Nat /\ r - p = t
    <3> HIDE DEF m
    <3>1. m \in Nat
      BY <1>2
    <3> QED BY <1>2, <2>2, <3>1, SMT
  <2>4. r < target => r < HeaderLen(f)
    <3> HIDE DEF f
    <3> QED BY <1>4, <2>1, <2>3, SMT
  <2> QED BY <2>1, <2>2, <2>3, <2>4
<1>7. h = Wire(s, r)
  <2>1. h = Wire(s, p) \o SubSeq(call.rest, 1, t)
    BY <1>3, <1>4, <1>5 DEF HeaderBytes
  <2> HIDE DEF h, t, r, m, s, f
  <2>2. SubSeq(Wire(s + p, m), 1, t) = Wire(s + p, t)
    BY <1>2, <1>6, WirePrefix
  <2>3. Wire(s, p) \o Wire(s + p, t) = Wire(s, p + t)
    BY <1>2, <1>6, WireConcat, ZenonT(60)
  <2> QED BY <1>2, <2>1, <2>2, <2>3 DEF r
<1>8. Len(h) = r /\ Len(h) - Len(dctx.header) = t
  <2> HIDE DEF h, t, r, s
  <2>1. Len(h) = r
    BY <1>2, <1>6, <1>7, WireIs
  <2> QED BY <1>4, <1>6, <2>1
<1>9. Moved(c, t, 0)
  <2> HIDE DEF t
  <2>1. c = Took(t)
    BY <1>8
  <2>2. Moved(Took(t), t, 0)
    BY TookMoves
  <2> QED BY <2>1, <2>2
<1>10. cur \in DOMAIN Frames /\ scenario \in DOMAIN Scenarios
  BY DEF DecInv, DecShape
<1>11. cur \in Announces(h)
  <2> HIDE DEF h, r, f
  <2> QED BY <1>7, <1>8, <1>10 DEF Announces
<1>12. ASSUME NEW i, i \in Announces(h), r \in Nat \ {0} PROVE i = cur
  <2>1. i \in DOMAIN Frames /\ Wire(s, r) = Wire(FrameStart(i), r)
    <3> HIDE DEF h, r
    <3> QED BY <1>7, <1>8, <1>12 DEF Announces
  <2>2. FrameStart(i) \in Int
    <3>1. FrameStart(i) \in Nat
      BY <1>10, <2>1, StartFacts
    <3> QED BY <3>1, SMT
  <2>3. s = FrameStart(i)
    <3> HIDE DEF s, r
    <3> QED BY <1>2, <1>12, <2>1, <2>2, WireApart
  <2> QED BY <1>10, <2>1, <2>3, StartFacts
\* What the code may do, by where the header ends.
<1>13. \/ r < HeaderLen(f) /\ dctx' = new /\ (GoOn(c) \/ Stop(c, "more"))
       \/ /\ r = HeaderLen(f) /\ dctx' = HeaderDecoded(cur)
          /\ GoOn(c) \/ (MemoryFails /\ Stop(c, "allocation"))
  <2>1. \/ r < target /\ dctx' = new /\ Stop(c, "more")
        \/ r = target /\ Announces(h) = {}
        \/ \E i \in Announces(h) :
             \/ r = target /\ r < HeaderLen(Frames[i]) /\ dctx' = new /\ GoOn(c)
             \/ /\ r = HeaderLen(Frames[i]) /\ dctx' = HeaderDecoded(i)
                /\ GoOn(c) \/ (MemoryFails /\ Stop(c, "allocation"))
    <3> HIDE DEF r, target
    <3> QED BY <1>5, <1>8 DEF StoreFrameHeader
  <2>2. ASSUME r < target, dctx' = new, Stop(c, "more") PROVE r < HeaderLen(f)
    BY <1>6, <2>2
  <2>3. Announces(h) # {}
    BY <1>11
  <2>4. ASSUME NEW i, i \in Announces(h), r = target \/ r = HeaderLen(Frames[i]) PROVE i = cur
    <3>1. IsFrame(Frames[i])
      BY <1>10, <2>4, StartFacts DEF Announces
    <3>2. HeaderLen(Frames[i]) \in {7, 15} /\ target \in {7, 15}
      BY <3>1, FrameSums
    <3>3. r \in Nat \ {0}
      <4> HIDE DEF r, target
      <4> QED BY <2>4, <3>2, SMT
    <3> QED BY <1>12, <2>4, <3>3
  <2> HIDE DEF r, target, h, new, c
  <2> QED BY <2>1, <2>2, <2>3, <2>4
<1>14. got + call.written = 0 /\ got \in Nat /\ call.written \in Nat /\ 0 \in Nat /\ 0 =< Free
       /\ got + call.written + 0 + 0 = 0 /\ got + call.written + 0 = 0
  <2>1. got + call.written + dctx.pending = 0 /\ got \in Nat /\ call.written \in Nat
    BY <1>1, <1>3, NowFacts DEF Now
  <2> HIDE DEF f, s, m
  <2> QED BY <1>2, <1>3, <2>1, SMT
<1>15. ASSUME r < HeaderLen(f), dctx' = new, GoOn(c) \/ Stop(c, "more") PROVE StageOk
  <2>1. /\ DOMAIN dctx' = Fields /\ dctx'.stage = "frameHeader" /\ dctx'.header = Wire(s, r)
        /\ dctx'.pending = dctx.pending /\ dctx'.remaining = dctx.remaining
    <3> HIDE DEF h, r, s
    <3>1. dctx' = [dctx EXCEPT !.header = Wire(s, r)]
      BY <1>7, <1>15
    <3> QED BY <1>0, <1>2, <3>1 DEF Fields
  <2>2. Holds(s, f, dctx', r, q)
    <3> HIDE DEF r, s, f
    <3> QED BY <1>0, <1>2, <1>6, <1>15, <2>1, MovesInHeader
  <2>3. Holds(FrameStart(cur), Frames[cur], dctx', p + t, q) /\ t =< Len(call.rest) /\ t \in Nat
    BY <1>6, <2>2
  <2>4. got + call.written + 0 + dctx'.pending = q
    BY <1>3, <1>14, <2>1
  <2> HIDE DEF t, c
  <2> QED BY <1>0, <1>1, <1>9, <1>14, <1>15, <2>1, <2>3, <2>4, StageMoves
<1>16. ASSUME r = HeaderLen(f), dctx' = HeaderDecoded(cur) PROVE
         /\ DOMAIN dctx' = Fields /\ dctx'.frame = cur /\ dctx'.pending = 0
         /\ Holds(FrameStart(cur), Frames[cur], dctx', p + t, 0)
  <2>1. /\ DOMAIN dctx' = Fields /\ dctx'.stage = "blockHeader" /\ dctx'.block = 0 /\ dctx'.have = 0
        /\ dctx'.pending = 0 /\ dctx'.frame = cur
        /\ dctx'.remaining = IF f.sized THEN Content(f) ELSE dctx.remaining
    <3> HIDE DEF r
    <3>1. dctx' = [NewDctx EXCEPT !.stage = "blockHeader", !.frame = cur,
                                  !.remaining = IF f.sized THEN Content(f) ELSE dctx.remaining]
      BY <1>16 DEF HeaderDecoded
    <3> HIDE DEF f
    <3> QED BY <3>1 DEF NewDctx, Fields
  <2>2. Holds(s, f, dctx', r, 0)
    <3> HIDE DEF r, s, f
    <3> QED BY <1>0, <1>2, <1>16, <2>1, MovesPastHeader
  <2> QED BY <2>1, <2>2
<1>17. ASSUME r = HeaderLen(f), dctx' = HeaderDecoded(cur), GoOn(c) PROVE StageOk
  <2>1. /\ DOMAIN dctx' = Fields /\ dctx'.frame = cur /\ dctx'.pending = 0
        /\ Holds(FrameStart(cur), Frames[cur], dctx', p + t, 0)
    BY <1>16, <1>17
  <2>2. t =< Len(call.rest) /\ t \in Nat
    BY <1>6
  <2>3. got + call.written + 0 + dctx'.pending = 0
    BY <1>14, <2>1
  <2> HIDE DEF t, c
  <2> QED BY <1>0, <1>1, <1>9, <1>14, <1>17, <2>1, <2>2, <2>3, StageMoves
<1>18. ASSUME r = HeaderLen(f), dctx' = HeaderDecoded(cur), MemoryFails, Stop(c, "allocation") PROVE StageOk
  <2>1. DOMAIN dctx' = Fields
    BY <1>16, <1>18
  <2> HIDE DEF t, c
  <2>2. /\ DOMAIN call' = CallFields /\ call'.written = call.written + 0 /\ call'.room = call.room
        /\ call'.factor = call.factor /\ call'.limit = call.limit /\ call'.result = "allocation" /\ pc' = "loop"
        /\ UNCHANGED <<self, fed, cur, got, spoiled>>
    BY <1>9, <1>18 DEF Stop, Moved, CallFields, Outside
  <2>3. call'.written \in 0 .. call.room
    <3>1. call.written \in 0 .. call.room /\ call.room \in Nat
      BY DEF DecInv, DecRoom
    <3>2. call.written + 0 = call.written
      BY <3>1, SMT
    <3> QED BY <2>2, <3>1, <3>2
  <2> QED BY <1>18, <2>1, <2>2, <2>3 DEF StageOk
<1> HIDE DEF r, c, new, f
<1> QED BY <1>13, <1>15, <1>17, <1>18

LEMMA StageIsOk == ASSUME DecInv, Stage, UNCHANGED scenario PROVE pc = "stage" /\ StageOk
<1>1. pc = "stage"
  BY DEF Stage, StoreFrameHeader, FieldShort, EndMark, BlockHeader, CopyDirect, BlockChecksum, DecodeBlock, FlushOut,
         Suffix, SuffixChecksum, WholeField, In
<1>2. StageOk
  BY StoreFrameHeaderOk, FieldShortOk, EndMarkOk, BlockHeaderOk, CopyDirectOk, BlockChecksumOk, DecodeBlockOk,
     FlushOutOk, SuffixOk, SuffixChecksumOk DEF Stage
<1> QED BY <1>1, <1>2

-----------------------------------------------------------------------------
(* The loop of __decompress, and the method around it                        *)

LEMMA NoCallIs ==
  /\ DOMAIN NoCall = CallFields /\ NoCall.rest = << >> /\ NoCall.room = 0 /\ NoCall.written = 0 /\ NoCall.factor = 1
  /\ NoCall.limit = -1 /\ NoCall.result = "more"
BY NewFields DEF NoCall

\* Between calls nothing is written.
LEMMA IdleRoom == ASSUME NEW c, c = NoCall PROVE
  /\ c.room \in Nat /\ c.written \in 0 .. c.room /\ c.factor \in Nat \ {0} /\ c.limit \in Nat \cup {-1}
  /\ c.limit >= 0 => c.room =< c.limit
<1>1. c.room = 0 /\ c.written = 0 /\ c.factor = 1 /\ c.limit = -1
  BY NoCallIs
<1> QED BY <1>1, SMT

LEMMA RaiseKeeps ==
  ASSUME CarefulReaders, DecInv, pc = "loop", MemoryFails, UNCHANGED scenario, Raise PROVE DecInv'
<1>1. pc' = "idle" /\ spoiled' = TRUE /\ call' = NoCall /\ UNCHANGED <<dctx, self, fed, cur, got>>
  BY DEF Raise
<1>2. DecShape'
  BY <1>1, NoCallIs DEF DecInv, DecShape, Frames
<1>3. DecRoom'
  BY <1>1, IdleRoom DEF DecRoom
<1>4. ~ self.eof
  BY CarefulFacts DEF DecInv, DecShape, DecPhase
<1>5. DecPhase'
  BY <1>1, <1>4, NoCallIs DEF DecInv, DecPhase, MemoryFails, Habits
<1>6. DecPlace'
  BY <1>1 DEF DecPlace, Reading, AtEnd
<1> QED BY <1>2, <1>3, <1>5, <1>6 DEF DecInv

LEMMA InputDoneIs ==
  ASSUME InputDone PROVE call.rest = << >>
BY DEF InputDone

LEMMA LoopEndKeeps ==
  ASSUME DecInv, pc = "loop", call.result = "end", UNCHANGED scenario, Give(TRUE) PROVE DecInv'
<1>1. /\ got' = got + call.written /\ pc' = "idle" /\ call' = NoCall /\ UNCHANGED <<dctx, fed, cur, spoiled>>
      /\ DOMAIN self = SelfFields /\ got \in Nat /\ call.written \in 0 .. call.room /\ call.room \in Nat
      /\ ~ spoiled
  BY DEF Give, DecInv, DecShape, DecRoom, DecPhase
<1>2. /\ DOMAIN self' = SelfFields /\ self'.eof = TRUE /\ self'.unused = call.rest
      /\ self'.unconsumed = self.unconsumed \/ self'.unconsumed = << >>
  <2>1. CASE InputDone
    <3>1. self' = [unconsumed |-> << >>, unused |-> << >>, eof |-> TRUE, needs_input |-> TRUE]
      BY <2>1 DEF Give
    <3>2. DOMAIN self' = SelfFields
      BY <3>1 DEF SelfFields
    <3> QED BY <2>1, <3>1, <3>2, InputDoneIs
  <2>2. CASE ~ InputDone
    <3>1. self' = [self EXCEPT !.unused = call.rest, !.eof = TRUE]
      BY <2>2 DEF Give
    <3> QED BY <1>1, <3>1 DEF SelfFields
  <2> QED BY <2>1, <2>2
<1>3. got' \in Nat /\ got' + 0 = got + call.written
  BY <1>1, SMT
<1>4. DecShape'
  BY <1>1, <1>2, <1>3, NoCallIs DEF DecInv, DecShape, Frames
<1>5. DecRoom'
  BY <1>1, IdleRoom DEF DecRoom
<1>6. DecPhase'
  BY <1>1, <1>2, NoCallIs DEF DecInv, DecPhase, MemoryFails, Habits
<1>7. DecPlace'
  <2>1. AtEnd /\ Surplus = call.rest
    BY <1>1 DEF AtEnd, Surplus
  <2>2. Ended(scenario, cur, dctx, call.rest, fed, got + call.written)
    BY <2>1 DEF DecInv, DecPlace
  <2>3. ~ Reading' /\ Surplus' = call.rest /\ got' + call'.written = got + call.written
    BY <1>1, <1>2, <1>3, NoCallIs DEF Reading, Surplus
  <2> QED BY <1>1, <2>2, <2>3 DEF DecPlace
<1> QED BY <1>4, <1>5, <1>6, <1>7 DEF DecInv

LEMMA LoopMoreKeeps ==
  ASSUME DecInv, pc = "loop", call.result = "more", InputDone \/ call.limit >= 0,
         UNCHANGED scenario, Give(FALSE) PROVE DecInv'
<1>1. /\ got' = got + call.written /\ pc' = "idle" /\ call' = NoCall /\ UNCHANGED <<dctx, fed, cur, spoiled>>
      /\ DOMAIN self = SelfFields /\ got \in Nat /\ call.written \in 0 .. call.room /\ call.room \in Nat
      /\ ~ spoiled
  BY DEF Give, DecInv, DecShape, DecRoom, DecPhase
<1>2. /\ DOMAIN self' = SelfFields /\ self'.eof = FALSE /\ self'.unconsumed = call.rest
  <2>1. CASE InputDone
    <3>1. self' = [unconsumed |-> << >>, unused |-> << >>, eof |-> FALSE, needs_input |-> TRUE]
      BY <2>1 DEF Give
    <3>2. DOMAIN self' = SelfFields
      BY <3>1 DEF SelfFields
    <3> QED BY <2>1, <3>1, <3>2, InputDoneIs
  <2>2. CASE ~ InputDone
    <3>1. self' = [self EXCEPT !.unconsumed = call.rest, !.needs_input = FALSE, !.eof = FALSE]
      BY <2>2 DEF Give
    <3> QED BY <1>1, <3>1 DEF SelfFields
  <2> QED BY <2>1, <2>2
<1>3. got' \in Nat /\ got' + 0 = got + call.written
  BY <1>1, SMT
<1>4. DecShape'
  BY <1>1, <1>2, <1>3, NoCallIs DEF DecInv, DecShape, Frames
<1>5. DecRoom'
  BY <1>1, IdleRoom DEF DecRoom
<1>6. "reuse" \in Habits => call.rest = << >>
  <2>1. "reuse" \in Habits => call.limit = -1
    BY DEF DecInv, DecPhase
  <2>2. ~ (-1 >= 0)
    BY SMT
  <2> QED BY <2>1, <2>2, InputDoneIs
<1>7. DecPhase'
  BY <1>1, <1>2, <1>6, NoCallIs DEF DecInv, DecPhase, MemoryFails, Habits
<1>8. DecPlace'
  <2>1. Reading /\ Held = call.rest
    BY <1>1 DEF Reading, Held
  <2>2. Reads(scenario, cur, dctx, call.rest, fed, got + call.written)
    BY <2>1 DEF DecInv, DecPlace
  <2>3. ~ AtEnd' /\ Held' = call.rest /\ got' + call'.written = got + call.written
    BY <1>1, <1>2, <1>3, NoCallIs DEF AtEnd, Held
  <2> QED BY <1>1, <2>2, <2>3 DEF DecPlace
<1> QED BY <1>4, <1>5, <1>7, <1>8 DEF DecInv

\* A larger buffer has room for what is written already.
LEMMA LoopAgainKeeps == ASSUME DecInv, LoopAgain, UNCHANGED scenario PROVE DecInv'
<1>1. /\ pc = "loop" /\ call.result = "more" /\ ~ (RoomDone /\ call.limit >= 0) /\ pc' = "stage"
      /\ call' = IF RoomDone THEN [call EXCEPT !.factor = 2 * @, !.room = @ * (2 * call.factor)] ELSE call
      /\ UNCHANGED <<self, fed, cur, got, spoiled, dctx>>
  BY DEF LoopAgain, GoesOn, Outside
<1>2. /\ DOMAIN call = CallFields /\ call.room \in Nat /\ call.written \in 0 .. call.room /\ call.factor \in Nat \ {0}
      /\ call.limit \in Nat \cup {-1} /\ (call.limit >= 0 => call.room =< call.limit)
  BY DEF DecInv, DecShape, DecRoom
<1>3. /\ DOMAIN call' = CallFields /\ call'.rest = call.rest /\ call'.written = call.written /\ call'.limit = call.limit
      /\ call'.result = "more"
      /\ \/ call'.factor = call.factor /\ call'.room = call.room
         \/ ~ (call.limit >= 0) /\ call'.factor = 2 * call.factor /\ call'.room = call.room * (2 * call.factor)
  BY <1>1, <1>2 DEF CallFields
<1>4. DecShape'
  BY <1>1, <1>3 DEF DecInv, DecShape, Frames
<1>5. DecRoom'
  <2>1. CASE call'.factor = call.factor /\ call'.room = call.room
    BY <1>2, <1>3, <2>1 DEF DecRoom
  <2>2. CASE ~ (call.limit >= 0) /\ call'.factor = 2 * call.factor /\ call'.room = call.room * (2 * call.factor)
    <3>1. ASSUME NEW a \in Nat, NEW b \in Nat \ {0}
          PROVE  2 * b \in Nat \ {0} /\ a * (2 * b) \in Nat /\ a =< a * (2 * b)
      BY <3>1, SMT
    <3>2. call'.factor \in Nat \ {0} /\ call'.room \in Nat /\ call.room =< call'.room
      BY <1>2, <2>2, <3>1
    <3>3. call.written \in 0 .. call'.room
      BY <1>2, <3>2, SMT
    <3> QED BY <1>2, <1>3, <2>2, <3>2, <3>3 DEF DecRoom
  <2> QED BY <1>3, <2>1, <2>2
<1>6. DecPhase'
  BY <1>1, <1>3 DEF DecInv, DecPhase, Habits, MemoryFails
<1>7. DecPlace'
  <2>1. Reading /\ Held = call.rest /\ Held' = call.rest /\ ~ AtEnd'
    BY <1>1, <1>3 DEF Reading, Held, AtEnd, DecInv, DecPhase
  <2> QED BY <1>1, <1>3, <2>1 DEF DecInv, DecPlace
<1> QED BY <1>4, <1>5, <1>6, <1>7 DEF DecInv

LEMMA LoopKeeps == ASSUME CarefulReaders, DecInv, Loop, UNCHANGED scenario PROVE DecInv'
<1>1. ASSUME LoopError PROVE DecInv'
  <2>1. pc = "loop" /\ call.result \in {"frameType", "frameSize", "allocation"} /\ Raise
    BY <1>1 DEF LoopError, Errors
  <2>2. MemoryFails
    BY <2>1 DEF DecInv, DecShape, DecPhase
  <2> QED BY <2>1, <2>2, RaiseKeeps
<1>2. ASSUME LoopEnd PROVE DecInv'
  BY <1>2, LoopEndKeeps, RaiseKeeps DEF LoopEnd, Return
<1>3. ASSUME LoopMore PROVE DecInv'
  BY <1>3, LoopMoreKeeps, RaiseKeeps DEF LoopMore, Return
<1>4. ASSUME LoopGrowFails PROVE DecInv'
  BY <1>4, RaiseKeeps DEF LoopGrowFails, GoesOn
<1> QED BY <1>1, <1>2, <1>3, <1>4, LoopAgainKeeps DEF Loop

-----------------------------------------------------------------------------
(* Calls                                                                     *)

LEMMA CallIs ==
  ASSUME NEW data, Len(data) \in Nat, NEW limit \in Nat \cup {-1}, Call(data, limit)
  PROVE  /\ pc = "idle" /\ pc' = "stage" /\ DOMAIN call' = CallFields /\ call'.rest = data /\ call'.written = 0
         /\ call'.limit = limit /\ call'.result = "more" /\ DecRoom'
<1>1. /\ pc = "idle" /\ pc' = "stage" /\ DOMAIN call' = CallFields /\ call'.rest = data /\ call'.limit = limit
      /\ call'.room = (IF limit >= 0 THEN limit ELSE 2 * Len(data)) /\ call'.written = 0 /\ call'.factor = 1
      /\ call'.result = "more"
  BY NoCallIs DEF Call, CallFields
<1>2. call'.room \in Nat /\ call'.written \in 0 .. call'.room /\ (call'.limit >= 0 => call'.room =< call'.limit)
      /\ call'.factor \in Nat \ {0}
  BY <1>1, SMT
<1> QED BY <1>1, <1>2 DEF DecRoom

\* What is given goes behind what is kept.
LEMMA GivenBehind ==
  ASSUME NEW a \in Nat, NEW b \in Nat, a =< b, NEW n \in Nat
  PROVE  LET data == Wire(a, b - a) \o Wire(b, n)
         IN  data = Wire(a, (b + n) - a) /\ Len(data) \in Nat /\ a =< b + n /\ b + n \in Nat
<1> DEFINE k == b - a
<1>1. k \in Nat /\ a + k = b /\ k + n = (b + n) - a /\ a \in Int /\ a =< b + n /\ b + n \in Nat /\ (b + n) - a \in Nat
  BY SMT
<1> HIDE DEF k
<1>2. Wire(a, k) \o Wire(a + k, n) = Wire(a, k + n)
  BY <1>1, WireConcat
<1>3. Len(Wire(a, (b + n) - a)) \in Nat
  BY <1>1, WireIs
<1> QED BY <1>1, <1>2, <1>3 DEF k

\* A call whose data starts where the context is, or at the frame's start.
LEMMA CallKeeps ==
  ASSUME CarefulReaders, DecInv, UNCHANGED scenario, NEW limit \in Lengths, NEW data, Len(data) \in Nat, Call(data, limit),
         ~ spoiled, self.eof => "reuse" \in Habits, UNCHANGED <<dctx, self, spoiled>>,
         fed' \in Nat, got' \in Nat, cur' \in DOMAIN Frames, Reads(scenario, cur', dctx, data, fed', got')
  PROVE  DecInv'
<1>1. limit \in Nat \cup {-1} /\ ("reuse" \in Habits => limit = -1)
  BY StartFacts, CarefulFacts DEF DecInv, DecShape
<1>2. /\ pc' = "stage" /\ DOMAIN call' = CallFields /\ call'.rest = data /\ call'.written = 0
      /\ call'.limit = limit /\ call'.result = "more" /\ DecRoom'
  BY <1>1, CallIs
<1>3. DecShape'
  BY <1>2 DEF DecInv, DecShape, Frames
<1>4. DecPhase'
  BY <1>1, <1>2 DEF DecInv, DecPhase, Habits, MemoryFails
<1>5. DecPlace'
  <2>1. Held' = data /\ ~ AtEnd'
    BY <1>2 DEF Held, AtEnd
  <2>2. got' + call'.written = got'
    <3>1. \A g \in Nat : g + 0 = g
      BY SMT
    <3> QED BY <1>2, <3>1
  <2> QED BY <2>1, <2>2 DEF DecPlace
<1> QED BY <1>2, <1>3, <1>4, <1>5 DEF DecInv

LEMMA decompressKeeps ==
  ASSUME CarefulReaders, DecInv, UNCHANGED scenario, NEW n \in Nat, NEW limit \in Lengths, decompress(n, limit)
  PROVE  DecInv'
<1>1. /\ pc = "idle" /\ ~ self.eof /\ ~ spoiled /\ fed' = fed + n /\ Call(self.unconsumed \o Wire(fed, n), limit)
      /\ UNCHANGED <<dctx, self, cur, got, spoiled>>
  BY DEF decompress, Call
<1>2. /\ scenario \in DOMAIN Scenarios /\ cur \in DOMAIN Frames /\ fed \in Nat /\ got \in Nat /\ call.written = 0
      /\ call.result = "more"
  BY <1>1, NoCallIs DEF DecInv, DecShape, DecPhase
<1>3. Reads(scenario, cur, dctx, self.unconsumed, fed, got)
  <2>1. Reading /\ Held = self.unconsumed
    BY <1>1, <1>2 DEF Reading, Held
  <2>2. got + call.written = got
    BY <1>2, SMT
  <2> QED BY <2>1, <2>2 DEF DecInv, DecPlace
<1> DEFINE s == Starts[scenario][cur]
<1>4. PICK p, q : /\ Holds(s, Scenarios[scenario].frames[cur], dctx, p, q)
                  /\ dctx.stage # "frameHeader" => dctx.frame = cur
                  /\ s + p =< fed
                  /\ self.unconsumed = Wire(s + p, fed - (s + p))
                  /\ got + dctx.pending = q
  BY <1>3 DEF Reads
<1>5. s + p \in Nat
  <2>1. s \in Nat
    BY <1>2, StartFacts DEF FrameStart
  <2>2. p \in Nat
    BY <1>4 DEF Holds
  <2> HIDE DEF s
  <2> QED BY <2>1, <2>2, SMT
<1> DEFINE data == self.unconsumed \o Wire(fed, n)
<1>6. data = Wire(s + p, fed' - (s + p)) /\ Len(data) \in Nat /\ s + p =< fed' /\ fed' \in Nat
  <2> DEFINE a == s + p
  <2>1. a \in Nat /\ a =< fed /\ data = Wire(a, fed - a) \o Wire(fed, n)
    BY <1>4, <1>5
  <2> HIDE DEF a, data
  <2>2. data = Wire(a, (fed + n) - a) /\ Len(data) \in Nat /\ a =< fed + n /\ fed + n \in Nat
    BY <1>2, <2>1, GivenBehind
  <2> QED BY <1>1, <2>2 DEF a
<1>7. Reads(scenario, cur, dctx, data, fed', got)
  BY <1>4, <1>6 DEF Reads
<1> HIDE DEF data, s
<1>8. Call(data, limit)
  BY <1>1 DEF data
<1> QED BY <1>1, <1>2, <1>6, <1>7, <1>8, CallKeeps

LEMMA reuseKeeps ==
  ASSUME CarefulReaders, DecInv, UNCHANGED scenario, NEW n \in Nat, NEW limit \in Lengths, reuse(n, limit)
  PROVE  DecInv' /\ cur' \in DOMAIN Frames
<1>1. /\ pc = "idle" /\ "reuse" \in Habits /\ self.eof /\ ~ spoiled /\ cur < Len(Frames) /\ fed' = fed + n
      /\ Call(self.unconsumed \o self.unused \o Wire(fed, n), limit)
      /\ cur' = cur + 1 /\ got' = 0
      /\ UNCHANGED <<dctx, self, spoiled>>
  BY DEF reuse, Call
<1>2. /\ scenario \in DOMAIN Scenarios /\ cur \in DOMAIN Frames /\ fed \in Nat /\ self.unconsumed = << >>
  BY <1>1 DEF DecInv, DecShape, DecPhase
<1> DEFINE a == FrameStart(cur + 1)
<1>3. cur + 1 \in DOMAIN Frames /\ a \in Nat /\ a = FrameEnd(cur)
  BY <1>1, <1>2, StartFacts
<1>4. Ended(scenario, cur, dctx, self.unused, fed, got + call.written)
  <2>1. AtEnd /\ Surplus = self.unused
    BY <1>1 DEF AtEnd, Surplus
  <2> QED BY <2>1 DEF DecInv, DecPlace
<1>5. /\ dctx.stage = "frameHeader" /\ dctx.header = << >> /\ dctx.pending = 0 /\ dctx.remaining = 0
      /\ a =< fed /\ self.unused = Wire(a, fed - a)
  BY <1>3, <1>4 DEF Ended, FrameEnd
<1> DEFINE data == self.unconsumed \o self.unused \o Wire(fed, n)
<1> HIDE DEF a
<1>6. data = Wire(a, fed' - a) /\ Len(data) \in Nat /\ a =< fed' /\ fed' \in Nat
  <2>1. << >> \o self.unused = self.unused
    <3>1. fed - a \in Nat /\ a \in Int
      BY <1>2, <1>3, <1>5, SMT
    <3>2. self.unused \in Seq(Int)
      BY <1>5, <3>1, WireIs
    <3> QED BY <3>2, ConcatEmptySeq
  <2>2. data = Wire(a, fed - a) \o Wire(fed, n)
    BY <1>2, <1>5, <2>1
  <2> HIDE DEF data
  <2>3. data = Wire(a, (fed + n) - a) /\ Len(data) \in Nat /\ a =< fed + n /\ fed + n \in Nat
    BY <1>2, <1>3, <1>5, <2>2, GivenBehind
  <2> QED BY <1>1, <2>3
<1> HIDE DEF data
<1>7. Reads(scenario, cur + 1, dctx, data, fed', 0)
  BY <1>2, <1>3, <1>5, <1>6, ReadsAnew DEF a
<1>8. Call(data, limit) /\ 0 \in Nat
  BY <1>1, SMT DEF data
<1> QED BY <1>1, <1>3, <1>6, <1>7, <1>8, CallKeeps

LEMMA resetKeeps ==
  ASSUME CarefulReaders, DecInv, UNCHANGED scenario, NEW i \in DOMAIN Frames, reset(i)
  PROVE  DecInv'
<1>1. /\ pc = "idle" /\ (("reset" \in Habits /\ (self.eof \/ spoiled)) \/ "abandon" \in Habits)
      /\ dctx' = ResetDctx(dctx) /\ self' = NewSelf
      /\ cur' = i /\ fed' = FrameStart(i) /\ got' = 0 /\ spoiled' = FALSE /\ pc' = pc /\ call' = call /\ call = NoCall
      /\ scenario \in DOMAIN Scenarios
  BY DEF reset, DecInv, DecShape, DecPhase
<1>2. /\ DOMAIN dctx' = Fields /\ DOMAIN self' = SelfFields /\ self'.eof = FALSE /\ self'.unconsumed = << >>
      /\ dctx'.stage = "frameHeader" /\ dctx'.header = << >> /\ dctx'.pending = 0 /\ dctx'.remaining = dctx.remaining
  BY <1>1, NewFields DEF NewSelf, ResetDctx, NewDctx
<1>3. FrameStart(i) \in Nat /\ FrameStart(i) =< FrameStart(i) /\ FrameStart(i) - FrameStart(i) = 0 /\ 0 \in Nat
      /\ FrameStart(i) \in Int
  <2>1. FrameStart(i) \in Nat
    BY <1>1, StartFacts
  <2> QED BY <2>1, SMT
\* The size left over counts for nothing, or nothing is left over.
<1>4. Frames[i].sized \/ dctx.remaining = 0
  <2>1. CASE \A j \in DOMAIN Frames : Frames[j].sized
    BY <2>1
  <2>2. CASE Habits \subseteq {"reset", "reuse"} /\ ~ MemoryFails
    <3>1. ~ spoiled /\ "abandon" \notin Habits
      BY <2>2 DEF DecInv, DecPhase
    <3>2. AtEnd
      BY <1>1, <3>1 DEF AtEnd
    <3> QED BY <3>2 DEF DecInv, DecPlace, Ended
  <2> QED BY <1>1, <2>1, <2>2, CarefulFacts
<1>5. << >> = Wire(FrameStart(i), FrameStart(i) - FrameStart(i))
  BY <1>3, WireEmpty
<1>6. Reads(scenario, i, dctx', << >>, FrameStart(i), 0)
  BY <1>1, <1>2, <1>3, <1>4, <1>5, ReadsAnew
<1>7. DecShape'
  BY <1>1, <1>2, <1>3 DEF DecInv, DecShape, Frames
<1>8. DecRoom'
  BY <1>1, IdleRoom DEF DecRoom
<1>9. DecPhase'
  BY <1>1, <1>2, NoCallIs DEF DecInv, DecPhase, Habits, MemoryFails
<1>10. DecPlace'
  <2>1. Held' = << >> /\ ~ AtEnd' /\ got' + call'.written = 0
    BY <1>1, <1>2, NoCallIs, SMT DEF Held, AtEnd
  <2> QED BY <1>1, <1>6, <2>1 DEF DecPlace
<1> QED BY <1>7, <1>8, <1>9, <1>10 DEF DecInv


LEMMA CallerKeeps == ASSUME CarefulReaders, DecInv, UNCHANGED scenario, Caller PROVE DecInv'
<1>1. CASE \E n \in 0 .. (WireLen - fed), limit \in Lengths : decompress(n, limit) \/ reuse(n, limit)
  <2>1. PICK n \in 0 .. (WireLen - fed), limit \in Lengths : decompress(n, limit) \/ reuse(n, limit)
    BY <1>1
  <2>2. n \in Nat
    BY SMT
  <2> QED BY <2>1, <2>2, decompressKeeps, reuseKeeps
<1>2. CASE \E i \in DOMAIN Frames : reset(i)
  BY <1>2, resetKeeps
<1> QED BY <1>1, <1>2 DEF Caller

LEMMA DecNext == ASSUME CarefulReaders, DecInv, [Next]_vars PROVE DecInv'
<1>1. CASE Next
  BY <1>1, CallerKeeps, StageIsOk, StageKeeps, LoopKeeps DEF Next, Step
<1>2. CASE UNCHANGED vars
  BY <1>2 DEF vars, DecInv, DecShape, DecRoom, DecPhase, DecPlace, Reading, AtEnd, Held, Surplus, Frames, Habits, MemoryFails
<1> QED BY <1>1, <1>2

THEOREM DecInvariant == ASSUME CarefulReaders PROVE Spec => []DecInv
<1>1. Init => DecInv
  BY DecInit
<1>2. DecInv /\ [Next]_vars => DecInv'
  BY DecNext
<1> QED BY <1>1, <1>2, PTL DEF Spec
-----------------------------------------------------------------------------
(* What it means                                                             *)

\* Every byte of the wire is read once and in order, and every byte decoded
\* is handed out or kept (__init__.py:411-425, _frame.c:1075-1077).
THEOREM EachByteOnce == ASSUME CarefulReaders PROVE Spec => []InOrder
<1>1. DecInv => InOrder
  <2> SUFFICES ASSUME DecInv, Reading
               PROVE  /\ dctx.stage # "frameHeader" => dctx.frame = cur
                      /\ Held = Wire(ReadTo, fed - ReadTo)
                      /\ got + call.written + dctx.pending = DecodedTo
                      /\ TheFrame.sized /\ dctx.stage # "frameHeader" => dctx.remaining = Content(TheFrame) - DecodedTo
    BY DEF InOrder, Held
  <2>1. Reads(scenario, cur, dctx, Held, fed, got + call.written) /\ scenario \in DOMAIN Scenarios /\ cur \in DOMAIN Frames
    BY DEF DecInv, DecShape, DecPlace
  <2>2. PICK p, q :
          /\ Holds(FrameStart(cur), Frames[cur], dctx, p, q)
          /\ dctx.stage # "frameHeader" => dctx.frame = cur
          /\ Held = Wire(FrameStart(cur) + p, fed - (FrameStart(cur) + p))
          /\ got + call.written + dctx.pending = q
    BY <2>1 DEF Reads, FrameStart, Frames
  <2>3. ReadTo = FrameStart(cur) + p /\ DecodedTo = q
    BY <2>1, <2>2, PositionIs
  <2>4. dctx.stage # "frameHeader" => TheFrame = Frames[cur]
    BY <2>2 DEF TheFrame
  <2>5. dctx.stage # "frameHeader" /\ Frames[cur].sized => dctx.remaining = Content(Frames[cur]) - q
    BY <2>2 DEF Holds, Counted
  <2> QED BY <2>2, <2>3, <2>4, <2>5
<1> QED BY <1>1, DecInvariant, PTL

\* No call writes past its room, nor returns more than max_length
\* (_frame.c:991-1014, 1134-1135).
THEOREM LimitsKept == ASSUME CarefulReaders PROVE Spec => []WithinLimit
<1>1. DecInv => WithinLimit
  <2> SUFFICES ASSUME DecInv PROVE WithinLimit
    OBVIOUS
  <2>1. /\ call.room \in Nat /\ call.written \in 0 .. call.room
        /\ call.limit >= 0 => call.room =< call.limit
    BY DEF DecInv, DecRoom
  <2>2. call.written =< call.room
    BY <2>1, SMT
  <2> QED BY <2>1, <2>2 DEF WithinLimit
<1> QED BY <1>1, DecInvariant, PTL

\* The end of a frame is reported with the last of its content, and
\* unused_data is what was given past it (__init__.py:421-432).
THEOREM EndIsExact == ASSUME CarefulReaders PROVE Spec => []EofExact
<1>1. DecInv => EofExact
  <2> SUFFICES ASSUME DecInv, self.eof, pc = "idle"
               PROVE  got = Content(Frames[cur]) /\ self.unused = Wire(FrameEnd(cur), fed - FrameEnd(cur))
    BY DEF EofExact
  <2>1. AtEnd /\ Surplus = self.unused
    BY DEF DecInv, DecPhase, AtEnd, Surplus
  <2>2. got + call.written = got
    <3>1. call.written = 0 /\ got \in Nat
      BY NoCallIs DEF DecInv, DecPhase, DecShape
    <3> QED BY <3>1, SMT
  <2> QED BY <2>1, <2>2 DEF DecInv, DecPlace, Ended, FrameEnd, Frames
<1> QED BY <1>1, DecInvariant, PTL

\* Whatever the cuts and the limits, a well-formed frame is not refused
\* (lz4frame.c:1338, 1927).
THEOREM NoneRefused == ASSUME CarefulReaders PROVE Spec => []NeverRefused
<1>1. DecInv => NeverRefused
  BY DEF DecInv, DecShape, NeverRefused
<1> QED BY <1>1, DecInvariant, PTL

-----------------------------------------------------------------------------
(* The refinement                                                            *)

Phase == IF spoiled THEN "spoiled" ELSE IF self.eof /\ pc = "idle" THEN "done" ELSE "reading"

\* What has come out is part of the content.
LEMMA OutOfContent ==
  ASSUME DecInv, Reading
  PROVE  got \in Nat /\ got + call.written \in Nat /\ got =< got + call.written /\ got + call.written =< Content(Frames[cur])
<1>1. Reads(scenario, cur, dctx, Held, fed, got + call.written)
  BY DEF DecInv, DecPlace
<1>2. PICK p, q : Holds(FrameStart(cur), Frames[cur], dctx, p, q) /\ got + call.written + dctx.pending = q
  BY <1>1 DEF Reads, FrameStart, Frames
<1>3. q \in Nat /\ q =< Content(Frames[cur]) /\ dctx.pending \in 0 .. q
  BY <1>2 DEF Holds, Counted
<1>4. got \in Nat /\ call.room \in Nat /\ call.written \in 0 .. call.room
  BY DEF DecInv, DecShape, DecRoom
<1>5. Content(Frames[cur]) \in Nat
  <2>1. IsFrame(Frames[cur])
    BY StartFacts DEF DecInv, DecShape
  <2> QED BY <2>1, FrameSums
<1> QED BY <1>2, <1>3, <1>4, <1>5, SMT

LEMMA ContentIsNat == ASSUME scenario \in DOMAIN Scenarios, NEW i, i \in DOMAIN Frames PROVE Content(Frames[i]) \in Nat
<1>1. IsFrame(Frames[i])
  BY StartFacts
<1> QED BY <1>1, FrameSums

\* The caller's view of each step: bytes of the content, its end, an error,
\* another frame, or nothing.
ReaderMove ==
  \/ UNCHANGED <<Phase, Content(Frames[cur]), got>>
  \/ /\ Phase = "reading" /\ Phase' = "reading" /\ UNCHANGED Content(Frames[cur])
     /\ got' \in Nat /\ got' >= got /\ got' <= Content(Frames[cur])
  \/ Phase = "reading" /\ Phase' = "done" /\ UNCHANGED Content(Frames[cur]) /\ got' = Content(Frames[cur])
  \/ Phase' = "spoiled" /\ UNCHANGED <<Content(Frames[cur]), got>>
  \/ Phase' = "reading" /\ Content(Frames[cur])' \in Nat /\ got' = 0

LEMMA RaiseMoves == ASSUME UNCHANGED scenario, Raise PROVE ReaderMove
<1>1. Phase' = "spoiled" /\ UNCHANGED <<Content(Frames[cur]), got>>
  BY DEF Raise, Phase, Frames
<1> QED BY <1>1 DEF ReaderMove

LEMMA CallMoves == ASSUME UNCHANGED scenario, DecInv, NEW n, NEW limit, decompress(n, limit) PROVE ReaderMove
<1>1. Phase' = Phase /\ UNCHANGED <<Content(Frames[cur]), got>>
  BY DEF decompress, Call, Phase, Frames
<1> QED BY <1>1 DEF ReaderMove

LEMMA LoopMoves == ASSUME UNCHANGED scenario, DecInv, Loop PROVE ReaderMove
<1>1. pc = "loop" /\ ~ spoiled /\ Phase = "reading"
  BY DEF Loop, LoopError, LoopEnd, LoopMore, LoopAgain, LoopGrowFails, GoesOn, DecInv, DecPhase, Phase
<1>2. ASSUME LoopError PROVE ReaderMove
  BY <1>2, RaiseMoves DEF LoopError
<1>3. ASSUME LoopEnd PROVE ReaderMove
  <2>1. CASE Give(TRUE)
    <3>1. AtEnd /\ Surplus = call.rest
      BY <1>1, <1>3 DEF LoopEnd, AtEnd, Surplus
    <3>2. got + call.written = Content(Frames[cur])
      BY <3>1 DEF DecInv, DecPlace, Ended, Frames
    <3>3. self'.eof = TRUE
      <4>1. CASE InputDone
        BY <2>1, <4>1 DEF Give
      <4>2. CASE ~ InputDone
        <5>1. self' = [self EXCEPT !.unused = call.rest, !.eof = TRUE]
          BY <2>1, <4>2 DEF Give
        <5>2. DOMAIN self = SelfFields
          BY DEF DecInv, DecShape
        <5> QED BY <5>1, <5>2 DEF SelfFields
      <4> QED BY <4>1, <4>2
    <3>4. Phase' = "done"
      BY <1>1, <2>1, <3>3 DEF Give, Phase
    <3>5. UNCHANGED Content(Frames[cur]) /\ got' = Content(Frames[cur])
      BY <2>1, <3>2 DEF Give, Frames
    <3> QED BY <1>1, <3>4, <3>5 DEF ReaderMove
  <2>2. CASE Raise
    BY <2>2, RaiseMoves
  <2> QED BY <1>3, <2>1, <2>2 DEF LoopEnd, Return
<1>4. ASSUME LoopMore PROVE ReaderMove
  <2>1. CASE Give(FALSE)
    <3>1. Reading
      BY <1>1, <1>4 DEF LoopMore, Reading
    <3>2. got \in Nat /\ got + call.written \in Nat /\ got =< got + call.written /\ got + call.written =< Content(Frames[cur])
      BY <3>1, OutOfContent
    <3>3. self'.eof = FALSE
      <4>1. CASE InputDone
        BY <2>1, <4>1 DEF Give
      <4>2. CASE ~ InputDone
        <5>1. self' = [self EXCEPT !.unconsumed = call.rest, !.needs_input = FALSE, !.eof = FALSE]
          BY <2>1, <4>2 DEF Give
        <5>2. DOMAIN self = SelfFields
          BY DEF DecInv, DecShape
        <5> QED BY <5>1, <5>2 DEF SelfFields
      <4> QED BY <4>1, <4>2
    <3>4. Phase' = "reading"
      BY <1>1, <2>1, <3>3 DEF Give, Phase
    <3>5. UNCHANGED Content(Frames[cur]) /\ got' = got + call.written
      BY <2>1 DEF Give, Frames
    <3>6. got' >= got /\ got' <= Content(Frames[cur]) /\ got' \in Nat
      BY <3>2, <3>5
    <3> QED BY <1>1, <3>4, <3>5, <3>6 DEF ReaderMove
  <2>2. CASE Raise
    BY <2>2, RaiseMoves
  <2> QED BY <1>4, <2>1, <2>2 DEF LoopMore, Return
<1>5. ASSUME LoopAgain PROVE ReaderMove
  <2>1. Phase' = Phase /\ UNCHANGED <<Content(Frames[cur]), got>>
    BY <1>1, <1>5 DEF LoopAgain, Outside, Phase, Frames
  <2> QED BY <2>1 DEF ReaderMove
<1>6. ASSUME LoopGrowFails PROVE ReaderMove
  BY <1>6, RaiseMoves DEF LoopGrowFails
<1> QED BY <1>2, <1>3, <1>4, <1>5, <1>6 DEF Loop

LEMMA StepMoves == ASSUME CarefulReaders, DecInv, [Next]_vars PROVE ReaderMove
<1>1. CASE UNCHANGED vars
  <2>1. UNCHANGED <<Phase, Content(Frames[cur]), got>>
    BY <1>1 DEF vars, Phase, Frames
  <2> QED BY <2>1 DEF ReaderMove
<1>2. CASE Stage /\ UNCHANGED scenario
  <2>1. pc = "stage" /\ StageOk
    BY <1>2, StageIsOk
  <2>2. pc' # "idle" /\ UNCHANGED <<scenario, self, fed, cur, got, spoiled>>
    BY <2>1 DEF StageOk
  <2>3. UNCHANGED <<Phase, Content(Frames[cur]), got>>
    BY <2>1, <2>2 DEF Phase, Frames
  <2> QED BY <2>3 DEF ReaderMove
<1>3. CASE Loop /\ UNCHANGED scenario
  BY <1>3, LoopMoves
<1>4. CASE Caller /\ UNCHANGED scenario
  <2>1. ASSUME NEW n \in 0 .. (WireLen - fed), NEW limit \in Lengths, reuse(n, limit) PROVE ReaderMove
    <3>1. n \in Nat
      BY SMT
    <3>2. cur' \in DOMAIN Frames /\ scenario \in DOMAIN Scenarios
      BY <1>4, <2>1, <3>1, reuseKeeps DEF DecInv, DecShape
    <3>3. Content(Frames[cur']) \in Nat
      BY <3>2, ContentIsNat
    <3>4. Phase' = "reading" /\ Content(Frames[cur])' = Content(Frames[cur']) /\ got' = 0
      BY <1>4, <2>1 DEF reuse, Call, Phase, Frames
    <3> QED BY <3>3, <3>4 DEF ReaderMove
  <2>2. ASSUME NEW i \in DOMAIN Frames, reset(i) PROVE ReaderMove
    <3>1. Content(Frames[i]) \in Nat
      BY ContentIsNat DEF DecInv, DecShape
    <3>2. Phase' = "reading" /\ Content(Frames[cur])' = Content(Frames[i]) /\ got' = 0
      BY <1>4, <2>2 DEF reset, Phase, Frames, NewSelf
    <3> QED BY <3>1, <3>2 DEF ReaderMove
  <2> QED BY <1>4, <2>1, <2>2, CallMoves DEF Caller
<1> QED BY <1>1, <1>2, <1>3, <1>4 DEF Next, Step

\* The decompressor is a FrameReader: what its calls return, one after
\* another, is the content, and eof comes with the last of it.
THEOREM ReaderRefines == ASSUME CarefulReaders PROVE Spec => ReaderSpec
<1>1. Init => Reader!ReaderInit
  <2> SUFFICES ASSUME Init PROVE Reader!ReaderInit
    OBVIOUS
  <2>1. DecInv
    BY DecInit
  <2>2. Content(Frames[cur]) \in Nat
    BY <2>1, ContentIsNat DEF DecInv, DecShape
  <2>3. spoiled = FALSE /\ self.eof = FALSE /\ got = 0
    BY DEF Init, NewSelf
  <2> QED BY <2>2, <2>3 DEF Reader!ReaderInit
<1>2. DecInv /\ [Next]_vars => [Reader!ReaderNext]_(Reader!rvars)
  <2> SUFFICES ASSUME DecInv, [Next]_vars PROVE [Reader!ReaderNext]_(Reader!rvars)
    OBVIOUS
  <2>1. ReaderMove
    BY StepMoves
  <2> QED BY <2>1 DEF ReaderMove, Phase, Reader!ReaderNext, Reader!rvars, Reader!Deliver, Reader!Finish, Reader!Spoil,
                      Reader!Restart
<1> QED BY <1>1, <1>2, DecInvariant, PTL DEF Spec, ReaderSpec, Reader!ReaderSpec

=============================================================================
