----------------------- MODULE LZ4FCompressionProofs -----------------------
(***************************************************************************)
(* What LZ4F_compressBegin, LZ4F_compressUpdate, LZ4F_flush and            *)
(* LZ4F_compressEnd preserve, for every window, block size, chunk and      *)
(* frame: the lemmas FrameContextProofs and FrameFileProofs rest on.       *)
(***************************************************************************)
EXTENDS LZ4FCompression, SumLemmas, SequenceTheorems

\* What a started context satisfies between calls.  Beyond the three parts
\* the runs check: the buffer is at least what begin asked for, and blocks
\* that are not linked are put together at its start.
Sound(c, next) ==
  /\ Roomy(c)
  /\ WaitingIs(c, next)
  /\ HistoryIs(c, next)
  /\ c.max >= RequiredBuffer(c.prefs)
  /\ c.prefs.linked \/ c.tmpIn = 0
-----------------------------------------------------------------------------
(* Memory.                                                                 *)

\* n bytes of mem at `at` are the content from position `from` on: the form in
\* which the proofs compare memory with content.
Holds(mem, at, n, from) == \A a \in at..(at + n - 1) : mem[a] = from + (a - at)

\* What a peek returns is content exactly when the memory holds it.
LEMMA PeekHolds ==
  ASSUME NEW mem, NEW at \in Int, NEW n \in Nat, NEW from \in Int
  PROVE  Peek(mem, at, n) = Positions(from, n) <=> Holds(mem, at, n, from)
<1>1. ASSUME Peek(mem, at, n) = Positions(from, n), NEW a \in at..(at + n - 1)
      PROVE  mem[a] = from + (a - at)
  <2>1. a - at + 1 \in 1..n
    OBVIOUS
  <2>2. Peek(mem, at, n)[a - at + 1] = mem[at + (a - at + 1) - 1]
    BY <2>1 DEF Peek
  <2>3. Positions(from, n)[a - at + 1] = from + (a - at + 1) - 1
    BY <2>1 DEF Positions
  <2> QED
    BY <1>1, <2>1, <2>2, <2>3
<1>2. ASSUME Holds(mem, at, n, from)
      PROVE  Peek(mem, at, n) = Positions(from, n)
  <2>1. \A i \in 1..n : mem[at + i - 1] = from + i - 1
    BY <1>2 DEF Holds
  <2> QED
    BY <2>1 DEF Peek, Positions
<1> QED
  BY <1>1, <1>2 DEF Holds

\* Storing n positions changes the bytes they are stored in and no other.
LEMMA StorePositions ==
  ASSUME NEW mem, NEW at \in Int, NEW n \in Nat, NEW from \in Int,
         NEW a \in DOMAIN mem, a \in Int
  PROVE  /\ a \in at..(at + n - 1) => Store(mem, at, Positions(from, n))[a] = from + (a - at)
         /\ a \notin at..(at + n - 1) => Store(mem, at, Positions(from, n))[a] = mem[a]
<1> DEFINE s == Positions(from, n)
<1>1. DOMAIN s = 1..n /\ \A i \in 1..n : s[i] = from + i - 1
  BY DEF Positions
<1>2. Store(mem, at, s)[a] = IF a - at + 1 \in DOMAIN s THEN s[a - at + 1] ELSE mem[a]
  BY DEF Store
<1>3. a - at + 1 \in 1..n <=> a \in at..(at + n - 1)
  OBVIOUS
<1> QED
  BY <1>1, <1>2, <1>3

\* Storing anything leaves memory where it is.
LEMMA StoreDomain ==
  ASSUME NEW mem, NEW at, NEW s
  PROVE  DOMAIN Store(mem, at, s) = DOMAIN mem
BY DEF Store
-----------------------------------------------------------------------------
(* The operators one by one, on a context whose fields have their C types. *)

\* What a caller may choose, in the form the other proofs use it.
LEMMA PreferenceTypes ==
  ASSUME NEW sizes \in SUBSET Nat, NEW p \in Preferences(sizes)
  PROVE  /\ p.block \in Nat /\ p.block > 0 /\ p.size \in Nat
         /\ p.linked \in BOOLEAN /\ p.autoFlush \in BOOLEAN
<1>1. p.block \in BlockSizes /\ p.size \in sizes
  BY DEF Preferences
<1>2. p.linked \in BOOLEAN /\ p.autoFlush \in BOOLEAN
  BY DEF Preferences
<1>3. p.block \in Nat \ {0}
  BY <1>1, BlockAssumption
<1>4. p.size \in Nat
  BY <1>1
<1> QED
  BY <1>2, <1>3, <1>4

\* The buffer begin asks for has room for what later calls put in it.
LEMMA RequiredBufferBounds ==
  ASSUME NEW sizes \in SUBSET Nat, NEW p \in Preferences(sizes)
  PROVE  /\ RequiredBuffer(p) \in Nat
         /\ p.linked => RequiredBuffer(p) >= Window
         /\ ~ p.autoFlush => RequiredBuffer(p) >= p.block
         /\ ~ p.autoFlush /\ p.linked => RequiredBuffer(p) >= p.block + Window
<1>1. p.block \in Nat /\ p.linked \in BOOLEAN /\ p.autoFlush \in BOOLEAN
  BY PreferenceTypes
<1>2. CASE p.autoFlush /\ p.linked
  BY <1>2, WindowAssumption DEF RequiredBuffer
<1>3. CASE p.autoFlush /\ ~ p.linked
  BY <1>3 DEF RequiredBuffer
<1>4. CASE ~ p.autoFlush /\ p.linked
  BY <1>1, <1>4, WindowAssumption DEF RequiredBuffer
<1>5. CASE ~ p.autoFlush /\ ~ p.linked
  BY <1>1, <1>5 DEF RequiredBuffer
<1> QED
  BY <1>1, <1>2, <1>3, <1>4, <1>5

\* begin makes a C struct of a C struct, ready for the first block.
LEMMA BeginSound ==
  ASSUME NEW sizes \in SUBSET Nat, NEW c, IsContext(c, sizes), NEW p \in Preferences(sizes)
  PROVE  /\ IsContext(Begin(c, p), sizes)
         /\ Begin(c, p).cStage = 1 /\ Begin(c, p).tmpInSize = 0
         /\ 0..(c.max - 1) \subseteq DOMAIN c.mem => Sound(Begin(c, p), 0)
<1> DEFINE b == Begin(c, p)
<1> DEFINE R == RequiredBuffer(p)
<1>1. R \in Nat /\ p.block \in Nat \ {0} /\ p.linked \in BOOLEAN /\ p.autoFlush \in BOOLEAN
  BY PreferenceTypes, RequiredBufferBounds
<1>2. b \in [cStage: {0, 1}, max: Nat, mem: {b.mem}, tmpIn: Nat, tmpInSize: Nat,
            total: Nat, dict: [in: {"tmp", "src"}, at: Nat, size: Nat],
            prefs: Preferences(sizes)]
  BY <1>1, ZenonT(60) DEF IsContext, Begin, NoDict, Span
<1>3. /\ b.cStage = 1 /\ b.tmpInSize = 0 /\ b.tmpIn = 0 /\ b.prefs = p
      /\ b.max = IF NeedsBuffer(c, p) THEN R ELSE c.max
      /\ b.mem = IF NeedsBuffer(c, p) THEN [a \in 0..(R - 1) |-> Garbage] ELSE c.mem
      /\ p.linked => b.dict = NoDict
  BY DEF IsContext, Begin
<1>4. IsContext(b, sizes)
  BY <1>1, <1>2, <1>3 DEF IsContext, Garbage
<1>5. ASSUME 0..(c.max - 1) \subseteq DOMAIN c.mem
      PROVE  Sound(b, 0)
  <2>1. b.max \in Nat /\ b.max >= R /\ 0..(b.max - 1) \subseteq DOMAIN b.mem
    BY <1>1, <1>3, <1>5 DEF NeedsBuffer, IsContext
  <2>2. Roomy(b)
    BY <1>1, <1>3, <2>1, RequiredBufferBounds, WindowAssumption DEF Roomy
  <2>3. WaitingIs(b, 0)
    <3>1. Holds(b.mem, 0, 0, 0)
      BY DEF Holds
    <3> QED
      BY <1>3, <3>1, PeekHolds DEF WaitingIs, Waiting, Span, Bytes
  <2>4. HistoryIs(b, 0)
    <3>1. Holds(b.mem, 0, 0, 0)
      BY DEF Holds
    <3>2. Peek(b.mem, 0, 0) = Positions(0, 0)
      BY <3>1, PeekHolds
    <3>3. SUFFICES ASSUME p.linked
                   PROVE  /\ b.dict.in = "tmp"
                          /\ b.dict.at + b.dict.size = b.tmpIn
                          /\ b.dict.at + b.dict.size <= b.max
                          /\ b.dict.size + b.tmpInSize <= 0
                          /\ Bytes(b.mem, b.dict) =
                               Positions(0 - b.tmpInSize - b.dict.size, b.dict.size)
      BY <1>3 DEF HistoryIs
    <3>4. b.dict.in = "tmp" /\ b.dict.at = 0 /\ b.dict.size = 0
      BY <1>3, <3>3 DEF NoDict, Span
    <3> QED
      BY <1>1, <1>3, <2>1, <3>2, <3>4 DEF Bytes
  <2> QED
    BY <1>3, <2>1, <2>2, <2>3, <2>4 DEF Sound
<1> QED
  BY <1>3, <1>4, <1>5

\* The part of Sound that holds inside a call as well, between one step of it
\* and the next, said of memory byte by byte.
Mem(c, next) ==
  /\ 0..(c.max - 1) \subseteq DOMAIN c.mem
  /\ c.max >= RequiredBuffer(c.prefs)
  /\ c.tmpInSize <= next
  /\ c.tmpIn + c.tmpInSize <= c.max
  /\ Holds(c.mem, c.tmpIn, c.tmpInSize, next - c.tmpInSize)
  /\ c.prefs.linked =>
       /\ c.dict.in = "tmp"
       /\ c.dict.at + c.dict.size = c.tmpIn
       /\ c.dict.size + c.tmpInSize <= next
       /\ Holds(c.mem, c.dict.at, c.dict.size, next - c.tmpInSize - c.dict.size)
  /\ c.prefs.linked \/ c.tmpIn = 0

\* What no step of compressUpdate or flush changes.
SameFrame(c, d) ==
  d.cStage = c.cStage /\ d.max = c.max /\ d.prefs = c.prefs /\ d.total = c.total

\* The types of a context's fields, one by one.
LEMMA ContextTypes ==
  ASSUME NEW sizes \in SUBSET Nat, NEW c, IsContext(c, sizes)
  PROVE  /\ c.max \in Nat /\ c.tmpIn \in Nat /\ c.tmpInSize \in Nat /\ c.total \in Nat
         /\ c.dict.at \in Nat /\ c.dict.size \in Nat /\ c.dict.in \in {"tmp", "src"}
         /\ c.dict = Span(c.dict.in, c.dict.at, c.dict.size)
         /\ c.prefs \in Preferences(sizes) /\ c.cStage \in {0, 1}
         /\ DOMAIN c.mem \subseteq Nat /\ c.mem \in [DOMAIN c.mem -> Int]
<1>1. /\ c.max \in Nat /\ c.tmpIn \in Nat /\ c.tmpInSize \in Nat /\ c.total \in Nat
      /\ c.prefs \in Preferences(sizes) /\ c.cStage \in {0, 1}
      /\ c.dict \in [in: {"tmp", "src"}, at: Nat, size: Nat]
      /\ DOMAIN c.mem \subseteq Nat /\ c.mem \in [DOMAIN c.mem -> Int]
  BY DEF IsContext
<1> QED
  BY <1>1 DEF Span

\* Between calls a context is Sound when its memory is right and has room.
LEMMA SoundIsMemAndRoomy ==
  ASSUME NEW sizes \in SUBSET Nat, NEW c, IsContext(c, sizes), NEW next \in Nat
  PROVE  Sound(c, next) <=> Mem(c, next) /\ Roomy(c)
<1>1. /\ c.max \in Nat /\ c.tmpIn \in Nat /\ c.tmpInSize \in Nat
      /\ c.dict.at \in Nat /\ c.dict.size \in Nat /\ c.dict.in \in {"tmp", "src"}
  BY ContextTypes
<1>2. c.prefs.block \in Nat /\ c.prefs.linked \in BOOLEAN /\ c.prefs.autoFlush \in BOOLEAN
  BY ContextTypes, PreferenceTypes
<1>3. c.tmpInSize <= next =>
        (WaitingIs(c, next) <=> Holds(c.mem, c.tmpIn, c.tmpInSize, next - c.tmpInSize))
  BY <1>1, PeekHolds DEF WaitingIs, Waiting, Span, Bytes
<1>4. ASSUME c.dict.in = "tmp"
      PROVE  Bytes(c.mem, c.dict) = Positions(next - c.tmpInSize - c.dict.size, c.dict.size)
               <=> Holds(c.mem, c.dict.at, c.dict.size, next - c.tmpInSize - c.dict.size)
  BY <1>1, <1>4, PeekHolds DEF Bytes
<1>5. ASSUME Sound(c, next)
      PROVE  Mem(c, next) /\ Roomy(c)
  <2>1. /\ Roomy(c) /\ c.tmpInSize <= next /\ 0..(c.max - 1) \subseteq DOMAIN c.mem
        /\ Holds(c.mem, c.tmpIn, c.tmpInSize, next - c.tmpInSize)
        /\ c.max >= RequiredBuffer(c.prefs) /\ (c.prefs.linked \/ c.tmpIn = 0)
    BY <1>3, <1>5 DEF Sound, WaitingIs, Roomy
  <2>2. c.prefs.linked =>
          /\ c.dict.in = "tmp"
          /\ c.dict.at + c.dict.size = c.tmpIn /\ c.tmpIn <= c.max
          /\ c.dict.size + c.tmpInSize <= next
          /\ Holds(c.mem, c.dict.at, c.dict.size, next - c.tmpInSize - c.dict.size)
    BY <1>4, <1>5 DEF Sound, HistoryIs
  <2>3. c.tmpIn + c.tmpInSize <= c.max
    <3>1. CASE c.prefs.autoFlush
      BY <1>1, <2>1, <2>2, <3>1 DEF Roomy
    <3>2. CASE ~ c.prefs.autoFlush
      BY <1>1, <1>2, <2>1, <3>2 DEF Roomy
    <3> QED
      BY <3>1, <3>2
  <2> QED
    BY <2>1, <2>2, <2>3 DEF Mem
<1>6. ASSUME Mem(c, next), Roomy(c)
      PROVE  Sound(c, next)
  <2>1. WaitingIs(c, next)
    BY <1>3, <1>6 DEF Mem
  <2>2. HistoryIs(c, next)
    <3>1. SUFFICES ASSUME c.prefs.linked
                   PROVE  /\ c.dict.in = "tmp"
                          /\ c.dict.at + c.dict.size = c.tmpIn
                          /\ c.dict.at + c.dict.size <= c.max
                          /\ c.dict.size + c.tmpInSize <= next
                          /\ Bytes(c.mem, c.dict) =
                               Positions(next - c.tmpInSize - c.dict.size, c.dict.size)
      BY DEF HistoryIs
    <3>2. /\ c.dict.in = "tmp" /\ c.dict.at + c.dict.size = c.tmpIn
          /\ c.tmpIn + c.tmpInSize <= c.max /\ c.dict.size + c.tmpInSize <= next
          /\ Holds(c.mem, c.dict.at, c.dict.size, next - c.tmpInSize - c.dict.size)
      BY <1>6, <3>1 DEF Mem
    <3> QED
      BY <1>1, <1>4, <3>2
  <2> QED
    BY <1>6, <2>1, <2>2 DEF Sound, Mem
<1> QED
  BY <1>5, <1>6

\* Gathering the next n bytes keeps memory right when there is room for them.
LEMMA GatherMem ==
  ASSUME NEW sizes \in SUBSET Nat, NEW c, IsContext(c, sizes),
         NEW next \in Nat, NEW n \in Nat, Mem(c, next),
         c.tmpIn + c.tmpInSize + n <= c.max
  PROVE  /\ IsContext(Gather(c, next, n), sizes)
         /\ Mem(Gather(c, next, n), next + n)
         /\ SameFrame(c, Gather(c, next, n))
<1> DEFINE g == Gather(c, next, n)
<1> DEFINE end == c.tmpIn + c.tmpInSize
<1>1. /\ c.max \in Nat /\ c.tmpIn \in Nat /\ c.tmpInSize \in Nat
      /\ c.dict.at \in Nat /\ c.dict.size \in Nat
      /\ DOMAIN c.mem \subseteq Nat /\ c.mem \in [DOMAIN c.mem -> Int]
  BY ContextTypes
<1>2. /\ g.cStage = c.cStage /\ g.max = c.max /\ g.tmpIn = c.tmpIn /\ g.total = c.total
      /\ g.dict = c.dict /\ g.prefs = c.prefs /\ g.tmpInSize = c.tmpInSize + n
      /\ g.mem = Store(c.mem, end, Positions(next, n))
  BY DEF IsContext, Gather
<1>3. g = [c EXCEPT !.mem = g.mem, !.tmpInSize = c.tmpInSize + n]
  BY <1>2 DEF Gather
<1>4. /\ DOMAIN g.mem = DOMAIN c.mem
      /\ \A a \in DOMAIN c.mem :
           /\ a \in end..(end + n - 1) => g.mem[a] = next + (a - end)
           /\ a \notin end..(end + n - 1) => g.mem[a] = c.mem[a]
  <2>1. end \in Int /\ next \in Int
    BY <1>1
  <2>2. DOMAIN g.mem = DOMAIN c.mem
    BY <1>2, StoreDomain
  <2>3. ASSUME NEW a \in DOMAIN c.mem
        PROVE  /\ a \in end..(end + n - 1) => g.mem[a] = next + (a - end)
               /\ a \notin end..(end + n - 1) => g.mem[a] = c.mem[a]
    <3>1. a \in Int
      BY <1>1
    <3> QED
      BY <1>2, <2>1, <3>1, StorePositions
  <2> QED
    BY <2>2, <2>3
<1>5. IsContext(g, sizes)
  <2>1. g.mem \in [DOMAIN g.mem -> Int]
    <3>1. \A a \in DOMAIN c.mem : g.mem[a] \in Int
      BY <1>1, <1>4
    <3>2. g.mem = [a \in DOMAIN g.mem |-> g.mem[a]]
      BY <1>2 DEF Store
    <3> QED
      BY <1>4, <3>1, <3>2
  <2>2. g \in [cStage: {0, 1}, max: Nat, mem: {g.mem}, tmpIn: Nat, tmpInSize: Nat,
              total: Nat, dict: [in: {"tmp", "src"}, at: Nat, size: Nat],
              prefs: Preferences(sizes)]
    <3>1. c.tmpInSize + n \in Nat
      BY <1>1
    <3> QED
      BY <1>3, <3>1 DEF IsContext
  <2> QED
    BY <1>1, <1>4, <2>1, <2>2 DEF IsContext
<1>6. 0..(c.max - 1) \subseteq DOMAIN c.mem
  BY DEF Mem
<1>7. Holds(g.mem, g.tmpIn, g.tmpInSize, next + n - g.tmpInSize)
  <2>1. SUFFICES ASSUME NEW a \in c.tmpIn..(c.tmpIn + c.tmpInSize + n - 1)
                 PROVE  g.mem[a] = next - c.tmpInSize + (a - c.tmpIn)
    BY <1>1, <1>2 DEF Holds
  <2>2. a \in DOMAIN c.mem
    BY <1>1, <1>6
  <2>3. CASE a \in end..(end + n - 1)
    BY <1>1, <1>4, <2>2, <2>3
  <2>4. CASE a \notin end..(end + n - 1)
    <3>1. a \in c.tmpIn..(c.tmpIn + c.tmpInSize - 1)
      BY <1>1, <2>4
    <3>2. c.mem[a] = next - c.tmpInSize + (a - c.tmpIn)
      BY <3>1 DEF Mem, Holds
    <3> QED
      BY <1>4, <2>2, <2>4, <3>2
  <2> QED
    BY <2>3, <2>4
<1>8. ASSUME c.prefs.linked
      PROVE  Holds(g.mem, g.dict.at, g.dict.size, next + n - g.tmpInSize - g.dict.size)
  <2>1. c.dict.at + c.dict.size = c.tmpIn
    BY <1>8 DEF Mem
  <2>2. SUFFICES ASSUME NEW a \in c.dict.at..(c.dict.at + c.dict.size - 1)
                 PROVE  g.mem[a] = next - c.tmpInSize - c.dict.size + (a - c.dict.at)
    BY <1>1, <1>2 DEF Holds
  <2>3. a \in DOMAIN c.mem /\ a \notin end..(end + n - 1)
    BY <1>1, <1>6, <2>1
  <2>4. c.mem[a] = next - c.tmpInSize - c.dict.size + (a - c.dict.at)
    BY <1>8 DEF Mem, Holds
  <2> QED
    BY <1>4, <2>3, <2>4
<1>9. Mem(g, next + n)
  BY <1>1, <1>2, <1>4, <1>7, <1>8 DEF Mem
<1>10. SameFrame(c, g)
  BY <1>2 DEF SameFrame
<1> QED
  BY <1>5, <1>9, <1>10

\* A block sent from the tmp buffer becomes history of the next where it lies.
LEMMA EmitMem ==
  ASSUME NEW sizes \in SUBSET Nat, NEW c, IsContext(c, sizes), NEW next \in Nat, Mem(c, next)
  PROVE  /\ IsContext(EmitWaiting(c), sizes)
         /\ Mem(EmitWaiting(c), next)
         /\ EmitWaiting(c).tmpInSize = 0
         /\ SameFrame(c, EmitWaiting(c))
<1> DEFINE g == EmitWaiting(c)
<1>1. /\ c.max \in Nat /\ c.tmpIn \in Nat /\ c.tmpInSize \in Nat
      /\ c.dict.at \in Nat /\ c.dict.size \in Nat /\ c.dict.in \in {"tmp", "src"}
      /\ c.dict = Span(c.dict.in, c.dict.at, c.dict.size)
  BY ContextTypes
<1>2. /\ g.cStage = c.cStage /\ g.max = c.max /\ g.total = c.total /\ g.mem = c.mem
      /\ g.prefs = c.prefs /\ g.tmpInSize = 0
      /\ g.tmpIn = IF c.prefs.linked THEN c.tmpIn + c.tmpInSize ELSE c.tmpIn
      /\ g.dict = IF c.prefs.linked THEN Continue(c.dict, Waiting(c)) ELSE c.dict
  BY DEF IsContext, EmitWaiting
<1>3. g = [c EXCEPT !.tmpInSize = 0, !.tmpIn = g.tmpIn, !.dict = g.dict]
  BY <1>2 DEF EmitWaiting
<1>4. ASSUME c.prefs.linked
      PROVE  \/ g.dict = Span("tmp", c.dict.at, c.dict.size + c.tmpInSize)
             \/ c.dict.size = 0 /\ g.dict = Span("tmp", c.tmpIn, c.tmpInSize)
  <2>1. c.dict.in = "tmp" /\ c.dict.at + c.dict.size = c.tmpIn
    BY <1>4 DEF Mem
  <2> QED
    BY <1>1, <1>2, <1>4, <2>1 DEF Continue, Waiting, Span
<1>5. IsContext(g, sizes)
  <2>1. g.tmpIn \in Nat /\ g.dict \in [in: {"tmp", "src"}, at: Nat, size: Nat]
    <3>1. CASE c.prefs.linked
      BY <1>1, <1>2, <1>4, <3>1 DEF Span
    <3>2. CASE ~ c.prefs.linked
      BY <1>2, <3>2 DEF IsContext
    <3> QED
      BY <3>1, <3>2
  <2> QED
    BY <1>2, <1>3, <2>1 DEF IsContext
<1>6. Mem(g, next)
  <2>1. CASE ~ c.prefs.linked
    BY <1>1, <1>2, <2>1 DEF Mem, Holds
  <2>2. CASE c.prefs.linked
    <3>1. /\ c.dict.at + c.dict.size = c.tmpIn /\ c.dict.size + c.tmpInSize <= next
          /\ c.tmpIn + c.tmpInSize <= c.max
      BY <2>2 DEF Mem
    <3>2. /\ g.dict.in = "tmp" /\ g.dict.at \in Nat /\ g.dict.size \in Nat
          /\ g.dict.at + g.dict.size = g.tmpIn /\ g.dict.size <= next
          /\ g.dict.at >= c.dict.at
      BY <1>1, <1>2, <1>4, <2>2, <3>1 DEF Span
    <3>3. Holds(g.mem, g.dict.at, g.dict.size, next - g.dict.size)
      <4>1. SUFFICES ASSUME NEW a \in g.dict.at..(g.dict.at + g.dict.size - 1)
                     PROVE  c.mem[a] = next - g.dict.size + (a - g.dict.at)
        BY <1>2 DEF Holds
      <4>2. CASE a \in c.tmpIn..(c.tmpIn + c.tmpInSize - 1)
        <5>1. c.mem[a] = next - c.tmpInSize + (a - c.tmpIn)
          BY <4>2 DEF Mem, Holds
        <5> QED
          BY <1>1, <1>2, <2>2, <3>2, <5>1
      <4>3. CASE a \in c.dict.at..(c.dict.at + c.dict.size - 1)
        <5>1. c.mem[a] = next - c.tmpInSize - c.dict.size + (a - c.dict.at)
          BY <2>2, <4>3 DEF Mem, Holds
        <5> QED
          BY <1>1, <1>2, <2>2, <3>1, <3>2, <5>1
      <4> QED
        BY <1>1, <1>2, <2>2, <3>1, <3>2, <4>2, <4>3
    <3> QED
      BY <1>1, <1>2, <2>2, <3>1, <3>2, <3>3 DEF Mem, Holds
  <2> QED
    BY <2>1, <2>2
<1> QED
  BY <1>2, <1>5, <1>6 DEF SameFrame

\* Saving linked history, wherever it lies, brings what of it a match can reach
\* to the start of the tmp buffer, with the next block right after it.
LEMMA SaveDictMem ==
  ASSUME NEW sizes \in SUBSET Nat, NEW c, IsContext(c, sizes), NEW next \in Nat,
         0..(c.max - 1) \subseteq DOMAIN c.mem, c.max >= RequiredBuffer(c.prefs),
         c.prefs.linked, c.tmpInSize = 0, c.dict.size <= next,
         \/ c.dict.in = "src" /\ c.dict.at = next - c.dict.size
         \/ c.dict.in = "tmp" /\ Holds(c.mem, c.dict.at, c.dict.size, next - c.dict.size)
  PROVE  /\ IsContext(SaveDict(c), sizes)
         /\ Mem(SaveDict(c), next)
         /\ SaveDict(c).tmpIn <= Window
         /\ SaveDict(c).tmpInSize = 0
         /\ SameFrame(c, SaveDict(c))
<1> DEFINE g == SaveDict(c)
<1> DEFINE real == Smaller(Window, c.dict.size)
<1> DEFINE kept == Span(c.dict.in, c.dict.at + c.dict.size - real, real)
<1>1. /\ c.max \in Nat /\ c.tmpIn \in Nat /\ c.tmpInSize \in Nat
      /\ c.dict.at \in Nat /\ c.dict.size \in Nat /\ c.dict.in \in {"tmp", "src"}
      /\ DOMAIN c.mem \subseteq Nat /\ c.mem \in [DOMAIN c.mem -> Int]
  BY ContextTypes
<1>2. real \in Nat /\ real <= Window /\ real <= c.dict.size
  BY <1>1, WindowAssumption DEF Smaller
<1>3. /\ g.cStage = c.cStage /\ g.max = c.max /\ g.tmpIn = real /\ g.total = c.total
      /\ g.dict = Span("tmp", 0, real) /\ g.prefs = c.prefs /\ g.tmpInSize = c.tmpInSize
      /\ g.mem = Store(c.mem, 0, Bytes(c.mem, kept))
  BY DEF IsContext, SaveDict
<1>4. g = [c EXCEPT !.mem = g.mem, !.dict = g.dict, !.tmpIn = g.tmpIn]
  BY <1>3 DEF SaveDict
<1>5. c.max >= Window
  <2>1. RequiredBuffer(c.prefs) \in Nat /\ RequiredBuffer(c.prefs) >= Window
    BY ContextTypes, RequiredBufferBounds
  <2> QED
    BY <1>1, <2>1, WindowAssumption
<1>6. Bytes(c.mem, kept) = Positions(next - real, real)
  <2>1. kept.in = c.dict.in /\ kept.at = c.dict.at + c.dict.size - real /\ kept.size = real
    BY DEF Span
  <2>2. CASE c.dict.in = "src" /\ c.dict.at = next - c.dict.size
    <3>1. kept.at = next - real
      BY <1>1, <1>2, <2>1, <2>2
    <3> QED
      BY <2>1, <2>2, <3>1 DEF Bytes
  <2>3. CASE c.dict.in = "tmp" /\ Holds(c.mem, c.dict.at, c.dict.size, next - c.dict.size)
    <3>1. Holds(c.mem, kept.at, real, next - real)
      BY <1>1, <1>2, <2>1, <2>3 DEF Holds
    <3>2. Peek(c.mem, kept.at, real) = Positions(next - real, real)
      BY <1>1, <1>2, <2>1, <3>1, PeekHolds
    <3> QED
      BY <2>1, <2>3, <3>2 DEF Bytes
  <2> QED
    BY <2>2, <2>3
<1>7. /\ DOMAIN g.mem = DOMAIN c.mem
      /\ \A a \in DOMAIN c.mem :
           /\ a \in 0..(real - 1) => g.mem[a] = next - real + a
           /\ a \notin 0..(real - 1) => g.mem[a] = c.mem[a]
  <2>1. DOMAIN g.mem = DOMAIN c.mem
    BY <1>3, StoreDomain
  <2>2. ASSUME NEW a \in DOMAIN c.mem
        PROVE  /\ a \in 0..(real - 1) => g.mem[a] = next - real + a
               /\ a \notin 0..(real - 1) => g.mem[a] = c.mem[a]
    <3>1. a \in Int /\ next - real \in Int /\ 0 \in Int /\ 0 + real - 1 = real - 1
      BY <1>1, <1>2
    <3>2. /\ a \in 0..(real - 1) => g.mem[a] = next - real + (a - 0)
          /\ a \notin 0..(real - 1) => g.mem[a] = c.mem[a]
      BY <1>2, <1>3, <1>6, <3>1, StorePositions
    <3> QED
      BY <1>2, <3>1, <3>2
  <2> QED
    BY <2>1, <2>2
<1>8. IsContext(g, sizes)
  <2>1. g.mem \in [DOMAIN g.mem -> Int]
    <3>1. \A a \in DOMAIN c.mem : g.mem[a] \in Int
      BY <1>1, <1>2, <1>7
    <3>2. g.mem = [a \in DOMAIN g.mem |-> g.mem[a]]
      BY <1>3 DEF Store
    <3> QED
      BY <1>7, <3>1, <3>2
  <2>2. g.dict \in [in: {"tmp", "src"}, at: Nat, size: Nat] /\ g.tmpIn \in Nat
    BY <1>2, <1>3 DEF Span
  <2>3. g \in [cStage: {0, 1}, max: Nat, mem: {g.mem}, tmpIn: Nat, tmpInSize: Nat,
              total: Nat, dict: [in: {"tmp", "src"}, at: Nat, size: Nat],
              prefs: Preferences(sizes)]
    BY <1>4, <2>2 DEF IsContext
  <2> QED
    BY <1>1, <1>7, <2>1, <2>3 DEF IsContext
<1>9. Mem(g, next)
  <2>1. Holds(g.mem, 0, real, next - real)
    <3>1. SUFFICES ASSUME NEW a \in 0..(real - 1)
                   PROVE  g.mem[a] = next - real + a
      BY <1>2 DEF Holds
    <3>2. a \in DOMAIN c.mem
      BY <1>1, <1>2, <1>5, WindowAssumption
    <3> QED
      BY <1>7, <3>2
  <2>2. g.dict.in = "tmp" /\ g.dict.at = 0 /\ g.dict.size = real
    BY <1>3 DEF Span
  <2>3. Holds(g.mem, g.tmpIn, g.tmpInSize, next - g.tmpInSize)
    BY <1>2, <1>3 DEF Holds
  <2>4. g.tmpIn + g.tmpInSize <= g.max /\ g.dict.size + g.tmpInSize <= next
    BY <1>1, <1>2, <1>3, <1>5, <2>2, WindowAssumption
  <2>5. Holds(g.mem, g.dict.at, g.dict.size, next - g.tmpInSize - g.dict.size)
    BY <1>2, <1>3, <2>1, <2>2
  <2> QED
    BY <1>2, <1>3, <1>7, <2>2, <2>3, <2>4, <2>5 DEF Mem
<1> QED
  BY <1>2, <1>3, <1>8, <1>9 DEF SameFrame

\* Nothing waiting, the buffer is tidied so that a whole block fits behind the
\* history; what it holds stays right.
LEMMA KeepWithinLimitsMem ==
  ASSUME NEW sizes \in SUBSET Nat, NEW c, IsContext(c, sizes), NEW next \in Nat,
         Mem(c, next), c.tmpInSize = 0, ~ c.prefs.autoFlush
  PROVE  /\ IsContext(KeepWithinLimits(c), sizes)
         /\ Mem(KeepWithinLimits(c), next)
         /\ KeepWithinLimits(c).tmpInSize = 0
         /\ KeepWithinLimits(c).tmpIn + c.prefs.block <= c.max
         /\ SameFrame(c, KeepWithinLimits(c))
<1>1. /\ c.max \in Nat /\ c.tmpIn \in Nat /\ c.dict.size \in Nat /\ c.dict.at \in Nat
      /\ c.prefs \in Preferences(sizes)
  BY ContextTypes
<1>2. c.prefs.block \in Nat /\ c.prefs.linked \in BOOLEAN
  BY <1>1, PreferenceTypes
<1>3. /\ RequiredBuffer(c.prefs) \in Nat /\ RequiredBuffer(c.prefs) >= c.prefs.block
      /\ c.prefs.linked => RequiredBuffer(c.prefs) >= c.prefs.block + Window
  BY <1>1, RequiredBufferBounds
<1>4. CASE ~ (c.tmpIn + c.prefs.block > c.max)
  <2>1. KeepWithinLimits(c) = c
    BY <1>4 DEF KeepWithinLimits
  <2>2. SameFrame(c, c)
    BY DEF SameFrame
  <2>3. c.tmpIn + c.prefs.block <= c.max
    BY <1>1, <1>2, <1>4
  <2> QED
    BY <2>1, <2>2, <2>3
<1>5. CASE c.tmpIn + c.prefs.block > c.max
  <2>1. c.max >= RequiredBuffer(c.prefs) /\ (c.prefs.linked \/ c.tmpIn = 0)
    BY DEF Mem
  <2>2. c.prefs.linked
    BY <1>1, <1>2, <1>3, <1>5, <2>1
  <2>3. KeepWithinLimits(c) = SaveDict(c)
    BY <1>5 DEF KeepWithinLimits
  <2>4. /\ 0..(c.max - 1) \subseteq DOMAIN c.mem /\ c.dict.size <= next /\ c.dict.in = "tmp"
        /\ Holds(c.mem, c.dict.at, c.dict.size, next - c.dict.size)
    BY <1>1, <2>2 DEF Mem
  <2>5. /\ IsContext(SaveDict(c), sizes) /\ Mem(SaveDict(c), next)
        /\ SaveDict(c).tmpIn <= Window /\ SaveDict(c).tmpInSize = 0
        /\ SameFrame(c, SaveDict(c))
    BY <2>1, <2>2, <2>4, SaveDictMem
  <2>6. SaveDict(c).tmpIn + c.prefs.block <= c.max
    <3>1. SaveDict(c).tmpIn \in Nat
      BY <2>5, ContextTypes
    <3> QED
      BY <1>1, <1>2, <1>3, <2>1, <2>2, <2>5, <3>1, WindowAssumption
  <2> QED
    BY <2>3, <2>5, <2>6
<1> QED
  BY <1>4, <1>5
-----------------------------------------------------------------------------
(* LZ4F_compressUpdate.                                                    *)

\* A call's bytes are those that top up the tmp buffer, those compressed where
\* they lie, and those left to wait: less than a block, and none with autoFlush.
LEMMA UpdateSplit ==
  ASSUME NEW sizes \in SUBSET Nat, NEW c, IsContext(c, sizes), NEW n \in Nat,
         c.prefs.autoFlush => c.tmpInSize = 0,
         ~ c.prefs.autoFlush => c.tmpInSize < c.prefs.block
  PROVE  /\ Filled(c, n) \in Nat /\ Direct(c, n) \in Nat /\ Left(c, n) \in Nat
         /\ Filled(c, n) + Direct(c, n) + Left(c, n) = n
         /\ c.prefs.autoFlush => Filled(c, n) = 0 /\ Left(c, n) = 0
         /\ ~ c.prefs.autoFlush => /\ Left(c, n) < c.prefs.block
                                   /\ c.tmpInSize + Filled(c, n) <= c.prefs.block
         /\ c.tmpInSize = 0 => Filled(c, n) = 0
         /\ Completes(c, n) => c.tmpInSize + Filled(c, n) = c.prefs.block
         /\ ~ Completes(c, n) /\ c.tmpInSize > 0 =>
              Filled(c, n) = n /\ Direct(c, n) = 0 /\ Left(c, n) = 0
<1> DEFINE filled == Filled(c, n)
<1> DEFINE left == n - filled
<1> DEFINE B == c.prefs.block
<1>1. c.tmpInSize \in Nat /\ B \in Nat /\ B > 0 /\ c.prefs.autoFlush \in BOOLEAN
  BY ContextTypes, PreferenceTypes
<1>2. /\ filled \in Nat /\ left \in Nat
      /\ c.tmpInSize = 0 => filled = 0
      /\ c.tmpInSize > 0 => filled = Smaller(n, B - c.tmpInSize)
  <2>1. CASE c.tmpInSize = 0
    BY <2>1 DEF Filled
  <2>2. CASE c.tmpInSize > 0
    <3>1. ~ c.prefs.autoFlush /\ c.tmpInSize < B
      BY <1>1, <2>2
    <3>2. filled = Smaller(n, B - c.tmpInSize)
      BY <2>2 DEF Filled
    <3> QED
      BY <1>1, <2>2, <3>1, <3>2 DEF Smaller
  <2> QED
    BY <1>1, <2>1, <2>2
<1>3. left % B \in 0..(B - 1) /\ left % B <= left /\ (left < B => left % B = left)
  <2> HIDE DEF filled, left, B
  <2> QED
    BY <1>1, <1>2
<1>4. Direct(c, n) = IF c.prefs.autoFlush THEN left ELSE left - (left % B)
  BY DEF Direct
<1>5. Left(c, n) = IF c.prefs.autoFlush THEN 0 ELSE left % B
  <2> HIDE DEF filled, B
  <2>1. Left(c, n) = n - filled - Direct(c, n)
    BY DEF Left, filled
  <2> HIDE DEF left
  <2>2. left = n - filled
    BY DEF left
  <2> QED
    BY <1>1, <1>2, <1>3, <1>4, <2>1, <2>2
<1>6. Direct(c, n) \in Nat /\ Left(c, n) \in Nat /\ filled + Direct(c, n) + Left(c, n) = n
  <2>1. left = n - filled
    OBVIOUS
  <2> HIDE DEF filled, left, B
  <2>2. left % B \in Nat /\ left - (left % B) \in Nat
    BY <1>1, <1>2, <1>3
  <2>3. CASE c.prefs.autoFlush
    BY <1>2, <1>4, <1>5, <2>1, <2>3
  <2>4. CASE ~ c.prefs.autoFlush
    BY <1>2, <1>4, <1>5, <2>1, <2>2, <2>4
  <2> QED
    BY <2>3, <2>4
<1>7. ASSUME ~ c.prefs.autoFlush
      PROVE  Left(c, n) < B /\ c.tmpInSize + filled <= B
  <2>1. Left(c, n) < B
    <3> HIDE DEF filled, left, B
    <3> QED
      BY <1>1, <1>3, <1>5, <1>7
  <2>2. c.tmpInSize + filled <= B
    BY <1>1, <1>2, <1>7 DEF Smaller
  <2> QED
    BY <2>1, <2>2
<1>8. ASSUME c.tmpInSize > 0
      PROVE  /\ Completes(c, n) => c.tmpInSize + filled = B
             /\ ~ Completes(c, n) => filled = n /\ Direct(c, n) = 0 /\ Left(c, n) = 0
  <2>1. ~ c.prefs.autoFlush /\ c.tmpInSize < B
    BY <1>1, <1>8
  <2>2. Completes(c, n) <=> c.tmpInSize + n >= B
    BY <1>8 DEF Completes
  <2>3. Completes(c, n) => c.tmpInSize + filled = B
    BY <1>1, <1>2, <1>8, <2>2 DEF Smaller
  <2>4. ~ Completes(c, n) => filled = n
    BY <1>1, <1>2, <1>8, <2>2 DEF Smaller
  <2>5. filled = n => Direct(c, n) = 0 /\ Left(c, n) = 0
    <3> HIDE DEF filled
    <3> QED
      BY <1>6 DEF filled
  <2> QED
    BY <2>3, <2>4, <2>5
<1>9. c.prefs.autoFlush => filled = 0 /\ Left(c, n) = 0
  BY <1>2, <1>5
<1>10. Completes(c, n) => c.tmpInSize > 0
  BY DEF Completes
<1> QED
  BY <1>2, <1>6, <1>7, <1>8, <1>9, <1>10

\* The tmp buffer topped up.
LEMMA AfterFillMem ==
  ASSUME NEW sizes \in SUBSET Nat, NEW c, IsContext(c, sizes), NEW next \in Nat,
         NEW n \in Nat, Sound(c, next)
  PROVE  LET c1 == AfterFill(c, next, n)
         IN  /\ IsContext(c1, sizes) /\ Mem(c1, next + Filled(c, n)) /\ SameFrame(c, c1)
             /\ c1.tmpIn = c.tmpIn /\ c1.tmpInSize = c.tmpInSize + Filled(c, n)
             /\ Filled(c, n) \in Nat /\ Direct(c, n) \in Nat
             /\ Completes(c, n) => c.tmpInSize + Filled(c, n) = c.prefs.block
             /\ ~ Completes(c, n) /\ Direct(c, n) > 0 => c.tmpInSize = 0 /\ Filled(c, n) = 0
<1> DEFINE filled == Filled(c, n)
<1> DEFINE c1 == AfterFill(c, next, n)
<1>1. /\ c.max \in Nat /\ c.tmpIn \in Nat /\ c.tmpInSize \in Nat
      /\ c.prefs.block \in Nat /\ c.prefs.autoFlush \in BOOLEAN
  BY ContextTypes, PreferenceTypes
<1>2. Mem(c, next) /\ Roomy(c)
  BY SoundIsMemAndRoomy
<1>3. /\ c.prefs.autoFlush => c.tmpInSize = 0
      /\ ~ c.prefs.autoFlush =>
           c.tmpInSize < c.prefs.block /\ c.tmpIn + c.prefs.block <= c.max
  BY <1>2 DEF Roomy
<1>4. /\ filled \in Nat /\ Direct(c, n) \in Nat
      /\ c.prefs.autoFlush => filled = 0
      /\ ~ c.prefs.autoFlush => c.tmpInSize + filled <= c.prefs.block
      /\ Completes(c, n) => c.tmpInSize + filled = c.prefs.block
      /\ c.tmpInSize = 0 => filled = 0
      /\ ~ Completes(c, n) /\ c.tmpInSize > 0 => Direct(c, n) = 0
  BY <1>3, UpdateSplit
<1>5. c.tmpIn + c.tmpInSize + filled <= c.max
  <2>1. c.tmpIn + c.tmpInSize <= c.max
    BY <1>2 DEF Mem
  <2> HIDE DEF filled
  <2> QED
    BY <1>1, <1>3, <1>4, <2>1
<1>6. IsContext(c1, sizes) /\ Mem(c1, next + filled) /\ SameFrame(c, c1)
  <2>1. c1 = Gather(c, next, filled)
    BY DEF AfterFill
  <2>2. Mem(c, next) /\ filled \in Nat
    BY <1>2, <1>4
  <2> HIDE DEF filled, c1
  <2> QED
    BY <1>5, <2>1, <2>2, GatherMem
<1>7. c1.tmpIn = c.tmpIn /\ c1.tmpInSize = c.tmpInSize + filled
  BY DEF AfterFill, Gather, IsContext
<1>8. ~ Completes(c, n) /\ Direct(c, n) > 0 => c.tmpInSize = 0 /\ filled = 0
  <2> HIDE DEF filled
  <2> QED BY <1>1, <1>4
<1> QED
  BY <1>4, <1>6, <1>7, <1>8

\* The tmp buffer topped up, and sent when that completes a block.
LEMMA AfterTmpBlockMem ==
  ASSUME NEW sizes \in SUBSET Nat, NEW c, IsContext(c, sizes), NEW next \in Nat,
         NEW n \in Nat, Sound(c, next)
  PROVE  LET c2 == AfterTmpBlock(c, next, n)
         IN  /\ IsContext(c2, sizes)
             /\ Mem(c2, next + Filled(c, n))
             /\ SameFrame(c, c2)
             /\ c2.tmpInSize = IF Completes(c, n) THEN 0 ELSE c.tmpInSize + Filled(c, n)
             /\ ~ Completes(c, n) => c2.tmpIn = c.tmpIn
<1> DEFINE filled == Filled(c, n)
<1> DEFINE c1 == AfterFill(c, next, n)
<1> DEFINE c2 == AfterTmpBlock(c, next, n)
<1>4. filled \in Nat
  BY AfterFillMem
<1>6. IsContext(c1, sizes) /\ Mem(c1, next + filled) /\ SameFrame(c, c1)
  BY AfterFillMem
<1>7. c1.tmpIn = c.tmpIn /\ c1.tmpInSize = c.tmpInSize + filled
  BY DEF AfterFill, Gather, IsContext
<1>8. CASE ~ Completes(c, n)
  <2>1. c2 = c1
    BY <1>8 DEF AfterTmpBlock
  <2> QED
    BY <1>6, <1>7, <1>8, <2>1
<1>9. CASE Completes(c, n)
  <2>1. c2 = EmitWaiting(c1)
    BY <1>9 DEF AfterTmpBlock
  <2>2. next + filled \in Nat
    BY <1>4
  <2>3. /\ IsContext(EmitWaiting(c1), sizes) /\ Mem(EmitWaiting(c1), next + filled)
        /\ EmitWaiting(c1).tmpInSize = 0 /\ SameFrame(c1, EmitWaiting(c1))
    <3> HIDE DEF c1, filled
    <3> QED
      BY <1>6, <2>2, EmitMem
  <2>4. SameFrame(c, c2)
    <3> HIDE DEF c1, c2
    <3> QED
      BY <1>6, <2>1, <2>3 DEF SameFrame
  <2> QED
    BY <1>9, <2>1, <2>3, <2>4
<1> QED
  BY <1>8, <1>9

\* The bytes compressed from the caller's buffer are content given, and with
\* linked blocks the history they leave is moved out of that buffer.
LEMMA AfterDirectMem ==
  ASSUME NEW sizes \in SUBSET Nat, NEW c, IsContext(c, sizes), NEW next \in Nat,
         NEW n \in Nat, Sound(c, next)
  PROVE  LET c3 == AfterDirect(c, next, n)
         IN  /\ IsContext(c3, sizes)
             /\ Mem(c3, next + Filled(c, n) + Direct(c, n))
             /\ SameFrame(c, c3)
             /\ c3.tmpInSize = IF Completes(c, n) THEN 0 ELSE c.tmpInSize + Filled(c, n)
             /\ c3.tmpInSize > 0 => c3.tmpIn = c.tmpIn
<1> DEFINE filled == Filled(c, n)
<1> DEFINE direct == Direct(c, n)
<1> DEFINE c2 == AfterTmpBlock(c, next, n)
<1> DEFINE c3 == AfterDirect(c, next, n)
<1>1. c.tmpInSize \in Nat /\ c.prefs.linked \in BOOLEAN /\ c.prefs.autoFlush \in BOOLEAN
  BY ContextTypes, PreferenceTypes
<1>2. /\ c.prefs.autoFlush => c.tmpInSize = 0
      /\ ~ c.prefs.autoFlush => c.tmpInSize < c.prefs.block
  BY <1>1 DEF Sound, Roomy
<1>3. /\ filled \in Nat /\ direct \in Nat
      /\ c.tmpInSize = 0 => filled = 0
      /\ ~ Completes(c, n) /\ c.tmpInSize > 0 => direct = 0
  BY <1>2, UpdateSplit
<1>4. /\ IsContext(c2, sizes) /\ Mem(c2, next + filled)
      /\ SameFrame(c, c2)
      /\ c2.tmpInSize = IF Completes(c, n) THEN 0 ELSE c.tmpInSize + filled
      /\ ~ Completes(c, n) => c2.tmpIn = c.tmpIn
  BY AfterTmpBlockMem
<1>5. SameFrame(c, c2)
  BY <1>4
<1>6. direct > 0 => c2.tmpInSize = 0
  <2> HIDE DEF filled, direct, c2
  <2> QED
    BY <1>1, <1>3, <1>4
<1>7. /\ c2.max \in Nat /\ c2.tmpIn \in Nat /\ c2.tmpInSize \in Nat
      /\ c2.dict.at \in Nat /\ c2.dict.size \in Nat
  BY <1>4, ContextTypes
<1>8. CASE direct = 0
  <2>1. c3 = c2
    BY <1>8 DEF AfterDirect
  <2>2. next + filled + direct = next + filled
    <3> HIDE DEF filled, direct
    <3> QED
      BY <1>3, <1>8
  <2>3. c2.tmpInSize > 0 => c2.tmpIn = c.tmpIn
    BY <1>4
  <2> QED
    BY <1>4, <1>5, <2>1, <2>2, <2>3
<1>9. CASE direct > 0 /\ ~ c.prefs.linked
  <2>1. c3 = c2
    BY <1>9 DEF AfterDirect
  <2>2. c2.prefs = c.prefs
    BY <1>5 DEF SameFrame
  <2>3. Mem(c2, next + filled + direct)
    <3> HIDE DEF filled, direct, c2
    <3>1. Holds(c2.mem, c2.tmpIn, c2.tmpInSize, next + filled + direct - c2.tmpInSize)
      BY <1>6, <1>7, <1>9 DEF Holds
    <3> QED
      BY <1>3, <1>4, <1>6, <1>7, <1>9, <2>2, <3>1 DEF Mem
  <2>4. ~ (c2.tmpInSize > 0)
    BY <1>6, <1>9
  <2> QED
    BY <1>4, <1>5, <2>1, <2>3, <2>4
<1>10. CASE direct > 0 /\ c.prefs.linked
  <2> DEFINE cd == [c2 EXCEPT !.dict = Span("src", next + filled, direct)]
  <2> DEFINE to == next + filled + direct
  <2>1. c3 = SaveDict(cd)
    BY <1>10 DEF AfterDirect
  <2>2. to \in Nat /\ next + filled \in Nat /\ next + filled = to - direct /\ direct <= to
    <3> HIDE DEF filled, direct
    <3> QED
      BY <1>3
  <2>3. /\ cd.dict.in = "src" /\ cd.dict.at = next + filled /\ cd.dict.size = direct
        /\ cd.mem = c2.mem /\ cd.max = c2.max /\ cd.prefs = c2.prefs /\ cd.tmpInSize = 0
        /\ cd.tmpIn = c2.tmpIn /\ cd.cStage = c2.cStage /\ cd.total = c2.total
    <3>1. cd.dict = Span("src", next + filled, direct)
      BY <1>4 DEF IsContext
    <3>2. /\ cd.mem = c2.mem /\ cd.max = c2.max /\ cd.prefs = c2.prefs
          /\ cd.tmpInSize = c2.tmpInSize /\ cd.tmpIn = c2.tmpIn /\ cd.cStage = c2.cStage
          /\ cd.total = c2.total
      BY <1>4 DEF IsContext
    <3> QED
      BY <1>6, <1>10, <3>1, <3>2 DEF Span
  <2>4. IsContext(cd, sizes)
    <3>1. Span("src", next + filled, direct) \in [in: {"tmp", "src"}, at: Nat, size: Nat]
      BY <1>3, <2>2 DEF Span
    <3> HIDE DEF filled, direct, c2
    <3> QED
      BY <1>4, <3>1 DEF IsContext
  <2>5. c2.prefs = c.prefs
    BY <1>5 DEF SameFrame
  <2>6. 0..(cd.max - 1) \subseteq DOMAIN cd.mem /\ cd.max >= RequiredBuffer(cd.prefs)
    BY <1>4, <2>3 DEF Mem
  <2>7. cd.prefs.linked /\ cd.tmpInSize = 0 /\ cd.dict.size <= to
        /\ cd.dict.in = "src" /\ cd.dict.at = to - cd.dict.size
    BY <1>10, <2>2, <2>3, <2>5
  <2>8. /\ IsContext(SaveDict(cd), sizes) /\ Mem(SaveDict(cd), to)
        /\ SaveDict(cd).tmpInSize = 0 /\ SameFrame(cd, SaveDict(cd))
    <3> HIDE DEF cd, to
    <3> QED
      BY <2>2, <2>4, <2>6, <2>7, SaveDictMem
  <2>9. c2.tmpInSize = 0
    BY <1>6, <1>10
  <2>10. SameFrame(c, SaveDict(cd))
    <3> HIDE DEF cd, c2
    <3> QED
      BY <1>5, <2>3, <2>8 DEF SameFrame
  <2> HIDE DEF cd, c3, c2
  <2> QED
    BY <1>4, <2>1, <2>8, <2>9, <2>10 DEF c3
<1>11. direct = 0 \/ direct > 0
  <2> HIDE DEF direct
  <2> QED
    BY <1>3
<1> QED
  BY <1>8, <1>9, <1>10, <1>11

\* The buffer is then tidied where a block may have to wait in it.
LEMMA AfterLimitsMem ==
  ASSUME NEW sizes \in SUBSET Nat, NEW c, IsContext(c, sizes), NEW next \in Nat,
         NEW n \in Nat, Sound(c, next)
  PROVE  LET c4 == AfterLimits(c, next, n)
         IN  /\ IsContext(c4, sizes)
             /\ Mem(c4, next + Filled(c, n) + Direct(c, n))
             /\ SameFrame(c, c4)
             /\ c4.tmpInSize = IF Completes(c, n) THEN 0 ELSE c.tmpInSize + Filled(c, n)
             /\ ~ c.prefs.autoFlush => c4.tmpIn + c.prefs.block <= c.max
<1> DEFINE c3 == AfterDirect(c, next, n)
<1> DEFINE c4 == AfterLimits(c, next, n)
<1> DEFINE to == next + Filled(c, n) + Direct(c, n)
<1>1. c.prefs.autoFlush \in BOOLEAN
  BY ContextTypes, PreferenceTypes
<1>2. /\ IsContext(c3, sizes) /\ Mem(c3, to) /\ SameFrame(c, c3)
      /\ c3.tmpInSize = IF Completes(c, n) THEN 0 ELSE c.tmpInSize + Filled(c, n)
      /\ c3.tmpInSize > 0 => c3.tmpIn = c.tmpIn
  BY AfterDirectMem
<1>3. c3.prefs = c.prefs /\ c3.max = c.max /\ c3.tmpInSize \in Nat
  BY <1>2, ContextTypes DEF SameFrame
<1>4. CASE c.prefs.autoFlush
  <2>1. c4 = c3
    BY <1>4 DEF AfterLimits
  <2> QED
    BY <1>2, <1>4, <2>1
<1>5. CASE ~ c.prefs.autoFlush
  <2>1. c4 = KeepWithinLimits(c3)
    BY <1>5 DEF AfterLimits
  <2>2. CASE c3.tmpInSize = 0
    <3>1. to \in Nat
      <4>1. Filled(c, n) \in Nat /\ Direct(c, n) \in Nat
        BY <1>5, UpdateSplit DEF Sound, Roomy
      <4> QED
        BY <4>1
    <3>2. /\ IsContext(KeepWithinLimits(c3), sizes) /\ Mem(KeepWithinLimits(c3), to)
          /\ KeepWithinLimits(c3).tmpInSize = 0 /\ SameFrame(c3, KeepWithinLimits(c3))
          /\ KeepWithinLimits(c3).tmpIn + c3.prefs.block <= c3.max
      <4> HIDE DEF c3, to
      <4> QED
        BY <1>2, <1>3, <1>5, <2>2, <3>1, KeepWithinLimitsMem
    <3> HIDE DEF c3, c4, to
    <3> QED
      BY <1>2, <1>3, <2>1, <2>2, <3>2 DEF SameFrame, c4, to
  <2>3. CASE c3.tmpInSize > 0
    <3>1. c3.tmpIn + c3.prefs.block <= c3.max
      BY <1>2, <1>3, <1>5, <2>3 DEF Sound, Roomy
    <3>2. c3.tmpIn \in Nat /\ c3.max \in Nat /\ c3.prefs.block \in Nat
      BY <1>2, ContextTypes, PreferenceTypes
    <3>3. c4 = c3
      <4> HIDE DEF c3, c4
      <4> QED
        BY <2>1, <3>1, <3>2 DEF KeepWithinLimits
    <3> QED
      BY <1>2, <1>3, <3>1, <3>3
  <2> HIDE DEF c3
  <2> QED
    BY <1>3, <2>2, <2>3
<1> QED
  BY <1>1, <1>4, <1>5

\* A call to compressUpdate leaves the context as sound as it found it, and
\* every byte it was given in a block or waiting.
LEMMA UpdateSound ==
  ASSUME NEW sizes \in SUBSET Nat, NEW c, IsContext(c, sizes), NEW next \in Nat,
         NEW n \in Nat, Sound(c, next)
  PROVE  LET u == Update(c, next, n)
         IN  /\ IsContext(u, sizes)
             /\ Sound(u, next + n)
             /\ u.cStage = c.cStage /\ u.prefs = c.prefs /\ u.total = c.total + n
             /\ UpdateBytes(c, n) \in Nat
             /\ UpdateBytes(c, n) + u.tmpInSize = c.tmpInSize + n
<1> DEFINE filled == Filled(c, n)
<1> DEFINE direct == Direct(c, n)
<1> DEFINE left == Left(c, n)
<1> DEFINE c4 == AfterLimits(c, next, n)
<1> DEFINE c5 == IF left > 0 THEN Gather(c4, next + n - left, left) ELSE c4
<1> DEFINE u == Update(c, next, n)
<1> DEFINE B == c.prefs.block
<1> DEFINE to == next + filled + direct
<1>1. /\ c.tmpInSize \in Nat /\ c.max \in Nat /\ c.prefs \in Preferences(sizes)
      /\ B \in Nat /\ B > 0 /\ c.prefs.linked \in BOOLEAN /\ c.prefs.autoFlush \in BOOLEAN
  BY ContextTypes, PreferenceTypes
<1>2. /\ c.prefs.autoFlush => c.tmpInSize = 0
      /\ ~ c.prefs.autoFlush => c.tmpInSize < B
  BY <1>1 DEF Sound, Roomy
<1>3. /\ filled \in Nat /\ direct \in Nat /\ left \in Nat /\ filled + direct + left = n
      /\ c.prefs.autoFlush => filled = 0 /\ left = 0
      /\ ~ c.prefs.autoFlush => left < B /\ c.tmpInSize + filled <= B
      /\ c.tmpInSize = 0 => filled = 0
      /\ Completes(c, n) => c.tmpInSize + filled = B
      /\ ~ Completes(c, n) /\ c.tmpInSize > 0 => filled = n /\ direct = 0 /\ left = 0
  BY <1>2, UpdateSplit
<1>4. /\ IsContext(c4, sizes) /\ Mem(c4, to) /\ SameFrame(c, c4)
      /\ c4.tmpInSize = IF Completes(c, n) THEN 0 ELSE c.tmpInSize + filled
      /\ ~ c.prefs.autoFlush => c4.tmpIn + B <= c.max
  BY AfterLimitsMem
<1>5. /\ c4.tmpInSize \in Nat /\ c4.tmpIn \in Nat /\ c4.max \in Nat
      /\ c4.prefs = c.prefs /\ c4.max = c.max /\ c4.cStage = c.cStage
  BY <1>4, ContextTypes DEF SameFrame
<1>6. /\ left > 0 => c4.tmpInSize = 0 /\ ~ c.prefs.autoFlush
      /\ to \in Nat /\ next + n - left = to /\ to + left = next + n
      /\ Completes(c, n) => ~ c.prefs.autoFlush
  <2>1. Completes(c, n) => c.tmpInSize > 0
    BY DEF Completes
  <2> HIDE DEF filled, direct, left, c4
  <2>2. left > 0 => ~ c.prefs.autoFlush
    BY <1>3
  <2>3. left > 0 => c4.tmpInSize = 0
    BY <1>1, <1>3, <1>4
  <2>4. to \in Nat /\ next + n - left = to /\ to + left = next + n
    BY <1>3
  <2>5. Completes(c, n) => ~ c.prefs.autoFlush
    BY <1>1, <1>2, <2>1
  <2> QED
    BY <2>2, <2>3, <2>4, <2>5
<1>7. /\ IsContext(c5, sizes) /\ Mem(c5, next + n) /\ SameFrame(c, c5)
      /\ c5.tmpIn = c4.tmpIn
      /\ c5.tmpInSize = c4.tmpInSize + left
  <2>1. CASE left > 0
    <3>1. c5 = Gather(c4, to, left)
      BY <1>6, <2>1
    <3>2. c4.tmpIn + c4.tmpInSize + left <= c4.max
      <4> HIDE DEF left, c4, B
      <4> QED
        BY <1>1, <1>3, <1>4, <1>5, <1>6, <2>1
    <3>3. /\ IsContext(Gather(c4, to, left), sizes) /\ Mem(Gather(c4, to, left), to + left)
          /\ SameFrame(c4, Gather(c4, to, left))
      <4> HIDE DEF left, c4, to
      <4> QED
        BY <1>3, <1>4, <1>6, <3>2, GatherMem
    <3>4. /\ Gather(c4, to, left).tmpIn = c4.tmpIn
          /\ Gather(c4, to, left).tmpInSize = c4.tmpInSize + left
      <4> HIDE DEF left, c4, to
      <4> QED
        BY <1>4 DEF Gather, IsContext
    <3> HIDE DEF c5, c4, left, to
    <3> QED
      BY <1>4, <1>6, <3>1, <3>3, <3>4 DEF SameFrame
  <2>2. CASE left = 0
    <3>1. c5 = c4
      BY <2>2
    <3> HIDE DEF c5, c4, left, to
    <3> QED
      BY <1>3, <1>4, <1>5, <1>6, <2>2, <3>1
  <2> HIDE DEF left
  <2> QED
    BY <1>3, <2>1, <2>2
<1>8. u = [c5 EXCEPT !.total = @ + n]
  BY DEF Update
<1>9. /\ u.cStage = c.cStage /\ u.max = c.max /\ u.prefs = c.prefs /\ u.mem = c5.mem
      /\ u.tmpIn = c5.tmpIn /\ u.tmpInSize = c5.tmpInSize /\ u.dict = c5.dict
      /\ u.total = c.total + n
  <2> HIDE DEF c5, u
  <2> QED
    BY <1>7, <1>8 DEF IsContext, SameFrame
<1>10. IsContext(u, sizes)
  <2>1. c5.total \in Nat /\ c5.total = c.total
    BY <1>7, ContextTypes DEF SameFrame
  <2> HIDE DEF c5, u
  <2> QED
    BY <1>7, <1>8, <1>9, <2>1 DEF IsContext
<1>11. Mem(u, next + n)
  <2>1. c5.max = c.max /\ c5.prefs = c.prefs
    BY <1>7 DEF SameFrame
  <2> HIDE DEF c5, u
  <2> QED
    BY <1>7, <1>9, <2>1 DEF Mem
<1>12. Roomy(u)
  <2>1. c.prefs.linked => c.max >= Window
    BY DEF Sound, Roomy
  <2>2. 0..(u.max - 1) \subseteq DOMAIN u.mem
    BY <1>11 DEF Mem
  <2>3. CASE c.prefs.autoFlush
    <3>1. u.tmpInSize = 0
      <4> HIDE DEF filled, left, c4, c5, u
      <4> QED
        BY <1>2, <1>3, <1>4, <1>6, <1>7, <1>9, <2>3
    <3> QED
      BY <1>9, <2>1, <2>2, <2>3, <3>1 DEF Roomy
  <2>4. CASE ~ c.prefs.autoFlush
    <3>1. u.tmpIn + B <= u.max
      BY <1>4, <1>7, <1>9, <2>4
    <3>2. u.tmpInSize < B
      <4>1. CASE Completes(c, n) \/ c.tmpInSize = 0
        <5> HIDE DEF filled, left, c4, c5, u, B
        <5> QED
          BY <1>1, <1>3, <1>4, <1>7, <1>9, <2>4, <4>1
      <4>2. CASE ~ Completes(c, n) /\ c.tmpInSize > 0
        <5>1. c.tmpInSize + n < B
          BY <1>1, <4>2 DEF Completes
        <5> HIDE DEF filled, left, c4, c5, u, B
        <5> QED
          BY <1>1, <1>3, <1>4, <1>7, <1>9, <4>2, <5>1
      <4> QED
        BY <1>1, <4>1, <4>2
    <3> QED
      BY <1>9, <2>1, <2>2, <2>4, <3>1, <3>2 DEF Roomy
  <2> QED
    BY <1>1, <2>3, <2>4
<1>13. Sound(u, next + n)
  <2>1. next + n \in Nat
    OBVIOUS
  <2> HIDE DEF u
  <2> QED
    BY <1>10, <1>11, <1>12, <2>1, SoundIsMemAndRoomy
<1>14. UpdateBytes(c, n) = direct + (IF Completes(c, n) THEN B ELSE 0)
  BY DEF UpdateBytes
<1>15. UpdateBytes(c, n) \in Nat /\ UpdateBytes(c, n) + u.tmpInSize = c.tmpInSize + n
  <2> HIDE DEF filled, direct, left, c4, c5, u, B
  <2>1. CASE Completes(c, n)
    BY <1>1, <1>3, <1>4, <1>7, <1>9, <1>14, <2>1
  <2>2. CASE ~ Completes(c, n)
    <3>1. UpdateBytes(c, n) = direct
      BY <1>3, <1>14, <2>2
    <3>2. u.tmpInSize = c.tmpInSize + filled + left
      BY <1>4, <1>7, <1>9, <2>2
    <3> QED
      BY <1>1, <1>3, <3>1, <3>2
  <2> QED
    BY <2>1, <2>2
<1> QED
  BY <1>9, <1>10, <1>13, <1>15
-----------------------------------------------------------------------------
(* LZ4F_flush and LZ4F_compressEnd.                                        *)

\* A flush sends what waits and leaves the context sound.
LEMMA FlushSound ==
  ASSUME NEW sizes \in SUBSET Nat, NEW c, IsContext(c, sizes), NEW next \in Nat,
         Sound(c, next)
  PROVE  /\ IsContext(Flush(c), sizes)
         /\ Sound(Flush(c), next)
         /\ SameFrame(c, Flush(c))
         /\ Flush(c).tmpInSize = 0
<1> DEFINE e == EmitWaiting(c)
<1>1. /\ c.tmpInSize \in Nat /\ c.prefs.block \in Nat /\ c.prefs.block > 0
      /\ c.prefs.autoFlush \in BOOLEAN
  BY ContextTypes, PreferenceTypes
<1>2. CASE c.tmpInSize = 0
  BY <1>2 DEF Flush, SameFrame
<1>3. CASE c.tmpInSize > 0
  <2>1. ~ c.prefs.autoFlush /\ (c.prefs.linked => c.max >= Window)
    BY <1>1, <1>3 DEF Sound, Roomy
  <2>2. Mem(c, next)
    BY SoundIsMemAndRoomy
  <2>3. IsContext(e, sizes) /\ Mem(e, next) /\ e.tmpInSize = 0 /\ SameFrame(c, e)
    BY <2>2, EmitMem
  <2>4. e.prefs = c.prefs /\ e.max = c.max
    BY <2>3 DEF SameFrame
  <2>5. Flush(c) = KeepWithinLimits(e)
    BY <1>1, <1>3 DEF Flush
  <2>6. /\ IsContext(KeepWithinLimits(e), sizes) /\ Mem(KeepWithinLimits(e), next)
        /\ KeepWithinLimits(e).tmpInSize = 0 /\ SameFrame(e, KeepWithinLimits(e))
        /\ KeepWithinLimits(e).tmpIn + c.prefs.block <= c.max
    <3> HIDE DEF e
    <3> QED
      BY <2>1, <2>3, <2>4, KeepWithinLimitsMem
  <2>7. SameFrame(c, Flush(c))
    <3> HIDE DEF e
    <3> QED
      BY <2>3, <2>5, <2>6 DEF SameFrame
  <2>8. Roomy(Flush(c))
    <3>1. 0..(Flush(c).max - 1) \subseteq DOMAIN Flush(c).mem
      BY <2>5, <2>6 DEF Mem
    <3>2. Flush(c).prefs = c.prefs /\ Flush(c).max = c.max
      BY <2>7 DEF SameFrame
    <3> QED
      BY <1>1, <2>1, <2>5, <2>6, <3>1, <3>2 DEF Roomy
  <2> QED
    BY <2>5, <2>6, <2>7, <2>8, SoundIsMemAndRoomy
<1> QED
  BY <1>1, <1>2, <1>3

\* The context a frame's end leaves is a C struct with its buffer disowned and
\* nothing waiting.
LEMMA EndTypes ==
  ASSUME NEW sizes \in SUBSET Nat, NEW c, IsContext(Flush(c), sizes)
  PROVE  /\ IsContext(End(c), sizes)
         /\ End(c).cStage = 0 /\ End(c).max = 0
         /\ End(c).tmpInSize = Flush(c).tmpInSize
         /\ End(c).prefs = Flush(c).prefs /\ End(c).total = Flush(c).total
<1> DEFINE f == Flush(c)
<1> DEFINE e == End(c)
<1>1. e = [f EXCEPT !.cStage = 0, !.max = 0]
  BY DEF End
<1> HIDE DEF f, e
<1>2. IsContext(f, sizes)
  BY DEF f
<1>3. /\ e.cStage = 0 /\ e.max = 0 /\ e.tmpInSize = f.tmpInSize /\ e.mem = f.mem
      /\ e.prefs = f.prefs /\ e.total = f.total
  BY <1>1, <1>2 DEF IsContext
<1>4. IsContext(e, sizes)
  BY <1>1, <1>2, <1>3 DEF IsContext
<1> QED
  BY <1>3, <1>4 DEF f, e
-----------------------------------------------------------------------------
(* The blocks each call writes: where their bytes and their history lie.   *)

\* Products keep and reflect order.
LEMMA ProductOrder ==
  ASSUME NEW x \in Int, NEW y \in Int, NEW B \in Nat
  PROVE  /\ x <= y => x * B <= y * B
         /\ B > 0 /\ x * B < y * B => x < y
         /\ x * B \in Int /\ (x - 1) * B = x * B - B /\ (x + 1) * B = x * B + B
<1>1. /\ x * B \in Int /\ y * B \in Int /\ (x - 1) * B = x * B - B /\ (x + 1) * B = x * B + B
  BY SMT
<1>2. ASSUME NEW a \in Int, NEW b \in Int, a <= b PROVE a * B <= b * B
  <2>1. b - a \in Nat
    BY <1>2, SMT
  <2>2. (b - a) * B \in Nat /\ (b - a) * B = b * B - a * B
    BY <2>1, SMT
  <2> QED BY <2>2, SMT
<1>3. x * B < y * B => x < y
  <2>1. SUFFICES ASSUME y <= x PROVE ~ (x * B < y * B)
    BY SMT
  <2>2. y * B <= x * B
    BY <1>2, <2>1
  <2> QED BY <1>1, <2>2, SMT
<1> QED BY <1>1, <1>2, <1>3

\* A number is its quotient by another, so often, and its remainder.
LEMMA Division ==
  ASSUME NEW a \in Nat, NEW B \in Nat, B > 0
  PROVE  /\ a \div B \in Nat /\ a % B \in Nat /\ a % B < B
         /\ a = (a \div B) * B + (a % B)
         /\ B * (a \div B) = (a \div B) * B
<1>1. a \div B \in Nat
  BY SMT
<1>2. a % B \in Nat /\ a % B < B
  BY SMT
<1>3. a = B * (a \div B) + (a % B)
  BY SMT
<1>4. B * (a \div B) = (a \div B) * B
  BY <1>1, SMT
<1> QED BY <1>1, <1>2, <1>3, <1>4

\* A quotient rounded up.
LEMMA RoundedUp ==
  ASSUME NEW D \in Nat, NEW B \in Nat, B > 0
  PROVE  LET m == (D + B - 1) \div B
         IN  /\ m \in Nat /\ D <= m * B /\ (D = 0 => m = 0)
             /\ D > 0 => m > 0 /\ (m - 1) * B < D
<1> DEFINE m == (D + B - 1) \div B
<1>1. m \in Nat /\ B * m <= D + B - 1 /\ D + B - 1 < B * m + B
  BY SMT
<1> HIDE DEF m
<1>2. m * B = B * m /\ (m - 1) * B = B * m - B /\ B * m \in Nat
  BY <1>1, SMT
<1>3. D <= m * B
  BY <1>1, <1>2, SMT
<1>4. D = 0 => m = 0
  <2>1. ASSUME D = 0, m > 0 PROVE FALSE
    <3>1. B * m >= B
      BY <1>1, <2>1, SMT
    <3> QED BY <1>1, <2>1, <3>1, SMT
  <2> QED BY <1>1, <2>1, SMT
<1>5. ASSUME D > 0 PROVE m > 0 /\ (m - 1) * B < D
  <2>1. m # 0
    <3>1. ASSUME m = 0 PROVE B * m = 0
      BY <3>1, SMT
    <3> QED BY <1>1, <1>5, <3>1, SMT
  <2> QED BY <1>1, <1>2, <1>5, <2>1, SMT
<1> QED BY <1>1, <1>3, <1>4, <1>5 DEF m

\* A block with n bytes of the content from position `from` on, compressed
\* against bytes that immediately precede them.
InPlace(b, from, n) ==
  /\ b.data = Positions(from, n)
  /\ b.hist = Positions(from - Len(b.hist), Len(b.hist))

\* Blocks no longer than B, in place one after the other from `start` on.
Chained(blocks, B, start) ==
  \A k \in DOMAIN blocks :
    /\ Len(blocks[k].data) \in 1..B
    /\ InPlace(blocks[k], start + Carried(blocks, k - 1), Len(blocks[k].data))

\* Content cut into blocks of B bytes, the last perhaps shorter, is chained.
LEMMA CutsAreChained ==
  ASSUME NEW B \in Nat, B > 0, NEW m \in Nat, NEW n \in Nat, NEW start \in Int,
         n <= m * B, m = 0 => n = 0, m > 0 => (m - 1) * B < n,
         NEW blocks, DOMAIN blocks = 1..m, Len(blocks) = m,
         \A k \in 1..m : InPlace(blocks[k], start + (k - 1) * B, Smaller(B, n - (k - 1) * B))
  PROVE  CarriedBy(blocks) = n /\ Chained(blocks, B, start)
<1> DEFINE w == [j \in DOMAIN blocks |-> Len(blocks[j].data)]
<1>1. ASSUME NEW k \in 1..m
      PROVE  /\ Smaller(B, n - (k - 1) * B) \in 1..B
             /\ k < m => Smaller(B, n - (k - 1) * B) = B
             /\ k = m => Smaller(B, n - (k - 1) * B) = n - (k - 1) * B
             /\ k - 1 \in 0..(m - 1)
  <2> DEFINE before == (k - 1) * B
  <2> DEFINE upTo == k * B
  <2> DEFINE full == (m - 1) * B
  <2>1. /\ k \in Nat /\ k > 0 /\ k <= m /\ m > 0
        /\ k - 1 \in Nat /\ m - 1 \in Nat /\ k - 1 <= m - 1 /\ (k < m => k <= m - 1)
    BY SMT
  <2>2. ASSUME NEW a \in Nat, NEW b \in Nat, a <= b PROVE a * B <= b * B
    BY <2>2, SMT
  <2>3. before <= full /\ (k < m => upTo <= full)
    BY <2>1, <2>2
  <2>4. before \in Nat /\ upTo \in Nat /\ full \in Nat /\ before + B = upTo
    BY <2>1, SMT
  <2>5. full < n /\ (k = m => n <= upTo)
    BY <2>1
  <2> HIDE DEF before, upTo, full
  <2>6. /\ Smaller(B, n - before) \in 1..B
        /\ k < m => Smaller(B, n - before) = B
        /\ k = m => Smaller(B, n - before) = n - before
        /\ k - 1 \in 0..(m - 1)
    BY <2>1, <2>3, <2>4, <2>5, SMT DEF Smaller
  <2> QED BY <2>6 DEF before
<1>2. ASSUME NEW k \in 1..m
      PROVE  w[k] = Smaller(B, n - (k - 1) * B) /\ Len(blocks[k].data) = w[k]
  <2>1. Len(Positions(start + (k - 1) * B, Smaller(B, n - (k - 1) * B))) = Smaller(B, n - (k - 1) * B)
    <3>1. ASSUME NEW i \in Int, NEW l \in Nat PROVE Len(Positions(i, l)) = l
      BY <3>1, SMT DEF Positions
    <3>2. start + (k - 1) * B \in Int
      BY SMT
    <3>3. Smaller(B, n - (k - 1) * B) \in Nat
      <4>1. \A i \in 1..B : i \in Nat
        BY SMT
      <4> QED BY <1>1, <4>1, Zenon
    <3> QED BY <3>1, <3>2, <3>3
  <2> QED BY <2>1 DEF InPlace
<1>3. \A i \in 0..(m - 1) : Sum(w, i) = i * B
  <2>1. ASSUME m = 0 PROVE 0..(m - 1) = {}
    BY <2>1, SMT
  <2>2. CASE m > 0
    <3>0. m - 1 \in Nat
      BY <2>2, SMT
    <3>1. \A j \in 1..(m - 1) : j \in 1..m /\ j < m
      BY <2>2, SMT
    <3>2. \A j \in 1..(m - 1) : w[j] = B
      <4> HIDE DEF w
      <4> QED BY <1>1, <1>2, <3>1
    <3> HIDE DEF w
    <3>3. ASSUME NEW l \in Nat, \A j \in 1..l : w[j] = B PROVE \A i \in 0..l : Sum(w, i) = i * B
      BY <3>3, SumOfEqual
    <3> QED BY <3>3, <3>0, <3>2, SumOfEqual
  <2> QED BY <2>1, <2>2, SMT
<1>4. CarriedBy(blocks) = n
  <2>0. CarriedBy(blocks) = Sum(w, m)
    BY DEF CarriedBy, Carried
  <2> HIDE DEF w
  <2>1. CASE m = 0
    BY <2>0, <2>1, SumZero
  <2>2. CASE m > 0
    <3>1. m - 1 \in Nat /\ m - 1 + 1 = m /\ m \in 1..m /\ m - 1 \in 0..(m - 1)
      BY <2>2, SMT
    <3>2. \A j \in 1..(m - 1 + 1) : w[j] \in Int
      BY <1>1, <1>2, <3>1, SMT
    <3>3. Sum(w, m) = Sum(w, m - 1) + w[m]
      BY <3>1, <3>2, SumNext
    <3>4. w[m] = n - (m - 1) * B /\ Sum(w, m - 1) = (m - 1) * B
      BY <1>1, <1>2, <1>3, <3>1
    <3>5. (m - 1) * B \in Int
      BY SMT
    <3> QED BY <2>0, <3>3, <3>4, <3>5, SMT
  <2> QED BY <2>1, <2>2, SMT
<1>5. ASSUME NEW k \in DOMAIN blocks
      PROVE  /\ Len(blocks[k].data) \in 1..B
             /\ InPlace(blocks[k], start + Carried(blocks, k - 1), Len(blocks[k].data))
  <2>0. Carried(blocks, k - 1) = Sum(w, k - 1)
    BY DEF Carried
  <2> HIDE DEF w
  <2>1. Sum(w, k - 1) = (k - 1) * B
    BY <1>1, <1>3
  <2> QED BY <1>1, <1>2, <2>0, <2>1
<1> QED BY <1>4, <1>5 DEF Chained

\* Positions are a sequence, empty when there are none.
LEMMA PositionsLen ==
  ASSUME NEW from \in Int, NEW n \in Nat
  PROVE  Len(Positions(from, n)) = n /\ (n = 0 => Positions(from, n) = << >>)
<1>1. Len(Positions(from, n)) = n
  BY SMT DEF Positions
<1>2. Positions(from, n) \in Seq(Int)
  BY SMT DEF Positions
<1>3. n = 0 => Positions(from, n) = << >>
  BY <1>1, <1>2, EmptySeq
<1> QED BY <1>1, <1>3

\* A run of positions that ends where another starts is a place for its history.
LEMMA HistoryInPlace ==
  ASSUME NEW from \in Int, NEW n \in Nat, NEW hist, hist = Positions(from - n, n)
  PROVE  hist = Positions(from - Len(hist), Len(hist))
<1>1. from - n \in Int
  BY SMT
<1>2. Len(hist) = n
  BY <1>1, PositionsLen
<1> QED BY <1>2

\* Blocks that are not linked have none.
LEMMA NoHistoryInPlace ==
  ASSUME NEW from \in Int
  PROVE  << >> = Positions(from - Len(<< >>), Len(<< >>))
<1>1. Len(<< >>) = 0 /\ from - 0 \in Int
  BY SMT
<1> QED BY <1>1, PositionsLen

\* What waits in the tmp buffer leaves it as a block in its place.
LEMMA WaitingBlockInPlace ==
  ASSUME NEW sizes \in SUBSET Nat, NEW c, IsContext(c, sizes), NEW next \in Nat, Mem(c, next)
  PROVE  InPlace(Block(c, Waiting(c), c.dict), next - c.tmpInSize, c.tmpInSize)
<1>1. /\ c.tmpIn \in Nat /\ c.tmpInSize \in Nat /\ c.dict.at \in Nat /\ c.dict.size \in Nat
      /\ next - c.tmpInSize \in Int
  BY ContextTypes
<1> DEFINE b == Block(c, Waiting(c), c.dict)
<1>2. /\ b.data = Bytes(c.mem, Waiting(c))
      /\ b.hist = IF c.prefs.linked THEN Bytes(c.mem, c.dict) ELSE << >>
  BY DEF Block
<1> HIDE DEF b
<1>3. b.data = Positions(next - c.tmpInSize, c.tmpInSize)
  <2>1. Holds(c.mem, c.tmpIn, c.tmpInSize, next - c.tmpInSize)
    BY DEF Mem
  <2> QED BY <1>1, <1>2, <2>1, PeekHolds DEF Waiting, Span, Bytes
<1>4. b.hist = Positions(next - c.tmpInSize - Len(b.hist), Len(b.hist))
  <2>1. CASE c.prefs.linked
    <3>1. c.dict.in = "tmp" /\ Holds(c.mem, c.dict.at, c.dict.size, next - c.tmpInSize - c.dict.size)
      BY <2>1 DEF Mem
    <3>2. b.hist = Positions(next - c.tmpInSize - c.dict.size, c.dict.size)
      BY <1>1, <1>2, <2>1, <3>1, PeekHolds DEF Bytes
    <3> QED BY <1>1, <3>2, HistoryInPlace
  <2>2. CASE ~ c.prefs.linked
    BY <1>1, <1>2, <2>2, NoHistoryInPlace
  <2> QED BY <2>1, <2>2
<1> QED BY <1>3, <1>4 DEF InPlace, b

\* A block compressed from the caller's buffer is in its place: its history is
\* the context's for the first and the blocks before it for the others.
LEMMA DirectBlockInPlace ==
  ASSUME NEW sizes \in SUBSET Nat, NEW c, IsContext(c, sizes), NEW next \in Nat,
         NEW n \in Nat, Sound(c, next), Direct(c, n) > 0,
         NEW j \in DOMAIN DirectBlocks(c, next, n)
  PROVE  InPlace(DirectBlocks(c, next, n)[j], next + Filled(c, n) + (j - 1) * c.prefs.block,
                 Smaller(c.prefs.block, Direct(c, n) - (j - 1) * c.prefs.block))
<1> DEFINE first == next + Filled(c, n)
<1> DEFINE B == c.prefs.block
<1> DEFINE c2 == AfterTmpBlock(c, next, n)
<1> DEFINE before == (j - 1) * B
<1> DEFINE at == first + before
<1> DEFINE size == Smaller(B, Direct(c, n) - before)
<1> DEFINE b == DirectBlocks(c, next, n)[j]
<1>1. /\ Filled(c, n) \in Nat /\ Direct(c, n) \in Nat /\ first \in Nat
      /\ ~ Completes(c, n) /\ Direct(c, n) > 0 => c.tmpInSize = 0 /\ Filled(c, n) = 0
  <2>1. /\ Filled(c, n) \in Nat /\ Direct(c, n) \in Nat
        /\ ~ Completes(c, n) /\ Direct(c, n) > 0 => c.tmpInSize = 0 /\ Filled(c, n) = 0
    BY AfterFillMem, ZenonT(60)
  <2> QED BY <2>1, SMT
<1>2. /\ IsContext(c2, sizes) /\ Mem(c2, first) /\ SameFrame(c, c2)
      /\ c2.tmpInSize = 0
  <2>1. /\ IsContext(c2, sizes) /\ Mem(c2, first) /\ SameFrame(c, c2)
        /\ c2.tmpInSize = IF Completes(c, n) THEN 0 ELSE c.tmpInSize + Filled(c, n)
    BY AfterTmpBlockMem
  <2>2. c2.tmpInSize = 0
    <3> HIDE DEF c2
    <3> QED BY <1>1, <2>1, SMT
  <2> QED BY <2>1, <2>2
<1>3. B \in Nat /\ c.tmpInSize \in Nat
  BY ContextTypes, PreferenceTypes
<1>4. DOMAIN DirectBlocks(c, next, n) = 1..((Direct(c, n) + B - 1) \div B)
  BY DEF DirectBlocks
<1>5. j \in Nat /\ j - 1 \in Nat /\ (j # 1 => j > 1)
  <2> DEFINE m == (Direct(c, n) + B - 1) \div B
  <2>1. j \in 1..m
    BY <1>4
  <2> HIDE DEF m
  <2> QED BY <2>1, SMT
<1>6. before \in Nat /\ (j = 1 => before = 0)
  BY <1>3, <1>5, SMT
<1>7. b = Block(c2, Span("src", first + before, size),
                IF j = 1 THEN c2.dict ELSE Span("src", first, before))
  BY <1>4 DEF DirectBlocks
<1> HIDE DEF c2, before, b, first
<1>8. at \in Int /\ at = first + before
  BY <1>1, <1>6, SMT
<1> HIDE DEF at, size
<1>9. b.data = Positions(at, size)
  BY <1>7, <1>8 DEF Block, Bytes, Span
<1>10. b.hist = Positions(at - Len(b.hist), Len(b.hist))
  <2>1. b.hist = IF c.prefs.linked
                 THEN Bytes(c2.mem, IF j = 1 THEN c2.dict ELSE Span("src", first, before))
                 ELSE << >>
    BY <1>2, <1>7 DEF Block, SameFrame
  <2>2. CASE ~ c.prefs.linked
    <3>1. b.hist = << >>
      BY <2>1, <2>2
    <3> QED BY <1>8, <3>1, NoHistoryInPlace
  <2>3. CASE c.prefs.linked /\ j = 1
    <3>1. /\ c2.dict.in = "tmp"
          /\ Holds(c2.mem, c2.dict.at, c2.dict.size, first - c2.tmpInSize - c2.dict.size)
      BY <1>2, <2>3 DEF Mem, SameFrame
    <3>2. c2.dict.at \in Nat /\ c2.dict.size \in Nat
      BY <1>2, ContextTypes
    <3>3. first - c2.tmpInSize - c2.dict.size = at - c2.dict.size
      BY <1>1, <1>2, <1>6, <1>8, <2>3, <3>2, SMT
    <3>4. at - c2.dict.size \in Int
      BY <1>8, <3>2, SMT
    <3>5. Peek(c2.mem, c2.dict.at, c2.dict.size) = Positions(at - c2.dict.size, c2.dict.size)
      <4>1. c2.dict.at \in Int
        BY <3>2, SMT
      <4> QED BY <3>1, <3>2, <3>3, <3>4, <4>1, PeekHolds
    <3>6. b.hist = Positions(at - c2.dict.size, c2.dict.size)
      BY <2>1, <2>3, <3>1, <3>5 DEF Bytes
    <3> QED BY <1>8, <3>2, <3>6, HistoryInPlace
  <2>4. CASE c.prefs.linked /\ j # 1
    <3>1. b.hist = Positions(first, before)
      BY <2>1, <2>4 DEF Bytes, Span
    <3>2. at - before = first
      BY <1>1, <1>6, <1>8, SMT
    <3> QED BY <1>6, <1>8, <3>1, <3>2, HistoryInPlace
  <2> QED BY <2>2, <2>3, <2>4
<1>11. InPlace(b, at, size)
  BY <1>9, <1>10 DEF InPlace
<1> QED BY <1>11 DEF b, at, size, first, before

\* The blocks of a call carry the content from what waited on, in order.
LEMMA UpdateBlocksChained ==
  ASSUME NEW sizes \in SUBSET Nat, NEW c, IsContext(c, sizes), NEW next \in Nat,
         NEW n \in Nat, Sound(c, next)
  PROVE  LET blocks == UpdateBlocks(c, next, n)
         IN  /\ CarriedBy(blocks) = UpdateBytes(c, n)
             /\ Chained(blocks, c.prefs.block, next - c.tmpInSize)
             /\ Len(blocks) \in Nat
             /\ UpdateBytes(c, n) <= Len(blocks) * c.prefs.block
             /\ Len(blocks) > 0 => (Len(blocks) - 1) * c.prefs.block < UpdateBytes(c, n)
<1> DEFINE B == c.prefs.block
<1> DEFINE D == Direct(c, n)
<1> DEFINE m == (D + B - 1) \div B
<1> DEFINE start == next - c.tmpInSize
<1> DEFINE tmp == TmpBlocks(c, next, n)
<1> DEFINE direct == DirectBlocks(c, next, n)
<1> DEFINE blocks == UpdateBlocks(c, next, n)
<1> DEFINE c1 == AfterFill(c, next, n)
<1> DEFINE first == next + Filled(c, n)
<1>1. /\ B \in Nat /\ B > 0 /\ c.tmpInSize \in Nat
  BY ContextTypes, PreferenceTypes
<1>2. /\ IsContext(c1, sizes) /\ Mem(c1, first) /\ c1.tmpInSize = c.tmpInSize + Filled(c, n)
      /\ Filled(c, n) \in Nat /\ D \in Nat
      /\ Completes(c, n) => c.tmpInSize + Filled(c, n) = B
      /\ ~ Completes(c, n) /\ D > 0 => c.tmpInSize = 0 /\ Filled(c, n) = 0
  BY AfterFillMem
<1>3. first \in Nat /\ start \in Int
  BY <1>1, <1>2, SMT
<1>4. /\ m \in Nat /\ D <= m * B /\ (D = 0 => m = 0)
      /\ D > 0 => m > 0 /\ (m - 1) * B < D
  <2>1. D \in Nat
    BY <1>2
  <2> HIDE DEF D, B
  <2> QED BY <1>1, <2>1, RoundedUp
<1> DEFINE S == {tmp[i] : i \in DOMAIN tmp} \cup {direct[j] : j \in DOMAIN direct}
<1>5. direct \in Seq(S) /\ Len(direct) = m /\ DOMAIN direct = 1..m
  <2>1. DOMAIN direct = 1..m /\ direct = [j \in DOMAIN direct |-> direct[j]]
    BY DEF DirectBlocks
  <2>2. \A j \in DOMAIN direct : direct[j] \in S
    OBVIOUS
  <2> HIDE DEF direct, m, S
  <2>3. direct \in [1..m -> S]
    BY <2>1, <2>2
  <2>4. direct \in Seq(S)
    BY <1>4, <2>3, SMT
  <2> QED BY <1>4, <2>1, <2>4, LenProperties, SMT
<1> DEFINE t == IF Completes(c, n) THEN 1 ELSE 0
<1>6. tmp \in Seq(S) /\ Len(tmp) = t
  <2>1. \A i \in DOMAIN tmp : tmp[i] \in S
    OBVIOUS
  <2>2. tmp = IF Completes(c, n) THEN << Block(c1, Waiting(c1), c1.dict) >> ELSE << >>
    BY DEF TmpBlocks
  <2> HIDE DEF tmp, S, c1
  <2> QED BY <2>1, <2>2, SMT
<1>7. Completes(c, n) => InPlace(tmp[1], start, B)
  <2>1. SUFFICES ASSUME Completes(c, n) PROVE InPlace(tmp[1], start, B)
    OBVIOUS
  <2>2. tmp[1] = Block(c1, Waiting(c1), c1.dict)
    BY <2>1 DEF TmpBlocks
  <2>3. InPlace(Block(c1, Waiting(c1), c1.dict), first - c1.tmpInSize, c1.tmpInSize)
    <3> HIDE DEF c1, first
    <3> QED BY <1>2, <1>3, WaitingBlockInPlace
  <2>4. c1.tmpInSize = B /\ first - B = start
    <3> HIDE DEF c1
    <3> QED BY <1>1, <1>2, <2>1, SMT
  <2> QED BY <2>2, <2>3, <2>4
<1>8. ASSUME NEW j \in 1..m
      PROVE  InPlace(direct[j], first + (j - 1) * B, Smaller(B, D - (j - 1) * B))
  <2>1. D > 0
    <3> HIDE DEF m, D
    <3> QED BY <1>2, <1>4, <1>8, SMT
  <2>2. j \in DOMAIN DirectBlocks(c, next, n)
    BY <1>5
  <2> QED BY <2>1, <2>2, DirectBlockInPlace
<1>9. UpdateBytes(c, n) = D + t * B /\ UpdateBytes(c, n) \in Nat
  BY <1>1, <1>2, SMT DEF UpdateBytes
<1>10. /\ t \in Nat /\ t + m \in Nat /\ D + t * B <= (t + m) * B
       /\ t + m > 0 => (t + m - 1) * B < D + t * B
       /\ t + m = 0 => D + t * B = 0
  <2> HIDE DEF m, D, B
  <2>1. (1 + m) * B = m * B + B /\ (1 + m - 1) * B = m * B /\ 1 * B = B /\ 0 * B = 0
        /\ 0 + m = m /\ 1 + m \in Nat /\ 1 + m > 0 /\ m * B \in Nat
    BY <1>1, <1>4, SMT
  <2>2. m > 0 => m * B = (m - 1) * B + B /\ (m - 1) * B \in Nat
    BY <1>1, <1>4, SMT
  <2>3. m * B < D + B
    <3> DEFINE full == m * B
    <3> DEFINE most == (m - 1) * B
    <3>1. full = 0 \/ (full = most + B /\ most < D /\ most \in Nat)
      <4>1. CASE m = 0
        BY <1>1, <4>1, SMT
      <4>2. CASE m > 0
        <5>1. D > 0
          BY <1>2, <1>4, <4>2, SMT
        <5> QED BY <1>4, <2>2, <4>2, <5>1
      <4> QED BY <1>4, <4>1, <4>2, SMT
    <3> HIDE DEF full, most
    <3>2. full < D + B
      BY <1>1, <1>2, <3>1, SMT
    <3> QED BY <3>2 DEF full
  <2>4. CASE Completes(c, n)
    <3>1. t = 1
      BY <2>4
    <3>2. D + B <= m * B + B
      BY <1>1, <1>2, <1>4, <2>1, SMT
    <3> QED BY <1>2, <2>1, <2>3, <3>1, <3>2
  <2>5. CASE ~ Completes(c, n)
    <3>1. t = 0 /\ D + 0 = D /\ m + 0 = m
      BY <1>2, <1>4, <2>5
    <3>2. m > 0 => D > 0
      BY <1>2, <1>4, SMT
    <3>3. m = 0 => D = 0
      BY <1>2, <1>4, SMT
    <3> QED BY <1>2, <1>4, <2>1, <3>1, <3>2, <3>3
  <2> QED BY <2>4, <2>5
<1>11. /\ blocks = tmp \o direct /\ DOMAIN blocks = 1..(t + m) /\ Len(blocks) = t + m
       /\ \A k \in 1..(t + m) : blocks[k] = IF k <= t THEN tmp[k] ELSE direct[k - t]
  <2>1. blocks = tmp \o direct
    BY DEF UpdateBlocks
  <2> HIDE DEF tmp, direct, blocks, S, m, t
  <2>2. /\ tmp \o direct \in Seq(S) /\ Len(tmp \o direct) = t + m
        /\ \A k \in 1..(t + m) : (tmp \o direct)[k] = IF k <= t THEN tmp[k] ELSE direct[k - t]
    BY <1>5, <1>6, ConcatProperties
  <2>3. DOMAIN (tmp \o direct) = 1..(t + m)
    BY <2>2, LenProperties
  <2> QED BY <2>1, <2>2, <2>3
<1>12. ASSUME NEW k \in 1..(t + m)
       PROVE  InPlace(blocks[k], start + (k - 1) * B, Smaller(B, D + t * B - (k - 1) * B))
  <2>0. k \in Nat /\ k > 0 /\ k <= t + m
    <3> HIDE DEF t, m
    <3> QED BY <1>4, <1>10, SMT
  <2>1. CASE Completes(c, n) /\ k = 1
    <3>1. t = 1 /\ blocks[1] = tmp[1]
      BY <1>11, <2>1
    <3>2. start + (1 - 1) * B = start /\ Smaller(B, D + 1 * B - (1 - 1) * B) = B
      <4> HIDE DEF D, B, start
      <4> QED BY <1>1, <1>2, <1>3, SMT DEF Smaller
    <3> QED BY <1>7, <2>1, <3>1, <3>2
  <2>2. CASE Completes(c, n) /\ k # 1
    <3>1. t = 1
      BY <2>2
    <3>2. k - 1 \in 1..m /\ ~ (k <= 1)
      <4> HIDE DEF t, m
      <4> QED BY <1>4, <2>0, <2>2, <3>1, SMT
    <3>3. blocks[k] = direct[k - 1]
      BY <1>11, <3>1, <3>2
    <3>4. first + (k - 1 - 1) * B = start + (k - 1) * B
      <4>1. (k - 1 - 1) * B = (k - 1) * B - B /\ (k - 1) * B \in Int
        BY <1>1, <2>0, SMT
      <4>2. first - B = start
        BY <1>1, <1>2, <2>2, SMT
      <4> HIDE DEF first, start
      <4> QED BY <1>1, <1>3, <4>1, <4>2, SMT
    <3>5. D - (k - 1 - 1) * B = D + 1 * B - (k - 1) * B
      <4> HIDE DEF D, B
      <4> QED BY <1>1, <1>2, <2>0, SMT
    <3>6. InPlace(direct[k - 1], first + (k - 1 - 1) * B, Smaller(B, D - (k - 1 - 1) * B))
      BY <1>8, <3>2
    <3> QED BY <3>1, <3>3, <3>4, <3>5, <3>6
  <2>3. CASE ~ Completes(c, n)
    <3>1. t = 0
      BY <2>3
    <3>2. k \in 1..m /\ ~ (k <= 0) /\ k - 0 = k
      <4> HIDE DEF t, m
      <4> QED BY <1>4, <2>0, <3>1, SMT
    <3>3. blocks[k] = direct[k]
      BY <1>11, <3>1, <3>2
    <3>4. D > 0
      <4> HIDE DEF m, D
      <4> QED BY <1>2, <1>4, <3>2, SMT
    <3>5. first = start
      BY <1>2, <2>3, <3>4, SMT
    <3>6. D - (k - 1) * B = D + 0 * B - (k - 1) * B
      <4> HIDE DEF D, B
      <4> QED BY <1>1, <1>2, <2>0, SMT
    <3>7. InPlace(direct[k], first + (k - 1) * B, Smaller(B, D - (k - 1) * B))
      BY <1>8, <3>2
    <3> QED BY <3>1, <3>3, <3>5, <3>6, <3>7
  <2> QED BY <2>1, <2>2, <2>3
<1> HIDE DEF t, m, D, B, start, blocks
<1>13. CarriedBy(blocks) = D + t * B /\ Chained(blocks, B, start)
  <2>1. PICK all \in Nat : all = t + m
    BY <1>10
  <2>2. PICK bytes \in Nat : bytes = D + t * B
    BY <1>9
  <2>3. DOMAIN blocks = 1..all /\ Len(blocks) = all
    BY <1>11, <2>1
  <2>4. bytes <= all * B
    BY <1>10, <2>1, <2>2, Zenon
  <2>5. all = 0 => bytes = 0
    BY <1>10, <2>1, <2>2, Zenon
  <2>6. all > 0 => (all - 1) * B < bytes
    BY <1>1, <1>2, <1>4, <1>10, <2>1, <2>2
  <2>7. \A k \in 1..all : InPlace(blocks[k], start + (k - 1) * B, Smaller(B, bytes - (k - 1) * B))
    <3>1. ASSUME NEW k \in 1..(t + m)
          PROVE  InPlace(blocks[k], start + (k - 1) * B, Smaller(B, bytes - (k - 1) * B))
      <4>1. InPlace(blocks[k], start + (k - 1) * B, Smaller(B, D + t * B - (k - 1) * B))
        BY <1>12
      <4>2. bytes - (k - 1) * B = D + t * B - (k - 1) * B
        <5>1. k \in Nat
          BY <1>10, <3>1, SMT
        <5> QED BY <1>1, <1>2, <1>10, <2>2, <5>1, SMT
      <4> QED BY <4>1, <4>2
    <3> QED BY <2>1, <3>1
  <2>8. CarriedBy(blocks) = bytes /\ Chained(blocks, B, start)
    BY <1>1, <1>3, <2>3, <2>4, <2>5, <2>6, <2>7, CutsAreChained
  <2> QED BY <2>2, <2>8
<1>14. /\ CarriedBy(blocks) = UpdateBytes(c, n) /\ Chained(blocks, B, start)
       /\ Len(blocks) \in Nat /\ UpdateBytes(c, n) <= Len(blocks) * B
       /\ Len(blocks) > 0 => (Len(blocks) - 1) * B < UpdateBytes(c, n)
  <2>1. CarriedBy(blocks) = UpdateBytes(c, n) /\ Chained(blocks, B, start)
    BY <1>9, <1>13
  <2>2. Len(blocks) = t + m
    BY <1>11
  <2>3. Len(blocks) \in Nat
    BY <1>10, <2>2
  <2>4. UpdateBytes(c, n) <= Len(blocks) * B
    BY <1>9, <1>10, <2>2
  <2>5. Len(blocks) > 0 => (Len(blocks) - 1) * B < UpdateBytes(c, n)
    BY <1>1, <1>2, <1>4, <1>9, <1>10, <2>2
  <2> QED BY <2>1, <2>3, <2>4, <2>5
<1> QED BY <1>14 DEF blocks, B, start

\* No blocks are chained from anywhere.
LEMMA NoBlocksChained ==
  ASSUME NEW B, NEW start
  PROVE  CarriedBy(<< >>) = 0 /\ Chained(<< >>, B, start)
<1>1. Len(<< >>) = 0 /\ DOMAIN << >> = {}
  BY SMT
<1>2. CarriedBy(<< >>) = 0
  BY <1>1, SumZero DEF CarriedBy, Carried
<1> QED BY <1>1, <1>2 DEF Chained

\* A flush carries what waited, in one block if it waited at all.
LEMMA FlushBlocksChained ==
  ASSUME NEW sizes \in SUBSET Nat, NEW c, IsContext(c, sizes), NEW next \in Nat,
         Sound(c, next)
  PROVE  LET blocks == FlushBlocks(c)
         IN  /\ CarriedBy(blocks) = c.tmpInSize
             /\ Chained(blocks, c.prefs.block, next - c.tmpInSize)
             /\ Len(blocks) = IF c.tmpInSize = 0 THEN 0 ELSE 1
<1> DEFINE B == c.prefs.block
<1> DEFINE n == c.tmpInSize
<1> DEFINE start == next - n
<1> DEFINE blocks == FlushBlocks(c)
<1>1. /\ B \in Nat /\ B > 0 /\ n \in Nat /\ c.prefs.autoFlush \in BOOLEAN
  BY ContextTypes, PreferenceTypes
<1>2. start \in Int
  BY <1>1, SMT
<1>3. CASE n = 0
  <2>1. blocks = << >> /\ Len(<< >>) = 0
    BY <1>3 DEF FlushBlocks
  <2> QED BY <1>3, <2>1, NoBlocksChained
<1>4. CASE n # 0
  <2>1. n < B
    BY <1>1, <1>4, SMT DEF Sound, Roomy
  <2>2. InPlace(Block(c, Waiting(c), c.dict), start, n)
    <3>1. Mem(c, next)
      BY SoundIsMemAndRoomy
    <3> QED BY <3>1, WaitingBlockInPlace
  <2>3. blocks = << Block(c, Waiting(c), c.dict) >>
    BY <1>4 DEF FlushBlocks
  <2> HIDE DEF B, n, start, blocks
  <2>4. DOMAIN blocks = 1..1 /\ Len(blocks) = 1 /\ blocks[1] = Block(c, Waiting(c), c.dict)
    BY <2>3
  <2>5. /\ n <= 1 * B /\ (1 - 1) * B < n
        /\ \A k \in 1..1 : k = 1 /\ start + (k - 1) * B = start /\ Smaller(B, n - (k - 1) * B) = n
    BY <1>1, <1>2, <1>4, <2>1, SMT DEF Smaller
  <2>6. \A k \in 1..1 : InPlace(blocks[k], start + (k - 1) * B, Smaller(B, n - (k - 1) * B))
    BY <2>2, <2>4, <2>5
  <2>7. CarriedBy(blocks) = n /\ Chained(blocks, B, start)
    <3>1. 1 \in Nat /\ (1 = 0 => n = 0)
      BY SMT
    <3>2. n <= 1 * B
      BY <2>5
    <3>3. 1 > 0 => (1 - 1) * B < n
      BY <2>5
    <3> QED BY <1>1, <1>2, <2>4, <2>6, <3>1, <3>2, <3>3, CutsAreChained
  <2> QED BY <1>4, <2>4, <2>7 DEF B, n, start, blocks
<1> QED BY <1>3, <1>4
-----------------------------------------------------------------------------
(* The room they are given.                                                *)

\* The blocks of at most B bytes that a bytes take.
Parts(a, B) == (a \div B) + (IF a % B > 0 THEN 1 ELSE 0)

LEMMA PartsBounds ==
  ASSUME NEW a \in Nat, NEW B \in Nat, B > 0, NEW k \in Nat, NEW n \in Nat,
         k > 0 => (k - 1) * B < n, n <= a
  PROVE  Parts(a, B) \in Nat /\ k <= Parts(a, B)
<1> DEFINE q == a \div B
<1> DEFINE r == a % B
<1> DEFINE m == Parts(a, B)
<1> DEFINE rest == IF r > 0 THEN 1 ELSE 0
<1>1. q \in Nat /\ r \in Nat /\ r < B /\ a = q * B + r
  BY Division
<1>2. m = q + rest
  BY DEF Parts
<1> HIDE DEF q, r, m
<1>3. m \in Nat /\ m \in Int /\ q \in Int /\ q + 1 \in Int
  BY <1>1, <1>2, SMT
<1>4. a <= m * B
  <2>1. q * B \in Int /\ (q + 1) * B = q * B + B
    BY <1>1, <1>3, ProductOrder
  <2>2. CASE r > 0
    <3>1. m = q + 1
      BY <1>2, <2>2
    <3>2. a <= q * B + B
      BY <1>1, <2>1, SMT
    <3> QED BY <2>1, <3>1, <3>2
  <2>3. CASE ~ (r > 0)
    <3>1. m = q /\ a = q * B
      BY <1>1, <1>2, <1>3, <2>1, <2>3, SMT
    <3>2. q * B <= q * B
      BY <2>1, SMT
    <3> QED BY <3>1, <3>2
  <2> QED BY <2>2, <2>3
<1>5. k <= m
  <2>1. CASE k = 0
    BY <1>3, <2>1, SMT
  <2>2. CASE k > 0
    <3>0. k - 1 \in Int
      BY SMT
    <3>1. (k - 1) * B \in Int /\ m * B \in Int
      BY <1>3, <3>0, ProductOrder
    <3>2. (k - 1) * B < m * B
      BY <1>4, <2>2, <3>1, SMT
    <3>3. k - 1 < m
      BY <1>3, <3>0, <3>2, ProductOrder
    <3> QED BY <1>3, <3>3, SMT
  <2> QED BY <2>1, <2>2, SMT
<1> QED BY <1>3, <1>5 DEF m

\* What a block, and a frame, add to the content.
BlockExtra(p) == BHSize + BlockCrcSize(p)

LEMMA Extras ==
  ASSUME NEW p
  PROVE  /\ BlockExtra(p) \in Nat /\ BlockExtra(p) >= 4 /\ BHSize = 4 /\ BFSize = 4 /\ maxFHSize = 19
         /\ FooterSize(p) \in Nat /\ FooterSize(p) >= 4
<1>1. BlockExtra(p) = 4 \/ BlockExtra(p) = 8
  BY SMT DEF BlockExtra, BHSize, BlockCrcSize, BFSize
<1>2. FooterSize(p) = 4 \/ FooterSize(p) = 8
  BY SMT DEF FooterSize, EndMark, BFSize
<1> QED BY <1>1, <1>2, SMT DEF BHSize, BFSize, maxFHSize

\* The bound when everything is to be written at once, and when a part of a
\* block may be kept.
LEMMA BoundWhenFlushed ==
  ASSUME NEW p, NEW B \in Nat, B > 0, p.block = B, NEW n \in Nat, NEW t \in Nat, t < B,
         p.autoFlush \/ n = 0
  PROVE  compressBound_internal(n, p, t) =
           BlockExtra(p) * Parts(n + t, B) + (n + t) + FooterSize(p)
<1> DEFINE a == n + t
<1>0. a \in Nat /\ Smaller(t, B - 1) = t
  BY SMT DEF Smaller
<1>1. /\ a \div B \in Nat /\ a % B \in Nat /\ a = (a \div B) * B + (a % B) /\ B * (a \div B) = (a \div B) * B
  BY <1>0, Division
<1> DEFINE q == a \div B
<1> DEFINE r == a % B
<1> DEFINE nb == q + (IF r > 0 THEN 1 ELSE 0)
<1>2. compressBound_internal(n, p, t) = BlockExtra(p) * nb + B * q + r + FooterSize(p)
  BY <1>0 DEF compressBound_internal, BlockExtra
<1>3. nb = Parts(a, B)
  BY DEF Parts
<1>4. nb \in Nat
  <2> HIDE DEF q, r
  <2>1. q \in Nat /\ r \in Nat
    BY <1>1 DEF q, r
  <2> QED BY <2>1, SMT
<1>5. BlockExtra(p) * nb \in Nat /\ FooterSize(p) \in Nat /\ B * q \in Nat /\ r \in Nat /\ B * q + r = a
  <2>1. BlockExtra(p) \in Nat /\ FooterSize(p) \in Nat
    BY Extras
  <2>2. q \in Nat /\ r \in Nat /\ a = q * B + r /\ B * q = q * B
    BY <1>1
  <2> HIDE DEF q, r, nb, a
  <2> QED BY <1>4, <2>1, <2>2, SMT
<1> DEFINE x == BlockExtra(p) * nb
<1> DEFINE y == B * q
<1> HIDE DEF x, y, nb, q, r, a
<1>6. x + y + r + FooterSize(p) = x + a + FooterSize(p)
  <2>1. x \in Nat /\ y \in Nat /\ r \in Nat /\ FooterSize(p) \in Nat /\ y + r = a
    BY <1>5 DEF x, y
  <2> QED BY <2>1, SMT
<1> QED BY <1>2, <1>3, <1>6 DEF x, y, a

LEMMA BoundWhenKept ==
  ASSUME NEW p, NEW B \in Nat, B > 0, p.block = B, NEW n \in Nat, NEW t \in Nat, t < B,
         ~ p.autoFlush, n # 0
  PROVE  compressBound_internal(n, p, t) =
           BlockExtra(p) * ((n + t) \div B) + B * ((n + t) \div B) + FooterSize(p)
<1> DEFINE q == (n + t) \div B
<1>0. n + t \in Nat /\ Smaller(t, B - 1) = t
  BY SMT DEF Smaller
<1>1. q \in Nat
  BY <1>0, Division
<1>2. ~ (0 > 0)
  BY SMT
<1>3. compressBound_internal(n, p, t) = BlockExtra(p) * (q + 0) + B * q + 0 + FooterSize(p)
  BY <1>0, <1>2 DEF compressBound_internal, BlockExtra
<1> HIDE DEF q
<1>4. q + 0 = q /\ B * q \in Nat /\ BlockExtra(p) * q \in Nat /\ FooterSize(p) \in Nat
  <2>1. BlockExtra(p) \in Nat /\ FooterSize(p) \in Nat
    BY Extras
  <2> QED BY <1>1, <2>1, SMT
<1>5. \A x \in Nat, y \in Nat, z \in Nat : x + y + 0 + z = x + y + z
  BY SMT
<1> QED BY <1>3, <1>4, <1>5 DEF q

\* What a call writes, with a footer after it, fits the bound of its bytes and
\* those that waited: k blocks of n1 bytes, of the n + t there are.
LEMMA BoundHolds ==
  ASSUME NEW p, NEW B \in Nat, B > 0, p.block = B, p.autoFlush \in BOOLEAN,
         NEW n \in Nat, NEW t \in Nat, t < B,
         NEW k \in Nat, NEW sum \in Nat, sum <= n + t, k > 0 => (k - 1) * B < sum,
         ~ p.autoFlush /\ n # 0 => sum = k * B
  PROVE  /\ sum + k * BlockExtra(p) + FooterSize(p) <= compressBound_internal(n, p, t)
         /\ k * BlockExtra(p) \in Nat /\ compressBound_internal(n, p, t) \in Nat
<1> DEFINE h == BlockExtra(p)
<1> DEFINE F == FooterSize(p)
<1> DEFINE bound == compressBound_internal(n, p, t)
<1>1. h \in Nat /\ F \in Nat
  BY Extras
<1>2. n + t \in Nat
  BY SMT
<1>3. CASE p.autoFlush \/ n = 0
  <2> DEFINE m == Parts(n + t, B)
  <2>1. m \in Nat /\ k <= m
    BY <1>2, PartsBounds
  <2>2. bound = h * m + (n + t) + F
    BY <1>3, BoundWhenFlushed
  <2> HIDE DEF h, F, m, bound
  <2>3. k * h <= m * h /\ k * h \in Nat /\ m * h \in Nat /\ h * m = m * h
    <3>1. k \in Int /\ m \in Int
      BY <2>1, SMT
    <3>2. k * h <= m * h
      BY <1>1, <2>1, <3>1, ProductOrder
    <3>3. k * h \in Nat /\ m * h \in Nat /\ h * m = m * h
      BY <1>1, <2>1, SMT
    <3> QED BY <3>2, <3>3
  <2>4. bound = m * h + (n + t) + F
    BY <2>2, <2>3
  <2> DEFINE x == k * h
  <2> DEFINE y == m * h
  <2>5. x \in Nat /\ y \in Nat /\ x <= y /\ bound = y + (n + t) + F
    BY <2>3, <2>4
  <2> HIDE DEF x, y
  <2>6. sum + x + F <= bound /\ x \in Nat /\ bound \in Nat
    BY <1>1, <2>5, SMT
  <2> QED BY <2>6 DEF x, h, F, bound
<1>4. CASE ~ p.autoFlush /\ n # 0
  <2> DEFINE q == (n + t) \div B
  <2>1. q \in Nat /\ n + t = q * B + ((n + t) % B) /\ (n + t) % B \in Nat /\ (n + t) % B < B
        /\ B * q = q * B
    BY <1>2, Division
  <2>2. bound = h * q + B * q + F
    BY <1>4, BoundWhenKept
  <2>3. sum = k * B
    BY <1>4
  <2> DEFINE r == (n + t) % B
  <2> HIDE DEF q, r, h, F, bound
  <2>4. q \in Int /\ q + 1 \in Int /\ k \in Int
    BY <2>1, SMT
  <2>5. k * B < (q + 1) * B
    <3>1. (q + 1) * B = q * B + B /\ q * B \in Int
      BY <2>4, ProductOrder
    <3>2. n + t = q * B + r /\ r < B /\ r \in Nat
      BY <2>1 DEF r
    <3>3. sum < q * B + B
      BY <3>1, <3>2, SMT
    <3> QED BY <2>3, <3>1, <3>3
  <2>6. k <= q
    <3>1. k < q + 1
      BY <2>4, <2>5, ProductOrder
    <3> QED BY <2>4, <3>1, SMT
  <2>7. k * h <= q * h /\ k * B <= q * B
    BY <1>1, <2>4, <2>6, ProductOrder
  <2>8. k * h \in Nat /\ q * h \in Nat /\ q * B \in Nat /\ k * B \in Nat /\ h * q = q * h
    BY <1>1, <2>1, SMT
  <2> DEFINE x == k * h
  <2> DEFINE y == q * h
  <2> DEFINE z == q * B
  <2>9. /\ x \in Nat /\ y \in Nat /\ z \in Nat /\ x <= y /\ sum <= z
        /\ bound = y + z + F
    BY <2>1, <2>2, <2>3, <2>7, <2>8
  <2> HIDE DEF x, y, z
  <2>10. sum + x + F <= bound /\ x \in Nat /\ bound \in Nat
    BY <1>1, <2>9, SMT
  <2> QED BY <2>10 DEF x, h, F, bound
<1> QED BY <1>3, <1>4

\* The bound grows with what waited.
LEMMA BoundGrows ==
  ASSUME NEW p, NEW B \in Nat, B > 0, p.block = B, p.autoFlush \in BOOLEAN,
         NEW n \in Nat, NEW t \in Nat, NEW s \in Nat, t <= s, s < B
  PROVE  compressBound_internal(n, p, t) <= compressBound_internal(n, p, s)
<1> DEFINE h == BlockExtra(p)
<1> DEFINE F == FooterSize(p)
<1> DEFINE a == n + t
<1> DEFINE small == compressBound_internal(n, p, t)
<1> DEFINE large == compressBound_internal(n, p, s)
<1>1. h \in Nat /\ F \in Nat /\ a \in Nat /\ a <= n + s /\ t < B
  BY Extras
<1> DEFINE q == a \div B
<1> DEFINE r == a % B
<1>2. q \in Nat /\ r \in Nat /\ r < B /\ a = q * B + r
  BY <1>1, Division
<1> HIDE DEF q, r, a
<1>3. q * B \in Nat /\ q \in Int /\ (q + 1) - 1 = q /\ q + 1 \in Nat
  BY <1>2, SMT
<1>4. CASE p.autoFlush \/ n = 0
  <2> DEFINE m == Parts(a, B)
  <2>1. small = h * m + a + F
    BY <1>1, <1>4, BoundWhenFlushed DEF a
  <2>2. m = q + (IF r > 0 THEN 1 ELSE 0)
    BY DEF Parts, q, r
  <2>3. m \in Nat /\ (m > 0 => (m - 1) * B < a)
    <3> HIDE DEF m
    <3>1. CASE r > 0
      <4>1. m = q + 1
        BY <2>2, <3>1
      <4>2. q * B < a
        BY <1>2, <1>3, <3>1, SMT
      <4> QED BY <1>3, <4>1, <4>2
    <3>2. CASE ~ (r > 0)
      <4>1. m = q /\ a = q * B
        BY <1>2, <1>3, <2>2, <3>2, SMT
      <4>2. (q - 1) * B = q * B - B
        BY <1>2, <1>3, ProductOrder
      <4>3. q * B - B < q * B
        BY <1>3, SMT
      <4> QED BY <1>2, <4>1, <4>2, <4>3
    <3> QED BY <3>1, <3>2
  <2>4. a + m * h + F <= large /\ m * h \in Nat
    <3> HIDE DEF m
    <3>1. ~ p.autoFlush /\ n # 0 => a = m * B
      BY <1>4
    <3>2. a + m * BlockExtra(p) + FooterSize(p) <= compressBound_internal(n, p, s) /\ m * BlockExtra(p) \in Nat
      BY <1>1, <2>3, <3>1, BoundHolds
    <3> QED BY <3>2
  <2> HIDE DEF h, F, m, small, large
  <2>5. h * m = m * h
    BY <1>1, <2>3, SMT
  <2> DEFINE x == m * h
  <2>6. small = x + a + F /\ a + x + F <= large /\ x \in Nat
    BY <2>1, <2>4, <2>5
  <2> HIDE DEF x
  <2>7. small <= large
    <3>1. x + a + F = a + x + F
      BY <1>1, <2>6, SMT
    <3> QED BY <2>6, <3>1
  <2> QED BY <2>7 DEF small, large
<1>5. CASE ~ p.autoFlush /\ n # 0
  <2>1. small = h * q + B * q + F
    BY <1>1, <1>5, BoundWhenKept DEF a, q
  <2>2. q * B <= n + s
    BY <1>1, <1>2, <1>3, SMT
  <2>3. q > 0 => (q - 1) * B < q * B
    <3>1. (q - 1) * B = q * B - B
      BY <1>2, <1>3, ProductOrder
    <3> QED BY <1>3, <3>1, SMT
  <2>4. q * B + q * h + F <= large /\ q * h \in Nat
    BY <1>2, <1>3, <1>5, <2>2, <2>3, BoundHolds
  <2> HIDE DEF h, F, small, large
  <2>5. h * q = q * h /\ B * q = q * B
    BY <1>1, <1>2, SMT
  <2> DEFINE x == q * h
  <2> DEFINE y == q * B
  <2>6. small = x + y + F /\ y + x + F <= large /\ x \in Nat /\ y \in Nat
    BY <1>3, <2>1, <2>4, <2>5
  <2> HIDE DEF x, y
  <2>7. small <= large
    <3>1. x + y + F = y + x + F
      BY <1>1, <2>6, SMT
    <3> QED BY <2>6, <3>1
  <2> QED BY <2>7 DEF small, large
<1> QED BY <1>4, <1>5

\* LZ4F_compressBound asks for the most that can be waiting.
LEMMA BoundOfKept ==
  ASSUME NEW p, NEW B \in Nat, B > 0, p.block = B, p.autoFlush \in BOOLEAN,
         NEW n \in Nat, NEW t \in Nat, t < B, p.autoFlush => t = 0
  PROVE  /\ compressBound_internal(n, p, t) <= compressBound(n, p)
         /\ compressBound(n, p) \in Nat /\ compressBound_internal(n, p, t) \in Nat
<1>1. \A s \in Nat : s < B => compressBound_internal(n, p, s) \in Nat
  <2>1. SUFFICES ASSUME NEW s \in Nat, s < B PROVE compressBound_internal(n, p, s) \in Nat
    OBVIOUS
  <2>2. 0 \in Nat /\ 0 <= n + s /\ (0 > 0 => (0 - 1) * B < 0) /\ 0 = 0 * B
    BY SMT
  <2> QED BY <2>1, <2>2, BoundHolds
<1>2. CASE p.autoFlush
  <2>1. compressBound(n, p) = compressBound_internal(n, p, t)
    BY <1>2 DEF compressBound
  <2>2. compressBound_internal(n, p, t) \in Nat
    BY <1>1
  <2> HIDE DEF compressBound_internal
  <2> QED BY <2>1, <2>2, SMT
<1>3. CASE ~ p.autoFlush
  <2>1. compressBound(n, p) = compressBound_internal(n, p, B)
    BY <1>3 DEF compressBound
  <2>2. B - 1 \in Nat /\ t <= B - 1 /\ B - 1 < B /\ Smaller(B, B - 1) = Smaller(B - 1, B - 1)
    BY SMT DEF Smaller
  <2>3. compressBound_internal(n, p, B) = compressBound_internal(n, p, B - 1)
    BY <2>2 DEF compressBound_internal
  <2>4. compressBound_internal(n, p, t) <= compressBound_internal(n, p, B - 1)
    BY <2>2, BoundGrows
  <2> QED BY <1>1, <2>1, <2>2, <2>3, <2>4
<1> QED BY <1>2, <1>3

\* Without autoFlush only whole blocks are written.
LEMMA UpdateIsWhole ==
  ASSUME NEW sizes \in SUBSET Nat, NEW c, IsContext(c, sizes), NEW next \in Nat,
         NEW n \in Nat, Sound(c, next), ~ c.prefs.autoFlush
  PROVE  UpdateBytes(c, n) = Len(UpdateBlocks(c, next, n)) * c.prefs.block
<1> DEFINE B == c.prefs.block
<1> DEFINE k == Len(UpdateBlocks(c, next, n))
<1> DEFINE left == n - Filled(c, n)
<1> DEFINE sum == UpdateBytes(c, n)
<1>1. /\ B \in Nat /\ B > 0 /\ c.tmpInSize \in Nat
  BY ContextTypes, PreferenceTypes
<1>2. left \in Nat
  <2>1. /\ Filled(c, n) \in Nat /\ Direct(c, n) \in Nat /\ Left(c, n) \in Nat
        /\ Filled(c, n) + Direct(c, n) + Left(c, n) = n
    BY UpdateSplit DEF Sound, Roomy
  <2> QED BY <2>1, SMT
<1>3. Direct(c, n) = left - (left % B)
  BY DEF Direct
<1>4. PICK q \in Nat : sum = q * B
  <2> DEFINE d == left \div B
  <2> DEFINE r == left % B
  <2> HIDE DEF left
  <2>1. d \in Nat /\ r \in Nat /\ left = d * B + r
    BY <1>1, <1>2, Division
  <2> HIDE DEF d
  <2>2. d * B \in Nat /\ d \in Int /\ (d + 1) * B = d * B + B /\ d + 1 \in Nat
    <3>1. d * B \in Nat /\ d \in Int /\ d + 1 \in Nat
      BY <1>1, <2>1, SMT
    <3>2. (d + 1) * B = d * B + B
      BY <1>1, <3>1, ProductOrder
    <3> QED BY <3>1, <3>2
  <2>3. Direct(c, n) = d * B
    <3> DEFINE x == d * B
    <3>1. x \in Nat /\ left = x + r /\ r \in Nat /\ Direct(c, n) = left - r
      BY <1>3, <2>1, <2>2
    <3> HIDE DEF x, r
    <3> QED BY <3>1, SMT DEF x
  <2>4. sum = d * B + (IF Completes(c, n) THEN B ELSE 0)
    BY <2>3 DEF UpdateBytes
  <2>5. sum = d * B \/ sum = (d + 1) * B
    BY <1>1, <2>2, <2>4
  <2> QED BY <2>1, <2>2, <2>5
<1>5. /\ k \in Nat /\ sum <= k * B
      /\ k > 0 => (k - 1) * B < sum
  BY UpdateBlocksChained
<1> HIDE DEF B, k, sum
<1>6. q \in Int /\ k \in Int /\ k - 1 \in Int
  BY <1>5, SMT
<1>7. k <= q
  <2>1. CASE k > 0
    <3>1. k - 1 < q
      BY <1>1, <1>4, <1>5, <1>6, <2>1, ProductOrder
    <3> QED BY <1>6, <3>1, SMT
  <2> QED BY <1>5, <2>1, SMT
<1>8. k * B <= q * B /\ k * B \in Int /\ q * B \in Int
  BY <1>1, <1>6, <1>7, ProductOrder
<1>9. sum = k * B
  <2> DEFINE x == k * B
  <2>1. x <= sum /\ sum <= x /\ x \in Int /\ sum \in Int
    BY <1>4, <1>5, <1>8
  <2> HIDE DEF x
  <2>2. sum = x
    BY <2>1, SMT
  <2> QED BY <2>2 DEF x
<1> QED BY <1>9 DEF B, k, sum

\* What blocks take on the wire, in the form the bounds use it.
LEMMA WrittenIs ==
  ASSUME NEW p, NEW blocks
  PROVE  Written(p, blocks) = CarriedBy(blocks) + Len(blocks) * BlockExtra(p)
BY DEF Written, BlockExtra

\* The capacity LZ4F_compressBound computes is never refused, and holds what
\* compressUpdate writes, whatever waits.
LEMMA RoomForUpdate ==
  ASSUME NEW sizes \in SUBSET Nat, NEW c, IsContext(c, sizes), NEW next \in Nat,
         NEW n \in Nat, Sound(c, next)
  PROVE  /\ compressBound_internal(n, c.prefs, c.tmpInSize) <= compressBound(n, c.prefs)
         /\ Written(c.prefs, UpdateBlocks(c, next, n)) <= compressBound(n, c.prefs)
         /\ compressBound(n, c.prefs) \in Nat
         /\ compressBound_internal(n, c.prefs, c.tmpInSize) \in Nat
         /\ Written(c.prefs, UpdateBlocks(c, next, n)) \in Nat
<1> DEFINE B == c.prefs.block
<1> DEFINE t == c.tmpInSize
<1> DEFINE k == Len(UpdateBlocks(c, next, n))
<1> DEFINE sum == UpdateBytes(c, n)
<1> DEFINE bound == compressBound_internal(n, c.prefs, t)
<1>1. /\ B \in Nat /\ B > 0 /\ t \in Nat /\ c.prefs.autoFlush \in BOOLEAN
  BY ContextTypes, PreferenceTypes
<1>2. t < B /\ (c.prefs.autoFlush => t = 0)
  BY <1>1, SMT DEF Sound, Roomy
<1>3. /\ bound <= compressBound(n, c.prefs)
      /\ compressBound(n, c.prefs) \in Nat /\ bound \in Nat
  BY <1>1, <1>2, BoundOfKept
<1>4. /\ CarriedBy(UpdateBlocks(c, next, n)) = sum /\ k \in Nat /\ sum <= k * B
      /\ k > 0 => (k - 1) * B < sum
  BY UpdateBlocksChained
<1>5. sum \in Nat /\ sum <= n + t
  <2> DEFINE u == Update(c, next, n)
  <2>1. /\ sum \in Nat /\ sum + u.tmpInSize = t + n /\ IsContext(u, sizes)
    BY UpdateSound
  <2>2. u.tmpInSize \in Nat
    <3> HIDE DEF u
    <3> QED BY <2>1, ContextTypes
  <2> HIDE DEF u, sum, t
  <2> QED BY <1>1, <2>1, <2>2, SMT
<1>6. ~ c.prefs.autoFlush /\ n # 0 => sum = k * B
  BY UpdateIsWhole
<1>7. /\ sum + k * BlockExtra(c.prefs) + FooterSize(c.prefs) <= bound
      /\ k * BlockExtra(c.prefs) \in Nat
  <2> HIDE DEF B, t, k, sum
  <2>1. c.prefs.block = B
    BY DEF B
  <2> QED BY <1>1, <1>2, <1>4, <1>5, <1>6, <2>1, BoundHolds
<1>8. Written(c.prefs, UpdateBlocks(c, next, n)) = sum + k * BlockExtra(c.prefs)
  BY <1>4, WrittenIs
<1> DEFINE x == k * BlockExtra(c.prefs)
<1>9. sum + x + FooterSize(c.prefs) <= bound /\ x \in Nat /\ FooterSize(c.prefs) \in Nat
  BY <1>7, Extras
<1> HIDE DEF x, sum, bound
<1>10. sum + x <= compressBound(n, c.prefs) /\ sum + x \in Nat
  BY <1>3, <1>5, <1>9, SMT
<1> QED BY <1>3, <1>8, <1>10 DEF x, bound

\* A flush, and the footer after it, fit the bound of no bytes.
LEMMA RoomForFlush ==
  ASSUME NEW sizes \in SUBSET Nat, NEW c, IsContext(c, sizes), NEW next \in Nat,
         c.tmpInSize = 0 \/ Sound(c, next)
  PROVE  /\ Written(c.prefs, FlushBlocks(c)) + FooterSize(c.prefs) <= compressBound(0, c.prefs)
         /\ c.tmpInSize > 0 => c.tmpInSize + BHSize + BFSize <= compressBound(0, c.prefs)
         /\ compressBound(0, c.prefs) \in Nat
         /\ Written(c.prefs, FlushBlocks(c)) \in Nat
<1> DEFINE B == c.prefs.block
<1> DEFINE t == c.tmpInSize
<1> DEFINE k == IF t = 0 THEN 0 ELSE 1
<1> DEFINE bound == compressBound_internal(0, c.prefs, t)
<1> DEFINE cap == compressBound(0, c.prefs)
<1>1. /\ B \in Nat /\ B > 0 /\ t \in Nat /\ c.prefs.autoFlush \in BOOLEAN
  BY ContextTypes, PreferenceTypes
<1>2. t < B /\ (c.prefs.autoFlush => t = 0)
  BY <1>1, SMT DEF Sound, Roomy
<1>3. bound <= cap /\ cap \in Nat /\ bound \in Nat
  BY <1>1, <1>2, BoundOfKept
<1>4. CarriedBy(FlushBlocks(c)) = t /\ Len(FlushBlocks(c)) = k
  <2>1. CASE t = 0
    <3>1. FlushBlocks(c) = << >> /\ Len(<< >>) = 0
      BY <2>1 DEF FlushBlocks
    <3> QED BY <2>1, <3>1, NoBlocksChained
  <2>2. CASE t # 0
    BY <2>2, FlushBlocksChained
  <2> QED BY <2>1, <2>2
<1>5. k \in Nat /\ t <= 0 + t /\ (k > 0 => (k - 1) * B < t)
  BY <1>1, SMT
<1>6. /\ t + k * BlockExtra(c.prefs) + FooterSize(c.prefs) <= bound
      /\ k * BlockExtra(c.prefs) \in Nat
  <2> HIDE DEF B, t, k
  <2>1. c.prefs.block = B
    BY DEF B
  <2>2. ~ c.prefs.autoFlush /\ 0 # 0 => t = k * B
    OBVIOUS
  <2> QED BY <1>1, <1>2, <1>5, <2>1, <2>2, BoundHolds
<1>7. Written(c.prefs, FlushBlocks(c)) = t + k * BlockExtra(c.prefs)
  BY <1>4, WrittenIs
<1> DEFINE x == k * BlockExtra(c.prefs)
<1> DEFINE F == FooterSize(c.prefs)
<1>8. t + x + F <= bound /\ x \in Nat /\ F \in Nat /\ F >= 4 /\ BHSize = 4 /\ BFSize = 4
  BY <1>6, Extras
<1>9. t > 0 => x >= 4
  <2>1. BlockExtra(c.prefs) \in Nat /\ BlockExtra(c.prefs) >= 4
    BY Extras
  <2>2. t > 0 => x = BlockExtra(c.prefs)
    BY <2>1, SMT
  <2> QED BY <2>1, <2>2
<1> HIDE DEF x, F, t, bound, cap
<1>10. /\ t + x + F <= cap /\ t + x \in Nat
       /\ t > 0 => t + BHSize + BFSize <= cap
  BY <1>1, <1>3, <1>8, <1>9, SMT
<1>11. Written(c.prefs, FlushBlocks(c)) = t + x
  BY <1>7 DEF x
<1>12. Written(c.prefs, FlushBlocks(c)) + F <= cap /\ Written(c.prefs, FlushBlocks(c)) \in Nat
  BY <1>10, <1>11
<1> QED BY <1>3, <1>10, <1>12 DEF t, F, cap
=============================================================================
