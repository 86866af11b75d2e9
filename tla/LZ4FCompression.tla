-------------------------- MODULE LZ4FCompression --------------------------
(***************************************************************************)
(* The LZ4F compression context of lz4libs/lz4frame.c, as operators on a   *)
(* record: what LZ4F_compressBegin, LZ4F_compressUpdate, LZ4F_flush and    *)
(* LZ4F_compressEnd do to it and which blocks they write.  Contexts are    *)
(* values here; FrameContext and FrameCompressor hold them in variables.   *)
(*                                                                         *)
(* A byte of content is its position in the frame's content, so a block    *)
(* says where each of its bytes, and each byte of the history it was       *)
(* compressed against, came from.  Compression itself is abstracted to     *)
(* the worst case LZ4F_makeBlock allows: a block stored at its own size.   *)
(***************************************************************************)
EXTENDS Sums, Sequences

CONSTANTS Window,        \* 64 KB: how far back an LZ4 match can reach
          BlockSizes,    \* the maxBlockSize of each LZ4F_blockSizeID_t
          DefaultBlock   \* that of LZ4F_BLOCKSIZEID_DEFAULT

ASSUME WindowAssumption == Window \in Nat \ {0}
ASSUME BlockAssumption  == BlockSizes \subseteq Nat \ {0} /\ DefaultBlock \in BlockSizes

\* LZ4F_max4MB is the largest.
ASSUME LargestAssumption == \E B \in BlockSizes : \A b \in BlockSizes : b <= B

BHSize    == 4    \* a block's header
BFSize    == 4    \* a checksum, of a block or of the content
EndMark   == 4
maxFHSize == 19   \* a frame's header, all fields included

Smaller(a, b) == IF a < b THEN a ELSE b

\* What a caller chooses for a frame; size = 0 is "no content size stored".
Preferences(sizes) ==
  [block: BlockSizes, linked: BOOLEAN, autoFlush: BOOLEAN,
   blockCrc: BOOLEAN, contentCrc: BOOLEAN, size: sizes]

BlockCrcSize(p) == IF p.blockCrc THEN BFSize ELSE 0
FooterSize(p)   == EndMark + (IF p.contentCrc THEN BFSize ELSE 0)
HeaderSize(p)   == 7 + (IF p.size > 0 THEN 8 ELSE 0)
-----------------------------------------------------------------------------
(* Memory: a run of positions, read from or copied into the tmp buffer.    *)

Positions(from, n) == [i \in 1..n |-> from + i - 1]

Peek(mem, at, n) == [i \in 1..n |-> mem[at + i - 1]]

Store(mem, at, s) ==
  [a \in DOMAIN mem |-> IF a - at + 1 \in DOMAIN s THEN s[a - at + 1] ELSE mem[a]]

(* A span of memory: n bytes at an offset of the context's tmp buffer, or  *)
(* at a position of the caller's buffer, which is gone when a call ends.   *)
Span(in, at, n) == [in |-> in, at |-> at, size |-> n]

NoDict == Span("tmp", 0, 0)

Bytes(mem, s) == IF s.in = "tmp" THEN Peek(mem, s.at, s.size) ELSE Positions(s.at, s.size)

(* LZ4_compress_fast_continue and LZ4_compress_HC_continue keep what they  *)
(* compressed as the dictionary of the next block: appended when the block *)
(* follows it in memory, in its place otherwise.                           *)
Continue(dict, s) ==
  IF dict.size > 0 /\ dict.in = s.in /\ dict.at + dict.size = s.at
  THEN [dict EXCEPT !.size = @ + s.size]
  ELSE s
-----------------------------------------------------------------------------
(* The context.  total is totalInSize, max is maxBufferSize, tmpIn counts  *)
(* from tmpBuff.                                                           *)

Garbage == -1

NewContext ==
  [cStage |-> 0, max |-> 0, mem |-> [a \in {} |-> Garbage], tmpIn |-> 0,
   tmpInSize |-> 0, total |-> 0, dict |-> NoDict,
   prefs |-> [block |-> DefaultBlock, linked |-> TRUE, autoFlush |-> FALSE,
              blockCrc |-> FALSE, contentCrc |-> FALSE, size |-> 0]]

RequiredBuffer(p) ==
  IF p.autoFlush THEN (IF p.linked THEN Window ELSE 0)
                 ELSE p.block + (IF p.linked THEN 2 * Window ELSE 0)

NeedsBuffer(c, p) == c.max < RequiredBuffer(p)

\* The C struct, with sizes the content sizes its callers use.
IsContext(c, sizes) ==
  /\ c \in [cStage: {0, 1}, max: Nat, mem: {c.mem}, tmpIn: Nat, tmpInSize: Nat,
            total: Nat, dict: [in: {"tmp", "src"}, at: Nat, size: Nat],
            prefs: Preferences(sizes)]
  /\ DOMAIN c.mem \subseteq Nat
  /\ c.mem \in [DOMAIN c.mem -> Int]

\* Mutant: totalInSize is never reset.
BeginKeepingTotal(c, p) ==
  [c EXCEPT !.cStage = 1, !.prefs = p, !.tmpIn = 0, !.tmpInSize = 0,
            !.max = IF NeedsBuffer(c, p) THEN RequiredBuffer(p) ELSE @,
            !.mem = IF NeedsBuffer(c, p)
                    THEN [a \in 0..(RequiredBuffer(p) - 1) |-> Garbage] ELSE @,
            !.dict = IF p.linked THEN NoDict ELSE @]

Begin(c, p) ==
  [c EXCEPT !.cStage = 1, !.prefs = p, !.tmpIn = 0, !.tmpInSize = 0,
            !.max   = IF NeedsBuffer(c, p) THEN RequiredBuffer(p) ELSE @,
            !.mem   = IF NeedsBuffer(c, p)
                      THEN [a \in 0..(RequiredBuffer(p) - 1) |-> Garbage] ELSE @,
            !.total = IF p.size > 0 THEN 0 ELSE @,
            !.dict  = IF p.linked THEN NoDict ELSE @]

\* The tmp buffer was freed and its replacement could not be allocated.
BeginFailed(c, p) ==
  [c EXCEPT !.prefs = p, !.max = 0, !.mem = [a \in {} |-> Garbage]]

Block(c, s, hist) ==
  [data |-> Bytes(c.mem, s),
   hist |-> IF c.prefs.linked THEN Bytes(c.mem, hist) ELSE << >>]

\* LZ4F_localSaveDict, then tmpIn placed after what it saved.
SaveDict(c) ==
  LET real == Smaller(Window, c.dict.size)
      kept == Span(c.dict.in, c.dict.at + c.dict.size - real, real)
  IN  [c EXCEPT !.mem = Store(@, 0, Bytes(c.mem, kept)),
                !.dict = Span("tmp", 0, real), !.tmpIn = real]

\* Mutant: the tmp buffer is never tidied.
KeepAsItIs(c) == c

KeepWithinLimits(c) == IF c.tmpIn + c.prefs.block > c.max THEN SaveDict(c) ELSE c

\* tmpIn's bytes leave as a block; linked blocks stay in place as history.
Waiting(c) == Span("tmp", c.tmpIn, c.tmpInSize)

\* Mutants: a whole block is taken off, or the next one overwrites history.
EmitWholeBlock(c) ==
  [c EXCEPT !.tmpInSize = @ - c.prefs.block,
            !.tmpIn = IF c.prefs.linked THEN @ + c.tmpInSize ELSE @,
            !.dict  = IF c.prefs.linked THEN Continue(@, Waiting(c)) ELSE @]
EmitInPlace(c) ==
  [c EXCEPT !.tmpInSize = 0, !.dict = IF c.prefs.linked THEN Continue(@, Waiting(c)) ELSE @]

EmitWaiting(c) ==
  [c EXCEPT !.tmpInSize = 0,
            !.tmpIn = IF c.prefs.linked THEN @ + c.tmpInSize ELSE @,
            !.dict  = IF c.prefs.linked THEN Continue(@, Waiting(c)) ELSE @]

\* Mutant: new bytes go over those that wait.
GatherOver(c, from, n) ==
  [c EXCEPT !.mem = Store(@, c.tmpIn, Positions(from, n)), !.tmpInSize = @ + n]

Gather(c, from, n) ==
  [c EXCEPT !.mem = Store(@, c.tmpIn + c.tmpInSize, Positions(from, n)),
            !.tmpInSize = @ + n]
-----------------------------------------------------------------------------
(* LZ4F_compressUpdate of n bytes whose first has position from.           *)

Filled(c, n) == IF c.tmpInSize > 0 THEN Smaller(n, c.prefs.block - c.tmpInSize) ELSE 0
Completes(c, n) == c.tmpInSize > 0 /\ c.tmpInSize + n >= c.prefs.block
\* Bytes compressed straight from the caller's buffer.
Direct(c, n) == LET left == n - Filled(c, n)
                IN  IF c.prefs.autoFlush THEN left ELSE left - (left % c.prefs.block)
Left(c, n) == n - Filled(c, n) - Direct(c, n)

AfterFill(c, from, n) == Gather(c, from, Filled(c, n))

AfterTmpBlock(c, from, n) ==
  IF Completes(c, n) THEN EmitWaiting(AfterFill(c, from, n)) ELSE AfterFill(c, from, n)

\* Mutant: history is left in the caller's buffer.
AfterDirectUnsaved(c, from, n) ==
  LET c2 == AfterTmpBlock(c, from, n)
  IN  IF Direct(c, n) > 0 /\ c.prefs.linked
      THEN [c2 EXCEPT !.dict = Span("src", from + Filled(c, n), Direct(c, n)), !.tmpIn = 0]
      ELSE c2

\* The caller's buffer dies with the call: linked history is copied out of it.
AfterDirect(c, from, n) ==
  LET c2 == AfterTmpBlock(c, from, n)
  IN  IF Direct(c, n) > 0 /\ c.prefs.linked
      THEN SaveDict([c2 EXCEPT !.dict = Span("src", from + Filled(c, n), Direct(c, n))])
      ELSE c2

AfterLimits(c, from, n) ==
  IF c.prefs.autoFlush THEN AfterDirect(c, from, n)
                       ELSE KeepWithinLimits(AfterDirect(c, from, n))

\* Mutant: bytes short of a block are not kept.
UpdateWithoutRest(c, from, n) == [AfterLimits(c, from, n) EXCEPT !.total = @ + n]

Update(c, from, n) ==
  LET c4 == AfterLimits(c, from, n)
      c5 == IF Left(c, n) > 0 THEN Gather(c4, from + n - Left(c, n), Left(c, n)) ELSE c4
  IN  [c5 EXCEPT !.total = @ + n]

\* The blocks it wrote: the completed tmp block, then the direct ones.
TmpBlocks(c, from, n) ==
  IF Completes(c, n)
  THEN LET c1 == AfterFill(c, from, n) IN << Block(c1, Waiting(c1), c1.dict) >>
  ELSE << >>

DirectBlocks(c, from, n) ==
  LET first == from + Filled(c, n)
      B     == c.prefs.block
      c2    == AfterTmpBlock(c, from, n)
  IN  [j \in 1..((Direct(c, n) + B - 1) \div B) |->
        Block(c2, Span("src", first + (j - 1) * B, Smaller(B, Direct(c, n) - (j - 1) * B)),
              IF j = 1 THEN c2.dict ELSE Span("src", first, (j - 1) * B))]

UpdateBytes(c, n) == Direct(c, n) + (IF Completes(c, n) THEN c.prefs.block ELSE 0)

UpdateBlocks(c, from, n) == TmpBlocks(c, from, n) \o DirectBlocks(c, from, n)
-----------------------------------------------------------------------------
(* LZ4F_flush and the state LZ4F_compressEnd leaves.                       *)

Flush(c) == IF c.tmpInSize = 0 THEN c ELSE KeepWithinLimits(EmitWaiting(c))

FlushBlocks(c) ==
  IF c.tmpInSize = 0 THEN << >> ELSE << Block(c, Waiting(c), c.dict) >>

\* maxBufferSize = 0 makes the next frame allocate a buffer of its own.
End(c) == [Flush(c) EXCEPT !.cStage = 0, !.max = 0]

WrongSize(c) == c.prefs.size > 0 /\ c.prefs.size # c.total
-----------------------------------------------------------------------------
(* What keeps a started context c correct once next bytes of content have  *)
(* been given to it.                                                       *)

\* Room for what the next call copies into the tmp buffer: a whole block
\* without autoFlush, a window of history when blocks are linked.
Roomy(c) ==
  /\ 0..(c.max - 1) \subseteq DOMAIN c.mem
  /\ c.prefs.linked => c.max >= Window
  /\ IF c.prefs.autoFlush
     THEN c.tmpInSize = 0
     ELSE /\ c.tmpInSize < c.prefs.block
          /\ c.tmpIn + c.prefs.block <= c.max

\* What waits in the tmp buffer is the last of the content given.
WaitingIs(c, next) ==
  /\ c.tmpInSize <= next
  /\ Bytes(c.mem, Waiting(c)) = Positions(next - c.tmpInSize, c.tmpInSize)

\* The history of the next linked block lies in the tmp buffer, just before
\* that block, and is the content that precedes it.
HistoryIs(c, next) ==
  c.prefs.linked =>
    /\ c.dict.in = "tmp"
    /\ c.dict.at + c.dict.size = c.tmpIn
    /\ c.dict.at + c.dict.size <= c.max
    /\ c.dict.size + c.tmpInSize <= next
    /\ Bytes(c.mem, c.dict) =
         Positions(next - c.tmpInSize - c.dict.size, c.dict.size)
-----------------------------------------------------------------------------
(* Sizes.  The content blocks, or the first k of them, carry, the bytes    *)
(* they take on the wire, and the capacities asked for and allocated.      *)

Carried(blocks, k) == Sum([j \in DOMAIN blocks |-> Len(blocks[j].data)], k)
CarriedBy(blocks) == Carried(blocks, Len(blocks))

Written(p, blocks) ==
  CarriedBy(blocks) + Len(blocks) * (BHSize + BlockCrcSize(p))

compressBound_internal(n, p, alreadyBuffered) ==
  LET flush    == p.autoFlush \/ n = 0
      maxSrc   == n + Smaller(alreadyBuffered, p.block - 1)
      nbFull   == maxSrc \div p.block
      lastSize == IF flush THEN maxSrc % p.block ELSE 0
      nbBlocks == nbFull + (IF lastSize > 0 THEN 1 ELSE 0)
  IN  (BHSize + BlockCrcSize(p)) * nbBlocks + p.block * nbFull + lastSize + FooterSize(p)

\* Mutant: nothing is taken to be buffered.
compressBoundFresh(n, p) == compressBound_internal(n, p, 0)

\* (size_t)-1 bytes already buffered is any number past the clamp.
compressBound(n, p) == compressBound_internal(n, p, IF p.autoFlush THEN 0 ELSE p.block)

compressFrameBound(n, p) ==
  maxFHSize + compressBound_internal(n, [p EXCEPT !.autoFlush = TRUE], 0)
=============================================================================
