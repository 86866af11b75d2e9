----------------------------- MODULE StreamPair -----------------------------
(***************************************************************************)
(* lz4.stream end to end: a LZ4StreamCompressor, a LZ4StreamDecompressor,  *)
(* and blocks carried from one to the other.                               *)
(*                                                                         *)
(* Each side owns two pages and works on them in turn.  A chunk is copied  *)
(* into the compressor's page and compressed there; the decompressor       *)
(* decodes the block into its own.  Neither keeps any other copy of the    *)
(* past, so a block may only refer to bytes that still lie, on both sides, *)
(* where the histories of LZ4Streaming say they lie.                       *)
(*                                                                         *)
(* A byte is its position: the dictionary is bytes 0 .. dict-1 and the     *)
(* content follows.  Memory maps addresses to positions, or to Junk.  The  *)
(* two pages are one allocation, at 0 .. 2 * size - 1; the dictionary lies *)
(* behind it, not adjacent.                                                *)
(***************************************************************************)
EXTENDS LZ4Streaming, StreamBounds

CONSTANTS
  PageSize,       \* buffer_size of the compressor
  Streams,        \* what a stream may be like: records as in StreamRecord
  MinMatch,       \* a match is at least this long,
  MFLimit,        \* starts at least this far from the end of its block,
  LastLiterals,   \* and ends at least this far from it
  Wild,           \* how far past its end a copy of the decoder may write
  MaxChunks       \* bound: a stream is as long as that many of its longest chunks

\* mode: "fast" (and default) or "hc" (high_compression); sizes: the lengths its
\* chunks are of; dict: the length of the dictionary; decPage: buffer_size of
\* the decompressor; loses: results that may fail to be created, "block" and
\* "chunk"; freed: may the caller let go of the dictionary.
StreamRecord ==
  [mode : {"fast", "hc"}, sizes : SUBSET (0 .. PageSize), dict : Nat, decPage : Nat,
   loses : SUBSET {"block", "chunk"}, freed : BOOLEAN]

\* _create_context accepts no compressor with a larger page; with one of no byte
\* only chunks of none can be made.
ASSUME PairAssumption ==
  /\ PageSize \in 1 .. LZ4_MAX_INPUT_SIZE
  /\ Streams \subseteq StreamRecord
  /\ MinMatch \in Nat \ {0} /\ {MFLimit, LastLiterals, Wild, MaxChunks} \subseteq Nat

VARIABLES
  conf,    \* what the stream is like
  given,   \* the position of the next byte of content
  enc,     \* the compressor: [mem, hist, page]
  dec,     \* the decompressor: [mem, hist, page]
  wire,    \* the block between them, or NoBlock
  got      \* what the last decompress came to

pairVars == <<conf, given, enc, dec, wire, got>>

Junk == -1
NoBlock == [from |-> 0, n |-> 0, csize |-> 0, seen |-> << >>]
Outcomes == {"nothing", "exact", "lost", "wrong", "error", "refused"}

DecPageSize == conf.decPage

DictAt(size) == 2 * size + 1

\* Memory once n bytes, from position first on, are written at an address; and
\* once it is no longer known what n bytes there hold.
Written(mem, at, n, first) ==
  [a \in DOMAIN mem |-> IF a \in at .. at + n - 1 THEN first + (a - at) ELSE mem[a]]

Spoiled(mem, at, n) ==
  [a \in DOMAIN mem |-> IF a \in at .. at + n - 1 THEN Junk ELSE mem[a]]

\* A side as _create_context leaves it.
Memory(size, dict) ==
  [a \in 0 .. DictAt(size) + dict - 1 |-> IF a < DictAt(size) THEN Junk ELSE a - DictAt(size)]

EncoderNew(mode, dict) ==
  CASE mode = "fast" -> IF dict > 0 THEN FastLoad(DictAt(PageSize), dict) ELSE FastNew
    [] mode = "hc"   -> IF dict > 0 THEN HCLoad(DictAt(PageSize), dict) ELSE HCNew

PairInit ==
  /\ conf \in Streams
  /\ given = conf.dict
  /\ enc = [mem |-> Memory(PageSize, conf.dict), hist |-> EncoderNew(conf.mode, conf.dict), page |-> 0]
  /\ dec = [mem |-> Memory(DecPageSize, conf.dict),
            hist |-> DecodeSet(DictAt(DecPageSize), conf.dict), page |-> 0]
  /\ wire = NoBlock
  /\ got = "nothing"

-----------------------------------------------------------------------------
(* _compress                                                                 *)

EncoderHistory(src, n) ==
  IF conf.mode = "hc" THEN HCHistory(enc.hist, src, n) ELSE FastHistory(enc.hist, src, n)

EncoderContinue(src, n) ==
  IF conf.mode = "hc" THEN HCContinue(enc.hist, src, n) ELSE FastContinue(enc.hist, src, n)

\* A block of n bytes, and what the encoder saw at each distance before it
\* when it looked for matches: seen[k] is the byte it took for byte from - k.
Block(mem, src, n, csize) ==
  LET h == EncoderHistory(src, n)
  IN  [from |-> given, n |-> n, csize |-> csize,
       seen |-> [k \in 1 .. Reach(h) |-> mem[Back(h, k)]]]

WithinBound(n) == \E longest \in conf.sizes :
  given + n =< conf.dict + MaxChunks * longest

\* double_buffer_update_index
OtherPage(page) == (page + 1) % 2

Compress(n, csize) ==
  LET src == enc.page * PageSize
      mem == Written(enc.mem, src, n, given)
  IN  /\ wire = NoBlock /\ got \in {"nothing", "exact", "lost"}
      /\ n \in conf.sizes /\ WithinBound(n)
      /\ wire' = Block(mem, src, n, csize)
      /\ enc' = [mem |-> mem, hist |-> EncoderContinue(src, n), page |-> OtherPage(enc.page)]
      /\ given' = given + n
      /\ UNCHANGED <<conf, dec, got>>

\* The result cannot be created: the chunk is in the history, the page is not
\* turned, and no block comes out.
CompressLost(n) ==
  LET src == enc.page * PageSize
      mem == Written(enc.mem, src, n, given)
  IN  /\ "block" \in conf.loses
      /\ wire = NoBlock /\ got \in {"nothing", "exact", "lost"}
      /\ n \in conf.sizes /\ WithinBound(n)
      /\ enc' = [enc EXCEPT !.mem = mem, !.hist = EncoderContinue(src, n)]
      /\ given' = given + n
      /\ UNCHANGED <<conf, dec, wire, got>>

-----------------------------------------------------------------------------
(* _decompress                                                               *)

\* Byte i of the block is copied, by a match that starts at op, from k before
\* the block.
Copied(b) ==
  {c \in [op : 0 .. b.n - MFLimit, i : 0 .. b.n - LastLiterals - 1, k : DOMAIN b.seen] :
     /\ c.op =< c.i
     /\ c.op + MinMatch =< b.n - LastLiterals
     /\ c.k + (c.i - c.op) \in DOMAIN b.seen}

\* What lies at address a while the block is decoded into the page at dest and
\* op bytes of it are out: the new bytes, behind them what the last copy wrote
\* past its end, then what was there.
Reads(b, dest, wild, op, a) ==
  CASE a \in dest .. dest + op - 1 -> b.from + (a - dest)
    [] a \in dest + op .. dest + Lesser(op + wild, DecPageSize) - 1 /\ op > 0 -> Junk
    [] OTHER -> dec.mem[a]

DecoderReach(h) == h.prefix.size + h.ext.size

\* "Error: offset outside buffers"
CanFail(b, h) == \E c \in Copied(b) : c.k > DecoderReach(h)

CanMiscopy(b, h, dest, wild) ==
  \E c \in Copied(b) :
    /\ c.k =< DecoderReach(h)
    /\ Reads(b, dest, wild, c.op, Back(h, c.k)) # b.seen[c.k]

\* The block's own bytes, then what the last copy left behind them.
Decoded(b, dest, wild) ==
  LET end == Lesser(b.n - LastLiterals + wild, DecPageSize)
      past == IF b.n > MFLimit /\ end > b.n THEN end - b.n ELSE 0
  IN  Spoiled(Written(dec.mem, dest, b.n, b.from), dest + b.n, past)

Fits(b) == get_input_bound(b.csize) \in 1 .. DecPageSize

Refuse ==
  /\ wire # NoBlock /\ ~Fits(wire)
  /\ wire' = NoBlock /\ got' = "refused"
  /\ UNCHANGED <<conf, given, enc, dec>>

\* Mutant: the page is turned after the result is created.
XTurned(page, kept) == IF kept THEN OtherPage(page) ELSE page

\* The page is turned whether or not the result can be created.
Turned(page, kept) == OtherPage(page)

Decompress(wild, kept) ==
  LET dest == dec.page * DecPageSize
      h    == DecodeHistory(dec.hist, dest)
  IN  /\ wire # NoBlock /\ Fits(wire) /\ wire.n =< DecPageSize
      /\ kept \/ "chunk" \in conf.loses
      /\ got' \in {IF kept THEN "exact" ELSE "lost"}
                    \cup (IF CanMiscopy(wire, h, dest, wild) THEN {"wrong"} ELSE {})
      /\ dec' = [mem |-> Decoded(wire, dest, wild),
                 hist |-> DecodeContinue(dec.hist, dest, wire.n),
                 page |-> Turned(dec.page, kept)]
      /\ wire' = NoBlock
      /\ UNCHANGED <<conf, given, enc>>

\* What was decoded before the error stays in the page, which is not turned:
\* the two sides no longer agree, and the stream is over.
DecompressFails ==
  LET dest == dec.page * DecPageSize
  IN  /\ wire # NoBlock /\ Fits(wire)
      /\ wire.n > DecPageSize \/ CanFail(wire, DecodeHistory(dec.hist, dest))
      /\ dec' = [dec EXCEPT !.mem = Spoiled(@, dest, DecPageSize),
                            !.hist = DecodeContinue(@, dest, 0)]
      /\ got' = "error" /\ wire' = NoBlock
      /\ UNCHANGED <<conf, given, enc>>

-----------------------------------------------------------------------------
(* _create_context releases the dictionary it was given: its memory stays    *)
(* as it is only while the caller keeps it.                                  *)

FreeDict ==
  /\ conf.freed /\ conf.dict > 0
  /\ enc' = [enc EXCEPT !.mem = Spoiled(@, DictAt(PageSize), conf.dict)]
  /\ UNCHANGED <<conf, given, dec, wire, got>>

PairNext ==
  \/ \E n \in 0 .. PageSize : \E csize \in {1, largest_block(n)} : Compress(n, csize)
  \/ \E n \in 0 .. PageSize : CompressLost(n)
  \/ \E wild \in {0, Wild}, kept \in BOOLEAN : Decompress(wild, kept)
  \/ DecompressFails
  \/ Refuse
  \/ FreeDict

PairSpec == PairInit /\ [][PairNext]_pairVars

-----------------------------------------------------------------------------
\* What the compressor was given comes out of the decompressor, byte for byte
\* (tests/stream/test_stream_0.py:113, docs/lz4.stream.rst:63): whatever the
\* encoder may have matched is, when the decoder copies it, the same bytes.
\* A stream some of whose blocks never left the compressor promises nothing,
\* nor does one whose dictionary is gone.
Kept == "block" \notin conf.loses /\ ~conf.freed
Delivered == Kept => got # "wrong"

\* The streams that keep it: chunks never fill their page, or always do, or
\* leave room in the reader's or never fit it, and then none is empty.
Regular(s) ==
  \/ PageSize \notin s.sizes
  \/ 0 \notin s.sizes /\ (s.decPage # PageSize \/ s.sizes = {PageSize})

\* With pages of one size on both sides no block is refused and none fails.
NeverRefused == (Kept /\ conf.decPage = PageSize) => got \notin {"refused", "error"}

\* When no block is on its way both sides work on the same page, whichever
\* calls have raised in between.
InStep == (wire = NoBlock /\ got \notin {"refused", "error"}) => enc.page = dec.page
=============================================================================
