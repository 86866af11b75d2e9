-------------------------------- MODULE Block --------------------------------
(***************************************************************************)
(* lz4.block, block/_block.c: compress and decompress with and without the *)
(* stored size, with a dictionary or none, over the block compressors and  *)
(* the decoder of lz4libs.  The frame library compresses blocks with the   *)
(* same compressors into less room than the block itself takes, and stores *)
(* what does not fit.                                                      *)
(*                                                                         *)
(* One call is at work at a time: it has its own state, buffers and        *)
(* results.  Afterwards a block may be cut short, as a file or a           *)
(* connection may cut it.                                                  *)
(***************************************************************************)
EXTENDS BlockDecoder

CONSTANTS Sizes,       \* how many bytes are compressed
          DictSizes,   \* how many bytes of dictionary go before them
          Matches,     \* the sequences the compressor may choose from
          MaxMatches,  \* how many of them a block has at most
          Extra,       \* what a caller may be off by, asking for a size
          Cuts         \* how many bytes a block may lose

ASSUME BlockAssumption ==
  /\ Sizes \subseteq Nat /\ DictSizes \subseteq Nat /\ Cuts \subseteq Nat /\ Extra \subseteq Int
  /\ MaxMatches \in Nat
  /\ \A s \in Matches : s.lit \in Nat /\ s.offset \in Nat /\ s.length \in Nat

VARIABLES phase,  \* "idle", "compressing", "compressed", "decompressing", "returned"
          enc,    \* the compressor
          block,  \* what compress returned, and of what
          call,   \* what decompress was asked for
          dec     \* the decoder

vars == << phase, enc, block, call, dec >>

NoEncoder == Encoder(0, 0, FALSE, 0)
NoBlock   == [n |-> 0, dict |-> 0, seqs |-> << >>, data |-> << >>, size |-> 0]
NoCall    == [cut |-> 0, room |-> 0, stored |-> FALSE, raised |-> FALSE]
NoDecoder == Decoder([NoBlock EXCEPT !.seqs = << Placed(NoEncoder, [lit |-> 0, offset |-> 0, length |-> 0]) >>], 0, 0, FALSE)

Init == phase = "idle" /\ enc = NoEncoder /\ block = NoBlock /\ call = NoCall /\ dec = NoDecoder
-----------------------------------------------------------------------------
\* compress: default and fast modes are lz4.c's, high_compression is lz4hc.c's.
compress ==
  /\ phase = "idle"
  /\ \E n \in Sizes, dict \in DictSizes, hc \in BOOLEAN :
       enc' = Encoder(n, dict, hc, LZ4_compressBound(n))
  /\ phase' = "compressing"
  /\ UNCHANGED << block, call, dec >>

\* LZ4F_makeBlock gives a block one byte less than it has.
LZ4F_makeBlock ==
  /\ phase = "idle"
  /\ \E n \in Sizes \ {0}, dict \in DictSizes, hc \in BOOLEAN : enc' = Encoder(n, dict, hc, n - 1)
  /\ phase' = "compressing"
  /\ UNCHANGED << block, call, dec >>

Encoding == phase = "compressing" /\ enc.status = "encoding"

EncodeMatch ==
  /\ Encoding
  /\ Len(enc.seqs) < MaxMatches
  /\ \E s \in Matches, direct \in BOOLEAN :
       /\ MatchAllowed(enc, s)
       /\ direct => ~ enc.hc /\ s.lit = 0 /\ enc.seqs # << >>
       /\ enc' = EncodeSequence(enc, s, direct)
  /\ UNCHANGED << phase, block, call, dec >>

EncodeLastLiterals ==
  /\ Encoding
  /\ enc' = EncodeLast(enc)
  /\ UNCHANGED << phase, block, call, dec >>

\* Py_END_ALLOW_THREADS: the result is made of what was written, or the frame
\* stores its block and the call raises.
CompressReturns ==
  /\ phase = "compressing" /\ enc.status # "encoding"
  /\ IF enc.status = "failed"
     THEN phase' = "idle" /\ UNCHANGED block
     ELSE /\ phase' = "compressed"
          /\ block' = [n |-> enc.n, dict |-> enc.dict, seqs |-> enc.seqs, data |-> enc.data, size |-> enc.op]
  /\ enc' = NoEncoder
  /\ UNCHANGED << call, dec >>
-----------------------------------------------------------------------------
hdr_size == 4

\* decompress with the stored size, or with uncompressed_size.
decompress ==
  /\ phase = "compressed"
  /\ \E cut \in Cuts, fast \in BOOLEAN :
       \/ /\ cut <= block.size + hdr_size
          /\ LET iend == block.size - cut
             IN  /\ call' = [cut |-> cut, room |-> block.n, stored |-> TRUE, raised |-> iend < 0]
                 /\ IF iend < 0
                    THEN phase' = "returned" /\ UNCHANGED dec   \* Input source data size too small
                    ELSE phase' = "decompressing" /\ dec' = Decoder(block, iend, block.n, fast)
       \/ /\ cut <= block.size
          /\ \E extra \in Extra :
               /\ block.n + extra >= 0
               /\ call' = [cut |-> cut, room |-> block.n + extra, stored |-> FALSE, raised |-> FALSE]
               /\ dec' = Decoder(block, block.size - cut, block.n + extra, fast)
          /\ phase' = "decompressing"
  /\ UNCHANGED << enc, block >>

FastLoop ==
  /\ phase = "decompressing" /\ dec.status = "decoding" /\ dec.fast
  /\ dec' = FastSequence(dec)
  /\ UNCHANGED << phase, enc, block, call >>

MainLoop ==
  /\ phase = "decompressing" /\ dec.status = "decoding" /\ ~ dec.fast
  /\ dec' = SafeSequence(dec)
  /\ UNCHANGED << phase, enc, block, call >>

\* Mutant: the size is taken from the header and not compared with the result.
XRaises == dec.status = "error"

\* Decompression failed, or: Decompressor wrote .. bytes, but .. expected.
Raises == dec.status = "error" \/ (dec.op # call.room /\ call.stored)

DecompressReturns ==
  /\ phase = "decompressing" /\ dec.status # "decoding"
  /\ phase' = "returned"
  /\ call' = [call EXCEPT !.raised = Raises]
  /\ UNCHANGED << enc, block, dec >>

\* The caller goes on with the block it has, or with another.
Again ==
  /\ phase = "returned"
  /\ phase' = "compressed" /\ call' = NoCall /\ dec' = NoDecoder
  /\ UNCHANGED << enc, block >>

Done ==
  /\ phase = "compressed"
  /\ phase' = "idle" /\ block' = NoBlock
  /\ UNCHANGED << enc, call, dec >>

Next == \/ compress \/ LZ4F_makeBlock \/ EncodeMatch \/ EncodeLastLiterals \/ CompressReturns
        \/ decompress \/ FastLoop \/ MainLoop \/ DecompressReturns \/ Again \/ Done

Spec == Init /\ [][Next]_vars
-----------------------------------------------------------------------------
Returned == phase = "returned" /\ ~ call.raised
Result   == [i \in 1 .. dec.op |-> dec.mem[i - 1]]

(* A whole block comes back as it was compressed, byte for byte, whatever    *)
(* the room beyond its size: every way of copying, near the ends and far     *)
(* from them, of matches that overlap themselves or start in the dictionary, *)
(* gives what the format says (LZ4_decompress_generic against the            *)
(* compressors).                                                             *)
RoundTrip ==
  phase = "returned" /\ call.cut = 0 /\ call.room >= block.n => Returned /\ Result = block.data

(* What decompress returns without raising is all of the data, or, when the *)
(* block was cut and its size is not stored, the beginning of it: too       *)
(* little room and a cut are noticed where they can be (_block.c's          *)
(* LZ4BlockError and the end-of-block rules of the decoder).                *)
ReturnedIsTrue ==
  Returned => /\ Result = SubSeq(block.data, 1, dec.op)
              /\ dec.op < block.n => call.cut > 0 /\ ~ call.stored

CompressInBounds   == enc.high <= enc.room /\ enc.read <= enc.n
DecompressInBounds == dec.rhigh <= Greater(dec.iend, 0) /\ dec.whigh <= dec.cap /\ - dec.rlow <= dec.dict

(* The copies in words that go past their ends stay in the buffers:         *)
(* compressing, in the input and in the room given; decompressing, in the   *)
(* bytes there are of the block, in the destination and in the dictionary.  *)
InBounds == CompressInBounds /\ DecompressInBounds

(* lz4.block.compress gives LZ4_compressBound of room, and so never raises  *)
(* "Compression failed": incompressible data and the worst of matches fit.  *)
NeverFails == phase = "compressing" /\ enc.room = LZ4_compressBound(enc.n) => enc.status # "failed"
=============================================================================
