# A TLA+ model of python-lz4

python-lz4 is a CPython binding of the LZ4 library: Python classes
(`lz4/frame/__init__.py`), C extension modules (`lz4/frame/_frame.c`,
`lz4/stream/_stream.c`, `lz4/block/_block.c`) and the vendored library under
`lz4libs/`. Compressing and decompressing bytes is a pure function. What is easy
to get wrong is everything around it: content that waits in buffers, history
that linked blocks refer to and that has to be moved in time, room computed
before it is needed, objects that carry state from call to call and from frame
to frame, and calls that raise half way. That is what these modules are about.

Line numbers below are of the repository's `lz4/` and `lz4libs/` directories;
`PROJECT.json` maps each definition to the lines it models.

## 1. The system

| Component | State it keeps | Operations | What makes it correct |
|---|---|---|---|
| LZ4F compression context (`lz4libs/lz4frame.c`, `LZ4F_cctx_t`) | stage, preferences, tmp buffer, what waits in it, where the history of linked blocks lies, `totalInSize` | `LZ4F_compressBegin`, `compressUpdate`, `flush`, `compressEnd` | every byte leaves once and in order; the tmp buffer never overflows; linked blocks refer to live, correct history; the announced content size is enforced |
| Binding, compression (`_frame.c:56-635`) | none of its own | `create_compression_context`, `compress_begin`, `compress_chunk`, `compress_flush` | the output room it allocates suffices; each failure leaves a context that can be begun again |
| `LZ4FrameCompressor` (`__init__.py:155-313`) | `_context`, `_started` | `begin`, `compress`, `flush`, `reset`, `with` | its flags agree with the context; results concatenate to a frame |
| LZ4F decompression context (`lz4frame.c:1206-2058`) | stage, partial header or field, decoded output not handed out, bytes left in the block, in the frame | `LZ4F_decompress`, reset | every cut of input and output gives the same content |
| `__decompress` loop and `LZ4FrameDecompressor` (`_frame.c:938-1193`, `__init__.py:320-434`) | `_unconsumed_data`, `unused_data`, `eof`, `needs_input`; locals of a call | `decompress`, `reset` | each call returns, within `max_length`; `eof` and `unused_data` are exact; the next frame reads as the first |
| Decoder history and checksum (`lz4frame.c:1206-2058`, `xxhash.c`) | `dict`, `tmpOutBuffer`, `tmpOut`, `XXH32_state_t` | `LZ4F_updateDict`, decoding into the caller's buffer or `tmpOut`, the copies on return | what the next block refers to is where the decoder looks for it; the checksum is of the content, however it was cut |
| One-shot `compress`, `decompress`, `get_frame_info` (`_frame.c`) | none | single calls | a context without a tmp buffer never needs one; half a frame raises |
| `LZ4FrameFile` and `open` (`__init__.py:443-`) | mode, position, a compressor or a `DecompressReader` | `write`, `flush`, `read`, `seek`, `close` | files of several frames read back; truncation is an error |
| `lz4.stream` (`_stream.c`) | two pages, a current page, an encoder or a decoder with histories that are only addresses | creation, `compress`, `get_block`, `decompress` | both sides turn their pages in step; history is never overwritten before it is used; every length fits its field |
| `lz4.block` (`_block.c`) | none | `compress`, `decompress` | stored size, room, round trip |
| Block codec (`lz4.c`, `lz4hc.c`) | positions and room during a call; the histories of streams | the encoders' sequences, the decoder's two loops and its copies | copies in words stay inside the buffers and give what the format says |
| Threads | the GIL, released around LZ4 calls (`_frame.c:492`, `_stream.c:1168`) | - | README.rst:44 claims thread safety |

How they interact: `LZ4FrameFile` owns a `LZ4FrameCompressor`, or a
`DecompressReader` of the standard library that owns `LZ4FrameDecompressor`s one
after another. Each of these owns one C context in a capsule and calls the
binding, which calls LZ4F, which calls the block codec. `lz4.stream` and
`lz4.block` call the block codec directly. All calls are synchronous. Memory is
shared in three places: the caller's input, which LZ4F may point into until a
call returns; the caller's output, where the decoder's history may lie; and the
pages of a stream, to which the codec keeps only pointers. With threads, the
contexts themselves are shared.

What is hard here: the order of calls (begin, chunk, flush, end, reset) at every
fill level of a buffer; a run of calls long enough to bring the tmp buffer to its
end; input and output cut at every byte; memory that runs out between two steps
of a call; state that survives a frame, a reset or an exception; history that
stays behind in memory others reuse; copies of whole words near the end of a
buffer. The hazards in `PROJECT.json` give the line of each.

## 2. The modules

```
LZ4FCompression         contexts as records, LZ4F calls as operators
  FrameBinding          room, errors and results of the binding's calls
    FrameContext        one context, driven through lz4.frame's functions
    FrameCompressor     the class; refines FrameWriter
    OneShotFrame        compress in one call
      FrameFile         files; EXTENDS FrameCompressor, OneShotFrame, FileUnits
FileUnits               frames as rows of units, what a decompressor makes of them
FrameDecompressor       class, loop and LZ4F stages; refines FrameReader
XXH32                   how the hash takes its input
  DecoderHistory        dict, tmpOut and the content checksum of the decoder
LZ4Streaming            histories of LZ4_stream_t, _streamHC_t, _streamDecode_t
StreamBounds            the size arithmetic of lz4.stream
  StreamPair            compressor, wire, decompressor; EXTENDS LZ4Streaming
  StreamContext         creation, failure and destruction of a context
    StreamWire          blocks behind their lengths, get_block, cut streams
BlockEncoder            the format and both compressors' room checks
BlockCopies             copies in words, short patterns
  BlockDecoder          LZ4_decompress_generic; EXTENDS BlockEncoder
    Block               lz4.block over encoder and decoder
Sums                    running sums, used by several of these
SumLemmas               what Sums adds up to
LZ4FCompressionProofs   lemmas on the operators
  FrameContextProofs    theorems about FrameContext
  FrameFileProofs       theorems about FrameCompressor and FrameFile
FrameDecompressorProofs theorems about FrameDecompressor
DecoderHistoryProofs    theorems about DecoderHistory
StreamProofs            theorems about StreamBounds, StreamContext, StreamWire, StreamPair
BlockProofs             theorems about Block: compressors, decoder, what comes back
MC*.tla, *.cfg          instances for TLC
```

**LZ4FCompression.** A context is a record with the fields of `LZ4F_cctx_t`.
Content is abstracted to positions: byte *k* of what a caller compresses into a
frame is the number *k*. So memory is a function from offsets of the tmp buffer
to positions, and a block records which positions it carries (`data`) and which
it was compressed against (`hist`). With that, "the right bytes" is checkable:
moving, overwriting or dropping any byte shows. Compression is taken at its worst
case, a block stored at its own size (`LZ4F_makeBlock` falls back to it), which
is also what bounds the room. `Update` composes the steps of
`LZ4F_compressUpdateImpl` in its order: `AfterFill` and `AfterTmpBlock` top up
and send the tmp block, `AfterDirect` compresses full blocks where they lie and
copies linked history out of the caller's buffer (`LZ4F_localSaveDict`),
`AfterLimits` tidies the tmp buffer, and what is left is gathered. `Continue` is
how `LZ4_compress_fast_continue` and its HC twin extend or replace a dictionary;
`SaveDict` is `LZ4_saveDict`, in which the two compressors agree.

**FrameBinding.** What `_frame.c` adds: the capacity of each result
(`ChunkCapacity` is 455-471, `FlushCapacity` 577-585), the errors LZ4F returns,
and what is left behind by a `compress_begin` that raises at each of the places
it can (`BeginFailures`).

**FrameContext.** Variables: the context, how much was accepted and sent, and the
last result. One action per function; each includes the allocation failures of
the function, before or after the LZ4F call. `usable` is the contract of
lz4frame.c:928: after an error the context is begun again before anything else.

**FrameCompressor.** The class without that contract: any method at any time,
after exceptions too. `begin` creates a context anew, keeping the old one
if that raises (`CreateRaises`); `flush` lets it go only on success. **FrameWriter** is what it promises: an open frame takes bytes in order,
holds back less than a block, and closes complete.

**FrameDecompressor.** One step per stage of `LZ4F_decompress` (the cases of its
`switch`), one per branch of the `__decompress` loop, and one for each way a
caller may call. Every byte of the wire is its position, so joining
`_unconsumed_data` and new data in the wrong order, or twice, shows; content is
counted. Frames are constants: blocks raw or compressed, checksums, announced
size. `Habits` says what callers do between frames: `"reset"` at a frame's end or
after an exception, `"abandon"` (reset in the middle), `"reuse"` (go on with
`unused_data`, as the docstring allows). **FrameReader** is what a reader gets:
content in order, the end reported with its last byte.

**DecoderHistory.** The other half of `LZ4F_decompress`, left out of
`FrameDecompressor`: where the last 64 KB of a frame with linked blocks lie. A
byte of content is its position; the caller's buffer, `tmpOutBuffer` and what was
never written (`Junk`) are memory. `Call` gives a buffer, next to the last one or
elsewhere, kept after the call (`stableDst`) or not; blocks are then decoded into
it or into `tmpOut`, raw ones copied in pieces; `updateDict` chooses between its
six cases; `Return` saves what would go with the caller's buffer. **XXH32** is the
hash as it takes input: which bytes went through the lanes and which wait, the
arithmetic left out, so that two digests are equal when they are of the same
bytes taken alike.

**OneShotFrame** runs the operators of `LZ4FCompression` on the context that
`LZ4F_compressFrame` has on its stack, without a tmp buffer. **FileUnits** takes a
file apart into headers, blocks, ends and skippable frames, and torn fronts of
any; `Take` is what a decompressor does with the next. **FrameFile** extends
`FrameCompressor`, whose variables are the compressor a file holds: `open`, `write`,
`flushFile` and `close` are steps of it followed by the file's own `write`, each of which may
fail. Between two uses others append frames, or the file is cut. `DecompressReader`
is CPython's and marked external; its loop, with `eof`, `needs_input` and
`unused_data`, is modelled call by call.

**LZ4Streaming** is what the codec remembers of a stream: prefix and external
segment, as addresses; `FastContinue`, `HCContinue` and `DecodeContinue` update
them as `LZ4_compress_fast_continue`, its HC twin and
`LZ4_decompress_safe_continue` do, overlap tests included. **StreamPair** adds the
memory: an encoder records at each distance the byte it *saw* (`seen`), and the
decoder, when it copies from that distance, must find the same. Wild copies past
the end of a block leave `Junk` or not, as the build may have it. **StreamContext**
is `_create_context` step by step, each of which may fail, and what is held
after it; **StreamWire** lays blocks out behind their length fields and takes them
apart with `get_block`.

**BlockEncoder**, **BlockCopies**, **BlockDecoder** and **Block** use the code's own
constants: 15 in a token, 255 in a length byte, 12 and 5 bytes at the end, copies
of 4, 8, 16, 18 and 32, 64 bytes for the fast loop. What is abstract is the
content: the byte at *p* is *p*, unless a match copies it. A compressor is any choice of
matches that the format allows, which covers every search in `lz4.c` and
`lz4hc.c`, with the checks of room each of the two makes. Block bytes are not
spelled out; a sequence is a record, and its place in the block a length. The
decoder follows both loops sequence by sequence and notes how far it has read and
written, words included.

The operators marked `Mutant` beside an original are that code with a plausible
bug in it; each makes TLC report the property it is paired with in
`PROJECT.json`. No specification uses them.

## 3. The runs

| Run | Shows |
|---|---|
| `context` | every sequence of calls over two frames of up to 7 bytes: room in the tmp buffer, no byte lost or repeated, waiting bytes and history intact, blocks in order against the bytes just before them, results within their allocation, announced sizes kept |
| `compressor` | the class under any order of methods and any failure: flags and stage agree, its context stays sound, no call lacks room, `FrameWriter` is implemented |
| `decompressor` | two frames, every cut of the input, `max_length` of -1, 0, 1 and 3; frames finished, abandoned half way with memory failing anywhere, or followed by another on the same object: wire and content in order and within the limit, `eof` and `unused_data` exact, no frame refused, `FrameReader` implemented, every call returns, a caller that keeps going reaches the end of every frame |
| `decoder_history` | linked blocks, raw and compressed, into buffers of any room that stay or go: history right, waiting output unspoiled, copies inside `tmpOutBuffer`, checksum right, over two frames on one context with allocations failing |
| `stream_pair` | both modes, with and without a dictionary, pages alike or not, results lost, dictionaries freed: what comes out is what went in or an error; both sides stay on one page |
| `stream_wire` | creation failing at any step before the capsule leaks nothing, and at the capsule all but the dictionary, which section 6 notes; every length an accepted compressor makes fits its field; a cut stream raises and a whole one is read |
| `file` | two openings, writes and flushes in any order, failures anywhere, frames appended by others, the file cut at or inside a unit: complete files read back, also after seeks; only complete ones end without an exception; calls come in the compressor's order, except in a frame in which one has raised; the one-shot calls agree |
| `block` | blocks of up to two matches and up to 330 bytes, whole and cut, room exact, more or too little: round trip, what cannot be right raises, no copy leaves a buffer, `compress` never fails |
| `stale_unconsumed`, `stale_remaining`, `needs_input`, `stream_empty_chunk` | the four findings of section 6 |

**Bounds.** `Window = 2` and blocks of 2 and 4 put a block equal to the window
and one longer than it side by side; the tmp buffer is then 2 to 8 bytes, and
`MaxContent` of 7 or 8 fills it, wraps it and tidies it several times within a
frame. Nothing in the code depends on the sizes beyond the comparisons the model
makes, and section 5 removes these bounds for the invariants proved.
`MaxFrames = 2` is what a context's reuse takes (what a first frame leaves, a
second finds). A content size of 5 is not a multiple of a block and less than
`MaxContent`, so both too little and too much are tried. Block and content
checksum choices are tied together: they only add to sizes. The frames on the
wire are the smallest that have a raw block, a block whose output outgrows twice
the input (so that the output buffer has to grow), checksums, announced and
unannounced sizes, and a frame behind another. Lengths -1, 0, 1, 3 are no limit,
no room, less than a block and more than a small one.

`DecoderHistory` has a window of 2 and blocks of 2 and 3, so that a block is as
long as the window or longer, rooms of 1 and 3, less than a block and all of it,
and a first frame of 7 bytes, enough for `tmpOut` to be filled, moved and filled
again; a stripe of 3 falls on both sides of the blocks. `StreamPair` has a window
of 9 over pages of 5: two pages are longer than the window by one byte, as two
pages may be in the code; dictionaries of 2 and 4 are shorter and longer than
the 3 that `LZ4_loadDict` hashes at a time; four blocks turn the pages twice. A
stream's chunks fill their page always or never; streams that mix the two are in
`StreamEmptyChunk` and under "Observed". `StreamWire` takes real sizes, each pair
of which is the last accepted and the first refused for a length field of 1, 2
and 4 bytes (239/240, 65264/65265, 2113929216/2113929217). `FrameFile` has frames
of at most 3 bytes in blocks of 1 or 2, two openings and four units at which `write`
stops: a frame, its end, and another. `Block` has lengths on both sides of every
limit of the code; two matches bring a second sequence behind a first of each
kind, and sizes of 79, 110 and 330 leave room for the fast loop before and after
a match.

`CHECK_DEADLOCK FALSE` is set where the system may stop: `context` and
`decoder_history` (two frames are all that may be begun), the streams (a bounded
number of blocks, or an error that ends them), `file` (a bounded number of
openings), and the runs that stop at a violation. In `compressor`, `decompressor`
and `block` deadlock is checked.

**Fairness.** `FairSpec` of `FrameDecompressor` adds `WF_vars(Step)`: a call, once
made, is a C loop in the calling thread and goes on until it returns. No fairness
is put on callers. `FrameFinishes` therefore states its own premise: if callers do not
abandon frames and time and again give bytes (or let kept ones be read) and take
output, every frame ends. The premise has to be strong fairness because
`decompress` is disabled while a call runs. `FrameFile` has `WF_vars(ReadStep)`: the
loop of `DecompressReader.read` runs until it returns, and `ReadReturns` says that
it does.

## 4. What callers are taken to do

After a binding function raised, the context is begun again before it is used
(`FrameContext`); `FrameCompressor` drops this. After `decompress` raised, callers
`reset`: the exception leaves the position in the frame unknown to them. Frames
given to the decompressor are well formed; corrupt input is not modelled. A
content size of 0 is "none", as in LZ4F. Calls on one object come one after the
other: one thread per object. Blocks and streams come from the compressors
modelled; they may be cut, not forged.

## 5. What is proved

The theorems about compression of frames hold for every window, every set of
block sizes (positive, with a largest one), every set of preferences over them,
and every bound on content and frames: the named assumptions `WindowAssumption`,
`BlockAssumption`, `LargestAssumption`, `BoundsAssumption` and `ClassAssumption`.
Those about the decompressor hold for every list of frames of the shape `IsFrame`
and all lengths and habits (`ScenarioAssumption`), those about its history for every
window, stripe, room and frame (`HistoryAssumption`, `StripeAssumption`), those about
blocks and streams whenever sizes and lengths are natural numbers and pages no
longer than `LZ4_MAX_INPUT_SIZE` (`Block`'s `BlockAssumption`, `ContextAssumption`,
`WireAssumption`, `StreamingAssumption`, `PairAssumption`), and those about files for
all sizes of reads and offsets of seeks (`FileAssumption`). Two have hypotheses of
their own, below: the five about the decompressor `CarefulReaders`, and
`RegularDelivered` its streams.

**Sums.** Lengths and rooms add up along sequences (`Sums`), so their properties need
induction. The installed provers cannot instantiate an induction theorem that takes
a predicate; `SumLemmas` derives one that takes a set (`SetInduction`, and
`LeastNumber` from the well-foundedness of the naturals): a set that holds 0 and
the successor of each member holds every number. With it the recursive function
in `Sum` is shown to exist and to be unique (`SumExists`, `SumUnique`), and
sums grow with their end and of equal terms are products.

**Compression.** `LZ4FCompressionProofs` states the contract of each operator. The
properties that TLC checks (`Roomy`, `WaitingIs`, `HistoryIs`) are not inductive by
themselves. `Sound` adds that the buffer is at least what begin asked for, without
which tidying it would not make room for a block, and that unlinked blocks are put
together at its start, without which tidying, which only happens to linked ones,
would be needed. Within a call the buffer may be full, so the steps of `Update`
are chained by a weaker condition, `Mem`, that speaks of memory byte by byte
(`Holds`); `SoundIsMemAndRoomy` gives the two directions. `GatherMem`, `EmitMem`,
`SaveDictMem` and `KeepWithinLimitsMem` are the four ways memory changes,
`UpdateSplit` the arithmetic of where a call's bytes go, and `UpdateSound` and
`FlushSound` the results. That a call's blocks are in order is read off its parts:
the tmp block, then the blocks cut from the caller's buffer at multiples of the
block size, then what a flush adds, each from where the last one ended (a sum of
equal terms but for the last).

`FrameContextProofs`: `IInv` is `TypeOK`, `Sound` and the count of bytes for a
context in use, `totalInSize` equal to what was accepted when a size was announced
(so that `PromiseKept` follows when a frame ends), and `BufferThere`, which must
hold of every context, also of one a failed call has left, because the next begin
may keep its buffer. From it: `TypeCorrect`, `AlwaysRoom`, `NoByteLost`,
`WaitingNeverOverwritten`, `HistoryNeverStale`, `SizeAlwaysKept`, `AlwaysInOrder`.

`FrameFileProofs`, on the compressor: `Held` is what is true of the object's context whatever
failed before, `Clean` what is true besides as long as nothing did. From them:
`TypeCorrect`, `FlagsAlwaysAgree`, `ContextAlwaysSound`, `SizeAlwaysKept`;
`NeverRefusedForRoom`, that `LZ4F_compressBound` and the context agree on how many
blocks a call can make, the bound for what waits being monotone in how much
waits; and `ImplementsWriter`, that every step of the class is a step of
`FrameWriter` under the mapping of `Writer`, or leaves it alone.

**Decompression.** `FrameDecompressorProofs`: `DecInv` says of a call at any stage what
room it has (`DecRoom`), which calls and objects there are in which phase
(`DecPhase`), and where it stands (`DecPlace`): there is a place *p* on the wire and *q*
in the content that agree (`Holds`, a case for each stage of the `switch`), the input
held begins at *p*, and *q* is what was given out and what is pending. That `Holds`
mentions the bytes left in the block and in the frame is what makes it inductive.
Each stage moves both places or neither, each branch of the loop hands over what
lies between. From it, whatever the cuts of the input and the limits:
`EachByteOnce`, `LimitsKept`, `EndIsExact`, `NoneRefused`, and `ReaderRefines`, that
`FrameReader` is implemented.

These five have the hypothesis `CarefulReaders`: every scenario is `Careful`. Callers
who give a frame up, or whose memory fails, read frames that announce their sizes;
callers who use an object again without `reset` set no `max_length`. Without the
first the bytes left over in the context refuse a good frame, without the second kept
input comes before the next frame: these are findings 2 and 1, and their runs are the
scenarios it leaves out. Those of the `decompressor` run satisfy it
(`SoundAssumption`), so that each kind of reader it admits is also checked.

`DecoderHistoryProofs`: the properties checked speak of the history at the moment it
is used. `HInv` adds what makes them so at the next step. `Placed`: a dictionary in
`tmpOutBuffer` starts at its front and, while output waits, ends where the rest of
that output begins; none lies in a buffer the caller has taken back. `Delivered`: what this
call wrote into the caller's buffer is the content up to what was given, because
`LZ4F_updateDict` may make any of it the dictionary. `Block`: the whole block stays in
`tmpOut`, also the part handed out already. `Remembered`: the dictionary, read backwards
from its end, is the content backwards (`RightAt`), as far as the window of what is
decoded next reaches, and that much fits in front of `tmpOut`. `Hash`: the state
after *n* bytes is that of one update with them (`Taken`). Each of the six cases of
`LZ4F_updateDict` has a lemma that it is a `GoodUpdate`, by how `RightAt` behaves when
bytes are moved (`Moved`) and appended (`Extended`). From it: `HistoryAlwaysRight`,
`WaitingNeverSpoiled`, `CopiesStayWithin`, `ChecksumAlwaysRight`.

**Streams.** `StreamProofs`. About sizes alone, for every chunk up to
`LZ4_MAX_INPUT_SIZE`: `BoundSuffices`, the output buffer of a stream's compressor takes
whatever the encoder makes of a page; `OwnBlocksFit`, a block is never refused by a
decompressor whose page is as large as the chunk it came from (`get_input_bound`
is off by at most 14, downwards). About a context, whichever step of its creation
fails: `LeaksOnlyAtCapsule`, which says what the one step without a way out leaves
behind; `CompressorLengthsFit`, every length of an accepted
compressor fits its field. About the wire: the reader is always at the start of
a block, or stopped inside the last one (`AtBlock`), since lengths add up to where
the next begins; hence `CutsAreNoticed` and `WholeStreamsAreRead`.

About both ends of a stream together: `PairShape` has the two turn their pages
in step, the decompressor's one behind while a block is on its way, and gives
`AlwaysInStep`. `InReach`: what the encoder remembers (its prefix and its external
segment) is `Covered` by what the decoder does, however each clips and replaces its
own (`CoveredNext`, one case for the fast encoder and one for HC); with `OwnBlocksFit`
that gives `PairNeverRefused`, for every sequence of chunks. That the bytes are right
is harder, because each side remembers addresses, and the memory at them is
overwritten. `StillRight` says of the last block decoded that its bytes lie where
the encoder (`EncoderHas`) and the decoder (`DecoderHas`) look for history, outside
the page written next (`InView`). It takes three shapes. Chunks that never fill
their page, or do and are refused by a reader with shorter ones (`NotFull`): each
starts apart from the last, and the last is all the encoder looks back to. A
reader with longer pages and no empty chunk (`Roomier`): the same holds of the
decoder. Pages always full (`AllFull`): the second page continues the first, and the
first comes again with both behind it, half of them about to be overwritten
(`Turning`), and with it what HC had as an external segment (`Leftover`, `Behind`).
The encoder may match whatever it sees; that the decoder finds the same bytes at
the same distance is `NearAlike` and `FarAlike`, hence `NothingMiscopied` and
`RegularDelivered`. Its hypothesis is that the stream is `Regular`: all chunks are
shorter than a page, or none is empty and all fill it or the reader's pages are of
another size. A hypothesis is needed, since full pages mixed with others can come
out wrong (finding 4, and `MCPartial` under "Observed"). TLC checks that the streams
of the run are `Regular`, but for those whose dictionary is freed, of which
`Delivered` says nothing (`MCAssumption`).

**Blocks.** `BlockProofs` is about `Block` with every size of input and
dictionary, every set of matches, every room and every cut. The compressor's
invariant is `EncoderSound`. `Compact`: a block never outgrows its content by more
than one byte in 256 (`255 * op <= 256 * ip`), whatever the room, because the worst
sequence saves nothing; that is what is left of `LZ4_compressBound` for the checks
of room to succeed, hence `CompressNeverFails`. `RoomForNext`: behind a match `lz4.c`
has room for one more token and offset, for which it does not ask.
`Contained`: nothing is written or read out of bounds, words included. The
decoder's is `DecoderSound` under `BlockSound`: sequences lie one behind the other to
the block's end (`Row`), all but the last have a match, and a decoder at work
stands at the token of its sequence, before the end of what there is of the block,
64 bytes from the end of its destination if in the fast loop. Each operation of a
turn then has a lemma: it stays `Inside` and either ends the turn or `Arrives` at
the next token, which `Row` says is the next sequence. That the last sequence
never goes on to read an offset follows from where it ends, also when the block
was cut. Hence `CopiesStayInBounds`.

What comes back rests on a second invariant, `BlockCInv`. `Tells`: the sequences
of a block lie one behind the other in its content too, literals are the input's
bytes, and every byte of a match is the one its offset before (`MatchRepeats`: so
are the bytes of `WithSequence`, of matches that overlap themselves included).
`DecoderTells`: up to `op` memory is the content, and `op` is where the sequence at
hand begins. A copy in words may write anything behind its end but must keep what
lies before and leave the match: `Repeats` says that without words, and each way of
copying has a lemma that it `Repeats`. A word that reads nearer than its own
length sees bytes not yet written; what saves the copies is that they read at a
`Distance`, some whole times the offset and no less than a word (`ShortDistances`
is the code's two tables), and that repeats at a distance are repeats at the
offset (`Farther`). The turns of both loops then `Deliver` their sequence: without
an error memory is right as far as the next, or the block ends in the literals
(`SafeSequenceDelivers`, `FastSequenceDelivers`); and where nothing is missing and
there is room (`Sufficient`) there is no error. In a whole block nothing is missing,
as behind each match lie at least a token and five literals (`MoreBehind`). Hence
`RoundTripAlways` and `ReturnedAlwaysTrue`.

**Files.** `FrameFileProofs`: every step of an open file is a step of
`FrameCompressor`, so `FInv` starts from the compressor's `IInv` and `NeverTooSmall`.
`Calling` is which call may be in progress and what it finds of the two flags; it
gives, with `Clean` of `IInv`, `FileCallsInOrder`: until a call raises in a frame neither
Python nor LZ4F refuses one for its order, and `close` begins afresh. `Row` relates the compressor to what the file reads as,
unit by unit (`Whole`): a frame `Underway` with just the bytes `sent` in it, a
`Complete` one, one `Abandoned` by a close that raised, or, after a failure, a row
that no reader gets past. Its lemmas add the units a call returns to such a row
(`BlocksWritten`, `WholeFrame`, `BlocksAndEnd`, ...); that a header is only met between
frames, and an end only with the announced size, is what they need of `IInv`. Hence
`FileIsWhole`. `ReaderRight`: a reader is past some number of units (`Past`), has the
next ones in hand (`InHand`: `_unconsumed_data`, `unused_data` or the input of the call,
whichever counts then), `Agrees` with a reader that took all before them in one
call, and `Follows` it: what it has given out and what waits in it are the end of
what that one has. Each step of the loop of `DecompressReader.read` moves units or
bytes from one place to the next. Hence `WhatIsReadIsTrue` and `TheEndIsHonest`.
They hold of the files of `FileSpec`: memory runs out, or the file below refuses a
write, once (`Outages`, `Bounded`), and a file that has been cut is only read.

The one-shot calls: `OneShotNeedsNoMore`, since `LZ4F_compressUpdate` with `stableSrc`
and `autoFlush` leaves nothing in a tmp buffer (`OneShotUpdatedIs`);
`OneShotReadsAFrame`, since one call on all the units stays where the reader of the
file is (`Stands`) until that one ends its first frame (`StopsAt`).

**Only model-checked.** Liveness (`CallReturns`, `FrameFinishes`, `ReadReturns`) is
outside the prover's logic. Every other property of the passing runs is a theorem.

## 6. Findings

Each is a run that TLC ends with a counterexample; `PROJECT.json` quotes the text
contradicted.

1. `stale_unconsumed`. With `max_length`, a call may keep input in
   `_unconsumed_data`. The call that reaches the end of the frame with input left
   over sets `unused_data` but does not clear it (`__init__.py:421-425`), so an
   object used for another frame, as lines 390-394 allow, puts bytes of the
   finished frame in front of it. `reset` clears it.
2. `stale_remaining`. `LZ4F_resetDecompressionContext` leaves
   `frameRemainingSize`. After a frame with an announced size is abandoned and the
   object reset, a frame without one is refused at its end.
3. `needs_input`. The loop stops at the end of input before it looks at the room;
   `needs_input` is then True while decoded output waits in the context. In
   `FrameFile` the same makes a cut file raise `EOFError` before all the content in
   front of the cut was returned.
4. `stream_empty_chunk`. A stream in fast mode whose pages are full, with an empty
   chunk between two of them: the empty chunk leaves the encoder's dictionary
   where it was and turns the page, so the next chunk overwrites exactly the
   dictionary. `sourceEnd < dictEnd` (`lz4.c:1660`) asks whether they overlap
   and misses equality; the chunk is compressed against itself, and the decoder
   returns other bytes. The HC encoder clips its segment and is right.

**Observed** while modelling, with no run of its own:

- A stream that mixes full pages and shorter chunks comes out wrong in
  `StreamPair` when the decoder's copies run past the end of a block
  (`MCPartial`): they spoil bytes of the page that its history still counts, and
  that the encoder's still holds.
- The stream's dictionary is released at `_stream.c:1042` while LZ4 keeps a pointer
  to it; `FreeDict` shows what a caller that drops it gets. `Delivered` excludes it.
- `buffer_size=0` is accepted and then takes no block; the comment at
  `_stream.c:1451` says other than what `_input_bound` returns for small blocks;
  `get_block` raises `LZ4StreamError` where its documentation has `BufferError`;
  when `PyCapsule_New` fails (`_stream.c:1044`), the new context, its pages, output
  buffer and state are not freed. `OnlyCapsuleLeaks` states just that of the stage
  `no capsule`.
- `flush` of a frame with `source_size` not met raises, after it has ended the frame in
  the context and before it clears `_started` (`__init__.py:278-284`). From then on every
  write of the file is refused as outside a frame (`notStarted`), until the file is
  closed, although of `flush` it says "May be called more than once without error. The file
  may continue to be used normally after flushing." (`__init__.py:748-749`). `InOrderUntilRaised` excludes such frames by
  its `~ clean`. Closing such a file raises too, and leaves it without an end mark.
- When `open` for appending fails after the compressor was begun, the object it
  leaves is closed by its finalizer, and `close` writes the end of a frame whose
  header never reached the file. A file that was whole cannot be read past it.
- `lz4.block` does not release its two buffers when the result cannot be
  allocated (`_block.c:215`, `350`); `__decompress` loses its output buffer when it
  cannot grow (`_frame.c:1116`).
- README.rst:44 calls the bindings thread safe. Nothing but the GIL keeps two
  threads out of one context, and it is released around the LZ4 calls.

## 7. Not modelled

Corrupt input: headers, blocks and checksums are what a compressor wrote, whole
or cut. Match search and its hash tables: pure, and left free in `BlockEncoder` and
`StreamPair`, where the encoder may find any match. The arithmetic of XXH32; XXH64,
which is not used. `get_frame_info`, which parses a header and keeps nothing. The
text wrapper, `peek`, `readline` and iteration of `LZ4FrameFile`, which are the `io`
module's over `read`. `stableSrc` beyond the one-shot call, dictionaries (`CDict`,
dictID) and `LZ4F_uncompressedUpdate`, which the binding never uses; a context moved
between fast and HC levels without a new begin (`lz4frame.c:694-710`).
`lz4.block.decompress` is modelled for dictionaries of less than 64 KB. Threads:
two calls inside one context are a data race in C, whose outcomes are not those of
any interleaving of the modelled steps. `_version.c`, package glue, argument
parsing.

## 8. Plan

Done, most important first: `LZ4FCompression`, `FrameContext`, `FrameCompressor` with
`FrameWriter`; `FrameDecompressor` with `FrameReader`; the streams, which share
memory most freely; `DecoderHistory`; files and one-shot calls; blocks; and the
proofs of section 5. Next:

1. `Threads`: calls of two threads on one object at the granularity of the points
   where the GIL is released, once "thread safe" is given a meaning to check.
2. `ContextAlloc`: the LZ4 state of a context across compression levels and failed
   allocations.
