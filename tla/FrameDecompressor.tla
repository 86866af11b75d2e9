------------------------- MODULE FrameDecompressor -------------------------
(***************************************************************************)
(* The class LZ4FrameDecompressor of lz4/frame/__init__.py, the loop of    *)
(* __decompress in lz4/frame/_frame.c under it, and the state machine of   *)
(* LZ4F_decompress in lz4libs/lz4frame.c under that, reading frames laid   *)
(* end to end on a wire.                                                   *)
(*                                                                         *)
(* A byte of the wire is its position there, so bytes given twice or out   *)
(* of order show.  A byte of content is counted: blocks are decoded whole  *)
(* and handed out in order.  One action is one stage of the C switch; the  *)
(* get and store variants of a stage, which differ only in where a field   *)
(* is put together, are one.  Linked history is not part of this module.   *)
(***************************************************************************)
EXTENDS Sums, Sequences

CONSTANT Scenarios   \* what is read and by whom: a sequence of records

\* A scenario: the frames on the wire; the max_length values callers pass, -1
\* for no limit; what callers do; and whether an allocation may fail.
\* A frame: does its header hold the content size, are its blocks and its
\* content checksummed, and its blocks: stored raw or compressed, the bytes
\* they take on the wire without header and checksum, and in the content.
IsFrame(f) ==
  /\ {f.sized, f.blockCrc, f.contentCrc} \subseteq BOOLEAN
  /\ Len(f.blocks) \in Nat /\ DOMAIN f.blocks = 1 .. Len(f.blocks)
  /\ \A k \in DOMAIN f.blocks :
       LET b == f.blocks[k]
       IN  /\ b.raw \in BOOLEAN /\ {b.wire, b.size} \subseteq Nat \ {0}
           /\ b.raw => b.wire = b.size

ASSUME ScenarioAssumption ==
  \A k \in DOMAIN Scenarios : LET s == Scenarios[k] IN
    /\ Len(s.frames) \in Nat \ {0} /\ DOMAIN s.frames = 1 .. Len(s.frames)
    /\ \A i \in DOMAIN s.frames : IsFrame(s.frames[i])
    /\ s.lengths \subseteq Nat \cup {-1}
    /\ s.habits \subseteq {"reset", "abandon", "reuse"}
    /\ s.memoryFails \in BOOLEAN

\* A reader that what stays behind in the context and in the object cannot
\* mislead: the size left over from a frame that was given up is set anew by
\* every frame that announces its own, and no input is kept for a later call
\* where callers set no limit.
Careful(s) ==
  /\ \/ s.habits \subseteq {"reset", "reuse"} /\ ~ s.memoryFails
     \/ \A i \in DOMAIN s.frames : s.frames[i].sized
  /\ "reuse" \in s.habits => s.lengths \subseteq {-1} /\ ~ s.memoryFails

VARIABLE scenario   \* the number of this behavior's

Frames      == Scenarios[scenario].frames
Lengths     == Scenarios[scenario].lengths
Habits      == Scenarios[scenario].habits
MemoryFails == Scenarios[scenario].memoryFails

minFHSize  == 7
FieldSize  == 4    \* a block header, a checksum, the end mark
HeaderLen(f) == minFHSize + (IF f.sized THEN 8 ELSE 0)
CrcLen(flag) == IF flag THEN FieldSize ELSE 0

\* The first k blocks of a frame, on the wire and as content.
BlocksLen(f, k) ==
  Sum([j \in DOMAIN f.blocks |-> FieldSize + f.blocks[j].wire + CrcLen(f.blockCrc)], k)
ContentLen(f, k) == Sum([j \in DOMAIN f.blocks |-> f.blocks[j].size], k)
Content(f) == ContentLen(f, Len(f.blocks))

FrameLen(f) == HeaderLen(f) + BlocksLen(f, Len(f.blocks)) + FieldSize + CrcLen(f.contentCrc)

\* Where each frame starts on its wire, and where the one behind the last would.
Starts == [k \in DOMAIN Scenarios |->
  LET frames == Scenarios[k].frames
      lengths == [i \in DOMAIN frames |-> FrameLen(frames[i])]
  IN  [i \in 1 .. Len(frames) + 1 |-> Sum(lengths, i - 1)]]
FrameStart(i) == Starts[scenario][i]
FrameEnd(i) == Starts[scenario][i + 1]
WireLen == FrameEnd(Len(Frames))

Wire(from, n) == [j \in 1..n |-> from + j - 1]
Smaller(a, b) == IF a < b THEN a ELSE b
Drop(s, n) == SubSeq(s, n + 1, Len(s))

VARIABLES
  dctx,       \* the LZ4F decompression context
  self,       \* the attributes of the class
  pc,         \* "idle", in a "stage" of LZ4F_decompress, or back in the "loop"
  call,       \* the locals of the call in progress
  fed,        \* the wire position callers will give next
  cur,        \* the frame callers are feeding
  got,        \* bytes of its content the calls have returned
  spoiled     \* a call raised since the frame was turned to

vars == <<scenario, dctx, self, pc, call, fed, cur, got, spoiled>>

\* header: bytes of a frame header put together so far; have: bytes of a later
\* field; block: blocks begun; left: bytes to copy of a raw block; pending:
\* tmpOutSize - tmpOutStart; remaining: frameRemainingSize.
NewDctx ==
  [stage |-> "frameHeader", header |-> << >>, have |-> 0, frame |-> 1, block |-> 0,
   left |-> 0, pending |-> 0, remaining |-> 0]

\* Mutant: the header put together so far survives.
ResetKeepingHeader(d) == [NewDctx EXCEPT !.remaining = d.remaining, !.header = d.header]

\* LZ4F_resetDecompressionContext: remaining is not among what it resets.
ResetDctx(d) == [NewDctx EXCEPT !.remaining = d.remaining]

NewSelf == [unconsumed |-> << >>, unused |-> << >>, eof |-> FALSE, needs_input |-> TRUE]

NoCall == [rest |-> << >>, room |-> 0, written |-> 0, factor |-> 1, limit |-> -1,
           result |-> "more"]

Init ==
  /\ scenario \in DOMAIN Scenarios
  /\ dctx = NewDctx
  /\ self = NewSelf
  /\ pc = "idle"
  /\ call = NoCall
  /\ fed = 0 /\ cur = 1 /\ got = 0
  /\ spoiled = FALSE
-----------------------------------------------------------------------------
(* Calls.  Unconsumed data goes in front of what the caller gives.         *)

Call(data, limit) ==
  /\ pc = "idle" /\ pc' = "stage"
  /\ call' = [NoCall EXCEPT !.rest = data, !.limit = limit,
                            !.room = IF limit >= 0 THEN limit ELSE 2 * Len(data)]

\* Mutant: unconsumed data is forgotten.
DecompressForgetting(n, limit) ==
  /\ ~ self.eof /\ ~ spoiled
  /\ fed' = fed + n
  /\ Call(Wire(fed, n), limit)
  /\ UNCHANGED <<dctx, self, cur, got, spoiled>>

decompress(n, limit) ==
  /\ ~ self.eof /\ ~ spoiled
  /\ fed' = fed + n
  /\ Call(self.unconsumed \o Wire(fed, n), limit)
  /\ UNCHANGED <<dctx, self, cur, got, spoiled>>

\* After the end of a frame, on to the next with its unused_data.
reuse(n, limit) ==
  /\ "reuse" \in Habits
  /\ self.eof /\ ~ spoiled /\ cur < Len(Frames)
  /\ fed' = fed + n
  /\ Call(self.unconsumed \o self.unused \o Wire(fed, n), limit)
  /\ cur' = cur + 1 /\ got' = 0
  /\ UNCHANGED <<dctx, self, spoiled>>

\* Mutant: the context is not reset.
ResetWithoutContext(i) ==
  /\ pc = "idle" /\ Habits # {}
  /\ self' = NewSelf
  /\ cur' = i /\ fed' = FrameStart(i) /\ got' = 0 /\ spoiled' = FALSE
  /\ UNCHANGED <<pc, call, dctx>>

\* LZ4FrameDecompressor.reset, and a frame fed from its start.
reset(i) ==
  /\ pc = "idle"
  /\ \/ "reset" \in Habits /\ (self.eof \/ spoiled)
     \/ "abandon" \in Habits
  /\ dctx' = ResetDctx(dctx)
  /\ self' = NewSelf
  /\ cur' = i /\ fed' = FrameStart(i) /\ got' = 0 /\ spoiled' = FALSE
  /\ UNCHANGED <<pc, call>>
-----------------------------------------------------------------------------
(* The stages of LZ4F_decompress.  Each either goes on to another or stops *)
(* the call with its result: a hint of more, the frame's end, an error.    *)

In(stage) == pc = "stage" /\ dctx.stage = stage
\* Mutant: destination_write is not taken down by what was written.
FreeNotUpdated == call.room
Free == call.room - call.written
TheFrame == Frames[dctx.frame]
TheBlock == TheFrame.blocks[dctx.block]

Outside == UNCHANGED <<self, fed, cur, got, spoiled>>
GoOn(c) == pc' = "stage" /\ call' = c /\ Outside
Stop(c, result) == pc' = "loop" /\ call' = [c EXCEPT !.result = result] /\ Outside
Took(n) == [call EXCEPT !.rest = Drop(@, n)]

\* dstage_getFrameHeader, storeFrameHeader, init.  LZ4F_decodeHeader looks
\* at the first seven bytes and may find that there are eight more; init
\* may have to allocate the buffers.
HeaderTarget == IF Len(dctx.header) < minFHSize THEN minFHSize ELSE minFHSize + 8
HeaderBytes == dctx.header \o SubSeq(call.rest, 1, Smaller(HeaderTarget - Len(dctx.header), Len(call.rest)))
Announces(h) == {i \in DOMAIN Frames : h = Wire(FrameStart(i), Len(h))}

HeaderDecoded(i) ==
  [NewDctx EXCEPT !.stage = "blockHeader", !.frame = i,
                  !.remaining = IF Frames[i].sized THEN Content(Frames[i]) ELSE dctx.remaining]

StoreFrameHeader ==
  /\ In("frameHeader")
  /\ LET h   == HeaderBytes
         c   == Took(Len(h) - Len(dctx.header))
         new == [dctx EXCEPT !.header = h]
     IN  \/ /\ Len(h) < HeaderTarget
            /\ dctx' = new /\ Stop(c, "more")
         \/ /\ Len(h) = HeaderTarget /\ Announces(h) = {}
            /\ dctx' = new /\ Stop(c, "frameType")
         \/ \E i \in Announces(h) :
              \/ /\ Len(h) = HeaderTarget /\ Len(h) < HeaderLen(Frames[i])
                 /\ dctx' = new /\ GoOn(c)
              \/ /\ Len(h) = HeaderLen(Frames[i])
                 /\ dctx' = HeaderDecoded(i)
                 /\ GoOn(c) \/ (MemoryFails /\ Stop(c, "allocation"))

\* The fields of fixed length, and the whole of a compressed block.
Want == IF dctx.stage = "cBlock" THEN TheBlock.wire + CrcLen(TheFrame.blockCrc) ELSE FieldSize

Missing == dctx.have + Len(call.rest) < Want

FieldShort ==
  /\ pc = "stage" /\ dctx.stage \in {"blockHeader", "rawCrc", "cBlock", "suffixCrc"}
  /\ Missing
  /\ dctx' = [dctx EXCEPT !.have = @ + Len(call.rest)]
  /\ Stop(Took(Len(call.rest)), "more")

WholeField(stage) == In(stage) /\ ~ Missing
AfterField == Took(Want - dctx.have)
Enter(stage) == [dctx EXCEPT !.stage = stage, !.have = 0]

EndMark ==
  /\ WholeField("blockHeader") /\ dctx.block = Len(TheFrame.blocks)
  /\ dctx' = Enter("suffix")
  /\ GoOn(AfterField)

BlockHeader ==
  /\ WholeField("blockHeader") /\ dctx.block < Len(TheFrame.blocks)
  /\ LET b == TheFrame.blocks[dctx.block + 1]
     IN  IF b.raw
         THEN /\ dctx' = [Enter("copyDirect") EXCEPT !.block = @ + 1, !.left = b.wire]
              /\ GoOn(AfterField)
         ELSE /\ dctx' = [Enter("cBlock") EXCEPT !.block = @ + 1]
              /\ IF Free = 0 \/ AfterField.rest = << >> THEN Stop(AfterField, "more")
                                                         ELSE GoOn(AfterField)

\* Mutant: no frame counts down.
ProducedNever(d, n)  == d

\* Bytes of content counted off the size the header announced.
Produced(d, n) == IF TheFrame.sized THEN [d EXCEPT !.remaining = @ - n] ELSE d

CopyDirect ==
  /\ In("copyDirect")
  /\ LET n == Smaller(dctx.left, Smaller(Len(call.rest), Free))
         c == [Took(n) EXCEPT !.written = @ + n]
     IN  IF n = dctx.left
         THEN /\ dctx' = [Produced(Enter(IF TheFrame.blockCrc THEN "rawCrc" ELSE "blockHeader"), n)
                            EXCEPT !.left = 0]
              /\ GoOn(c)
         ELSE /\ dctx' = [Produced(dctx, n) EXCEPT !.left = @ - n]
              /\ Stop(c, "more")

BlockChecksum ==
  /\ WholeField("rawCrc")
  /\ dctx' = Enter("blockHeader")
  /\ GoOn(AfterField)

\* Decoded in place or into tmpOut, and then handed out as far as it fits.
DecodeBlock ==
  /\ WholeField("cBlock")
  /\ dctx' = [Produced(Enter("flushOut"), TheBlock.size) EXCEPT !.pending = TheBlock.size]
  /\ GoOn(AfterField)

\* Mutants: tmpOutStart does not move, or what did not fit is dropped.
FlushOutStill ==
  /\ In("flushOut")
  /\ LET n == Smaller(dctx.pending, Free)
         c == [call EXCEPT !.written = @ + n]
     IN  IF n = dctx.pending THEN dctx' = [Enter("blockHeader") EXCEPT !.pending = 0] /\ GoOn(c)
                             ELSE UNCHANGED dctx /\ Stop(c, "more")
FlushOutDropping ==
  /\ In("flushOut")
  /\ dctx' = [Enter("blockHeader") EXCEPT !.pending = 0]
  /\ GoOn([call EXCEPT !.written = @ + Smaller(dctx.pending, Free)])

FlushOut ==
  /\ In("flushOut")
  /\ LET n == Smaller(dctx.pending, Free)
         c == [call EXCEPT !.written = @ + n]
     IN  /\ dctx' = [(IF n = dctx.pending THEN Enter("blockHeader") ELSE dctx)
                       EXCEPT !.pending = @ - n]
         /\ IF n = dctx.pending THEN GoOn(c) ELSE Stop(c, "more")

\* Mutant: the context is not reset at the end of a frame.
FrameDoneWithoutReset(c) == UNCHANGED dctx /\ Stop(c, "end")

FrameDone(c) == dctx' = ResetDctx(dctx) /\ Stop(c, "end")

\* Mutant: the content checksum is not part of the frame.
SuffixWithoutChecksum ==
  /\ In("suffix")
  /\ \/ dctx.remaining # 0 /\ UNCHANGED dctx /\ Stop(call, "frameSize")
     \/ dctx.remaining = 0 /\ FrameDone(call)

Suffix ==
  /\ In("suffix")
  /\ \/ dctx.remaining # 0 /\ UNCHANGED dctx /\ Stop(call, "frameSize")
     \/ dctx.remaining = 0 /\ ~ TheFrame.contentCrc /\ FrameDone(call)
     \/ /\ dctx.remaining = 0 /\ TheFrame.contentCrc
        /\ dctx' = Enter("suffixCrc") /\ GoOn(call)

SuffixChecksum == WholeField("suffixCrc") /\ FrameDone(AfterField)

Stage ==
  \/ StoreFrameHeader \/ FieldShort \/ EndMark \/ BlockHeader \/ CopyDirect
  \/ BlockChecksum \/ DecodeBlock \/ FlushOut \/ Suffix \/ SuffixChecksum
-----------------------------------------------------------------------------
(* The loop of __decompress, and the attributes the method sets last.      *)

\* Mutant: input counts as read only when the room is full as well.
InputAndRoomDone == call.rest = << >> /\ call.written = call.room
InputDone == call.rest = << >>
RoomDone  == call.written = call.room

Raise ==
  /\ pc' = "idle" /\ spoiled' = TRUE /\ call' = NoCall
  /\ UNCHANGED <<dctx, self, fed, cur, got>>

Errors == {"frameType", "frameSize", "allocation"}

LoopError == pc = "loop" /\ call.result \in Errors /\ Raise

\* Mutant: what was not consumed is not kept.
GiveForgetting(eof) ==
  /\ self' = IF eof /\ ~ InputDone
             THEN [self EXCEPT !.unused = call.rest, !.eof = TRUE]
             ELSE [NewSelf EXCEPT !.eof = eof, !.needs_input = InputDone]
  /\ got' = got + call.written
  /\ pc' = "idle" /\ call' = NoCall
  /\ UNCHANGED <<dctx, fed, cur, spoiled>>

\* All input read: nothing is kept.  Otherwise what is left is unused_data or
\* is kept, and the other of the two attributes stays as it was.
Give(eof) ==
  /\ self' = IF InputDone
             THEN [unconsumed |-> << >>, unused |-> << >>, eof |-> eof, needs_input |-> TRUE]
             ELSE IF eof THEN [self EXCEPT !.unused = call.rest, !.eof = TRUE]
             ELSE [self EXCEPT !.unconsumed = call.rest, !.needs_input = FALSE, !.eof = FALSE]
  /\ got' = got + call.written
  /\ pc' = "idle" /\ call' = NoCall
  /\ UNCHANGED <<dctx, fed, cur, spoiled>>

Return(eof) == Give(eof) \/ (MemoryFails /\ Raise)

LoopEnd == pc = "loop" /\ call.result = "end" /\ Return(TRUE)

LoopMore ==
  /\ pc = "loop" /\ call.result = "more"
  /\ \/ InputDone \/ (RoomDone /\ call.limit >= 0)
  /\ Return(FALSE)

GoesOn == pc = "loop" /\ call.result = "more" /\ ~ InputDone /\ ~ (RoomDone /\ call.limit >= 0)

\* Another round, in a larger buffer if this one is full.
LoopAgain ==
  /\ GoesOn
  /\ pc' = "stage"
  /\ call' = IF RoomDone THEN [call EXCEPT !.factor = 2 * @, !.room = @ * (2 * call.factor)]
                         ELSE call
  /\ Outside /\ UNCHANGED dctx

LoopGrowFails == GoesOn /\ RoomDone /\ MemoryFails /\ Raise

Loop == LoopError \/ LoopEnd \/ LoopMore \/ LoopAgain \/ LoopGrowFails
-----------------------------------------------------------------------------
Step == Stage \/ Loop

Caller ==
  \/ \E n \in 0..(WireLen - fed), limit \in Lengths : decompress(n, limit) \/ reuse(n, limit)
  \/ \E i \in DOMAIN Frames : reset(i)

Next == (Caller \/ Step) /\ UNCHANGED scenario

Spec == Init /\ [][Next]_vars

\* A call runs to its end: nothing else happens in the calling thread.
FairSpec == Spec /\ WF_vars(Step /\ UNCHANGED scenario)

\* A caller that keeps reading: time and again, whatever it does in between,
\* it gives new bytes or lets kept ones be read, and takes some output.
Diligent ==
  \E n \in 0..(WireLen - fed), limit \in Lengths \ {0} :
    (n > 0 \/ self.unconsumed # << >>) /\ decompress(n, limit) /\ UNCHANGED scenario

\* One that also finishes each frame, with all the memory it needs.
Patient == Habits = {"reset"} /\ ~ MemoryFails

-----------------------------------------------------------------------------
(* Properties                                                              *)

\* A frame is being read: neither its end nor an error has been met.
Reading == ~ spoiled /\ ~ (self.eof /\ pc = "idle") /\ call.result = "more"

\* Blocks of the frame whose last byte has been read.
BlocksRead == IF dctx.stage \in {"copyDirect", "cBlock", "rawCrc"} THEN dctx.block - 1 ELSE dctx.block

\* Where on the wire, and in the content, the stage of the context says the
\* decoder is.
InBlock ==
  CASE dctx.stage = "copyDirect" -> FieldSize + TheBlock.wire - dctx.left
    [] dctx.stage = "rawCrc"     -> FieldSize + TheBlock.wire
    [] dctx.stage = "cBlock"     -> FieldSize
    [] dctx.stage \in {"suffix", "suffixCrc"} -> FieldSize
    [] OTHER -> 0
ReadTo ==
  IF dctx.stage = "frameHeader" THEN FrameStart(cur) + Len(dctx.header)
  ELSE FrameStart(cur) + HeaderLen(TheFrame) + BlocksLen(TheFrame, BlocksRead) + InBlock + dctx.have

DecodedTo ==
  CASE dctx.stage = "frameHeader" -> 0
    [] dctx.stage = "copyDirect"  -> ContentLen(TheFrame, dctx.block) - dctx.left
    [] dctx.stage = "cBlock"      -> ContentLen(TheFrame, dctx.block - 1)
    [] OTHER -> ContentLen(TheFrame, dctx.block)

\* However callers cut the frame up, each byte of the wire is read once and
\* in order: what the call or the object still holds is exactly what was fed
\* past the point the context has got to (__init__.py:411-425, _frame.c:1075-1077).
\* And what was returned, what the call has written and what waits in tmpOut
\* make up the content decoded up to there, with which the announced size counts
\* down (lz4frame.c:1716-1725, 1850-1851, 1893-1921).
InOrder ==
  Reading =>
    /\ dctx.stage # "frameHeader" => dctx.frame = cur
    /\ (IF pc = "idle" THEN self.unconsumed ELSE call.rest) = Wire(ReadTo, fed - ReadTo)
    /\ got + call.written + dctx.pending = DecodedTo
    /\ TheFrame.sized /\ dctx.stage # "frameHeader" =>
         dctx.remaining = Content(TheFrame) - DecodedTo

\* A call never writes past the room allocated, nor returns more than the
\* caller's max_length (_frame.c:991-1014, 1134-1135).
WithinLimit == call.written <= call.room /\ (call.limit >= 0 => call.room <= call.limit)

\* eof is reported with the last of the content, and unused_data is what was
\* fed past the frame's last byte, no more and no less (__init__.py:421-432).
EofExact ==
  self.eof /\ pc = "idle" =>
    /\ got = Content(Frames[cur])
    /\ self.unused = Wire(FrameEnd(cur), fed - FrameEnd(cur))

\* Reading well-formed frames raises for want of memory at most
\* (lz4frame.c:1338, 1927): neither the calls' cuts nor their limits matter.
NeverRefused == call.result \notin {"frameType", "frameSize"}

\* After needs_input is set nothing already decoded is held back
\* (__init__.py:334-336: "False if the decompress() method can provide more
\* decompressed data before requiring new uncompressed input").
NeedsInputHonest == pc = "idle" /\ Reading /\ self.needs_input => dctx.pending = 0

\* The decompressor is a FrameReader.
Reader == INSTANCE FrameReader WITH
  phase   <- IF spoiled THEN "spoiled" ELSE IF self.eof /\ pc = "idle" THEN "done" ELSE "reading",
  content <- Content(Frames[cur])

ReaderSpec == Reader!ReaderSpec

\* The while loop of __decompress ends, on every input and with any limit
\* (_frame.c:1044-1136).
CallReturns == pc # "idle" ~> pc = "idle"

\* A caller that keeps reading gets to the end of every frame it starts on.
FrameFinishes == (Patient /\ SF_vars(Diligent)) => []<>self.eof
=============================================================================
