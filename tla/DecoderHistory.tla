--------------------------- MODULE DecoderHistory ---------------------------
(***************************************************************************)
(* Where LZ4F_decompress keeps the last 64 KB of a frame with linked       *)
(* blocks, and the checksum of its content.                                *)
(*                                                                         *)
(* The next block may refer to any of these bytes, and decoded bytes lie   *)
(* in the caller's buffer, which is gone after the call unless the caller  *)
(* says otherwise, or in tmpOut, which the next block reuses.  So the      *)
(* history, dict, wanders between the two, and is copied when it must be.  *)
(*                                                                         *)
(* A byte of content is its position in the frame.  Buffers hold bytes, or *)
(* Junk where nothing was written, where a copy overlapped itself, or      *)
(* where the memory is no longer there.                                    *)
(***************************************************************************)
EXTENDS XXH32

CONSTANTS
  KB64,         \* 64 KB
  BlockSizes,   \* maxBlockSize of a frame
  Rooms,        \* dstSize of a call
  Stable,       \* the values of stableDst; a caller keeps to one
  MaxContent,   \* bound: bytes of content in the first frame; later ones get a share
  MaxFrames     \* bound: frames read with one context

ASSUME HistoryAssumption ==
  /\ KB64 \in Nat \ {0} /\ {MaxContent, MaxFrames} \subseteq Nat
  /\ \A b \in BlockSizes : b \in Nat /\ b >= KB64
  /\ Rooms \subseteq Nat /\ Stable \subseteq BOOLEAN

VARIABLES
  dctx,    \* the fields of LZ4F_dctx named below
  tmp,     \* the bytes of tmpOutBuffer
  dst,     \* the bytes written to the caller's buffers, of which two matter
  call,    \* the call in progress: [active, buf, start, room, stable]
  frames   \* frames begun

vars == <<dctx, tmp, dst, call, frames>>

Junk == -1
Tmp  == 0          \* dict.where: tmpOutBuffer, one of the caller's buffers,
NULL == 3          \* or nowhere

Least(a, b) == IF a =< b THEN a ELSE b

NoDict == [where |-> NULL, at |-> 0, size |-> 0]

\* stage: dStage; left: tmpInTarget while a raw block is copied; out, start and
\* size: tmpOut - tmpOutBuffer, tmpOutStart and tmpOutSize; max: maxBlockSize;
\* cap: maxBufferSize; done: the bytes decoded so far.
NewDctx ==
  [stage |-> "init", linked |-> FALSE, max |-> 0, cap |-> 0, dict |-> NoDict,
   left |-> 0, out |-> 0, start |-> 0, size |-> 0, done |-> 0, xxh |-> XXH32_reset]

Init ==
  /\ dctx = NewDctx
  /\ tmp = << >>
  /\ dst = [b \in {1, 2} |-> << >>]
  /\ call \in [active : {FALSE}, buf : {1}, start : {0}, room : {0}, stable : Stable]
  /\ frames = 0

-----------------------------------------------------------------------------
(* Memory.  Addresses are offsets from 0; tmp[a + 1] is the byte at a.       *)

Byte(where, a) ==
  LET m == IF where = Tmp THEN tmp ELSE IF where = NULL THEN << >> ELSE dst[where]
  IN  IF a + 1 \in DOMAIN m THEN m[a + 1] ELSE Junk

DictEnd == dctx.dict.at + dctx.dict.size

\* tmp after n bytes from address a of a buffer are copied to address to.
Copied(to, where, a, n) ==
  LET overlap == where = Tmp /\ a < to + n /\ to < a + n
  IN  [i \in DOMAIN tmp |->
         IF i - 1 \in to .. to + n - 1
         THEN IF overlap THEN Junk ELSE Byte(where, a + (i - 1 - to))
         ELSE tmp[i]]

Content(from, n) == [i \in 1 .. n |-> from + i - 1]

\* What was handed to the caller; the rest waits in tmpOut.
Given == dctx.done - (IF dctx.stage = "flushOut" THEN dctx.size - dctx.start ELSE 0)

-----------------------------------------------------------------------------
(* Calls                                                                     *)

\* A call's destination continues the one before, or is another buffer; those
\* before are left alone only by a caller that says so, and only what dict
\* points to matters then.
Call(room, continues) ==
  LET other == IF dctx.dict.where = 1 THEN 2 ELSE 1
      buf   == IF continues THEN call.buf ELSE other
  IN  /\ ~call.active
      /\ call' = [active |-> TRUE, buf |-> buf, room |-> room, stable |-> call.stable,
                  start |-> IF continues THEN Len(dst[buf]) ELSE 0]
      /\ dst' = IF continues THEN dst
                ELSE [b \in {1, 2} |-> IF call.stable /\ b # buf /\ b = dctx.dict.where THEN dst[b] ELSE << >>]
      /\ UNCHANGED <<dctx, tmp, frames>>

\* dstage_init, after the header: the buffers grow if they have to.
Needed(linked, max) == max + (IF linked THEN 2 * KB64 ELSE 0)

BeginFrame(linked, max) ==
  /\ call.active /\ dctx.stage = "init" /\ frames < MaxFrames
  /\ frames' = frames + 1
  /\ LET grows == Needed(linked, max) > dctx.cap
         cap   == IF grows THEN Needed(linked, max) ELSE dctx.cap
     IN  /\ dctx' = [NewDctx EXCEPT !.stage = "blockHeader", !.linked = linked, !.max = max,
                                    !.cap = cap, !.dict = dctx.dict]
         /\ tmp' = IF grows THEN [i \in 1 .. cap |-> Junk] ELSE tmp
  /\ UNCHANGED <<dst, call>>

\* maxBufferSize is 0 first, so that the buffers are allocated on the next try.
BeginFails(linked, max) ==
  /\ call.active /\ dctx.stage = "init" /\ frames < MaxFrames
  /\ Needed(linked, max) > dctx.cap
  /\ dctx' = [dctx EXCEPT !.cap = 0, !.linked = linked, !.max = max]
  /\ tmp' \in {tmp, << >>}
  /\ call' = [call EXCEPT !.active = FALSE]
  /\ UNCHANGED <<dst, frames>>

\* LZ4F_resetDecompressionContext.  What it leaves, dstage_init sets before it is
\* read; what tmpOutBuffer holds is none of the next frame's bytes.
Reset ==
  /\ dctx' = [NewDctx EXCEPT !.cap = dctx.cap]
  /\ tmp' = [i \in DOMAIN tmp |-> Junk]

\* The end mark, and what follows it; then the call returns.
EndFrame ==
  /\ call.active /\ dctx.stage = "blockHeader"
  /\ Reset
  /\ call' = [call EXCEPT !.active = FALSE]
  /\ UNCHANGED <<dst, frames>>

\* A frame given up between calls.
Abandon ==
  /\ ~call.active /\ dctx.stage # "init"
  /\ Reset
  /\ UNCHANGED <<dst, call, frames>>

-----------------------------------------------------------------------------
(* LZ4F_updateDict, after n bytes of content, the first of them `from`, were *)
(* written at the end of the destination.                                    *)

\* Room left in the destination.
Room == call.room - (Len(dst[call.buf]) - call.start)

Written(from, n) == [dst EXCEPT ![call.buf] = @ \o Content(from, n)]

Dict(where, at, size) == [where |-> where, at |-> at, size |-> size]

\* Mutant: whatever the destination holds replaces the dictionary.
XLargeEnough(n) == n > 0

LargeEnough(n) == n >= KB64

\* Mutant: it is copied to tmpOut, and not in front of it.
XFrontOfTmpOut(d, oldEnd) ==
  LET copySize == IF dctx.size > KB64 THEN 0 ELSE Least(KB64 - dctx.size, dctx.out)
  IN  Copied(dctx.out, d.where, oldEnd - copySize, copySize)

\* History that lies elsewhere, copied in front of tmpOut.
FrontOfTmpOut(d, oldEnd) ==
  LET copySize == IF dctx.size > KB64 THEN 0 ELSE Least(KB64 - dctx.size, dctx.out)
  IN  Copied(dctx.out - copySize, d.where, oldEnd - copySize, copySize)

\* The n new bytes behind those at the front of m.
Joined(m, at, from, n) ==
  [i \in DOMAIN m |-> IF i - 1 \in at .. at + n - 1 THEN from + (i - 1 - at) ELSE m[i]]

UpdateDict(from, n, withinTmp) ==
  LET b    == call.buf
      p    == Len(dst[b])
      d    == IF dctx.dict.size = 0 THEN Dict(b, p, 0) ELSE dctx.dict
      held == p - call.start + n
      shift == KB64 - n
      kept  == Least(KB64 - n, d.size)
      new(dict, m) == [dict |-> dict, tmp |-> m]
  IN  IF d.where = b /\ d.at + d.size = p
        THEN new([d EXCEPT !.size = @ + n], tmp)
      ELSE IF LargeEnough(held)
        THEN new(Dict(b, call.start, held), tmp)
      ELSE IF withinTmp /\ d.where = Tmp
        THEN new([d EXCEPT !.size = @ + n], tmp)
      ELSE IF withinTmp
        THEN new(Dict(Tmp, 0, dctx.out + dctx.start + n),
                 FrontOfTmpOut(d, d.at + d.size - dctx.start))
      ELSE IF d.where = Tmp /\ d.size + n > dctx.cap
        THEN new(Dict(Tmp, 0, shift + n),
                 Joined(Copied(0, Tmp, d.size - shift, shift), shift, from, n))
      ELSE IF d.where = Tmp
        THEN new([d EXCEPT !.size = @ + n], Joined(tmp, d.size, from, n))
      ELSE new(Dict(Tmp, 0, kept + n),
               Joined(Copied(0, d.where, d.at + d.size - kept, kept), kept, from, n))

\* n bytes go to the destination and, in a linked frame, into the history.
Emit(d, from, n, withinTmp) ==
  LET u == UpdateDict(from, n, withinTmp)
  IN  /\ dst' = Written(from, n)
      /\ IF d.linked THEN dctx' = [d EXCEPT !.dict = u.dict] /\ tmp' = u.tmp
                     ELSE dctx' = d /\ UNCHANGED tmp
      /\ UNCHANGED <<call, frames>>

Decoded(n) ==
  [dctx EXCEPT !.done = @ + n, !.xxh = XXH32_update(@, Content(dctx.done, n))]

-----------------------------------------------------------------------------
(* Blocks                                                                    *)

Fits(n) == dctx.done + n =< MaxContent \div frames

RawBlock(n) ==
  /\ call.active /\ dctx.stage = "blockHeader" /\ Fits(n)
  /\ n \in 0 .. dctx.max
  /\ dctx' = [dctx EXCEPT !.stage = "copyDirect", !.left = n]
  /\ UNCHANGED <<tmp, dst, call, frames>>

\* dstage_copyDirect, with n bytes of input there.
CopyDirect(n) ==
  /\ call.active /\ dctx.stage = "copyDirect"
  /\ n =< dctx.left /\ n =< Room
  /\ Emit([Decoded(n) EXCEPT !.left = @ - n, !.stage = IF n = dctx.left THEN "blockHeader" ELSE @],
          dctx.done, n, FALSE)

\* There is room for any block, and the dictionary is not right before tmpOut.
Directly == Room >= dctx.max /\ ~(dctx.dict.where = Tmp /\ DictEnd = dctx.out)

DecodeDirect(n) ==
  /\ call.active /\ dctx.stage = "blockHeader" /\ Fits(n)
  /\ Directly
  /\ n \in 0 .. dctx.max
  /\ Emit(Decoded(n), dctx.done, n, FALSE)

\* Mutant: the dictionary is not cut, and tmpOut follows it.
XTruncated == [dict |-> dctx.dict, tmp |-> tmp]

\* A dictionary in tmpOutBuffer that leaves no room for a block behind it.
Truncated ==
  IF dctx.dict.where = Tmp /\ dctx.dict.size > 2 * KB64
  THEN [dict |-> Dict(Tmp, 0, KB64), tmp |-> Copied(0, Tmp, dctx.dict.size - KB64, KB64)]
  ELSE [dict |-> dctx.dict, tmp |-> tmp]

\* Decoded into tmpOut: n bytes, and behind them, up to a whole block, whatever
\* the decoder's copies left.
DecodeToTmp(n) ==
  /\ call.active /\ dctx.stage = "blockHeader" /\ Fits(n)
  /\ ~Directly
  /\ n \in 0 .. dctx.max
  /\ LET t   == IF dctx.linked THEN Truncated ELSE [dict |-> dctx.dict, tmp |-> tmp]
         out == IF ~dctx.linked THEN dctx.out
                ELSE IF t.dict.where = Tmp THEN t.dict.size ELSE Least(t.dict.size, KB64)
     IN  /\ dctx' = [Decoded(n) EXCEPT !.stage = "flushOut", !.dict = t.dict,
                                       !.out = out, !.start = 0, !.size = n]
         /\ tmp' = [i \in DOMAIN tmp |->
              CASE i - 1 \in out .. out + n - 1 -> dctx.done + (i - 1 - out)
                [] i - 1 \in out + n .. out + dctx.max - 1 -> Junk
                [] OTHER -> t.tmp[i]]
  /\ UNCHANGED <<dst, call, frames>>

FlushOut ==
  /\ call.active /\ dctx.stage = "flushOut"
  /\ LET n == Least(dctx.size - dctx.start, Room)
     IN  Emit([dctx EXCEPT !.start = @ + n,
                           !.stage = IF n = dctx.size - dctx.start THEN "blockHeader" ELSE @],
              Given, n, TRUE)

-----------------------------------------------------------------------------
(* A call returns: for want of input between any two steps, or of room.      *)

Preserved ==
  /\ dctx.linked /\ ~call.stable
  /\ dctx.stage # "init" /\ dctx.dict.where \notin {Tmp, NULL}

KeptSize == Least(dctx.dict.size, KB64)

Return ==
  /\ call.active
  /\ call' = [call EXCEPT !.active = FALSE]
  /\ IF ~Preserved THEN UNCHANGED <<dctx, tmp>>
     ELSE IF dctx.stage = "flushOut"
     THEN /\ tmp' = FrontOfTmpOut(dctx.dict, DictEnd - dctx.start)
          /\ dctx' = [dctx EXCEPT !.dict = Dict(Tmp, 0, dctx.out + dctx.start)]
     ELSE /\ tmp' = Copied(0, dctx.dict.where, DictEnd - KeptSize, KeptSize)
          /\ dctx' = [dctx EXCEPT !.dict = Dict(Tmp, 0, KeptSize), !.out = KeptSize]
  /\ UNCHANGED <<dst, frames>>

Next ==
  \/ \E room \in Rooms, continues \in BOOLEAN : Call(room, continues)
  \/ \E linked \in BOOLEAN, max \in BlockSizes : BeginFrame(linked, max) \/ BeginFails(linked, max)
  \/ \E n \in 0 .. dctx.max : RawBlock(n) \/ CopyDirect(n) \/ DecodeDirect(n) \/ DecodeToTmp(n)
  \/ FlushOut
  \/ EndFrame \/ Abandon \/ Return

Spec == Init /\ [][Next]_vars

-----------------------------------------------------------------------------
(* Properties                                                                *)

\* How far back the next block may refer, before what still waits in tmpOut.
Window == {k \in 1 .. Given : Given - k >= dctx.done - KB64}

\* Of the last 64 KB decoded, those that were handed out lie, unspoiled, at the
\* end of dict: what the next block refers to is there when it is decoded.
HistoryRight ==
  (call.active /\ dctx.linked /\ dctx.stage # "init") =>
    \A k \in Window : k =< dctx.dict.size /\ Byte(dctx.dict.where, DictEnd - k) = Given - k

\* A block that does not fit the caller's buffer waits in tmpOut unspoiled
\* while history is copied in front of it.
WaitingIntact ==
  dctx.stage = "flushOut" =>
    \A k \in 0 .. dctx.size - dctx.start - 1 : Byte(Tmp, dctx.out + dctx.start + k) = Given + k

\* Nothing is copied or decoded past the end of tmpOutBuffer: a decoder was
\* given room for a block at tmpOut, and history there lies within it.
WithinTmpOut ==
  (dctx.stage # "init" /\ dctx.cap > 0) =>
    /\ Len(tmp) = dctx.cap
    /\ dctx.stage = "flushOut" => dctx.out + dctx.max =< dctx.cap
    /\ dctx.dict.where = Tmp => dctx.dict.size =< dctx.cap

\* The running checksum is that of all the content decoded, however its blocks
\* and the calls cut it up: a right frame is never refused for its checksum.
ChecksumRight ==
  dctx.stage # "init" => XXH32_digest(dctx.xxh) = XXH32(Content(0, dctx.done))
=============================================================================
