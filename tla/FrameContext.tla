---------------------------- MODULE FrameContext ----------------------------
(***************************************************************************)
(* One compression context of lz4/frame/_frame.c used through the          *)
(* functions of lz4.frame: create_compression_context, compress_begin,     *)
(* compress_chunk and compress_flush (with and without end_frame), for     *)
(* frame after frame on the same context, with memory running out.         *)
(*                                                                         *)
(* A call that raised leaves the context to be begun again before it is    *)
(* used (lz4frame.c:928); `usable` is the caller's side of that contract.  *)
(***************************************************************************)
EXTENDS FrameBinding

CONSTANTS ContentSizes,   \* the source_size values callers pass, 0 for none
          Choices,        \* the preferences callers pass, source_size among them
          MaxContent,     \* bound: bytes of content compressed into a frame
          MaxFrames       \* bound: frames begun on the context

ASSUME BoundsAssumption ==
  /\ ContentSizes \subseteq Nat /\ 0 \in ContentSizes
  /\ Choices \subseteq Preferences(ContentSizes)
  /\ MaxContent \in Nat
  /\ MaxFrames \in Nat

VARIABLES
  cctx,       \* the LZ4F context
  usable,     \* no call on it has raised since compress_begin last succeeded
  accepted,   \* bytes of the frame's content given to compress_chunk
  sent,       \* bytes of it in the blocks returned so far
  frames,     \* frames begun
  ret         \* what the last call returned or raised

vars == <<cctx, usable, accepted, sent, frames, ret>>

Init ==
  /\ cctx = NewContext
  /\ usable = TRUE
  /\ accepted = 0
  /\ sent = 0
  /\ frames = 0
  /\ ret = Raised("ok")
-----------------------------------------------------------------------------
(* compress_begin                                                          *)

compress_begin(p) ==
  /\ frames < MaxFrames
  /\ frames' = frames + 1
  /\ \/ /\ cctx' = Begin(cctx, p)
        /\ usable' = TRUE
        /\ accepted' = 0
        /\ sent' = 0
        /\ ret' = HeaderReturned(p)
     \/ /\ \E f \in BeginFailures(cctx, p) : cctx' = f.c /\ ret' = f.ret
        /\ usable' = FALSE
        /\ UNCHANGED <<accepted, sent>>
-----------------------------------------------------------------------------
(* compress_chunk                                                          *)

\* The context has moved on when the bytes object for the result is created;
\* if that fails, the blocks are gone.
ChunkDone(n) ==
  /\ ~ ChunkRefused(cctx, n)
  /\ cctx' = Update(cctx, accepted, n)
  /\ accepted' = accepted + n
  /\ \/ /\ sent' = sent + UpdateBytes(cctx, n)
        /\ ret' = ChunkReturned(cctx, accepted, n)
        /\ UNCHANGED usable
     \/ /\ usable' = FALSE
        /\ ret' = Raised("MemoryError")
        /\ UNCHANGED sent

\* Refused by LZ4F_compressUpdate, or no memory for its output.
ChunkFailed(n) ==
  /\ ret' \in {Raised("MemoryError")} \cup (IF ChunkRefused(cctx, n) THEN {ChunkRaised(cctx)} ELSE {})
  /\ usable' = FALSE
  /\ UNCHANGED <<cctx, accepted, sent>>

compress_chunk(n) ==
  /\ usable
  /\ accepted + n <= MaxContent
  /\ ChunkDone(n) \/ ChunkFailed(n)
  /\ UNCHANGED frames
-----------------------------------------------------------------------------
(* compress_flush                                                          *)

FlushDone(end_frame) ==
  /\ ~ FlushRefused(cctx, end_frame)
  /\ cctx' = AfterFlush(cctx, end_frame)
  /\ \/ /\ ~ (end_frame /\ WrongSize(cctx))
        /\ sent' = sent + cctx.tmpInSize
        /\ ret' = FlushReturned(cctx, end_frame)
        /\ UNCHANGED usable
     \/ /\ usable' = FALSE
        /\ ret' = Raised(IF end_frame /\ WrongSize(cctx) THEN "frameSize" ELSE "MemoryError")
        /\ UNCHANGED sent

FlushFailed(end_frame) ==
  /\ \/ ret' = Raised("MemoryError") /\ UNCHANGED cctx
     \/ /\ FlushRefused(cctx, end_frame)
        /\ cctx' = AfterRefusedFlush(cctx)
        /\ ret' = FlushRaised(cctx)
  /\ usable' = FALSE
  /\ UNCHANGED sent

compress_flush(end_frame) ==
  /\ usable
  /\ FlushDone(end_frame) \/ FlushFailed(end_frame)
  /\ UNCHANGED <<accepted, frames>>
-----------------------------------------------------------------------------
Next ==
  \/ \E p \in Choices : compress_begin(p)
  \/ \E n \in 0..MaxContent : compress_chunk(n)
  \/ \E end_frame \in BOOLEAN : compress_flush(end_frame)

Spec == Init /\ [][Next]_vars
-----------------------------------------------------------------------------
(* Properties                                                              *)

Started == usable /\ cctx.cStage = 1

\* The fields of the context stay within their C types, the counters count,
\* and a call ends in one of the ways _frame.c ends it.
TypeOK ==
  /\ IsContext(cctx, ContentSizes)
  /\ usable \in BOOLEAN
  /\ {accepted, sent, frames} \subseteq Nat
  /\ ret.status \in Statuses

\* The tmp buffer always has room for what the next call copies into it, the
\* assertion at lz4frame.c:1030, and less than a block ever waits there.
RoomInBuffer == Started => Roomy(cctx)

\* Every byte a caller gave compress_chunk is in a block it got back or still
\* waits, once: none is dropped or sent twice across calls, flushes and frames.
NothingLost == Started => sent + cctx.tmpInSize = accepted

\* The waiting bytes are the very next ones of the content: saving history
\* into the buffer they share never moves over them (lz4frame.c:1022-1039).
WaitingIntact == Started => WaitingIs(cctx, accepted)

\* Between calls, linked history lies in the context's own buffer, never in a
\* caller's released one (lz4frame.c:1010-1020), ends where the next block
\* starts, and is the content that precedes that block.
HistoryIntact == Started => HistoryIs(cctx, accepted)

\* The blocks of a result carry the next bytes of the content in order, none
\* longer than the frame's block size, and each was compressed against bytes
\* that immediately precede it, which is all a decoder has (lz4frame.c:853-903).
BlocksInOrder ==
  \A k \in DOMAIN ret.blocks :
    LET b     == ret.blocks[k]
        start == sent - CarriedBy(ret.blocks) + Carried(ret.blocks, k - 1)
    IN  /\ Len(b.data) \in 1..cctx.prefs.block
        /\ b.data = Positions(start, Len(b.data))
        /\ b.hist = Positions(start - Len(b.hist), Len(b.hist))

\* A frame that announced its content size ends without an error only if
\* exactly that many bytes were compressed into it, whatever frames came
\* before it on the context (lz4frame.c:768-772, 1181-1184).
PromiseKept ==
  "footer" \in ret.parts /\ cctx.prefs.size > 0 => accepted = cctx.prefs.size
=============================================================================
