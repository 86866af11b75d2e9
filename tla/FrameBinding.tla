---------------------------- MODULE FrameBinding ----------------------------
(***************************************************************************)
(* What compress_begin, compress_chunk and compress_flush of               *)
(* lz4/frame/_frame.c add to the LZ4F calls they make: the room they       *)
(* allocate for the output, the errors they turn into exceptions, and the  *)
(* bytes object they build last.  Operators on a context c; the modules    *)
(* that hold contexts are FrameContext and FrameCompressor.                *)
(***************************************************************************)
EXTENDS LZ4FCompression

Statuses == {"ok", "refused", "notStarted", "tooSmall", "frameSize",
             "allocation", "MemoryError"}

\* What a call hands back: parts of a frame, or an exception.
Returned(parts, cap, blocks, written) ==
  [status |-> "ok", parts |-> parts, cap |-> cap, blocks |-> blocks, written |-> written]
Raised(status) ==
  [status |-> status, parts |-> {}, cap |-> 0, blocks |-> << >>, written |-> 0]

\* What a compress_begin that raises leaves, by where it ran out of memory: no
\* room for the header, no LZ4 state, no tmp buffer, no bytes object.  The
\* binding keeps a copy of the preferences beside the context's own; one copy
\* stands for both here.  They differ only after the first of these cases, until
\* the next compress_begin, where they enter nothing but computed capacities.
BeginFailures(c, p) ==
  {[c |-> c, ret |-> Raised("MemoryError")],
   [c |-> [c EXCEPT !.prefs = p], ret |-> Raised("allocation")],
   [c |-> Begin(c, p), ret |-> Raised("MemoryError")]}
  \cup (IF NeedsBuffer(c, p) THEN {[c |-> BeginFailed(c, p), ret |-> Raised("allocation")]} ELSE {})

HeaderReturned(p) == Returned({"header"}, 32, << >>, HeaderSize(p))
-----------------------------------------------------------------------------
(* compress_chunk of n bytes, the first at position from of the content.   *)

ChunkCapacity(c, n) ==
  IF c.prefs.autoFlush THEN compressFrameBound(n, c.prefs) ELSE compressBound(n, c.prefs)

ChunkRefused(c, n) ==
  \/ c.cStage # 1
  \/ ChunkCapacity(c, n) < compressBound_internal(n, c.prefs, c.tmpInSize)

ChunkRaised(c) == Raised(IF c.cStage # 1 THEN "notStarted" ELSE "tooSmall")

ChunkReturned(c, from, n) ==
  LET blocks == UpdateBlocks(c, from, n)
  IN  Returned({"blocks"}, ChunkCapacity(c, n), blocks, Written(c.prefs, blocks))
-----------------------------------------------------------------------------
(* compress_flush, with and without end_frame.                             *)

FlushCapacity(c) == compressBound(0, c.prefs)
FlushSize(c)     == Written(c.prefs, FlushBlocks(c))

\* LZ4F_flush looks at the stage only when there is something to flush.
FlushNotStarted(c) == c.tmpInSize > 0 /\ c.cStage # 1

FlushTooSmall(c) == c.tmpInSize > 0 /\ FlushCapacity(c) < c.tmpInSize + BHSize + BFSize

\* LZ4F_compressEnd has flushed when it looks for room for the footer.
FooterTooSmall(c) == FlushCapacity(c) - FlushSize(c) < FooterSize(c.prefs)

FlushRefused(c, end_frame) ==
  FlushNotStarted(c) \/ FlushTooSmall(c) \/ (end_frame /\ FooterTooSmall(c))

FlushRaised(c) == Raised(IF FlushNotStarted(c) THEN "notStarted" ELSE "tooSmall")

AfterRefusedFlush(c) == IF FlushNotStarted(c) \/ FlushTooSmall(c) THEN c ELSE Flush(c)

AfterFlush(c, end_frame) == IF end_frame THEN End(c) ELSE Flush(c)

FlushReturned(c, end_frame) ==
  IF end_frame
  THEN Returned({"blocks", "footer"}, FlushCapacity(c), FlushBlocks(c),
                FlushSize(c) + FooterSize(c.prefs))
  ELSE Returned({"blocks"}, FlushCapacity(c), FlushBlocks(c), FlushSize(c))
=============================================================================
