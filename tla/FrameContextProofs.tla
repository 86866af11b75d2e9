------------------------- MODULE FrameContextProofs -------------------------
(***************************************************************************)
(* Theorems about FrameContext, for every window, set of block sizes, set  *)
(* of preferences, content and number of frames.                           *)
(***************************************************************************)
EXTENDS FrameContext, LZ4FCompressionProofs

BufferThere == 0..(cctx.max - 1) \subseteq DOMAIN cctx.mem

\* What a context no call on which has raised satisfies: in a frame it is sound
\* and its bytes are accounted for, between frames nothing waits in it.
InUse ==
  usable =>
    /\ cctx.cStage = 1 => Sound(cctx, accepted) /\ sent + cctx.tmpInSize = accepted
    /\ cctx.cStage # 1 => cctx.tmpInSize = 0
    /\ cctx.prefs.size > 0 => cctx.total = accepted

\* The inductive invariant.  The properties the runs check do not suffice: that
\* begin finds the buffer it already has where the context says it is, and
\* that a failed call never leaves less, must be known of every context.
IInv == TypeOK /\ BufferThere /\ InUse /\ PromiseKept

LEMMA InitIInv == Init => IInv
<1> SUFFICES ASSUME Init PROVE IInv
  OBVIOUS
<1> USE DEF Init
<1>1. NewContext.prefs \in Preferences(ContentSizes)
  BY BlockAssumption, BoundsAssumption DEF NewContext, Preferences
<1>2. /\ cctx.cStage = 0 /\ cctx.max = 0 /\ cctx.mem = [a \in {} |-> Garbage]
      /\ cctx.tmpIn = 0 /\ cctx.tmpInSize = 0 /\ cctx.total = 0
      /\ cctx.dict = Span("tmp", 0, 0) /\ cctx.prefs = NewContext.prefs
      /\ cctx.prefs.size = 0
  BY DEF NewContext, NoDict
<1>3. IsContext(cctx, ContentSizes)
  <2>1. cctx \in [cStage: {0, 1}, max: Nat, mem: {cctx.mem}, tmpIn: Nat, tmpInSize: Nat,
                 total: Nat, dict: [in: {"tmp", "src"}, at: Nat, size: Nat],
                 prefs: Preferences(ContentSizes)]
    BY <1>1 DEF NewContext, NoDict, Span
  <2> QED
    BY <1>2, <2>1 DEF IsContext
<1>4. ret.status = "ok" /\ ret.parts = {}
  BY DEF Raised
<1> QED
  BY <1>2, <1>3, <1>4 DEF IInv, TypeOK, BufferThere, InUse, PromiseKept, Statuses
-----------------------------------------------------------------------------
(* The step.                                                               *)

\* The constants' types and the invariant's, in the form the steps use them.
LEMMA Types ==
  ASSUME IInv
  PROVE  /\ ContentSizes \in SUBSET Nat /\ MaxContent \in Nat
         /\ IsContext(cctx, ContentSizes) /\ cctx.tmpInSize \in Nat
         /\ cctx.cStage \in {0, 1} /\ cctx.max \in Nat
         /\ accepted \in Nat /\ sent \in Nat /\ frames \in Nat /\ usable \in BOOLEAN
<1>1. ContentSizes \in SUBSET Nat /\ MaxContent \in Nat
  BY BoundsAssumption
<1>2. IsContext(cctx, ContentSizes)
  BY DEF IInv, TypeOK
<1>3. cctx.tmpInSize \in Nat /\ cctx.cStage \in {0, 1} /\ cctx.max \in Nat
  BY <1>1, <1>2, ContextTypes
<1>4. accepted \in Nat /\ sent \in Nat /\ frames \in Nat /\ usable \in BOOLEAN
  BY DEF IInv, TypeOK
<1> QED
  BY <1>1, <1>2, <1>3, <1>4

\* compress_begin: what is left of the last frame does not reach the new one.
LEMMA BeginStep ==
  ASSUME IInv, NEW p \in Choices, compress_begin(p)
  PROVE  IInv'
<1>1. p \in Preferences(ContentSizes)
  BY BoundsAssumption
<1>2. /\ IsContext(cctx, ContentSizes) /\ 0..(cctx.max - 1) \subseteq DOMAIN cctx.mem
      /\ ContentSizes \in SUBSET Nat /\ frames' \in Nat
      /\ accepted \in Nat /\ sent \in Nat
  BY Types DEF IInv, BufferThere, compress_begin
<1>3. /\ IsContext(Begin(cctx, p), ContentSizes)
      /\ Begin(cctx, p).cStage = 1 /\ Begin(cctx, p).tmpInSize = 0
      /\ Sound(Begin(cctx, p), 0)
  BY <1>1, <1>2, BeginSound
<1>4. 0..(Begin(cctx, p).max - 1) \subseteq DOMAIN Begin(cctx, p).mem
  BY <1>3 DEF Sound, Roomy
<1>5. CASE /\ cctx' = Begin(cctx, p) /\ usable' = TRUE
           /\ accepted' = 0 /\ sent' = 0 /\ ret' = HeaderReturned(p)
  <2>1. cctx'.prefs = p /\ (p.size > 0 => cctx'.total = 0)
    BY <1>2, <1>5 DEF Begin, IsContext
  <2>2. ret'.status = "ok" /\ ret'.parts = {"header"}
    BY <1>5 DEF HeaderReturned, Returned
  <2>3. TypeOK'
    BY <1>2, <1>3, <1>5, <2>2 DEF TypeOK, Statuses
  <2>4. BufferThere'
    BY <1>4, <1>5 DEF BufferThere
  <2>5. InUse'
    BY <1>3, <1>5, <2>1 DEF InUse
  <2>6. PromiseKept'
    BY <2>2 DEF PromiseKept
  <2> QED
    BY <2>3, <2>4, <2>5, <2>6 DEF IInv
<1>6. CASE /\ \E f \in BeginFailures(cctx, p) : cctx' = f.c /\ ret' = f.ret
           /\ usable' = FALSE
           /\ UNCHANGED <<accepted, sent>>
  <2>1. PICK f \in BeginFailures(cctx, p) : cctx' = f.c /\ ret' = f.ret
    BY <1>6
  <2>2. \/ f = [c |-> cctx, ret |-> Raised("MemoryError")]
        \/ f = [c |-> [cctx EXCEPT !.prefs = p], ret |-> Raised("allocation")]
        \/ f = [c |-> Begin(cctx, p), ret |-> Raised("MemoryError")]
        \/ f = [c |-> BeginFailed(cctx, p), ret |-> Raised("allocation")]
    BY <2>1 DEF BeginFailures
  <2>3. ret' \in {Raised("MemoryError"), Raised("allocation")}
    BY <2>1, <2>2
  <2>4. ret'.status \in {"MemoryError", "allocation"} /\ ret'.parts = {}
    BY <2>3 DEF Raised
  <2>5. \/ cctx' = cctx
        \/ cctx' = [cctx EXCEPT !.prefs = p]
        \/ cctx' = Begin(cctx, p)
        \/ cctx' = BeginFailed(cctx, p)
    BY <2>1, <2>2
  <2>6. IsContext(cctx', ContentSizes) /\ 0..(cctx'.max - 1) \subseteq DOMAIN cctx'.mem
    <3>1. CASE cctx' = cctx
      BY <1>2, <3>1
    <3>2. CASE cctx' = [cctx EXCEPT !.prefs = p]
      <4>1. cctx'.mem = cctx.mem /\ cctx'.max = cctx.max
        BY <1>2, <3>2 DEF IsContext
      <4> QED
        BY <1>1, <1>2, <3>2, <4>1 DEF IsContext
    <3>3. CASE cctx' = Begin(cctx, p)
      BY <1>3, <1>4, <3>3
    <3>4. CASE cctx' = BeginFailed(cctx, p)
      <4>1. cctx' = [cctx EXCEPT !.prefs = p, !.max = 0, !.mem = [a \in {} |-> Garbage]]
        BY <3>4 DEF BeginFailed
      <4>2. cctx'.max = 0 /\ cctx'.mem = [a \in {} |-> Garbage]
        BY <1>2, <4>1 DEF IsContext
      <4>3. cctx' \in [cStage: {0, 1}, max: Nat, mem: {cctx'.mem}, tmpIn: Nat,
                       tmpInSize: Nat, total: Nat,
                       dict: [in: {"tmp", "src"}, at: Nat, size: Nat],
                       prefs: Preferences(ContentSizes)]
        BY <1>1, <1>2, <4>1, <4>2 DEF IsContext
      <4>4. DOMAIN cctx'.mem \subseteq Nat /\ cctx'.mem \in [DOMAIN cctx'.mem -> Int]
        BY <4>2
      <4> QED
        BY <4>2, <4>3, <4>4 DEF IsContext
    <3> QED
      BY <2>5, <3>1, <3>2, <3>3, <3>4
  <2>7. TypeOK'
    BY <1>2, <1>6, <2>4, <2>6 DEF TypeOK, Statuses
  <2>8. InUse' /\ PromiseKept'
    BY <1>6, <2>4 DEF InUse, PromiseKept
  <2> QED
    BY <2>6, <2>7, <2>8 DEF IInv, BufferThere
<1> QED
  BY <1>5, <1>6 DEF compress_begin

\* A call that raises: its context stays a C struct, which is all that is asked
\* of one to be begun again.
LEMMA RaisedStep ==
  ASSUME IInv, usable' = FALSE, ret'.status \in Statuses, ret'.parts = {},
         IsContext(cctx', ContentSizes), BufferThere',
         accepted' \in Nat, sent' \in Nat, frames' \in Nat
  PROVE  IInv'
BY DEF IInv, TypeOK, InUse, PromiseKept

\* compress_chunk: the bytes given are sent or wait, and nothing else changes.
LEMMA ChunkStep ==
  ASSUME IInv, NEW n \in 0..MaxContent, compress_chunk(n)
  PROVE  IInv'
<1>1. n \in Nat /\ ContentSizes \in SUBSET Nat /\ IsContext(cctx, ContentSizes)
  BY Types
<1>2. /\ accepted \in Nat /\ sent \in Nat /\ frames' \in Nat /\ usable
      /\ cctx.tmpInSize \in Nat
  BY Types DEF compress_chunk
<1>3. CASE ChunkDone(n)
  <2> DEFINE u == Update(cctx, accepted, n)
  <2>1. /\ cctx.cStage = 1 /\ cctx' = u /\ accepted' = accepted + n
    BY <1>3 DEF ChunkDone, ChunkRefused
  <2>2. /\ Sound(cctx, accepted) /\ sent + cctx.tmpInSize = accepted
        /\ cctx.prefs.size > 0 => cctx.total = accepted
    BY <1>2, <2>1 DEF IInv, InUse
  <2>3. /\ IsContext(u, ContentSizes) /\ Sound(u, accepted + n)
        /\ u.cStage = cctx.cStage /\ u.prefs = cctx.prefs /\ u.total = cctx.total + n
        /\ UpdateBytes(cctx, n) \in Nat
        /\ UpdateBytes(cctx, n) + u.tmpInSize = cctx.tmpInSize + n
    BY <1>1, <1>2, <2>2, UpdateSound
  <2>4. BufferThere'
    BY <2>1, <2>3 DEF BufferThere, Sound, Roomy
  <2>5. accepted + n \in Nat /\ u.tmpInSize \in Nat
    BY <1>1, <1>2, <2>3, ContextTypes
  <2> HIDE DEF u
  <2>6. CASE /\ sent' = sent + UpdateBytes(cctx, n)
             /\ ret' = ChunkReturned(cctx, accepted, n)
             /\ UNCHANGED usable
    <3>1. ret'.status = "ok" /\ ret'.parts = {"blocks"}
      BY <2>6 DEF ChunkReturned, Returned
    <3>2. sent' \in Nat
      BY <1>2, <2>3, <2>6
    <3>3. TypeOK'
      BY <1>2, <2>1, <2>3, <2>5, <2>6, <3>1, <3>2 DEF TypeOK, Statuses
    <3>4. sent' + cctx'.tmpInSize = accepted'
      BY <1>1, <1>2, <2>1, <2>2, <2>3, <2>5, <2>6
    <3>5. cctx'.prefs.size > 0 => cctx'.total = accepted'
      BY <2>1, <2>2, <2>3
    <3>6. cctx'.cStage = 1 /\ Sound(cctx', accepted')
      BY <2>1, <2>3
    <3>7. InUse'
      BY <3>4, <3>5, <3>6 DEF InUse
    <3>8. PromiseKept'
      BY <3>1 DEF PromiseKept
    <3> QED
      BY <2>4, <3>3, <3>7, <3>8 DEF IInv
  <2>7. CASE /\ usable' = FALSE /\ ret' = Raised("MemoryError") /\ UNCHANGED sent
    <3>1. ret'.status \in Statuses /\ ret'.parts = {}
      BY <2>7 DEF Raised, Statuses
    <3> QED
      BY <1>2, <2>1, <2>3, <2>4, <2>5, <2>7, <3>1, RaisedStep
  <2> QED
    BY <1>3, <2>6, <2>7 DEF ChunkDone
<1>4. CASE ChunkFailed(n)
  <2>1. ret'.status \in Statuses /\ ret'.parts = {}
    BY <1>4 DEF ChunkFailed, ChunkRaised, Raised, Statuses
  <2>2. BufferThere' /\ cctx' = cctx /\ usable' = FALSE
    BY <1>4 DEF ChunkFailed, IInv, BufferThere
  <2> QED
    BY <1>1, <1>2, <1>4, <2>1, <2>2, RaisedStep DEF ChunkFailed
<1> QED
  BY <1>3, <1>4 DEF compress_chunk

\* A flush that is not refused, of a context in use: in a frame it leaves the
\* context sound, between frames it does nothing.
LEMMA FlushInUse ==
  ASSUME IInv, usable, ~ FlushNotStarted(cctx)
  PROVE  /\ IsContext(Flush(cctx), ContentSizes) /\ SameFrame(cctx, Flush(cctx))
         /\ Flush(cctx).tmpInSize = 0
         /\ 0..(Flush(cctx).max - 1) \subseteq DOMAIN Flush(cctx).mem
         /\ cctx.cStage = 1 => Sound(Flush(cctx), accepted)
<1>1. /\ ContentSizes \in SUBSET Nat /\ IsContext(cctx, ContentSizes)
      /\ accepted \in Nat /\ cctx.tmpInSize \in Nat
  BY Types
<1>2. CASE cctx.cStage = 1
  <2>1. Sound(cctx, accepted)
    BY <1>2 DEF IInv, InUse
  <2>2. /\ IsContext(Flush(cctx), ContentSizes) /\ Sound(Flush(cctx), accepted)
        /\ SameFrame(cctx, Flush(cctx)) /\ Flush(cctx).tmpInSize = 0
    BY <1>1, <2>1, FlushSound
  <2> QED
    BY <2>2 DEF Sound, Roomy
<1>3. CASE cctx.cStage # 1
  <2>1. cctx.tmpInSize = 0
    BY <1>3 DEF IInv, InUse
  <2>2. Flush(cctx) = cctx
    BY <2>1 DEF Flush
  <2> QED
    BY <1>1, <1>3, <2>1, <2>2 DEF IInv, BufferThere, SameFrame
<1> QED
  BY <1>2, <1>3

\* compress_flush: what waited is sent, and a frame ends only with the content
\* size it announced.
LEMMA FlushStep ==
  ASSUME IInv, NEW end_frame \in BOOLEAN, compress_flush(end_frame)
  PROVE  IInv'
<1> DEFINE f == Flush(cctx)
<1>1. ContentSizes \in SUBSET Nat /\ IsContext(cctx, ContentSizes)
  BY Types
<1>2. /\ accepted \in Nat /\ sent \in Nat /\ usable
      /\ cctx.tmpInSize \in Nat /\ cctx.cStage \in {0, 1}
      /\ accepted' = accepted /\ frames' \in Nat
  BY Types DEF compress_flush
<1>3. CASE FlushDone(end_frame)
  <2>1. ~ FlushNotStarted(cctx) /\ cctx' = AfterFlush(cctx, end_frame)
    BY <1>3 DEF FlushDone, FlushRefused
  <2>2. /\ IsContext(f, ContentSizes) /\ SameFrame(cctx, f) /\ f.tmpInSize = 0
        /\ 0..(f.max - 1) \subseteq DOMAIN f.mem
        /\ cctx.cStage = 1 => Sound(f, accepted)
    BY <1>2, <2>1, FlushInUse
  <2>3. /\ cctx.cStage = 1 => sent + cctx.tmpInSize = accepted
        /\ cctx.prefs.size > 0 => cctx.total = accepted
    BY <1>2 DEF IInv, InUse
  <2>4. /\ IsContext(End(cctx), ContentSizes) /\ End(cctx).cStage = 0 /\ End(cctx).max = 0
        /\ End(cctx).tmpInSize = f.tmpInSize /\ End(cctx).prefs = f.prefs
        /\ End(cctx).total = f.total
    BY <1>1, <2>2, EndTypes
  <2> HIDE DEF f
  <2>5. /\ end_frame => cctx' = End(cctx)
        /\ ~ end_frame => cctx' = f
    BY <2>1 DEF AfterFlush, f
  <2>6. /\ IsContext(cctx', ContentSizes) /\ cctx'.tmpInSize = 0
        /\ cctx'.prefs = cctx.prefs /\ cctx'.total = cctx.total
        /\ cctx'.cStage = 1 => ~ end_frame /\ cctx.cStage = 1
    BY <2>2, <2>4, <2>5 DEF SameFrame
  <2>7. BufferThere'
    <3>1. CASE end_frame
      BY <2>4, <2>5, <3>1 DEF BufferThere
    <3>2. CASE ~ end_frame
      BY <2>2, <2>5, <3>2 DEF BufferThere
    <3> QED
      BY <3>1, <3>2
  <2>8. CASE /\ ~ (end_frame /\ WrongSize(cctx))
             /\ sent' = sent + cctx.tmpInSize
             /\ ret' = FlushReturned(cctx, end_frame)
             /\ UNCHANGED usable
    <3>1. ret'.status = "ok" /\ ("footer" \in ret'.parts => end_frame)
      BY <2>8 DEF FlushReturned, Returned
    <3>2. sent' \in Nat
      BY <1>2, <2>8
    <3>3. TypeOK'
      BY <1>2, <2>6, <2>8, <3>1, <3>2 DEF TypeOK, Statuses
    <3>4. cctx'.cStage = 1 => Sound(cctx', accepted') /\ sent' + cctx'.tmpInSize = accepted'
      <4>1. ASSUME cctx'.cStage = 1
            PROVE  sent' + cctx'.tmpInSize = accepted'
        BY <1>2, <2>3, <2>6, <2>8, <4>1
      <4>2. ASSUME cctx'.cStage = 1
            PROVE  Sound(cctx', accepted')
        BY <1>2, <2>2, <2>5, <2>6, <4>2
      <4> QED
        BY <4>1, <4>2
    <3>5. cctx'.prefs.size > 0 => cctx'.total = accepted'
      BY <1>2, <2>3, <2>6
    <3>6. InUse'
      BY <2>6, <3>4, <3>5 DEF InUse
    <3>7. PromiseKept'
      <4>1. SUFFICES ASSUME "footer" \in ret'.parts, cctx'.prefs.size > 0
                     PROVE  accepted' = cctx'.prefs.size
        BY DEF PromiseKept
      <4>2. ~ WrongSize(cctx)
        BY <2>8, <3>1, <4>1
      <4> QED
        BY <1>2, <2>3, <2>6, <4>1, <4>2 DEF WrongSize
    <3> QED
      BY <2>7, <3>3, <3>6, <3>7 DEF IInv
  <2>9. CASE /\ usable' = FALSE
             /\ ret' = Raised(IF end_frame /\ WrongSize(cctx) THEN "frameSize"
                                                              ELSE "MemoryError")
             /\ UNCHANGED sent
    <3>1. ret'.status \in Statuses /\ ret'.parts = {}
      BY <2>9 DEF Raised, Statuses
    <3> QED
      BY <1>2, <2>6, <2>7, <2>9, <3>1, RaisedStep
  <2> QED
    BY <1>3, <2>8, <2>9 DEF FlushDone
<1>4. CASE FlushFailed(end_frame)
  <2>1. usable' = FALSE /\ sent' = sent
    BY <1>4 DEF FlushFailed
  <2>2. ret'.status \in Statuses /\ ret'.parts = {}
    BY <1>4 DEF FlushFailed, FlushRaised, Raised, Statuses
  <2>3. cctx' = cctx \/ cctx' = AfterRefusedFlush(cctx)
    BY <1>4 DEF FlushFailed
  <2>4. cctx' = cctx \/ (cctx' = f /\ ~ FlushNotStarted(cctx))
    BY <2>3 DEF AfterRefusedFlush
  <2>5. IsContext(cctx', ContentSizes) /\ BufferThere'
    <3>1. CASE cctx' = cctx
      BY <1>1, <3>1 DEF IInv, BufferThere
    <3>2. CASE cctx' = f /\ ~ FlushNotStarted(cctx)
      BY <1>2, <3>2, FlushInUse DEF BufferThere
    <3> QED
      BY <2>4, <3>1, <3>2
  <2> QED
    BY <1>2, <2>1, <2>2, <2>5, RaisedStep
<1> QED
  BY <1>3, <1>4 DEF compress_flush

\* The invariant is inductive.
LEMMA NextIInv == IInv /\ [Next]_vars => IInv'
<1> SUFFICES ASSUME IInv, [Next]_vars
             PROVE  IInv'
  OBVIOUS
<1>1. CASE \E p \in Choices : compress_begin(p)
  BY <1>1, BeginStep
<1>2. CASE \E n \in 0..MaxContent : compress_chunk(n)
  BY <1>2, ChunkStep
<1>3. CASE \E end_frame \in BOOLEAN : compress_flush(end_frame)
  BY <1>3, FlushStep
<1>4. CASE UNCHANGED vars
  BY <1>4 DEF vars, IInv, TypeOK, BufferThere, InUse, PromiseKept
<1> QED
  BY <1>1, <1>2, <1>3, <1>4 DEF Next

\* The blocks of a call are chained from the content sent before it.
LEMMA BlocksInOrderIs ==
  BlocksInOrder <=> Chained(ret.blocks, cctx.prefs.block, sent - CarriedBy(ret.blocks))
BY DEF BlocksInOrder, Chained, InPlace

\* A call that returns no blocks returns none out of order.
LEMMA NoBlocksInOrder ==
  ASSUME ret'.blocks = << >>
  PROVE  BlocksInOrder'
BY NoBlocksChained DEF BlocksInOrder, Chained, InPlace

\* What a step returns is chained, whatever the call before it returned.
LEMMA StepInOrder ==
  ASSUME IInv, [Next]_vars, BlocksInOrder
  PROVE  BlocksInOrder'
<1>0. /\ ContentSizes \in SUBSET Nat /\ IsContext(cctx, ContentSizes)
      /\ accepted \in Nat /\ sent \in Nat /\ cctx.tmpInSize \in Nat
  BY Types
<1>1. CASE \E p \in Choices : compress_begin(p)
  <2>1. PICK p \in Choices : compress_begin(p)
    BY <1>1
  <2>2. ret'.blocks = << >>
    <3>1. CASE ret' = HeaderReturned(p)
      BY <3>1 DEF HeaderReturned, Returned
    <3>2. CASE \E f \in BeginFailures(cctx, p) : cctx' = f.c /\ ret' = f.ret
      <4>1. ret' \in {Raised("MemoryError"), Raised("allocation")}
        BY <3>2 DEF BeginFailures
      <4> QED BY <4>1 DEF Raised
    <3> QED BY <2>1, <3>1, <3>2 DEF compress_begin
  <2> QED BY <2>2, NoBlocksInOrder
<1>2. CASE \E n \in 0..MaxContent : compress_chunk(n)
  <2>1. PICK n \in 0..MaxContent : compress_chunk(n)
    BY <1>2
  <2>2. n \in Nat
    BY Types
  <2> DEFINE blocks == UpdateBlocks(cctx, accepted, n)
  <2>3. CASE /\ ChunkDone(n) /\ sent' = sent + UpdateBytes(cctx, n)
             /\ ret' = ChunkReturned(cctx, accepted, n)
    <3>1. /\ cctx.cStage = 1 /\ usable /\ cctx' = Update(cctx, accepted, n)
      BY <2>1, <2>3 DEF ChunkDone, ChunkRefused, compress_chunk
    <3>2. Sound(cctx, accepted) /\ sent + cctx.tmpInSize = accepted
      BY <3>1 DEF IInv, InUse
    <3>3. /\ CarriedBy(blocks) = UpdateBytes(cctx, n)
          /\ Chained(blocks, cctx.prefs.block, accepted - cctx.tmpInSize)
      BY <1>0, <2>2, <3>2, UpdateBlocksChained
    <3>4. cctx'.prefs = cctx.prefs /\ UpdateBytes(cctx, n) \in Nat
      <4> DEFINE u == Update(cctx, accepted, n)
      <4>1. /\ IsContext(u, ContentSizes) /\ Sound(u, accepted + n)
            /\ u.cStage = cctx.cStage /\ u.prefs = cctx.prefs /\ u.total = cctx.total + n
            /\ UpdateBytes(cctx, n) \in Nat
            /\ UpdateBytes(cctx, n) + u.tmpInSize = cctx.tmpInSize + n
        <5> HIDE DEF blocks
        <5> QED BY <1>0, <2>2, <3>2, UpdateSound
      <4> QED BY <3>1, <4>1
    <3>5. ret'.blocks = blocks
      BY <2>3 DEF ChunkReturned, Returned
    <3>6. sent' - UpdateBytes(cctx, n) = accepted - cctx.tmpInSize
      BY <1>0, <2>3, <3>2, <3>4, SMT
    <3> HIDE DEF blocks
    <3>7. Chained(ret'.blocks, cctx'.prefs.block, sent' - CarriedBy(ret'.blocks))
      BY <3>3, <3>4, <3>5, <3>6
    <3> QED BY <3>7 DEF BlocksInOrder, Chained, InPlace
  <2>4. CASE ~ (/\ ChunkDone(n) /\ sent' = sent + UpdateBytes(cctx, n)
                /\ ret' = ChunkReturned(cctx, accepted, n))
    <3>1. ret' = Raised("MemoryError") \/ ret' = ChunkRaised(cctx)
      BY <2>1, <2>4 DEF compress_chunk, ChunkDone, ChunkFailed
    <3>2. ret'.blocks = << >>
      BY <3>1 DEF ChunkRaised, Raised
    <3> QED BY <3>2, NoBlocksInOrder
  <2> QED BY <2>3, <2>4
<1>3. CASE \E end_frame \in BOOLEAN : compress_flush(end_frame)
  <2>1. PICK end_frame \in BOOLEAN : compress_flush(end_frame)
    BY <1>3
  <2> DEFINE blocks == FlushBlocks(cctx)
  <2>2. CASE /\ FlushDone(end_frame) /\ sent' = sent + cctx.tmpInSize
             /\ ret' = FlushReturned(cctx, end_frame)
    <3>1. ret'.blocks = blocks
      BY <2>2 DEF FlushReturned, Returned
    <3>2. CASE cctx.tmpInSize = 0
      <4>1. blocks = << >>
        BY <3>2 DEF FlushBlocks
      <4> QED BY <3>1, <4>1, NoBlocksInOrder
    <3>3. CASE cctx.tmpInSize # 0
      <4>1. ~ FlushNotStarted(cctx) /\ cctx' = AfterFlush(cctx, end_frame) /\ usable
        BY <2>1, <2>2 DEF FlushDone, FlushRefused, compress_flush
      <4>2. cctx.cStage = 1
        BY <1>0, <3>3, <4>1, SMT DEF FlushNotStarted
      <4>3. Sound(cctx, accepted) /\ sent + cctx.tmpInSize = accepted
        BY <4>1, <4>2 DEF IInv, InUse
      <4>4. /\ CarriedBy(blocks) = cctx.tmpInSize
            /\ Chained(blocks, cctx.prefs.block, accepted - cctx.tmpInSize)
        BY <1>0, <4>3, FlushBlocksChained
      <4>5. cctx'.prefs = cctx.prefs
        <5>1. IsContext(Flush(cctx), ContentSizes) /\ Flush(cctx).prefs = cctx.prefs
          BY <4>1, FlushInUse DEF SameFrame
        <5>2. End(cctx).prefs = Flush(cctx).prefs
          BY <1>0, <5>1, EndTypes
        <5> QED BY <4>1, <5>1, <5>2 DEF AfterFlush
      <4>6. sent' - cctx.tmpInSize = accepted - cctx.tmpInSize
        BY <1>0, <2>2, <4>3, SMT
      <4> HIDE DEF blocks
      <4>7. Chained(ret'.blocks, cctx'.prefs.block, sent' - CarriedBy(ret'.blocks))
        BY <3>1, <4>4, <4>5, <4>6
      <4> QED BY <4>7 DEF BlocksInOrder, Chained, InPlace
    <3> QED BY <3>2, <3>3
  <2>3. CASE ~ (/\ FlushDone(end_frame) /\ sent' = sent + cctx.tmpInSize
                /\ ret' = FlushReturned(cctx, end_frame))
    <3>1. \E r \in Statuses : ret' = Raised(r)
      BY <2>1, <2>3, Zenon DEF compress_flush, FlushDone, FlushFailed, FlushRaised, Statuses
    <3>2. ret'.blocks = << >>
      BY <3>1 DEF Raised
    <3> QED BY <3>2, NoBlocksInOrder
  <2> QED BY <2>2, <2>3
<1>4. CASE UNCHANGED vars
  BY <1>4 DEF vars, BlocksInOrder
<1> QED BY <1>1, <1>2, <1>3, <1>4 DEF Next

\* What the invariant says of the properties the runs check.
LEMMA IInvImplies ==
  IInv => TypeOK /\ RoomInBuffer /\ NothingLost /\ WaitingIntact /\ HistoryIntact /\ PromiseKept
BY DEF IInv, InUse, Started, Sound, RoomInBuffer, NothingLost, WaitingIntact, HistoryIntact
-----------------------------------------------------------------------------
(* The theorems.                                                           *)

\* Every frame, on every context, with every choice of preferences: the
\* invariant holds between the calls of lz4/frame/_frame.c.
THEOREM Invariant == Spec => []IInv
<1>1. Init => IInv
  BY InitIInv
<1>2. IInv /\ [Next]_vars => IInv'
  BY NextIInv
<1> QED
  BY <1>1, <1>2, PTL DEF Spec

\* The fields of the LZ4F context keep to the types of lz4frame.c:262-280.
THEOREM TypeCorrect == Spec => []TypeOK
BY Invariant, IInvImplies, PTL

\* The assertion at lz4frame.c:1030 can never fail: there is always room in the
\* tmp buffer for a block to wait.
THEOREM AlwaysRoom == Spec => []RoomInBuffer
BY Invariant, IInvImplies, PTL

\* No byte given to compress_chunk is dropped or sent twice, whatever the chunks,
\* the flushes, the preferences and the frames before.
THEOREM NoByteLost == Spec => []NothingLost
BY Invariant, IInvImplies, PTL

\* Tidying the tmp buffer (lz4frame.c:1022-1039, 1129-1135) never moves over
\* the bytes that wait in it.
THEOREM WaitingNeverOverwritten == Spec => []WaitingIntact
BY Invariant, IInvImplies, PTL

\* A linked block is never compressed against released or overwritten memory
\* (lz4frame.c:1010-1020).
THEOREM HistoryNeverStale == Spec => []HistoryIntact
BY Invariant, IInvImplies, PTL

\* A frame that announces its content size never ends without an error on
\* another size, also on a context used for frames before (lz4frame.c:1181-1184).
THEOREM SizeAlwaysKept == Spec => []PromiseKept
BY Invariant, IInvImplies, PTL

\* What is returned is always the next of the content, cut into blocks no longer
\* than the frame's, each compressed against bytes a decoder has
\* (lz4frame.c:853-903, 984-1007).
THEOREM AlwaysInOrder == Spec => []BlocksInOrder
<1>1. Init => BlocksInOrder
  <2>1. SUFFICES ASSUME Init PROVE ret.blocks = << >>
    BY NoBlocksChained, BlocksInOrderIs DEF BlocksInOrder, Chained, InPlace
  <2> QED BY <2>1 DEF Init, Raised
<1>2. IInv /\ [Next]_vars /\ BlocksInOrder => BlocksInOrder'
  BY StepInOrder
<1> QED
  BY <1>1, <1>2, Invariant, PTL DEF Spec
=============================================================================
